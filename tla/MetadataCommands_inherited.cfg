SPECIFICATION Spec
CONSTANTS
  Types = {"R", "D"}
  Base <- MCBase
  OwnProps <- MCOwnProps
  OwnNavs <- MCOwnNavs
  OwnKeys <- MCOwnKeys
  Sets = {"SR", "SD"}
  SetType <- MCSetType
  NavOf <- MCNavOf
  ValueHelpTypes = {}
  AnnotationPaths = {"@x"}
  UuidLike = {"a_uuid"}
  MonetaryLike = {"amount"}
  CodeLike = {"code"}
  NotePool <- MCNotePool
  Drafts <- MCDrafts
  MaxNotes = 2
  MaxSchemas = 2
  Openings <- MCOpenings
  LintRequests <- MCLintRequests
INVARIANT
  RestrictionsReachInherited
CHECK_DEADLOCK FALSE
