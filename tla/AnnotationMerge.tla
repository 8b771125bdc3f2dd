-------------------------- MODULE AnnotationMerge --------------------------
(***************************************************************************)
(* The typed annotation pass of crates/core/src/metadata/annotations.rs:   *)
(* what one annotation writes, and what becomes of a value that a slot     *)
(* already has.  A note is one annotation: its term, its target, its       *)
(* qualifier, the paths it names and one mark for the rest of its payload. *)
(***************************************************************************)
EXTENDS MetadataModel

PropertyTerms == {"Text", "SemanticObject", "Masked", "FieldControl", "Hidden", "HiddenFilter",
                  "Criticality", "Unit", "ISOCurrency", "ValueList", "ValueListReferences",
                  "ValueListWithFixedValues"}
TypeTerms == {"HeaderInfo", "SemanticKey", "TextArrangement"}
(* Terms a service puts on the type or on the set.  A presentation variant *)
(* is taken apart into RequestAtLeast and SortOrder, each a note; so is the *)
(* one inside a SelectionPresentationVariant, which fills the same slots    *)
(* under the same condition: there the note of that term is the selection   *)
(* variant, and the notes of its presentation variant come after it.        *)
ViewTerms == {"LineItem", "SelectionFields", "SelectionVariant",
              "SelectionPresentationVariant", "RequestAtLeast", "SortOrder"}
(* Restrictions of a set list properties of its type (the mark is the      *)
(* attribute they lose) or set a flag of the type.                         *)
Restrictions == {"filterable", "sortable", "creatable", "updatable", "required"}
SetFlags == {"searchable", "countable", "expandable", "topSupported", "skipSupported"}
SetTerms == {"Restricts", "NonExpandable", "Readable"} \cup SetFlags

Terms == PropertyTerms \cup TypeTerms \cup ViewTerms \cup SetTerms \cup {"Label"}

(* Payloads the parsers give up on: a collection without a path in it, a   *)
(* record without the parts that make it usable, an unknown member.        *)
HasPaths(n) ==
  n.term \in {"LineItem", "SelectionFields", "RequestAtLeast", "SortOrder"} => n.paths # {}
HasRecord(n) ==
  n.term \in {"ValueList", "SelectionVariant", "SelectionPresentationVariant"} => n.mark # "broken"
HasMember(n) ==
  n.term \in {"HeaderInfo", "FieldControl", "TextArrangement", "Criticality"} => n.mark # "broken"
Usable(n) == HasPaths(n) /\ HasRecord(n) /\ HasMember(n)

(* The slots a note writes, t being the type it is about.                  *)
Slots(n, t) ==
  CASE n.term \in PropertyTerms \cup {"Readable"} -> {<<n.at, n.term>>}
    [] n.term = "Restricts" -> {<< <<t, p>>, n.mark>> : p \in n.paths \cap OwnProps[t]}
    [] n.term = "SelectionPresentationVariant" -> {<< <<t>>, "SelectionVariant">>}
    [] OTHER -> {<< <<t>>, n.term>>}

-----------------------------------------------------------------------------
(* What happens to the value a slot has. *)

FillOnce(old, e) == IF old # <<>> \/ e.paths = {} THEN old ELSE <<e>>

(* Nothing to write: a flag of a set without a Bool, a currency without a  *)
(* Path.  The code assigns the missing value all the same.                 *)
Empties(term, e) ==
  \/ term \in SetFlags /\ e.mark = "none"
  \/ term = "ISOCurrency" /\ e.paths = {}

Replace(term, old, e) == IF Empties(term, e) THEN <<>> ELSE <<e>>

\* Mutant: the first annotation stays, whatever its qualifier.
KeepFirst(old, e) == IF old # <<>> THEN old ELSE <<e>>

(* LineItem, SelectionFields: the unqualified one wins wherever it stands. *)
KeepDefault(old, e) == IF old # <<>> /\ e.q # "none" THEN old ELSE <<e>>

(* ValueList: one of each qualifier. *)
OnePerQualifier(old, e) ==
  IF \E i \in DOMAIN old : old[i].q = e.q THEN old ELSE Append(old, e)

(* SelectionVariant: the unqualified one goes first. *)
DefaultInFront(old, e) == IF e.q = "none" THEN <<e>> \o old ELSE Append(old, e)

(* The variant inside a SelectionPresentationVariant: not a second one of  *)
(* the same qualifier.                                                     *)
InlineVariant(old, e) ==
  IF e.q # "none" /\ (\E i \in DOMAIN old : old[i].q = e.q) THEN old ELSE DefaultInFront(old, e)

(* SemanticKey, ValueListReferences, NonExpandableProperties. *)
Unite(old, e) ==
  IF e.paths = {} THEN old
  ELSE IF old = <<>> THEN <<e>> ELSE <<[old[1] EXCEPT !.paths = @ \cup e.paths]>>

Merge(term, old, e) ==
  CASE term \in {"Text", "Unit", "SemanticObject", "RequestAtLeast", "SortOrder"} -> FillOnce(old, e)
    [] term \in {"LineItem", "SelectionFields"} -> KeepDefault(old, e)
    [] term = "ValueList" -> OnePerQualifier(old, e)
    [] term = "SelectionVariant" -> DefaultInFront(old, e)
    [] term = "SelectionPresentationVariant" -> InlineVariant(old, e)
    [] term \in {"SemanticKey", "ValueListReferences", "NonExpandable"} -> Unite(old, e)
    [] OTHER -> Replace(term, old, e)

(* A select option without a usable range, or a parameter without a value, *)
(* is dropped from its variant; the variant stays.                         *)
Columns(n) ==
  IF n.term \in {"SelectionVariant", "SelectionPresentationVariant"} /\ n.mark = "noRange"
  THEN {} ELSE n.paths

(* What a note leaves in a slot.  A listed property loses the attribute     *)
(* (or gains a required filter); the others keep the payload.              *)
Said(n) ==
  IF n.term = "Restricts"
  THEN Entry("none", {}, IF n.mark = "required" THEN "true" ELSE "false")
  ELSE Entry(n.q, Columns(n), n.mark)

(* A note applied to all its slots; a Common.Text may carry the            *)
(* arrangement of its own property.                                        *)
Written(m, n, t) ==
  LET plain ==
        Overlaid(m, [s \in Slots(n, t) |-> Merge(n.term, Value(m, s[1], s[2]), Said(n))])
  IN  IF n.term = "Text" /\ n.mark # "none"
      THEN With(plain, n.at, "TextArrangement", <<Entry("none", {}, n.mark)>>) ELSE plain

(* The default of a type, for its properties with a text and without an     *)
(* arrangement of their own.                                               *)
Arranged(m, t, mark) ==
  LET bare == {p \in OwnProps[t] : Given(m, <<t, p>>, "Text")
                                   /\ ~Given(m, <<t, p>>, "TextArrangement")}
  IN  Overlaid(m, [s \in {<< <<t, p>>, "TextArrangement">> : p \in bare} |-> <<Entry("none", {}, mark)>>])
=============================================================================
