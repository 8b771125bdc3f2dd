-------------------------- MODULE MetadataCommands --------------------------
(***************************************************************************)
(* From a $metadata document to the exit code of `lint`: the two passes of *)
(* parse_metadata over the schemas of a document, labels and inheritance,  *)
(* and cmd_lint of crates/cli/src/main.rs.  The document is revealed as it *)
(* is read: a note is chosen when the second pass comes to it.             *)
(***************************************************************************)
EXTENDS FioriLint

CONSTANTS
  NotePool,        \* the annotations a document may have
  Drafts,          \* annotations a document begins with, in its first schema
  MaxNotes,        \* bound on the annotations after the draft
  MaxSchemas,      \* bound on the schemas
  Openings,        \* versions with inline sap:* attributes, functions from slots
  LintRequests     \* the command lines of lint: entity, profile, minimum, gate

Notes == NotePool \cup UNION {{d[i] : i \in DOMAIN d} : d \in Drafts}
InlineSlots ==
  (PropertyPlaces \X (PropertyTerms \cup Restrictions \cup {"Label"}))
  \cup ({<<t>> : t \in Types} \X SetFlags)

(* A target is a type, a type and a property, or "set" and a set; an inline *)
(* attribute gives one value, and sap:text a path.                         *)
ASSUME DocumentAssumption ==
  /\ "set" \notin Types /\ MaxNotes \in Nat /\ MaxSchemas \in Nat
  /\ \A n \in Notes :
       /\ n.term \in Terms
       /\ IF Len(n.at) = 1 THEN n.at = <<n.at[1]>> ELSE n.at = <<n.at[1], n.at[2]>>
       /\ n.term = "Restricts" => n.mark \in Restrictions
  /\ \A d \in Drafts : d \in Seq(Notes)
  /\ \A opening \in Openings :
       LET said == opening.inline
       IN  /\ DOMAIN said \subseteq InlineSlots
           /\ \A s \in DOMAIN said :
                LET e == said[s][1]
                IN  said[s] = <<Entry(e.q, e.paths, e.mark)>> /\ (s[2] = "Text" => e.paths # {})

VARIABLES
  schemas, home,   \* how many schemas there are, and which one defines the model
  version, draft, inline,
  notes,           \* the annotations read so far, each with its schema
  at,              \* the schema the second pass is in, 0 before it
  model,           \* what has been made of the document
  defaults,        \* type_text_arrangements of this schema
  labels,          \* annotation_labels
  phase,           \* "start", "notes", "parsed", "linted", "failed"
  request, verdict \* the lint command and how it ended

vars == <<schemas, home, version, draft, inline, notes, at, model, defaults, labels, phase,
          request, verdict>>
doc == <<schemas, home, version, draft, inline>>

NoRequest == [entity |-> "all", profile |-> "none", min |-> "none", gate |-> "none"]
NoVerdict == [failed |-> FALSE, shown |-> {}]

Init ==
  /\ schemas \in 0..MaxSchemas
  /\ home \in 1..(IF schemas = 0 THEN 1 ELSE schemas)
  /\ \E opening \in Openings : version = opening.version /\ inline = opening.inline
  /\ draft \in Drafts
  /\ notes = <<>> /\ at = 0 /\ model = NoModel
  /\ defaults = <<>> /\ labels = <<>>
  /\ phase = "start"
  /\ request = NoRequest /\ verdict = NoVerdict

NoSchema ==
  /\ phase = "start" /\ schemas = 0
  /\ phase' = "failed"
  /\ UNCHANGED <<doc, notes, at, model, defaults, labels, request, verdict>>

(* Pass 1. *)
ReadModel ==
  /\ phase = "start" /\ schemas > 0
  /\ model' = ParsedModel(inline)
  /\ phase' = "notes" /\ at' = 1
  /\ UNCHANGED <<doc, notes, defaults, labels, request, verdict>>

-----------------------------------------------------------------------------
(* Pass 2. *)

\* Mutant: one pass, in which a type is known from its schema on.
KnownSoFar(t) == t \in model.types /\ home <= at

Known(t) == t \in model.types

(* The type a note is about, if its target is of the kind its term needs. *)
Addressed(n) ==
  LET place == n.at
      ofSet == IF Len(place) = 2 /\ place[1] = "set" THEN EntityTypeForSet(model, place[2]) ELSE {}
      byName == IF Len(place) = 1 THEN {place[1]} ELSE {}
      candidates ==
        CASE n.term \in PropertyTerms ->
               IF Len(place) = 2 THEN {t \in {place[1]} \cap model.types : place[2] \in model.props[t]}
               ELSE {}
          [] n.term \in TypeTerms -> byName
          [] n.term \in ViewTerms -> byName \cup ofSet
          [] OTHER -> ofSet
  IN  {t \in candidates : Known(t)}

Targets(n) == IF Usable(n) THEN Addressed(n) ELSE {}

(* Labels are collected for any target, and only from a V4 document. *)
TakeLabel(n) ==
  /\ labels' = IF version = "V4" THEN Over([place \in {n.at} |-> n.mark], labels) ELSE labels
  /\ UNCHANGED <<model, defaults>>

(* The default of a type waits for the end of the schema. *)
TakeDefault(n) ==
  /\ defaults' = IF Targets(n) # {} THEN Append(defaults, <<n.at[1], n.mark>>) ELSE defaults
  /\ UNCHANGED <<model, labels>>

TakeTyped(n) ==
  /\ \/ \E t \in Targets(n) : model' = Written(model, n, t)
     \/ Targets(n) = {} /\ UNCHANGED model
  /\ UNCHANGED <<defaults, labels>>

(* The draft comes first, in its schema; then MaxNotes more from the pool. *)
NextNote ==
  IF Len(notes) < Len(draft) THEN {n \in {draft[Len(notes) + 1]} : at = 1}
  ELSE IF Len(notes) < Len(draft) + MaxNotes THEN NotePool ELSE {}

ReadNote(n) ==
  /\ phase = "notes"
  /\ notes' = Append(notes, [note |-> n, schema |-> at])
  /\ CASE n.term = "Label" -> TakeLabel(n)
       [] n.term = "TextArrangement" -> TakeDefault(n)
       [] OTHER -> TakeTyped(n)
  /\ UNCHANGED <<doc, at, phase, request, verdict>>

AfterDefaults(m, ds) ==
  LET after[i \in 0..Len(ds)] == IF i = 0 THEN m ELSE Arranged(after[i - 1], ds[i][1], ds[i][2])
  IN  after[Len(ds)]

(* The labels that were collected, where the property has none inline. *)
Labelled(m) ==
  LET free == {<<p, "Label">> : p \in {q \in DOMAIN labels :
        Len(q) = 2 /\ q[1] \in m.types /\ q[2] \in m.props[q[1]] /\ ~Given(m, q, "Label")}}
  IN  Overlaid(m, [s \in free |-> <<Entry("none", {}, labels[s[1]])>>])

\* Mutant: base types are applied before the labels.
FinishedLabelsLast(m) == Labelled(ApplyBaseTypes(m))

Finished(m) == ApplyBaseTypes(Labelled(m))

EndSchema ==
  /\ phase = "notes" /\ Len(notes) >= Len(draft)
  /\ defaults' = <<>>
  /\ IF at < schemas
     THEN model' = AfterDefaults(model, defaults) /\ at' = at + 1 /\ UNCHANGED phase
     ELSE model' = Finished(AfterDefaults(model, defaults)) /\ phase' = "parsed" /\ UNCHANGED at
  /\ UNCHANGED <<doc, notes, labels, request, verdict>>

-----------------------------------------------------------------------------
(* The lint command. *)

(* A type name, or else a set name. *)
Scope(entity) ==
  IF entity = "all" THEN model.types
  ELSE IF FindEntityType(model, entity) # {} THEN {entity}
       ELSE EntityTypeForSet(model, entity)

FindingsOf(t, r) ==
  Evaluate(model, t, IF r.profile = "none" THEN DetectProfile(model, t) ELSE r.profile)

AtLeast(found, threshold) ==
  IF threshold = "none" THEN found ELSE {f \in found : SeverityAtLeast(f.severity, threshold)}

Shown(t, r) == AtLeast(FindingsOf(t, r), r.min)

\* Mutant: the gate looks at what is shown.
TrippedByShown(r) ==
  r.gate # "none" /\ \E t \in Scope(r.entity) : AtLeast(Shown(t, r), r.gate) # {}

(* The gate looks at all findings, also at those that are not shown. *)
Tripped(r) ==
  r.gate # "none" /\ \E t \in Scope(r.entity) : AtLeast(FindingsOf(t, r), r.gate) # {}

Lint(r) ==
  /\ phase = "parsed"
  /\ phase' = "linted" /\ request' = r
  /\ verdict' = [failed |-> Scope(r.entity) = {} \/ Tripped(r),
                 shown |-> {t \in Scope(r.entity) : Shown(t, r) # {}}]
  /\ UNCHANGED <<doc, notes, at, model, defaults, labels>>

Next ==
  \/ NoSchema
  \/ ReadModel
  \/ \E n \in NextNote : ReadNote(n)
  \/ EndSchema
  \/ \E r \in LintRequests : Lint(r)

Spec == Init /\ [][Next]_vars
-----------------------------------------------------------------------------
(* Properties.  They read the document, not the order it was read in: ns   *)
(* are its notes, and attrs its inline attributes.                         *)

MeantFor(n, t) ==
  /\ Usable(n)
  /\ IF Len(n.at) = 1 THEN n.at = <<t>> /\ n.term \in TypeTerms \cup ViewTerms
     ELSE \/ n.term \in PropertyTerms /\ n.at[1] = t /\ n.at[2] \in OwnProps[t]
          \/ /\ n.term \in ViewTerms \cup SetTerms
             /\ n.at[1] = "set" /\ n.at[2] \in Sets /\ SetType[n.at[2]] = t

(* Where the notes about a type stand, or about one property of it.        *)
About(ns, t, term) == {i \in DOMAIN ns : ns[i].note.term = term /\ MeantFor(ns[i].note, t)}
On(ns, t, p, term) == {i \in About(ns, t, term) : ns[i].note.at[2] = p}
First(I) == CHOOSE i \in I : \A j \in I : i <= j
Last(I) == CHOOSE i \in I : \A j \in I : j <= i

(* The one of several annotations that counts for a view: the last without *)
(* a qualifier, or else the first.                                         *)
Unqualified(ns, t, term) == {i \in About(ns, t, term) : ns[i].note.q = "none"}
Effective(ns, t, term) ==
  IF Unqualified(ns, t, term) # {} THEN ns[Last(Unqualified(ns, t, term))].note.paths
  ELSE IF About(ns, t, term) # {} THEN ns[First(About(ns, t, term))].note.paths ELSE {}

ViewsAsMeant(m, ns, t) ==
  \A term \in {"LineItem", "SelectionFields"} : Named(m, <<t>>, term) = Effective(ns, t, term)

(* Every selection variant is kept, and an unqualified one is first. *)
VariantsAsMeant(m, ns, t) ==
  LET kept == Value(m, <<t>>, "SelectionVariant")
      written == About(ns, t, "SelectionVariant")
      inlined == About(ns, t, "SelectionPresentationVariant")
      said(I) == {Said(ns[i].note) : i \in I}
  IN  /\ said(written) \subseteq {kept[i] : i \in DOMAIN kept}
      /\ \A e \in said(inlined) : \E i \in DOMAIN kept : kept[i].q = e.q
      /\ Len(kept) <= Cardinality(written) + Cardinality(inlined)
      /\ (\E i \in DOMAIN kept : kept[i].q = "none") => kept[1].q = "none"

InlineOf(attrs, place, term) ==
  IF <<place, term>> \in DOMAIN attrs THEN attrs[<<place, term>>] ELSE <<>>

(* Common.Text: sap:text, or else the first annotation with a path. *)
Texts(ns, t, p, upTo) ==
  {i \in On(ns, t, p, "Text") : ns[i].note.paths # {} /\ ns[i].schema <= upTo}
TextOf(ns, attrs, t, p, upTo) ==
  IF InlineOf(attrs, <<t, p>>, "Text") # <<>> THEN InlineOf(attrs, <<t, p>>, "Text")[1].paths
  ELSE IF Texts(ns, t, p, upTo) # {} THEN ns[First(Texts(ns, t, p, upTo))].note.paths ELSE {}

(* The arrangement nested in a Common.Text goes before the default of the  *)
(* type, which reaches a property whose text has been read by the end of   *)
(* the schema that has the default.                                        *)
Nested(ns, t, p) == {i \in On(ns, t, p, "Text") : ns[i].note.mark # "none"}
Reaching(ns, attrs, t, p, upTo) ==
  {i \in About(ns, t, "TextArrangement") :
     ns[i].schema <= upTo /\ TextOf(ns, attrs, t, p, ns[i].schema) # {}}
ArrangementOf(ns, attrs, t, p, upTo) ==
  IF Nested(ns, t, p) # {} THEN ns[Last(Nested(ns, t, p))].note.mark
  ELSE IF Reaching(ns, attrs, t, p, upTo) # {}
       THEN ns[First(Reaching(ns, attrs, t, p, upTo))].note.mark ELSE "none"

TextsAsMeant(m, ns, attrs, t, upTo) ==
  \A p \in OwnProps[t] :
    /\ Named(m, <<t, p>>, "Text") = TextOf(ns, attrs, t, p, upTo)
    /\ LET v == Value(m, <<t, p>>, "TextArrangement")
       IN  ArrangementOf(ns, attrs, t, p, upTo) = IF v = <<>> THEN "none" ELSE v[1].mark

(* An annotation from the i-th on takes the value out of a slot. *)
Cleared(ns, i, s) ==
  \E j \in DOMAIN ns : \E u \in Types :
    i <= j /\ Empties(ns[j].note.term, ns[j].note) /\ MeantFor(ns[j].note, u)
    /\ s \in Slots(ns[j].note, u)

(* No annotation of an own property, a type or a set is lost, but for a    *)
(* currency or a flag of a set that is annotated again without a value.    *)
NothingLost(m, ns, t) ==
  \A i \in DOMAIN ns :
    LET n == ns[i].note
    IN  MeantFor(n, t) /\ n.term \notin {"Text", "TextArrangement"}
        => \A s \in Slots(n, t) :
             /\ n.term \in {"SemanticKey", "ValueListReferences", "NonExpandable"}
                  => n.paths \subseteq Named(m, s[1], s[2])
             /\ n.paths # {} \/ n.term \notin {"SemanticKey", "Unit", "SemanticObject",
                                               "ValueListReferences", "NonExpandable"}
                  => Given(m, s[1], s[2]) \/ Cleared(ns, i, s)

(* An annotation takes effect whichever schema it stands in, before or     *)
(* after the types; the unqualified variant of a view wins, sap:text stays, *)
(* a nested arrangement goes before the default (metadata/mod.rs pass 2,   *)
(* metadata/annotations.rs).  Two things the code does are not asked to be *)
(* otherwise here: the default of a type leaves out texts of later schemas *)
(* (DefaultsReachEveryText below), and an ISOCurrency without a path or a  *)
(* flag without a Bool takes an earlier value away.  What a derived type   *)
(* should have of an annotation that names an inherited property is left   *)
(* to RestrictionsReachInherited.                                          *)
ParsedAsMeant ==
  phase = "parsed" =>
    \A t \in Types : /\ ViewsAsMeant(model, notes, t) /\ VariantsAsMeant(model, notes, t)
                     /\ TextsAsMeant(model, notes, inline, t, schemas)
                     /\ NothingLost(model, notes, t)

(* A derived type has the properties of its base with everything that the  *)
(* document says about them, their labels included (metadata/mod.rs        *)
(* apply_base_types: "annotated (and labelled) base properties carry it    *)
(* along").                                                                *)
InheritedAlike ==
  phase = "parsed" =>
    \A t \in Types : \A b \in Ancestors(t), p \in UNION {OwnProps[a] : a \in Ancestors(t)} :
      p \in OwnProps[b] =>
        /\ p \in model.props[t]
        /\ \A term \in Terms \cup Restrictions :
             Value(model, <<t, p>>, term) = Value(model, <<b, p>>, term)

(* "Common.Text annotations declared later in the file are already in      *)
(* place" when the default of a type is applied (annotations.rs:44-46): a  *)
(* type with a default has no text without an arrangement.  The default is *)
(* applied at the end of its schema, so a text of a later one is missed.   *)
DefaultsReachEveryText ==
  phase = "parsed" =>
    \A t \in Types : About(notes, t, "TextArrangement") # {} =>
      \A p \in OwnProps[t] : Given(model, <<t, p>>, "Text") => Given(model, <<t, p>>, "TextArrangement")

(* Derived types have "the inherited key, properties and navigation        *)
(* properties (with their annotations)" (CHANGELOG.md:76): a restriction   *)
(* of a set takes the attribute from every property it lists that the type *)
(* of the set has.  An inherited one is not there yet when pass 2 looks    *)
(* for it (annotations.rs:619).                                            *)
RestrictionsReachInherited ==
  phase = "parsed" =>
    \A t \in Types : \A i \in About(notes, t, "Restricts") :
      \A p \in notes[i].note.paths \cap model.props[t] :
        Given(model, <<t, p>>, notes[i].note.mark)

(* What the document says of a property that a type has or inherits. *)
Declarers(t, p) == {b \in {t} \cup Ancestors(t) : p \in OwnProps[b]}
AllNavs(t) == UNION {OwnNavs[b] : b \in {t} \cup Ancestors(t)}
Reachable(t, path) ==
  \/ Declarers(t, path) # {} \/ path \in AnnotationPaths
  \/ path \in DOMAIN NavOf /\ (NavOf[path] \in AllNavs(t) \/ Declarers(t, NavOf[path]) # {})
Lost(t, p, attribute) ==
  \E b \in Declarers(t, p) :
    \/ \E i \in DOMAIN InlineOf(inline, <<b, p>>, attribute) :
         InlineOf(inline, <<b, p>>, attribute)[i].mark = "false"
    \/ \E i \in About(notes, b, "Restricts") :
         notes[i].note.mark = attribute /\ p \in notes[i].note.paths
MadeHidden(t, p) ==
  \E b \in Declarers(t, p) : LET said == On(notes, b, p, "Hidden")
                             IN  said # {} /\ notes[Last(said)].note.mark # "false"
SortPaths(t) ==
  LET said == About(notes, t, "SortOrder")
  IN  IF said = {} THEN {} ELSE notes[First(said)].note.paths

LintedTypes(entity) ==
  IF entity = "all" THEN Types ELSE IF entity \in Types THEN {entity} ELSE {SetType[entity]}

(* `lint --fail-on warn` that exits 0 vouches for the views of every type  *)
(* it looked at, whatever --min-severity leaves out and whatever profile   *)
(* is forced (lint/rules.rs, cmd_lint).  Each column, filter chip and sort *)
(* clause is a property the type has, inherited ones included, or starts   *)
(* at one or at a navigation property, or has an @ in it: of the last two  *)
(* nothing more is looked at.  A chip or sort clause that is a property is *)
(* not hidden, or restricted, where that property is declared: inline, by  *)
(* an annotation of it, or by a set of the declaring type.  What a set of  *)
(* a derived type restricts of an inherited property is lost before the    *)
(* lint sees it (RestrictionsReachInherited).                              *)
CleanMeansUsable ==
  phase = "linted" /\ request.gate = "warn" /\ ~verdict.failed =>
    \A t \in LintedTypes(request.entity) :
      /\ \A path \in Effective(notes, t, "LineItem") \cup Effective(notes, t, "SelectionFields")
                     \cup SortPaths(t) : Reachable(t, path)
      /\ \A p \in Effective(notes, t, "SelectionFields") :
           ~Lost(t, p, "filterable") /\ ~MadeHidden(t, p)
      /\ \A p \in SortPaths(t) : ~Lost(t, p, "sortable")
=============================================================================
