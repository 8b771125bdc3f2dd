----------------------------- MODULE FioriLint -----------------------------
(***************************************************************************)
(* The Fiori readiness linter, crates/core/src/lint: the profile of an     *)
(* entity type and the findings about it.  A finding is its code and its   *)
(* severity; several columns with one defect make one finding.             *)
(***************************************************************************)
EXTENDS AnnotationMerge

CONSTANTS
  ValueHelpTypes,                        \* types with a value-help name
  AnnotationPaths,                       \* paths with an @ in them
  UuidLike, MonetaryLike, CodeLike       \* properties by what their name suggests

Profiles == {"list_report", "object_page", "value_help", "analytical", "transactional"}
Rank == [pass |-> 0, warn |-> 1, miss |-> 2]
SeverityAtLeast(s, threshold) == Rank[s] >= Rank[threshold]

DetectProfile(m, t) ==
  IF t \in ValueHelpTypes THEN "value_help"
  ELSE IF Given(m, <<t>>, "LineItem") THEN "list_report"
  ELSE IF Given(m, <<t>>, "HeaderInfo") THEN
         IF Given(m, <<t>>, "SelectionFields") THEN "list_report" ELSE "object_page"
  ELSE IF Given(m, <<t>>, "RequestAtLeast") THEN "analytical"
  ELSE "transactional"

(* A path names a property, or has an @ in it, or starts at a navigation   *)
(* property or a property; the rest of it is not looked at.                *)
Resolves(m, t, path) ==
  \/ path \in m.props[t] \/ path \in AnnotationPaths
  \/ path \in DOMAIN NavOf /\ NavOf[path] \in m.navs[t] \cup m.props[t]

NonFilterable(m, t, p) == Says(m, <<t, p>>, "filterable", "false")
NonSortable(m, t, p) == Says(m, <<t, p>>, "sortable", "false")
IsHidden(m, t, p) == Given(m, <<t, p>>, "Hidden") /\ ~Says(m, <<t, p>>, "Hidden", "false")

Dangling(m, t, place, term) == \E path \in Named(m, place, term) : ~Resolves(m, t, path)
SomeDangling(m, t, term) == \E p \in m.props[t] : Dangling(m, t, <<t, p>>, term)

Finding(code, severity, condition) ==
  IF condition THEN {[code |-> code, severity |-> severity]} ELSE {}
(* A check that passes when the term is there and otherwise has a finding  *)
(* where the profile calls for it.                                         *)
Expected(m, t, code, term, severity, calledFor) ==
  Finding(code, "pass", Given(m, <<t>>, term))
  \cup Finding(code, severity, ~Given(m, <<t>>, term) /\ calledFor)

Identity(m, t, profile) ==
  Expected(m, t, "header_info", "HeaderInfo", "miss", profile # "value_help")
  \cup Expected(m, t, "semantic_key", "SemanticKey", "warn", m.keys[t] \cap UuidLike # {})

ListReport(m, t, profile) ==
  Expected(m, t, "line_item", "LineItem", "miss",
           profile \notin {"value_help", "object_page", "analytical"})
  \cup Expected(m, t, "request_at_least", "RequestAtLeast", "miss", FALSE)
  \cup Expected(m, t, "sort_order", "SortOrder", "miss", FALSE)

Filtering(m, t, profile) ==
  Expected(m, t, "selection_fields", "SelectionFields", "miss",
           profile \notin {"value_help", "object_page"})
  \cup Expected(m, t, "selection_variants", "SelectionVariant", "miss", FALSE)

Fields(m, t) ==
  LET without(p, term) == ~Given(m, <<t, p>>, term)
  IN  Finding("unit_missing", "warn",
        \E p \in m.props[t] \cap MonetaryLike : without(p, "Unit") /\ without(p, "ISOCurrency"))
      \cup Finding("text_missing", "warn", \E p \in m.props[t] \cap CodeLike : without(p, "Text"))

(* Contradictions among the annotations. *)
Consistency(m, t) ==
  LET chips == Named(m, <<t>>, "SelectionFields") \cap m.props[t]
      sorted == Named(m, <<t>>, "SortOrder") \cap m.props[t]
      variants == Named(m, <<t>>, "SelectionVariant") \cap m.props[t]
      given(p, term) == Given(m, <<t, p>>, term)
  IN  Finding("selection_non_filterable", "warn", \E p \in chips : NonFilterable(m, t, p))
      \cup Finding("sort_non_sortable", "warn", \E p \in sorted : NonSortable(m, t, p))
      \cup Finding("selection_hidden", "warn", \E p \in chips : IsHidden(m, t, p))
      \cup Finding("value_list_no_out", "warn",
             \E p \in m.props[t] : Says(m, <<t, p>>, "ValueList", "noOut"))
      \cup Finding("text_arrangement_lonely", "warn",
             \E p \in m.props[t] : given(p, "TextArrangement") /\ ~given(p, "Text"))
      \cup Finding("selection_variant_dead_filter", "warn",
             \E p \in variants : IsHidden(m, t, p) \/ NonFilterable(m, t, p))
      \cup Finding("semantic_object_no_key", "warn",
             (\E p \in m.props[t] : given(p, "SemanticObject")) /\ ~Given(m, <<t>>, "SemanticKey"))

(* References to columns that do not exist. *)
Integrity(m, t) ==
  Finding("text_target_missing", "warn", SomeDangling(m, t, "Text"))
  \cup Finding("unit_target_missing", "warn", SomeDangling(m, t, "Unit"))
  \cup Finding("currency_target_missing", "warn", SomeDangling(m, t, "ISOCurrency"))
  \cup Finding("criticality_target_missing", "warn", SomeDangling(m, t, "Criticality"))
  \cup Finding("header_info_title_missing", "warn", Dangling(m, t, <<t>>, "HeaderInfo"))
  \cup Finding("semantic_key_target_missing", "warn", Dangling(m, t, <<t>>, "SemanticKey"))
  \cup Finding("selection_field_target_missing", "warn", Dangling(m, t, <<t>>, "SelectionFields"))
  \cup Finding("line_item_target_missing", "warn", Dangling(m, t, <<t>>, "LineItem"))
  \cup Finding("sort_order_target_missing", "warn", Dangling(m, t, <<t>>, "SortOrder"))

Capabilities(m, t) ==
  Finding("capabilities_silent", "warn",
    /\ \A flag \in SetFlags : ~Given(m, <<t>>, flag)
    /\ \A p \in m.props[t], r \in Restrictions : ~Given(m, <<t, p>>, r))

(* The findings about a type, without the profile banner. *)
Evaluate(m, t, profile) ==
  Identity(m, t, profile) \cup ListReport(m, t, profile) \cup Filtering(m, t, profile)
  \cup Fields(m, t) \cup Consistency(m, t) \cup Integrity(m, t) \cup Capabilities(m, t)
=============================================================================
