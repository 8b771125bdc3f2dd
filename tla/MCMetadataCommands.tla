------------------------- MODULE MCMetadataCommands -------------------------
(* A root type R with the set SR and a type D derived from it with SD. *)
EXTENDS MetadataCommands, TLC

MCBase == [t \in {"D"} |-> "R"]
ASSUME ValidAssumption == Acyclic /\ NoneRedeclared
MCOwnProps == [R |-> {"a_uuid", "amount"}, D |-> {"code"}]
MCOwnNavs == [R |-> {"toS"}, D |-> {}]
MCOwnKeys == [R |-> {"a_uuid"}, D |-> {}]
MCSetType == [SR |-> "R", SD |-> "D"]
MCNavOf == [p \in {"toS/n", "gone/n"} |-> IF p = "toS/n" THEN "toS" ELSE "gone"]

Note(term, place, q, paths, mark) ==
  [term |-> term, at |-> place, q |-> q, paths |-> paths, mark |-> mark]
Plain(term, place, paths) == Note(term, place, "none", paths, "none")

MCNotePool ==
  {Plain("HeaderInfo", <<"R">>, {"amount"}), Plain("HeaderInfo", <<"set", "SR">>, {}),
   Note("HeaderInfo", <<"D">>, "none", {}, "broken"),
   Plain("LineItem", <<"R">>, {"amount", "toS/n"}), Plain("LineItem", <<"set", "SR">>, {"gone/n"}),
   Note("LineItem", <<"R">>, "q", {"a_uuid"}, "none"), Plain("LineItem", <<"D">>, {"ghost"}),
   Plain("LineItem", <<"D">>, {}),
   Plain("SelectionFields", <<"set", "SD">>, {"code", "@x"}),
   Note("SelectionFields", <<"D">>, "q", {"amount"}, "none"),
   Plain("SelectionVariant", <<"D">>, {"code"}),
   Note("SelectionVariant", <<"set", "SD">>, "q", {"amount"}, "noRange"),
   Note("SelectionPresentationVariant", <<"D">>, "q", {"a_uuid"}, "inline"),
   Plain("RequestAtLeast", <<"R">>, {"amount"}),
   Plain("SortOrder", <<"D">>, {"amount"}), Plain("SortOrder", <<"set", "SD">>, {"code"}),
   Plain("Text", <<"D", "code">>, {"ghost"}), Plain("Text", <<"R", "a_uuid">>, {"amount"}),
   Note("Text", <<"R", "a_uuid">>, "none", {}, "TextOnly"),
   Note("TextArrangement", <<"R">>, "none", {}, "TextLast"),
   Plain("SemanticKey", <<"R">>, {"amount"}), Plain("SemanticKey", <<"R">>, {"a_uuid"}),
   Plain("SemanticObject", <<"D", "code">>, {"Product"}),
   Plain("Hidden", <<"R", "amount">>, {}), Note("Hidden", <<"R", "amount">>, "none", {}, "false"),
   Plain("Unit", <<"R", "amount">>, {"ghost"}), Plain("ISOCurrency", <<"R", "amount">>, {"a_uuid"}),
   Plain("Criticality", <<"R", "amount">>, {"gone/n"}),
   Note("ValueList", <<"D", "code">>, "none", {}, "noOut"),
   Note("ValueList", <<"D", "code">>, "q", {}, "out"),
   Note("Restricts", <<"set", "SR">>, "none", {"amount", "ghost"}, "filterable"),
   Note("Restricts", <<"set", "SR">>, "none", {"amount"}, "sortable"),
   Note("Restricts", <<"set", "SD">>, "none", {"amount", "code"}, "required"),
   Plain("ISOCurrency", <<"R", "amount">>, {}), Note("countable", <<"set", "SD">>, "none", {}, "none"),
   Note("countable", <<"set", "SD">>, "none", {}, "false"),
   Plain("NonExpandable", <<"set", "SR">>, {"toS"}), Note("Readable", <<"set", "SD">>, "none", {}, "false"),
   Note("Label", <<"R", "amount">>, "none", {}, "Net"), Note("Label", <<"D", "amount">>, "none", {}, "Sum")}

(* A document in which D has no finding: the rest decides what it gets. *)
CleanDraft ==
  <<Plain("HeaderInfo", <<"D">>, {"a_uuid"}), Plain("SemanticKey", <<"D">>, {"code"}),
    Plain("LineItem", <<"D">>, {"a_uuid", "toS/n"}),
    Plain("SelectionFields", <<"set", "SD">>, {"amount", "code"}),
    Plain("Text", <<"D", "code">>, {"amount"}), Plain("Unit", <<"R", "amount">>, {"a_uuid"}),
    Note("searchable", <<"set", "SD">>, "none", {}, "true")>>
MCDrafts == {<<>>, CleanDraft}

Inline(place, term, paths, mark) == (<<place, term>> :> <<Entry("none", paths, mark)>>)
NoFilter ==
  Inline(<<"R", "amount">>, "filterable", {}, "false") @@ Inline(<<"R", "amount">>, "Label", {}, "Old")
MCOpenings ==
  {[version |-> "V2", inline |-> Inline(<<"R", "a_uuid">>, "Text", {"ghost"}, "none")],
   [version |-> "V4", inline |-> NoFilter],
   [version |-> "V4", inline |-> <<>>]}

Request(entity, profile, min, gate) ==
  [entity |-> entity, profile |-> profile, min |-> min, gate |-> gate]
MCLintRequests ==
  {Request("D", "none", "miss", "warn"), Request("SD", "value_help", "none", "warn"),
   Request("all", "none", "warn", "miss")}
=============================================================================
