---------------------------- MODULE MCQueryPages ----------------------------
(* Texts with every symbol that means something in a URL or in a filter.   *)
EXTENDS QueryPages, TLC

MCBarFilters == {<<"N", " eq ", "'", "B", "&", "#", "'">>}
MCFilters == MCBarFilters \cup {<<"a", " or ", "b">>, <<"a", ")">>}
MCLists == {<<"A", ",", " ", "B">>}
MCTerms == {<<" ", "x", "&", "y">>, <<"\"", "x", " ", "y", "\"">>, <<"a", "\"", "b">>, <<" ">>}
MCKeys == {<<"K", "=", "'", "a", "/", "'", "'", "?", "'">>, <<"'", "(", ")", "'">>}
MCIns == {[property |-> <<"P">>, values |-> <<v, <<"y">>>>] :
            v \in {<<"O", "'", "B">>, <<"x", "'", " or ", "'">>, <<"(", "=">>}}
MCNumeral == [n \in 0..(RowCount + Largest) |-> ToString(n)]
MCCode == [c \in Special |-> "%" \o c]
Letters == {"A", "B", "K", "N", "Nav", "O", "P", "a", "b", "x", "y"}
MCSymbols == Special \cup Words \cup Letters \cup {MCNumeral[n] : n \in DOMAIN MCNumeral}
MCMatching == [f \in Optional(BarFilters) |-> IF f = {} THEN RowCount ELSE 2]
(* RAP's tokens are row offsets, those of V2 are what the service likes. *)
MCServices == {[version |-> "V2", limit |-> {}, token |-> "offset"],
               [version |-> "V4", limit |-> {2}, token |-> "offset"],
               [version |-> "V4", limit |-> {1}, token |-> "number"],
               [version |-> "V2", limit |-> {1}, token |-> "key"]}
=============================================================================
