---------------------------- MODULE QueryBuilder ----------------------------
(***************************************************************************)
(* The URL of an OData request: how the program writes it (query.rs and    *)
(* the options of the CLI's "run" and "build"), and how a service reads it *)
(* back.  A text is a sequence of symbols, each a character or a word; an  *)
(* option is the set of its values, empty when it is not given.            *)
(***************************************************************************)
EXTENDS Integers, Sequences, FiniteSets, SequencesExt

CONSTANTS
  Symbols,  \* what texts are made of
  Code      \* the percent-code of each special symbol

(* Everything but letters and digits; words that hold blanks count as such. *)
Special == {"'", "\"", "&", "#", "=", "/", ",", "(", ")", "%", "?", " ",
            " eq ", " or ", " and "}
COMPONENT == Special \ {"'", "(", ")"}
KEY_PATH == Special \ {"'", "=", ","}

Words == {"Set", "true", "allpages", "json"}

ASSUME EncodingAssumption ==
  /\ Special \cup Words \subseteq Symbols
  /\ DOMAIN Code = Special
  /\ \A c \in Special : Code[c] \notin Symbols
  /\ \A c, d \in Special : Code[c] = Code[d] => c = d

Escape(c) == Code[c]
EncBlanks(text, escaped) ==  \* mutant: what only a query string minds stays
  [i \in DOMAIN text |-> IF text[i] \in escaped \ {"&", "#"} THEN Escape(text[i]) ELSE text[i]]
Enc(text, escaped) == [i \in DOMAIN text |-> IF text[i] \in escaped THEN Escape(text[i]) ELSE text[i]]

Joined(texts, separator) ==
  FlattenSeq([i \in DOMAIN texts |-> IF i = 1 THEN texts[i] ELSE <<separator>> \o texts[i]])

NoQuery == [set |-> <<"Set">>, key |-> {}, navigation |-> {}, select |-> <<>>, filter |-> {},
            search |-> {}, top |-> {}, skip |-> {}, skiptoken |-> {}, count |-> FALSE,
            version |-> "V2"]

(* ODataQuery::search: V4 quotes the phrase once, even if the user did.    *)
Trimmed(text, symbol) ==
  LET kept == {i \in DOMAIN text : text[i] # symbol}
  IN IF kept = {} THEN <<>>
     ELSE SubSeq(text, CHOOSE i \in kept : \A j \in kept : i <= j,
                       CHOOSE i \in kept : \A j \in kept : i >= j)
Phrase(term) == Trimmed(Trimmed(term, " "), "\"")

(* ODataQuery::build. *)
Path(q) ==
  q.set \o FlattenSeq(SetToSeq({<<"(">> \o Enc(k, KEY_PATH) \o <<")">> \o
                       FlattenSeq(SetToSeq({<<"/">> \o Enc(n, KEY_PATH) : n \in q.navigation}))
                       : k \in q.key}))

Param(name, values) == SetToSeq({<<name, "=">> \o Enc(v, COMPONENT) : v \in values})
Params(q) ==
  Param("$select", IF q.select = <<>> THEN {} ELSE {Joined(q.select, ",")})
  \o Param("$filter", q.filter)
  \o Param("$top", q.top) \o Param("$skip", q.skip) \o Param("$skiptoken", q.skiptoken)
  \o (IF ~q.count THEN <<>> ELSE IF q.version = "V4" THEN Param("$count", {<<"true">>})
                                 ELSE Param("$inlinecount", {<<"allpages">>}))
  \o (IF q.version = "V4" THEN Param("$search", {<<"\"">> \o Phrase(t) \o <<"\"">> : t \in q.search})
      ELSE Param("search", q.search))
  \o Param("$format", {<<"json">>})
Build(q) == Path(q) \o <<"?">> \o Joined(Params(q), "&")

(* combine_filter_with_in: values become literals, both sides get          *)
(* parentheses.                                                            *)
DoubledNot(text) == text  \* mutant: an apostrophe ends its literal
Doubled(text) == FlattenSeq([i \in DOMAIN text |-> IF text[i] = "'" THEN <<"'", "'">> ELSE <<text[i]>>])
InFilter(in) ==
  <<"(">> \o Joined([i \in DOMAIN in.values |->
                 in.property \o <<" eq ", "'">> \o Doubled(in.values[i]) \o <<"'">>], " or ") \o <<")">>
CombineFilterWithIn(filter, in) ==
  IF in = {} THEN filter
  ELSE {FlattenSeq(SetToSeq({<<"(">> \o f \o <<")", " and ">> : f \in filter})) \o InFilter(x) : x \in in}

(* build_query and run_query split lists at commas and trim the parts.     *)
Nth(cuts, n) == CHOOSE c \in cuts : Cardinality({d \in cuts : d < c}) = n
Pieces(text, places) ==
  LET cuts == {0, Len(text) + 1} \cup places
  IN [n \in 1..(Cardinality(cuts) - 1) |-> SubSeq(text, Nth(cuts, n - 1) + 1, Nth(cuts, n) - 1)]
Split(text, symbol) == Pieces(text, {i \in DOMAIN text : text[i] = symbol})
Fields(text) == LET parts == Split(text, ",") IN [i \in DOMAIN parts |-> Trimmed(parts[i], " ")]

-----------------------------------------------------------------------------
(* A service reading a URL: the fragment is not sent, "?" ends the path,   *)
(* "&" ends a parameter, its first "=" the name; escapes count for nothing *)
(* but themselves.                                                         *)
Decoded(text) ==
  [i \in DOMAIN text |-> IF \E c \in Special : Escape(c) = text[i]
                         THEN CHOOSE c \in Special : Escape(c) = text[i] ELSE text[i]]
First(text, symbol) == SelectInSeq(text, LAMBDA c : c = symbol)
Before(text, symbol) == IF First(text, symbol) = 0 THEN text ELSE SubSeq(text, 1, First(text, symbol) - 1)
After(text, symbol) ==
  IF First(text, symbol) = 0 THEN <<>> ELSE SubSeq(text, First(text, symbol) + 1, Len(text))

ValuesOf(url, name) ==
  LET params == ToSet(Split(After(Before(url, "#"), "?"), "&"))
  IN {Decoded(After(p, "=")) : p \in {x \in params : Before(x, "=") = <<name>>}}

(* A string literal runs to the next apostrophe that is not doubled, so    *)
(* what has an even number of apostrophes before it is outside of literals. *)
Outside(text, i) == Cardinality({j \in 1..(i - 1) : text[j] = "'"}) % 2 = 0
Open(text, i) ==
  Cardinality({j \in 1..(i - 1) : text[j] = "(" /\ Outside(text, j)})
  - Cardinality({j \in 1..(i - 1) : text[j] = ")" /\ Outside(text, j)})
(* A whole expression: its literals and its parentheses are closed. *)
Expression(text) ==
  /\ Outside(text, Len(text) + 1) /\ Open(text, Len(text) + 1) = 0
  /\ \A i \in DOMAIN text : Outside(text, i) => Open(text, i) >= 0
Operands(text, operator) ==
  ToSet(Pieces(text, {i \in DOMAIN text : text[i] = operator /\ Outside(text, i) /\ Open(text, i) = 0}))
Inner(text) == SubSeq(text, 2, Len(text) - 1)
Literal(text) ==
  FlattenSeq([i \in DOMAIN text |->
    IF text[i] = "'" /\ i > 1 /\ text[i - 1] = "'" /\ ~Outside(text, i) THEN <<>> ELSE <<text[i]>>])
=============================================================================
