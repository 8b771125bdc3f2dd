----------------------------- MODULE QueryPages -----------------------------
(***************************************************************************)
(* Queries of the desktop's query bar and its pager (executor.js,          *)
(* results.js, format.js), of the value-help picker and of row navigation, *)
(* and of the CLI's "run" and "build", against a service that pages by     *)
(* itself or not.                                                          *)
(***************************************************************************)
EXTENDS QueryBuilder

CONSTANTS
  Filters,    \* texts of --filter and of the picker's filter
  BarFilters, \* texts of the filter box of the query bar
  Lists,      \* texts of $select, before they are split
  Terms,      \* texts of the search box
  Keys,       \* key predicates of rows
  Ins,        \* what --in is given: property and values
  Tops, Skips, \* what the boxes of the query bar may hold
  RowCount,   \* rows of the entity set
  Matching,   \* how many of them a filter of the query bar leaves
  Largest,    \* bound: the largest number somebody types, and of rows
  Numeral,    \* numbers as they are written
  Services    \* version, limit of an answer if any, and kind of skiptoken

Optional(S) == {{}} \cup {{x} : x \in S}

(* No request has a number above Largest + RowCount: a page begins at a row, *)
(* and the next one at most Largest further.                                 *)
ASSUME QueryAssumption ==
  /\ Filters \cup BarFilters \cup Lists \cup Terms \cup Keys \subseteq Seq(Symbols)
  /\ Ins \subseteq [property : Seq(Symbols \ Special), values : Seq(Seq(Symbols)) \ {<<>>}]
  /\ Largest \in Nat /\ RowCount \in 0..Largest /\ Tops \cup Skips \subseteq 1..Largest
  /\ Matching \in [Optional(BarFilters) -> 0..RowCount] /\ Matching[{}] = RowCount
  /\ DOMAIN Numeral = 0..(RowCount + Largest)
  /\ \A n \in DOMAIN Numeral : Numeral[n] \in Symbols
  /\ \A m, n \in DOMAIN Numeral : Numeral[m] = Numeral[n] => m = n
  /\ {"Nav", "A"} \subseteq Symbols
  /\ Services \subseteq [version : {"V2", "V4"}, limit : SUBSET Nat, token : {"offset", "number", "key"}]

VARIABLES
  service,  \* its version, its limit if any, and what its skiptokens are
  bar,      \* the query bar: filter, top, skip, count
  waiting,  \* the newest query of the bar on its way, as a set of at most one
  page,     \* what the results area shows and offers, as a set of at most one
  sent      \* the URL that has just left, with what its sender meant

vars == <<service, bar, waiting, page, sent>>

Num(n) == <<Numeral[n]>>
NumOf(text) == CHOOSE n \in DOMAIN Numeral : Num(n) = text
TokenAt(n) ==  \* a row offset, a number that is none, or a key
  CASE service.token = "offset" -> Num(n)
    [] service.token = "number" -> Num(RowCount - n)
    [] service.token = "key"    -> <<"'", "A", ",">> \o Num(n) \o <<"'">>

EmptyBar == [filter |-> {}, top |-> {}, skip |-> {}, count |-> FALSE]

Init ==
  /\ service \in Services
  /\ bar = EmptyBar
  /\ waiting = {} /\ page = {} /\ sent = {}

-----------------------------------------------------------------------------
(* One-shot requests.  Each knows the version: from $metadata, or from the *)
(* path ("build"), which SAP's convention gives away.                      *)

Nothing == [key |-> {}, navigation |-> {}, select |-> <<>>, filter |-> {}, ins |-> {},
            search |-> {}, top |-> {}, skip |-> {}, skiptoken |-> {}, count |-> FALSE]

Leaves(q, meant) == sent' = {[url |-> Build([q EXCEPT !.version = service.version]), meant |-> meant]}
OneShot(q, meant) ==
  /\ page = {} /\ waiting = {} /\ bar = EmptyBar  \* bound: the query bar has no part in them
  /\ Leaves(q, meant) /\ UNCHANGED <<service, bar, waiting, page>>

(* cmd_run and "build": --filter with --in, --select, --key. *)
CliQuery(f, in, list, key) ==
  LET select == FlattenSeq(SetToSeq({Fields(l) : l \in list}))
  IN OneShot([NoQuery EXCEPT !.filter = CombineFilterWithIn(f, in), !.key = key, !.select = select],
             [Nothing EXCEPT !.filter = f, !.ins = in, !.key = key, !.select = select])

(* fetchValueListRows: the search term is trimmed, and dropped when empty. *)
PickValues(f, term) ==
  LET typed == {Trimmed(t, " ") : t \in term} \ {<<>>}
  IN OneShot([NoQuery EXCEPT !.filter = f, !.search = typed],
             [Nothing EXCEPT !.filter = f, !.search = typed])

(* loadRowNavigation: Set(key)/Nav. *)
Navigate(key) ==
  OneShot([NoQuery EXCEPT !.key = {key}, !.navigation = {<<"Nav">>}],
          [Nothing EXCEPT !.key = {key}, !.navigation = {<<"Nav">>}])

-----------------------------------------------------------------------------
(* The query bar and the pager. *)

Edit(b) ==
  /\ waiting = {}               \* bound: an edit while a query waits is one after its answer
  /\ bar' = b /\ sent' = {} /\ UNCHANGED <<service, waiting, page>>

Extent(p) == [filter |-> p.filter, from |-> p.from, to |-> p.to, top |-> p.top, known |-> p.known]

(* executeQuery: a newer query replaces the one on its way. *)
Execute(b, token, meant, by) ==
  /\ bar' = b
  /\ Leaves([NoQuery EXCEPT !.filter = b.filter, !.top = {Num(n) : n \in b.top},
               !.skip = {Num(n) : n \in b.skip}, !.skiptoken = token, !.count = b.count],
            [Nothing EXCEPT !.filter = b.filter, !.top = b.top, !.skip = b.skip,
               !.skiptoken = meant, !.count = b.count])
  /\ waiting' = {[filter |-> b.filter, top |-> b.top, skip |-> b.skip, token |-> token,
                  by |-> by, url |-> s.url, base |-> {Extent(p) : p \in page}] : s \in sent'}
  /\ UNCHANGED <<service, page>>

Run == Execute(bar, {}, {}, "run")

(* goToPage: a token of the service first, else $skip. *)
NextPage ==
  \E p \in page :
    \/ /\ p.info.token # {}
       /\ Execute([bar EXCEPT !.skip = {}], p.info.token, {TokenAt(p.to)}, "next")
    \/ /\ p.info.token = {} /\ p.info.nextSkip # {}
       /\ Execute([bar EXCEPT !.skip = p.info.nextSkip], {}, {}, "next")
PrevPage ==
  \E p \in page :
    /\ p.info.prevSkip # {}
    /\ Execute([bar EXCEPT !.skip = p.info.prevSkip \ {0}], {}, {}, "prev")

(* pagingInfo. *)
Value(option, default) == IF option = {} THEN default ELSE CHOOSE x \in option : TRUE
TokenOffset(token) == {NumOf(t) : t \in {x \in token : \E n \in 0..RowCount : x = Num(n)}}
OffsetOfSkip(params) == Value(params.skip, 0)  \* mutant: the token is forgotten
Offset(params) == Value(params.skip, Value(TokenOffset(params.token), 0))
PagingInfo(params, answer) ==
  LET offset == Offset(params)
      rows == answer.to - answer.from
      pageSize == Value(params.top, rows)
      hasMore == \/ answer.next # {}
                 \/ answer.next = {} /\ IF answer.total # {} THEN \E t \in answer.total : offset + rows < t
                                        ELSE params.top = {rows}
  IN [offset |-> offset, token |-> answer.next, hasMore |-> hasMore,
      nextSkip |-> IF answer.next = {} /\ hasMore THEN {offset + pageSize} ELSE {},
      prevSkip |-> IF offset > 0 /\ (params.skip # {} \/ TokenOffset(params.token) # {})
                   THEN {IF pageSize < offset THEN offset - pageSize ELSE 0} ELSE {}]

(* The service: it reads the URL, filters, skips, takes, and hands out a    *)
(* token when its own limit cut the answer short.  The link holds the token *)
(* encoded.  A token is a place in the list of whatever filter comes along. *)
PositionOf(token) == CHOOSE n \in 0..RowCount : TokenAt(n) = token
Least(S) == CHOOSE x \in S : \A y \in S : x <= y
AnswerTo(url) ==
  LET rows == Matching[ValuesOf(url, "$filter")]
      skip == Value({NumOf(s) : s \in ValuesOf(url, "$skip")}, 0)
      from == Least({Value({PositionOf(t) : t \in ValuesOf(url, "$skiptoken")}, skip), rows})
      top == {NumOf(t) : t \in ValuesOf(url, "$top")}
      to == Least({rows} \cup {from + n : n \in top \cup service.limit})
  IN [from |-> from, to |-> to,
      next |-> IF to < rows /\ \A n \in top : to - from < n
               THEN {Decoded(Enc(TokenAt(to), COMPONENT))} ELSE {},
      total |-> IF ValuesOf(url, "$count") = {<<"true">>} \/ ValuesOf(url, "$inlinecount") = {<<"allpages">>}
                THEN {rows} ELSE {}]

(* renderResults, renderPager; no rows and errors hide the pager.           *)
Answered ==
  /\ \E w \in waiting :
       LET answer == AnswerTo(w.url)
       IN page' = IF answer.to = answer.from THEN {}
                  ELSE {[filter |-> w.filter, from |-> answer.from, to |-> answer.to,
                         total |-> answer.total, top |-> w.top, by |-> w.by, base |-> w.base,
                         known |-> w.token = {} \/ service.token = "offset", info |-> PagingInfo(w, answer)]}
  /\ waiting' = {} /\ sent' = {} /\ UNCHANGED <<service, bar>>
QueryFails == waiting # {} /\ waiting' = {} /\ page' = {} /\ sent' = {} /\ UNCHANGED <<service, bar>>

Next ==
  \/ \E f \in Optional(Filters), in \in Optional(Ins), list \in Optional(Lists) : CliQuery(f, in, list, {})
  \/ \E key \in Keys : CliQuery({}, {}, {}, {key}) \/ Navigate(key)
  \/ \E f \in Optional(Filters), t \in Optional(Terms) : PickValues(f, t)
  \/ \E f \in Optional(BarFilters) : Edit([bar EXCEPT !.filter = f])
  \/ \E t \in Optional(Tops) : Edit([bar EXCEPT !.top = t])
  \/ \E k \in Optional(Skips) : Edit([bar EXCEPT !.skip = k])
  \/ Edit([bar EXCEPT !.count = ~bar.count])
  \/ Run \/ NextPage \/ PrevPage \/ Answered \/ QueryFails

Spec == Init /\ [][Next]_vars

-----------------------------------------------------------------------------
(* Whatever a user types -- apostrophes, "&", "#", blanks, an "or" in a     *)
(* value or in the filter beside --in -- the service reads from the URL     *)
(* what was meant, in its own version's syntax (query.rs: "would otherwise  *)
(* produce wrong requests or split the query string").  A filter beside     *)
(* --in is told from it as far as it is an expression at all.  A search is  *)
(* the text in the box, in V4 one phrase in double quotes, the user's own   *)
(* counted once; not a V4 search with a quote inside, see SearchIsOnePhrase. *)
FilterArrives(text, meant) ==
  IF meant.ins = {} THEN {text} = meant.filter
  ELSE (\A f \in meant.filter : Expression(f)) => \E in \in meant.ins :
    LET conjuncts == {Inner(c) : c \in Operands(text, " and ")}
        lead == in.property \o <<" eq ", "'">>
        alternatives(c) == {Literal(SubSeq(o, Len(lead) + 1, Len(o) - 1)) : o \in Operands(c, " or ")}
    IN \E c \in conjuncts :
         /\ \A o \in Operands(c, " or ") : IsPrefix(lead, o)
         /\ alternatives(c) = ToSet(in.values)
         /\ conjuncts = {c} \cup meant.filter

Unquoted(t) == IF Len(t) > 1 /\ t[1] = "\"" /\ t[Len(t)] = "\"" THEN Inner(t) ELSE t
Plain(t) == t # <<>> /\ \A i \in DOMAIN t : t[i] # "\""
SearchArrives(url, texts) ==
  IF service.version = "V2" THEN ValuesOf(url, "search") = texts
  ELSE (\A t \in texts : Plain(Unquoted(t))) =>
         ValuesOf(url, "$search") = {<<"\"">> \o Unquoted(t) \o <<"\"">> : t \in texts}

RequestsArrive ==
  \A s \in sent :
    LET path == Before(Before(s.url, "#"), "?")
    IN /\ path[1] = "Set"
       /\ (IF First(path, "(") = 0 THEN {} ELSE {Decoded(Before(After(path, "("), ")"))}) = s.meant.key
       /\ (IF First(path, "/") = 0 THEN {} ELSE {Decoded(After(path, "/"))}) = s.meant.navigation
       /\ {Split(v, ",") : v \in ValuesOf(s.url, "$select")} = {s.meant.select} \ {<<>>}
       /\ IF s.meant.filter = {} /\ s.meant.ins = {} THEN ValuesOf(s.url, "$filter") = {}
          ELSE \E text \in ValuesOf(s.url, "$filter") :
                 ValuesOf(s.url, "$filter") = {text} /\ FilterArrives(text, s.meant)
       /\ SearchArrives(s.url, s.meant.search)
       /\ ValuesOf(s.url, "$top") = {Num(n) : n \in s.meant.top}
       /\ ValuesOf(s.url, "$skip") = {Num(n) : n \in s.meant.skip}
       /\ ValuesOf(s.url, "$skiptoken") = s.meant.skiptoken
       /\ s.meant.count <=> ValuesOf(s.url, IF service.version = "V4" THEN "$count" ELSE "$inlinecount") # {}

(* What query.rs says of $search, "V4 requires the search phrase in double  *)
(* quotes": a V4 service gets one phrase in quotes, without a quote inside  *)
(* that would end it.                                                       *)
SearchIsOnePhrase ==
  \A s \in sent : service.version = "V4" =>
    \A t \in ValuesOf(s.url, "$search") :
      Len(t) > 1 /\ {i \in DOMAIN t : t[i] = "\""} = {1, Len(t)}

(* "next" begins where the page on screen ends and "prev" leaves no gap     *)
(* before it, however the service pages and whatever the user edits in      *)
(* between but the filter; the range shown is the range there is, and with  *)
(* a count "next" is offered exactly while rows remain.  Not where the      *)
(* place of the page is unknown, behind a token that is no row offset       *)
(* (format.js: "SAP's RAP tokens are row offsets"); "prev" not where $top   *)
(* asks for more than the service sends or was lowered meanwhile; and after *)
(* an edit of the filter the two pages are of different lists, while the    *)
(* old place goes out with the new filter (format.js, pagingInfo).          *)
PagesMeet ==
  \A p \in page :
    /\ p.known => /\ p.info.offset = p.from
                  /\ p.total # {} => (p.info.hasMore <=> p.to < Matching[p.filter])
    /\ \A b \in p.base : p.filter = b.filter =>
         /\ p.by = "next" /\ (b.known \/ ~p.known) => p.from = b.to
         /\ p.by = "prev" /\ b.known /\ p.top = b.top /\ (\A t \in p.top, l \in service.limit : t <= l) =>
              p.from < b.from /\ b.from <= p.to
=============================================================================
