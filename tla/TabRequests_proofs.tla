------------------------- MODULE TabRequests_proofs -------------------------
(***************************************************************************)
(* What holds of the tabs whatever the number of tabs, commands, profiles, *)
(* services and entity sets.                                               *)
(***************************************************************************)
EXTENDS TabRequests, SequenceTheorems, TLAPS

(* The arguments a command is called with are the mirrors' and its own.    *)
LEMMA CallTyped ==
  ASSUME TypeOK, NEW k \in Kinds, NEW s \in Services \cup {None},
         NEW e \in Entities \cup {None}, NEW q \in Queries \cup {None},
         k \in {"get_entities", "run_query"} => s # None,
         k = "run_query" => mirror.profile # None /\ e # None
  PROVE  CallFor(k, s, e, q) \in Call
BY DEF TypeOK, CallFor, Call, View

(* The active tab is a tab.                                                *)
LEMMA ActiveTab == TypeOK => active \in Tabs
BY DEF TypeOK

(* A bump keeps only commands that were current.                           *)
LEMMA BumpKeepsLess == \A level : AfterBump(level) \subseteq current
BY DEF AfterBump

(* Starting a command keeps the table of commands typed.                   *)
LEMMA StartTyped ==
  ASSUME TypeOK, NEW call \in Call, NEW S \in SUBSET current, Start(call, S)
  PROVE  /\ calls' \in [1 .. MaxCalls -> Call \cup {None}]
         /\ current' \subseteq 1 .. MaxCalls
         /\ started' \in 0 .. MaxCalls
<1>1. started + 1 \in 1 .. MaxCalls
  BY TabAssumption DEF TypeOK, Start
<1> QED
  BY <1>1, TabAssumption DEF TypeOK, Start

(* Leaving a tab and entering another keeps views and mirrors typed.       *)
LEMMA EnterTyped ==
  ASSUME TypeOK, NEW t \in Tabs, Enter(t)
  PROVE  view' \in [Tabs -> View] /\ mirror' \in View
<1>1. Saved \in [Tabs -> View]
  BY ActiveTab DEF TypeOK, Saved, View
<1>2. Saved[t] \in View
  BY <1>1
<1>3. Restored(t) \in View
  BY <1>2 DEF Restored, View
<1> QED
  BY <1>1, <1>3 DEF Enter

(* Closing a tab leaves a tab bar whose active tab is open.                *)
LEMMA CloseTyped ==
  ASSUME TypeOK, CloseTab
  PROVE  /\ open' \in Seq(Tabs) /\ ToSet(open') \subseteq used
         /\ active' \in ToSet(open')
         /\ view' \in [Tabs -> View] /\ mirror' \in View
<1>1. PICK i \in 1 .. Len(open) :
        /\ open' = RemoveAt(open, i)
        /\ IF open[i] = active
           THEN Enter(open'[IF i < Len(open) THEN i ELSE i - 1])
           ELSE view' = Saved /\ UNCHANGED <<active, mirror>>
  BY DEF CloseTab
<1>2. open \in Seq(Tabs) /\ Len(open) \in Nat /\ Len(open) > 1
  BY DEF TypeOK, CloseTab
<1>3. /\ open' \in Seq(Tabs) /\ Len(open') = Len(open) - 1
      /\ \A j \in 1 .. Len(open) - 1 : open'[j] = IF j < i THEN open[j] ELSE open[j + 1]
  <2> DEFINE front == SubSeq(open, 1, i - 1)
             back == SubSeq(open, i + 1, Len(open))
  <2>1. i \in 1 .. Len(open)
    OBVIOUS
  <2>2. /\ front \in Seq(Tabs) /\ Len(front) = i - 1
        /\ \A j \in 1 .. i - 1 : front[j] = open[j]
    BY <1>2, <2>1, SubSeqProperties
  <2>3. /\ back \in Seq(Tabs) /\ Len(back) = Len(open) - i
        /\ \A j \in 1 .. Len(open) - i : back[j] = open[j + i]
    BY <1>2, <2>1, SubSeqProperties
  <2>4. open' = front \o back
    BY <1>1 DEF RemoveAt
  <2> HIDE DEF front, back
  <2> QED
    BY <1>2, <2>1, <2>2, <2>3, <2>4, ConcatProperties
<1>4. ToSet(open') \subseteq ToSet(open)
  BY <1>2, <1>3 DEF ToSet
<1>5. \A j \in 1 .. Len(open) : j # i => open[j] \in ToSet(open')
  <2> SUFFICES ASSUME NEW j \in 1 .. Len(open), j # i PROVE open[j] \in ToSet(open')
    OBVIOUS
  <2> DEFINE k == IF j < i THEN j ELSE j - 1
  <2>1. k \in 1 .. Len(open') /\ open'[k] = open[j]
    BY <1>2, <1>3
  <2> QED
    BY <2>1, <1>3 DEF ToSet
<1>6. Saved \in [Tabs -> View]
  BY ActiveTab DEF TypeOK, Saved, View
<1>7. CASE open[i] = active
  <2> DEFINE n == IF i < Len(open) THEN i ELSE i - 1
  <2>1. n \in 1 .. Len(open')
    BY <1>2, <1>3
  <2>2. open'[n] \in Tabs /\ open'[n] \in ToSet(open')
    BY <2>1, <1>3 DEF ToSet
  <2>3. Enter(open'[n])
    BY <1>1, <1>7
  <2> QED
    BY <2>2, <2>3, <1>3, <1>4, EnterTyped DEF TypeOK, OpenTabs, Enter
<1>8. CASE open[i] # active
  <2>1. \E j \in 1 .. Len(open) : open[j] = active
    BY DEF TypeOK, OpenTabs, ToSet
  <2> QED
    BY <2>1, <1>1, <1>3, <1>4, <1>5, <1>6, <1>8 DEF TypeOK, OpenTabs
<1> QED
  BY <1>7, <1>8

(* What a command leaves on screen is typed.                               *)
LEMMA ShownTyped ==
  ASSUME NEW v \in View
  PROVE  /\ \A p \in Profiles \cup {None}, rows \in BOOLEAN : Catalog(v, p, rows) \in View
         /\ \A p \in Profiles \cup {None}, q \in Queries \cup {None} :
              [v EXCEPT !.listed = p, !.lastSearch = q] \in View
         /\ \A q \in Queries \cup {None} : [v EXCEPT !.lastSearch = q] \in View
         /\ \A s \in Services : [v EXCEPT !.service = s] \in View
         /\ \A s \in Services, p \in Profiles \cup {None} :
              [v EXCEPT !.sidebar = s, !.sidebarOf = p, !.nested = None] \in View
         /\ \A e \in Entities : [v EXCEPT !.entity = e, !.nested = None] \in View
         /\ \A n \in Tabs \cup {None} : [v EXCEPT !.nested = n] \in View
         /\ \A p \in Profiles \cup {None} : [v EXCEPT !.profile = p] \in View
         /\ [v EXCEPT !.profile = None, !.listed = None, !.sidebar = "none",
                      !.sidebarOf = None, !.nested = None] \in View
<1>1. \A p \in Profiles \cup {None}, rows \in BOOLEAN : Catalog(v, p, rows) \in View
  BY DEF Catalog, View, Sidebars
<1>2. \A p \in Profiles \cup {None}, q \in Queries \cup {None} :
        [v EXCEPT !.listed = p, !.lastSearch = q] \in View
  BY DEF View
<1>3. \A q \in Queries \cup {None} : [v EXCEPT !.lastSearch = q] \in View
  BY DEF View
<1>4. \A s \in Services : [v EXCEPT !.service = s] \in View
  BY DEF View
<1>5. \A s \in Services, p \in Profiles \cup {None} :
        [v EXCEPT !.sidebar = s, !.sidebarOf = p, !.nested = None] \in View
  BY DEF View, Sidebars
<1>6. \A e \in Entities : [v EXCEPT !.entity = e, !.nested = None] \in View
  BY DEF View
<1>7. \A n \in Tabs \cup {None} : [v EXCEPT !.nested = n] \in View
  BY DEF View
<1>8. \A p \in Profiles \cup {None} : [v EXCEPT !.profile = p] \in View
  BY DEF View
<1>9. [v EXCEPT !.profile = None, !.listed = None, !.sidebar = "none",
                !.sidebarOf = None, !.nested = None] \in View
  BY DEF View, Sidebars
<1> QED
  BY <1>1, <1>2, <1>3, <1>4, <1>5, <1>6, <1>7, <1>8, <1>9

(* A rendered catalog leaves nothing selected, and the result as it is or gone. *)
LEMMA CatalogShown ==
  ASSUME TypeOK, NEW t \in Tabs, NEW v \in View, NEW m \in View, ShowCatalog(t, v, m)
  PROVE  /\ view' \in [Tabs -> View] /\ mirror' \in View
         /\ result' \in [Tabs -> Result \cup {None}]
         /\ \A u \in Tabs \ {t} : view'[u] = view[u]
         /\ \A u \in Tabs \ {active} : result'[u] = result[u]
         /\ result'[active] \in {result[active], None}
         /\ view'[t].profile = v.profile /\ mirror'.profile = m.profile
         /\ view'[t].listed = v.listed /\ mirror'.listed = m.listed
         /\ view'[t].lastSearch = v.lastSearch /\ mirror'.lastSearch = m.lastSearch
         /\ view'[t].service = None /\ mirror'.service = None
         /\ view'[t].entity = None /\ mirror'.entity = None
         /\ view'[t].sidebarOf = v.listed /\ mirror'.sidebarOf = v.listed
<1>1. PICK empty \in BOOLEAN :
        /\ view' = [view EXCEPT ![t] = Catalog(v, v.listed, empty)]
        /\ mirror' = Catalog(m, v.listed, empty)
        /\ result' = IF empty THEN result ELSE [result EXCEPT ![active] = None]
  BY DEF ShowCatalog
<1>2. v.listed \in Profiles \cup {None}
  BY DEF View
<1>3. Catalog(v, v.listed, empty) \in View /\ Catalog(m, v.listed, empty) \in View
  BY <1>2, ShownTyped
<1>4. /\ view \in [Tabs -> View] /\ active \in Tabs
      /\ result \in [Tabs -> Result \cup {None}]
  BY ActiveTab DEF TypeOK
<1>5. \A w \in View : LET c == Catalog(w, v.listed, empty) IN
        /\ c.profile = w.profile /\ c.listed = w.listed /\ c.lastSearch = w.lastSearch
        /\ c.service = None /\ c.entity = None /\ c.sidebarOf = v.listed
  BY DEF Catalog, View
<1>6. view'[t] = Catalog(v, v.listed, empty) /\ mirror' = Catalog(m, v.listed, empty)
  BY <1>1, <1>4
<1>7. /\ view' \in [Tabs -> View] /\ mirror' \in View
      /\ \A u \in Tabs \ {t} : view'[u] = view[u]
  BY <1>1, <1>3, <1>4
<1>8. /\ result' \in [Tabs -> Result \cup {None}]
      /\ \A u \in Tabs \ {active} : result'[u] = result[u]
      /\ result'[active] \in {result[active], None}
  BY <1>1, <1>4
<1> QED
  BY <1>5, <1>6, <1>7, <1>8

(* A fresh tab, and one with a profile only, are views.                    *)
LEMMA NewTabTyped ==
  NewTab \in View /\ \A p \in Profiles \cup {None} : [NewTab EXCEPT !.profile = p] \in View
BY DEF NewTab, View, Sidebars

(* Every step of the user keeps the types.                                 *)
LEMMA UserTyped ==
  ASSUME TypeOK, User
  PROVE  TypeOK'
<1>0. mirror \in View /\ view \in [Tabs -> View] /\ active \in Tabs
  BY ActiveTab DEF TypeOK
<1>1. CASE AddTab
  <2>1. PICK t \in Tabs \ used : open' = Append(open, t) /\ used' = used \cup {t} /\ Enter(t)
    BY <1>1 DEF AddTab
  <2>2. view' \in [Tabs -> View] /\ mirror' \in View
    BY <2>1, EnterTyped
  <2>3. /\ open' \in Seq(Tabs) /\ ToSet(open') = ToSet(open) \cup {t}
    <3>1. /\ open' \in Seq(Tabs) /\ Len(open') = Len(open) + 1
          /\ \A j \in 1 .. Len(open) : open'[j] = open[j]
          /\ open'[Len(open) + 1] = t
      BY <2>1, AppendProperties DEF TypeOK
    <3>2. /\ DOMAIN open = 1 .. Len(open) /\ Len(open) \in Nat
          /\ DOMAIN open' = 1 .. Len(open) + 1
      BY <3>1 DEF TypeOK
    <3>3. ToSet(open') \subseteq ToSet(open) \cup {t}
      BY <3>1, <3>2 DEF ToSet
    <3>4. ToSet(open) \subseteq ToSet(open')
      <4> SUFFICES ASSUME NEW j \in 1 .. Len(open) PROVE open[j] \in ToSet(open')
        BY <3>2 DEF ToSet
      <4> QED
        BY <3>1, <3>2 DEF ToSet
    <3>5. t \in ToSet(open')
      BY <3>1, <3>2 DEF ToSet
    <3> QED
      BY <3>1, <3>3, <3>4, <3>5
  <2> QED
    BY <2>1, <2>2, <2>3, <1>1 DEF TypeOK, OpenTabs, AddTab, Enter, answers
<1>2. CASE SwitchTab
  <2>1. PICK t \in OpenTabs : Enter(t)
    BY <1>2 DEF SwitchTab
  <2>2. view' \in [Tabs -> View] /\ mirror' \in View
    BY <2>1, EnterTyped DEF TypeOK
  <2> QED
    BY <2>1, <2>2, <1>2 DEF TypeOK, OpenTabs, SwitchTab, Enter, answers
<1>3. CASE CloseTab
  BY <1>3, CloseTyped DEF TypeOK, OpenTabs, CloseTab, answers
<1>4. CASE SelectProfile
  <2>1. PICK p \in options \cup {None} :
          /\ view' = [view EXCEPT ![active] = [NewTab EXCEPT !.profile = p]]
          /\ mirror' = [NewTab EXCEPT !.profile = p]
    BY <1>4 DEF SelectProfile
  <2>2. [NewTab EXCEPT !.profile = p] \in View
    BY NewTabTyped DEF TypeOK
  <2>3. view' \in [Tabs -> View] /\ mirror' \in View
    BY <2>1, <2>2, <1>0
  <2> QED
    BY <2>3, <1>4, BumpKeepsLess DEF TypeOK, SelectProfile, tabBar, OpenTabs
<1>5. ASSUME NEW q \in Queries, SearchShown(q) PROVE TypeOK'
  <2>1. /\ view' \in [Tabs -> View] /\ mirror' \in View
        /\ result' \in [Tabs -> Result \cup {None}]
    BY <1>0, <1>5, CatalogShown DEF SearchShown
  <2> QED
    BY <2>1, <1>5 DEF TypeOK, SearchShown, tabBar, OpenTabs
<1>6. ASSUME NEW q \in Queries, SearchListed(q) PROVE TypeOK'
  <2>1. /\ [view[active] EXCEPT !.lastSearch = q] \in View
        /\ [mirror EXCEPT !.lastSearch = q] \in View
    BY <1>0, ShownTyped
  <2>2. /\ view' \in [Tabs -> View] /\ mirror' \in View
        /\ result' \in [Tabs -> Result \cup {None}]
    BY <1>0, <2>1, <1>6, CatalogShown DEF SearchListed
  <2> QED
    BY <2>2, <1>6, BumpKeepsLess DEF TypeOK, SearchListed, tabBar, OpenTabs
<1>7. ASSUME NEW q \in Queries, SearchCatalog(q) PROVE TypeOK'
  <2>1. CallFor("get_services", None, None, q) \in Call
    BY CallTyped DEF Kinds
  <2> QED
    BY <2>1, <1>7, StartTyped, BumpKeepsLess
    DEF TypeOK, SearchCatalog, tabBar, OpenTabs, answers
<1>8. CASE ResolveService
  <2>1. CallFor("resolve_service", None, None, None) \in Call
    BY CallTyped DEF Kinds
  <2> QED
    BY <2>1, <1>8, StartTyped, BumpKeepsLess
    DEF TypeOK, ResolveService, tabBar, OpenTabs, answers
<1>9. ASSUME NEW s \in Services, LoadService(s) PROVE TypeOK'
  <2>1. CallFor("get_entities", s, None, None) \in Call
    BY CallTyped, TabAssumption DEF Kinds
  <2>2. [view[active] EXCEPT !.service = s] \in View /\ [mirror EXCEPT !.service = s] \in View
    BY <1>0, ShownTyped
  <2>3. view' = [view EXCEPT ![active] = [view[active] EXCEPT !.service = s]]
    BY <1>0, <1>9 DEF LoadService, OpenPath
  <2>4. view' \in [Tabs -> View] /\ mirror' \in View
    BY <1>0, <2>2, <2>3, <1>9 DEF LoadService, OpenPath
  <2> QED
    BY <2>1, <2>4, <1>9, StartTyped, BumpKeepsLess
    DEF TypeOK, LoadService, tabBar, OpenTabs, answers
<1>10. ASSUME NEW e \in Entities, SelectEntity(e) PROVE TypeOK'
  <2>1. CallFor("describe_entity", mirror.service, e, None) \in Call
    BY <1>0, CallTyped DEF Kinds, View
  <2>2. /\ view' = [view EXCEPT ![active] = [view[active] EXCEPT !.entity = e, !.nested = None]]
        /\ mirror' = [mirror EXCEPT !.entity = e, !.nested = None]
    BY <1>0, <1>10 DEF SelectEntity
  <2>3. view' \in [Tabs -> View] /\ mirror' \in View
    BY <1>0, <2>2, ShownTyped
  <2> QED
    BY <2>1, <2>3, <1>10, StartTyped, BumpKeepsLess
    DEF TypeOK, SelectEntity, tabBar, OpenTabs
<1>11. CASE ExecuteQuery
  <2>1. CallFor("run_query", mirror.service, mirror.entity, None) \in Call
    BY <1>0, <1>11, CallTyped DEF Kinds, View, ExecuteQuery
  <2> QED
    BY <2>1, <1>11, StartTyped, BumpKeepsLess
    DEF TypeOK, ExecuteQuery, tabBar, OpenTabs, answers
<1>12. CASE LoadRowNavigation
  <2>1. CallFor("navigation", mirror.service, mirror.entity, None) \in Call
    BY <1>0, CallTyped DEF Kinds, View
  <2> QED
    BY <2>1, <1>12, StartTyped DEF TypeOK, LoadRowNavigation, tabBar, OpenTabs, answers
<1>13. CASE RemoveProfile
  <2>1. CallFor("remove_profile", None, None, None) \in Call
    BY CallTyped DEF Kinds
  <2> QED
    BY <2>1, <1>13, StartTyped DEF TypeOK, RemoveProfile, tabBar, OpenTabs, answers
<1> QED
  BY <1>1, <1>2, <1>3, <1>4, <1>5, <1>6, <1>7, <1>8, <1>9, <1>10, <1>11, <1>12, <1>13 DEF User

(* Every answer keeps the types.                                           *)
LEMMA AnswerTyped ==
  ASSUME TypeOK, NEW i \in 1 .. MaxCalls, Answer(i)
  PROVE  TypeOK'
<1>0. /\ mirror \in View /\ view \in [Tabs -> View] /\ active \in Tabs
      /\ calls[i] \in Call \cup {None}
  BY ActiveTab DEF TypeOK
<1>1. ASSUME calls[i] \in Call, Finish(i), TraceTo(calls[i])
      PROVE  /\ calls' \in [1 .. MaxCalls -> Call \cup {None}]
             /\ current' \subseteq 1 .. MaxCalls
             /\ trace' \in [Tabs -> Profiles \cup {None}]
  BY <1>1 DEF TypeOK, Finish, TraceTo, Call
<1>2. \A k : Waits(i, k) => calls[i] \in Call
  BY <1>0 DEF Waits
<1>3. CASE Drop(i)
  <2>1. calls[i] \in Call
    BY <1>0, <1>3 DEF Drop
  <2> QED
    BY <2>1, <1>1, <1>3 DEF TypeOK, Drop, Finish, tabBar, OpenTabs
<1>4. CASE GotServices(i)
  <2>1. calls[i] \in Call
    BY <1>2, <1>4 DEF GotServices
  <2>2. /\ calls[i].tab \in Tabs /\ calls[i].profile \in Profiles \cup {None}
        /\ calls[i].query \in Queries \cup {None}
    BY <2>1 DEF Call
  <2> DEFINE Listed(v) == [v EXCEPT !.listed = calls[i].profile, !.lastSearch = calls[i].query]
  <2>3. Listed(view[calls[i].tab]) \in View /\ Listed(mirror) \in View
    BY <1>0, <2>2, ShownTyped
  <2>4. ShowCatalog(calls[i].tab, Listed(view[calls[i].tab]), Listed(mirror))
    BY <1>4 DEF GotServices
  <2> HIDE DEF Listed
  <2>5. /\ view' \in [Tabs -> View] /\ mirror' \in View
        /\ result' \in [Tabs -> Result \cup {None}]
    BY <1>0, <2>2, <2>3, <2>4, CatalogShown
  <2> QED
    BY <1>1, <2>1, <2>5, <1>4 DEF TypeOK, GotServices, Finish, tabBar, OpenTabs
<1>5. CASE ResolvedService(i)
  <2>1. calls[i] \in Call
    BY <1>2, <1>5 DEF ResolvedService
  <2>2. PICK s \in Services :
          /\ OpenPath(active, s)
          /\ calls' = [calls EXCEPT ![i] = CallFor("get_entities", s, None, None)]
    BY <1>5 DEF ResolvedService
  <2>3. CallFor("get_entities", s, None, None) \in Call
    BY CallTyped, TabAssumption DEF Kinds
  <2>4. view' = [view EXCEPT ![active] = [view[active] EXCEPT !.service = s]]
        /\ mirror' = [mirror EXCEPT !.service = s]
    BY <1>0, <2>2 DEF OpenPath
  <2>5. view' \in [Tabs -> View] /\ mirror' \in View
    BY <1>0, <2>4, ShownTyped
  <2>6. trace' \in [Tabs -> Profiles \cup {None}]
    BY <2>1, <1>5 DEF TypeOK, ResolvedService, TraceTo, Call
  <2> QED
    BY <2>2, <2>3, <2>5, <2>6, <1>5 DEF TypeOK, ResolvedService, tabBar, OpenTabs
<1>6. CASE GotEntities(i)
  <2>1. calls[i] \in Call
    BY <1>2, <1>6 DEF GotEntities
  <2>2. /\ calls[i].service \in Services /\ calls[i].tab \in Tabs
        /\ calls[i].profile \in Profiles \cup {None}
    BY <2>1, <1>6 DEF Call, GotEntities, Waits
  <2>3. /\ view' = [view EXCEPT ![active] = [view[active] EXCEPT !.sidebar = calls[i].service,
                                                                 !.sidebarOf = calls[i].profile,
                                                                 !.nested = None]]
        /\ mirror' = [mirror EXCEPT !.sidebar = calls[i].service, !.sidebarOf = calls[i].profile,
                                    !.nested = None]
    BY <1>0, <1>6 DEF GotEntities
  <2>4. view' \in [Tabs -> View] /\ mirror' \in View
    BY <1>0, <2>2, <2>3, ShownTyped
  <2> QED
    BY <1>1, <2>1, <2>2, <2>4, <1>6 DEF TypeOK, GotEntities, Finish, tabBar, OpenTabs
<1>7. CASE GotDescribe(i)
  <2>1. calls[i] \in Call
    BY <1>2, <1>7 DEF GotDescribe
  <2>2. /\ calls[i].tab \in Tabs
        /\ ContextOf(calls[i]) \in Context /\ ContextOf(view[calls[i].tab]) \in Context
    BY <1>0, <2>1 DEF Call, ContextOf, Context, View
  <2>3. describe' \in [Tabs -> Described \cup {None}]
    BY <2>2, <1>7 DEF TypeOK, GotDescribe, Described
  <2> QED
    BY <1>1, <2>1, <2>3, <1>7 DEF TypeOK, GotDescribe, Finish, tabBar, OpenTabs
<1>8. CASE GotRows(i)
  <2>1. calls[i] \in Call /\ calls[i].kind = "run_query"
    BY <1>2, <1>8 DEF GotRows, Waits
  <2>2. [profile |-> calls[i].profile, service |-> calls[i].service,
         entity |-> calls[i].entity, call |-> i] \in Result
    BY <2>1 DEF Call, Result
  <2>3. result' \in [Tabs -> Result \cup {None}]
    BY <2>2, <1>8 DEF TypeOK, GotRows
  <2>4. mirror' \in View
    BY <1>0, <1>8, ShownTyped DEF GotRows
  <2> QED
    BY <1>1, <2>1, <2>3, <2>4, <1>8 DEF TypeOK, GotRows, Finish, tabBar, OpenTabs
<1>9. CASE QueryError(i)
  <2>1. calls[i] \in Call
    BY <1>2, <1>9 DEF QueryError
  <2>2. view' = [view EXCEPT ![active] = [view[active] EXCEPT !.nested = None]]
        /\ mirror' = [mirror EXCEPT !.nested = None]
    BY <1>0, <1>9 DEF QueryError
  <2>3. view' \in [Tabs -> View] /\ mirror' \in View
    BY <1>0, <2>2, ShownTyped
  <2> QED
    BY <1>1, <2>1, <2>3, <1>9 DEF TypeOK, QueryError, Finish, tabBar, OpenTabs
<1>10. CASE GotNavigation(i)
  <2>1. calls[i] \in Call
    BY <1>2, <1>10 DEF GotNavigation
  <2>2. calls[i].tab \in Tabs
    BY <2>1 DEF Call
  <2>3. mirror' \in View
    BY <1>0, <2>2, <1>10, ShownTyped DEF GotNavigation
  <2> QED
    BY <1>1, <2>1, <2>3, <1>10 DEF TypeOK, GotNavigation, Finish, tabBar, OpenTabs
<1>11. CASE ProfileRemoved(i)
  <2>1. calls[i] \in Call /\ calls[i].kind = "remove_profile"
    BY <1>2, <1>11 DEF ProfileRemoved, Waits
  <2>2. [calls[i] EXCEPT !.kind = "get_profiles"] \in Call
    BY <2>1 DEF Call, Kinds
  <2>3. calls' = [calls EXCEPT ![i] = [calls[i] EXCEPT !.kind = "get_profiles"]]
    BY <1>11 DEF ProfileRemoved, TypeOK
  <2>4. calls' \in [1 .. MaxCalls -> Call \cup {None}]
    BY <2>2, <2>3 DEF TypeOK
  <2>5. mirror' \in View
    BY <1>0, <1>11, ShownTyped DEF ProfileRemoved
  <2> QED
    BY <2>4, <2>5, <1>11 DEF TypeOK, ProfileRemoved, OpenTabs
<1>12. CASE GotProfiles(i)
  <2>1. mirror.profile \in Profiles \cup {None}
    BY <1>0 DEF View
  <2>2. mirror' = [mirror EXCEPT !.profile = IF mirror.profile \in profiles
                                             THEN mirror.profile ELSE None]
    BY <1>0, <1>12 DEF GotProfiles, View
  <2>3. mirror' \in View
    BY <1>0, <2>1, <2>2, ShownTyped
  <2> QED
    BY <2>3, <1>12 DEF TypeOK, GotProfiles, answers, OpenTabs
<1>13. CASE ProfileError(i)
  BY <1>13 DEF TypeOK, ProfileError, Finish, tabBar, answers, OpenTabs
<1> QED
  BY <1>3, <1>4, <1>5, <1>6, <1>7, <1>8, <1>9, <1>10, <1>11, <1>12, <1>13 DEF Answer

(* The app starts with one empty tab.                                      *)
LEMMA InitTyped == Init => TypeOK
<1> SUFFICES ASSUME Init PROVE TypeOK
  OBVIOUS
<1>1. PICK t \in Tabs : open = <<t>> /\ used = {t} /\ active = t
  BY DEF Init
<1>2. open \in Seq(Tabs) /\ OpenTabs = {t}
  BY <1>1 DEF OpenTabs, ToSet
<1> QED
  BY <1>1, <1>2, NewTabTyped, TabAssumption DEF Init, TypeOK

(* Every state is typed, and the active tab is open.                       *)
THEOREM TypeCorrect == Spec => []TypeOK
<1>1. Init => TypeOK
  BY InitTyped
<1>2. TypeOK /\ [Next]_vars => TypeOK'
  <2> SUFFICES ASSUME TypeOK, [Next]_vars PROVE TypeOK'
    OBVIOUS
  <2>1. CASE User
    BY <2>1, UserTyped
  <2>2. ASSUME NEW i \in 1 .. MaxCalls, Answer(i) PROVE TypeOK'
    BY <2>2, AnswerTyped
  <2>3. CASE UNCHANGED vars
    BY <2>3 DEF vars, TypeOK, OpenTabs
  <2> QED
    BY <2>1, <2>2, <2>3 DEF Next
<1> QED
  BY <1>1, <1>2, PTL DEF Spec

-----------------------------------------------------------------------------
(***************************************************************************)
(* The tabs off screen.                                                    *)
(***************************************************************************)
(* Whatever happens, a tab that is not active keeps what it remembers.     *)
THEOREM BackgroundTabs == Spec => OtherTabsUntouched
<1>1. ASSUME TypeOK, [Next]_vars, NEW t \in Tabs, t # active
      PROVE  Keeps(t)
  <2>0. /\ view \in [Tabs -> View] /\ result \in [Tabs -> Result \cup {None}]
        /\ describe \in [Tabs -> Described \cup {None}]
        /\ active \in Tabs
    BY <1>1, ActiveTab DEF TypeOK
  <2>1. Saved[t] = view[t]
    BY <1>1, <2>0 DEF Saved
  <2>2. CASE User
    BY <1>1, <2>0, <2>1, <2>2
    DEF User, AddTab, SwitchTab, CloseTab, Enter, SelectProfile, SearchShown, SearchListed,
        SearchCatalog, ShowCatalog, ResolveService, LoadService, OpenPath, SelectEntity,
        ExecuteQuery, LoadRowNavigation, RemoveProfile, answers, Keeps
  <2>3. ASSUME NEW i \in 1 .. MaxCalls, Answer(i)
        PROVE  Keeps(t)
    BY <1>1, <2>0, <2>3
    DEF Answer, Drop, GotServices, ShowCatalog, ResolvedService, OpenPath, GotEntities,
        GotDescribe, GotRows, QueryError, GotNavigation, ProfileRemoved, GotProfiles,
        ProfileError, ScopeActive, answers, Keeps
  <2>4. CASE UNCHANGED vars
    BY <2>4 DEF vars, Keeps
  <2> QED
    BY <1>1, <2>2, <2>3, <2>4 DEF Next
<1>2. TypeOK /\ [Next]_vars => [\A t \in Tabs : t # active => Keeps(t)]_vars
  BY <1>1
<1> QED
  BY <1>2, TypeCorrect, PTL DEF Spec, OtherTabsUntouched

-----------------------------------------------------------------------------
(***************************************************************************)
(* What tabs keep from answers.  A current command still fits its tab:     *)
(* whatever changed the tab since it started has made it stale.            *)
(***************************************************************************)
\* The commands whose answers a tab keeps.
Scoped == ServiceKinds \cup {"describe_entity", "run_query"}

CurrentFits ==
  \A i \in current :
    /\ calls[i] # None /\ i \in 1 .. started
    /\ calls[i].kind \in Scoped => calls[i].profile \in {view[calls[i].tab].profile, None}
    /\ calls[i].kind = "run_query" =>
         /\ view[calls[i].tab].entity \in {calls[i].entity, None}
         /\ result[calls[i].tab] # None => result[calls[i].tab].call < i
         /\ \A j \in current : calls[j].kind = "run_query" /\ calls[j].tab = calls[i].tab
                                => j = i

\* A cached result came from a command that has started.
ResultsPast == \A t \in Tabs : result[t] # None => result[t].call <= started

TabsFit == ResultsPast /\ ProfileSwitchWins /\ EntitySelectionWins

\* The inductive invariant of the tabs.
TabInv == TypeOK /\ MirrorsAgree /\ CurrentFits /\ TabsFit

\* What a tab keeps from answers stays as it is, or less.
QuietTab(t) ==
  /\ view'[t].profile = view[t].profile
  /\ view'[t].listed = view[t].listed
  /\ view'[t].sidebarOf \in {view[t].sidebarOf, view[t].profile, None}
  /\ view'[t].entity \in {view[t].entity, None}
  /\ result'[t] \in {result[t], None}
  /\ describe'[t] = describe[t]

\* The tab of a command changes in nothing the command has to fit.
Undisturbed(i) ==
  LET t == calls[i].tab IN
  /\ calls[i].kind \in Scoped => view'[t].profile = view[t].profile
  /\ calls[i].kind = "run_query" => /\ view'[t].entity \in {view[t].entity, None}
                                    /\ result'[t] \in {result[t], None}

(* Quiet tabs keep fitting.                                                *)
LEMMA QuietTabs ==
  ASSUME TypeOK, TypeOK', TabsFit, started' >= started, \A t \in Tabs : QuietTab(t)
  PROVE  TabsFit' /\ \A t \in Tabs : KeepsNewer(t)
<1> SUFFICES ASSUME NEW t \in Tabs
             PROVE  /\ result'[t] # None => result'[t].call <= started'
                    /\ view'[t].listed \in {view'[t].profile, None}
                    /\ view'[t].sidebarOf \in {view'[t].profile, None}
                    /\ result'[t] # None => result'[t].profile = view'[t].profile
                    /\ describe'[t] # None => describe'[t].info[1] = view'[t].profile
                    /\ result'[t] # None => view'[t].entity \in {result'[t].entity, None}
                    /\ KeepsNewer(t)
  BY DEF TabsFit, ResultsPast, ProfileSwitchWins, EntitySelectionWins
<1>1. QuietTab(t)
  OBVIOUS
<1>2. /\ started \in Nat /\ started' \in Nat
      /\ result[t] # None => result[t].call \in Nat
  BY TabAssumption DEF TypeOK, Result
<1> QED
  BY <1>1, <1>2 DEF QuietTab, TabsFit, ResultsPast, ProfileSwitchWins, EntitySelectionWins,
                    KeepsNewer

(* Commands that stay current, or go on to load the entity sets, keep      *)
(* fitting tabs that are undisturbed.                                      *)
LEMMA QuietCommands ==
  ASSUME TypeOK, CurrentFits, started' = started, current' \subseteq current,
         \A i \in current' :
           /\ Undisturbed(i)
           /\ \/ calls'[i] = calls[i]
              \/ /\ calls'[i] # None /\ calls'[i].kind # "run_query"
                 /\ calls'[i].kind \in Scoped =>
                       calls'[i].profile \in {view'[calls'[i].tab].profile, None}
  PROVE  CurrentFits'
<1> SUFFICES ASSUME NEW i \in current'
             PROVE  /\ calls'[i] # None /\ i \in 1 .. started'
                    /\ calls'[i].kind \in Scoped =>
                         calls'[i].profile \in {view'[calls'[i].tab].profile, None}
                    /\ calls'[i].kind = "run_query" =>
                         /\ view'[calls'[i].tab].entity \in {calls'[i].entity, None}
                         /\ result'[calls'[i].tab] # None => result'[calls'[i].tab].call < i
                         /\ \A j \in current' :
                              calls'[j].kind = "run_query" /\ calls'[j].tab = calls'[i].tab
                                => j = i
  BY DEF CurrentFits
<1>1. i \in current /\ Undisturbed(i)
  OBVIOUS
<1>2. CASE calls'[i] = calls[i]
  <2>1. calls'[i].kind = "run_query" =>
          \A j \in current' :
             calls'[j].kind = "run_query" /\ calls'[j].tab = calls'[i].tab => j = i
    BY <1>1, <1>2 DEF CurrentFits
  <2>2. /\ calls'[i] # None /\ i \in 1 .. started'
        /\ calls'[i].kind \in Scoped =>
              calls'[i].profile \in {view'[calls'[i].tab].profile, None}
    BY <1>1, <1>2 DEF CurrentFits, Undisturbed
  <2>3. calls'[i].kind = "run_query" =>
          /\ view'[calls'[i].tab].entity \in {calls'[i].entity, None}
          /\ result'[calls'[i].tab] # None => result'[calls'[i].tab].call < i
    BY <1>1, <1>2 DEF CurrentFits, Undisturbed
  <2> QED
    BY <2>1, <2>2, <2>3
<1>3. CASE calls'[i] # calls[i]
  BY <1>1, <1>3 DEF CurrentFits
<1> QED
  BY <1>2, <1>3

(* A command that fits its tab can join undisturbed ones; a query, if they *)
(* hold no other query of its tab.                                         *)
LEMMA StartedCommands ==
  ASSUME TypeOK, CurrentFits, NEW S \in SUBSET current, NEW call \in Call, Start(call, S),
         \A i \in S : Undisturbed(i),
         call.kind \in Scoped => call.profile \in {view'[call.tab].profile, None},
         call.kind = "run_query" =>
           /\ view'[call.tab].entity \in {call.entity, None}
           /\ result'[call.tab] # None => result'[call.tab].call \in 0 .. started
           /\ \A i \in S : calls[i].kind # "run_query" \/ calls[i].tab # call.tab
  PROVE  CurrentFits'
<1>1. /\ started' = started + 1 /\ started \in Nat /\ started' \in 1 .. MaxCalls
      /\ current' = S \cup {started'}
      /\ calls'[started'] = call
  BY TabAssumption DEF TypeOK, Start
<1>2. \A i \in S : i \in 1 .. started /\ i # started' /\ calls'[i] = calls[i]
  BY <1>1 DEF TypeOK, Start, CurrentFits
<1>3. \A i \in S :
        /\ calls[i] # None
        /\ calls[i].kind \in Scoped => calls[i].profile \in {view'[calls[i].tab].profile, None}
        /\ calls[i].kind = "run_query" =>
             /\ view'[calls[i].tab].entity \in {calls[i].entity, None}
             /\ result'[calls[i].tab] # None => result'[calls[i].tab].call < i
             /\ \A j \in S : calls[j].kind = "run_query" /\ calls[j].tab = calls[i].tab => j = i
  <2> SUFFICES ASSUME NEW i \in S
      PROVE /\ calls[i] # None
            /\ calls[i].kind \in Scoped =>
                 calls[i].profile \in {view'[calls[i].tab].profile, None}
            /\ calls[i].kind = "run_query" =>
                 /\ view'[calls[i].tab].entity \in {calls[i].entity, None}
                 /\ result'[calls[i].tab] # None => result'[calls[i].tab].call < i
                 /\ \A j \in S : calls[j].kind = "run_query" /\ calls[j].tab = calls[i].tab
                                  => j = i
    OBVIOUS
  <2>1. Undisturbed(i) /\ i \in current
    OBVIOUS
  <2> QED
    BY <2>1 DEF CurrentFits, Undisturbed
<1>4. call # None
  BY NoneAssumption
<1>5. call.kind = "run_query" /\ result'[call.tab] # None =>
        result'[call.tab].call < started'
  <2> SUFFICES ASSUME call.kind = "run_query", result'[call.tab] # None
               PROVE  result'[call.tab].call < started'
    OBVIOUS
  <2>1. result'[call.tab].call <= started /\ result'[call.tab].call \in Nat
    OBVIOUS
  <2> QED
    BY <1>1, <2>1
<1> SUFFICES ASSUME NEW i \in current'
             PROVE  /\ calls'[i] # None /\ i \in 1 .. started'
                    /\ calls'[i].kind \in Scoped =>
                         calls'[i].profile \in {view'[calls'[i].tab].profile, None}
                    /\ calls'[i].kind = "run_query" =>
                         /\ view'[calls'[i].tab].entity \in {calls'[i].entity, None}
                         /\ result'[calls'[i].tab] # None => result'[calls'[i].tab].call < i
                         /\ \A j \in current' :
                              calls'[j].kind = "run_query" /\ calls'[j].tab = calls'[i].tab
                                => j = i
  BY DEF CurrentFits
<1>6. CASE i = started'
  BY <1>1, <1>2, <1>4, <1>5, <1>6
<1>7. CASE i \in S
  <2>1. \A j \in current' : j \in S \/ j = started'
    BY <1>1
  <2> QED
    BY <1>1, <1>2, <1>3, <1>7, <2>1
<1> QED
  BY <1>1, <1>6, <1>7
(* Where all tabs are quiet, no current command is disturbed.              *)
LEMMA QuietUndisturbed ==
  ASSUME TypeOK, CurrentFits, \A t \in Tabs : QuietTab(t)
  PROVE  \A i \in current : Undisturbed(i)
<1> SUFFICES ASSUME NEW i \in current PROVE Undisturbed(i)
  OBVIOUS
<1>1. calls[i].tab \in Tabs
  BY DEF TypeOK, CurrentFits, Call
<1> QED
  BY <1>1 DEF QuietTab, Undisturbed

(* Entering a tab restores mirrors that agree with it, and no tab changes  *)
(* in what it keeps from answers.                                          *)
LEMMA EnterFits ==
  ASSUME TypeOK, MirrorsAgree, ProfileSwitchWins, NEW t \in Tabs, Enter(t), UNCHANGED <<result, describe>>
  PROVE  MirrorsAgree' /\ \A u \in Tabs : QuietTab(u)
<1>1. view \in [Tabs -> View] /\ active \in Tabs
  BY ActiveTab DEF TypeOK
<1>2. \A u \in Tabs : /\ Saved[u].profile = view[u].profile
                      /\ Saved[u].listed = view[u].listed
                      /\ Saved[u].entity = view[u].entity
                      /\ Saved[u].sidebarOf \in {view[u].sidebarOf, view[u].profile, None}
  <2> SUFFICES ASSUME NEW u \in Tabs
               PROVE  /\ Saved[u].profile = view[u].profile
                      /\ Saved[u].listed = view[u].listed
                      /\ Saved[u].entity = view[u].entity
                      /\ Saved[u].sidebarOf \in {view[u].sidebarOf, view[u].profile, None}
    OBVIOUS
  <2>1. view[u] \in View
    BY <1>1
  <2>2. CASE u = active
    BY <1>1, <2>1, <2>2 DEF Saved, View, MirrorsAgree
  <2>3. CASE u # active
    BY <1>1, <2>3 DEF Saved
  <2> QED
    BY <2>2, <2>3
<1>3. view' = Saved /\ active' = t /\ mirror' = Restored(t)
  BY DEF Enter
<1>4. Saved[t] \in View
  BY <1>3, EnterTyped
<1>5. mirror'.sidebarOf \in {view'[t].profile, None}
  <2>1. mirror'.sidebarOf = Saved[t].sidebarOf
    BY <1>3, <1>4 DEF Restored, View
  <2> QED
    BY <1>2, <1>3, <2>1 DEF ProfileSwitchWins
<1>6. MirrorsAgree'
  BY <1>3, <1>4, <1>5 DEF MirrorsAgree, Restored, View
<1> QED
  BY <1>2, <1>3, <1>6 DEF QuietTab

(* A step that leaves tabs quiet and commands alone or fewer keeps the     *)
(* invariant, if the mirrors agree after it.                               *)
LEMMA QuietStep ==
  ASSUME TabInv, TypeOK', MirrorsAgree', \A t \in Tabs : QuietTab(t),
         started' = started, current' \subseteq current,
         \A i \in current' : calls'[i] = calls[i]
  PROVE  TabInv' /\ \A t \in Tabs : KeepsNewer(t)
<1>1. started' >= started
  BY DEF TabInv, TypeOK
<1>2. TabsFit' /\ \A t \in Tabs : KeepsNewer(t)
  BY <1>1, QuietTabs DEF TabInv
<1>3. \A i \in current : Undisturbed(i)
  BY QuietUndisturbed DEF TabInv
<1>4. CurrentFits'
  BY <1>3, QuietCommands DEF TabInv
<1> QED
  BY <1>2, <1>4 DEF TabInv

(* So does one that starts a command of the active tab, unless the command *)
(* is a query.                                                             *)
LEMMA QuietStart ==
  ASSUME TabInv, TypeOK', MirrorsAgree', \A t \in Tabs : QuietTab(t),
         NEW k \in Kinds \ {"run_query"}, NEW s, NEW e, NEW q, CallFor(k, s, e, q) \in Call,
         NEW S \in SUBSET current, Start(CallFor(k, s, e, q), S)
  PROVE  TabInv' /\ \A t \in Tabs : KeepsNewer(t)
<1>1. started' >= started
  BY DEF TabInv, TypeOK, Start
<1>2. TabsFit' /\ \A t \in Tabs : KeepsNewer(t)
  BY <1>1, QuietTabs DEF TabInv
<1>3. \A i \in S : Undisturbed(i)
  BY QuietUndisturbed DEF TabInv
<1>4. /\ CallFor(k, s, e, q).kind # "run_query"
      /\ CallFor(k, s, e, q).profile \in {view'[CallFor(k, s, e, q).tab].profile, None}
  BY ActiveTab DEF CallFor, TabInv, MirrorsAgree, QuietTab
<1>5. CurrentFits'
  BY <1>3, <1>4, StartedCommands DEF TabInv
<1> QED
  BY <1>2, <1>5 DEF TabInv

(* Every step of the user keeps the invariant.                             *)
LEMMA UserFits ==
  ASSUME TabInv, User
  PROVE  TabInv' /\ \A t \in Tabs : KeepsNewer(t)
<1>0. /\ TypeOK /\ TypeOK' /\ MirrorsAgree /\ CurrentFits /\ TabsFit
      /\ view \in [Tabs -> View] /\ mirror \in View /\ active \in Tabs
      /\ result \in [Tabs -> Result \cup {None}]
      /\ describe \in [Tabs -> Described \cup {None}]
  BY UserTyped, ActiveTab DEF TabInv, TypeOK
<1>q. ASSUME UNCHANGED <<view, result, describe>>
      PROVE  \A t \in Tabs : QuietTab(t)
  BY <1>q DEF QuietTab
<1>m. ASSUME UNCHANGED <<view, mirror, active>> PROVE MirrorsAgree'
  BY <1>0, <1>m DEF MirrorsAgree
<1>1. CASE AddTab
  <2>1. PICK t \in Tabs : Enter(t)
    BY <1>1 DEF AddTab
  <2>2. MirrorsAgree' /\ \A u \in Tabs : QuietTab(u)
    BY <1>0, <1>1, <2>1, EnterFits DEF TabsFit, AddTab, answers
  <2> QED
    BY <1>0, <1>1, <2>2, QuietStep DEF AddTab
<1>2. CASE SwitchTab
  <2>1. PICK t \in Tabs : Enter(t)
    BY <1>0, <1>2 DEF SwitchTab, TypeOK
  <2>2. MirrorsAgree' /\ \A u \in Tabs : QuietTab(u)
    BY <1>0, <1>2, <2>1, EnterFits DEF TabsFit, SwitchTab, answers
  <2> QED
    BY <1>0, <1>2, <2>2, QuietStep DEF SwitchTab
<1>3. CASE CloseTab
  <2>1. \/ Enter(active')
        \/ view' = Saved /\ UNCHANGED <<active, mirror>>
    BY <1>3 DEF CloseTab, Enter
  <2>2. active' \in Tabs
    BY <1>0 DEF TypeOK
  <2>3. UNCHANGED <<result, describe>>
    BY <1>3 DEF CloseTab, answers
  <2>4. CASE Enter(active')
    <3>1. MirrorsAgree' /\ \A u \in Tabs : QuietTab(u)
      BY <1>0, <2>2, <2>3, <2>4, EnterFits DEF TabsFit
    <3> QED
      BY <1>0, <1>3, <3>1, QuietStep DEF CloseTab
  <2>5. CASE view' = Saved /\ UNCHANGED <<active, mirror>>
    <3>1. \A u \in Tabs : QuietTab(u)
      <4>1. \A u \in Tabs : u # active => view'[u] = view[u]
        BY <1>0, <2>5 DEF Saved
      <4>2. /\ view'[active].profile = view[active].profile
            /\ view'[active].listed = view[active].listed
            /\ view'[active].entity = view[active].entity
            /\ view'[active].sidebarOf = mirror.sidebarOf
        BY <1>0, <2>5 DEF Saved, View
      <4> QED
        BY <1>0, <2>3, <4>1, <4>2 DEF QuietTab, MirrorsAgree
    <3>2. MirrorsAgree'
      BY <1>0, <2>5 DEF MirrorsAgree, Saved, View
    <3> QED
      BY <1>0, <1>3, <3>1, <3>2, QuietStep DEF CloseTab
  <2> QED
    BY <2>1, <2>4, <2>5
<1>4. CASE SelectProfile
  <2>1. PICK p \in options \cup {None} :
          /\ view' = [view EXCEPT ![active] = [NewTab EXCEPT !.profile = p]]
          /\ mirror' = [NewTab EXCEPT !.profile = p]
          /\ result' = [result EXCEPT ![active] = None]
          /\ describe' = [describe EXCEPT ![active] = None]
    BY <1>4 DEF SelectProfile
  <2>2. /\ view'[active] = mirror' /\ result'[active] = None /\ describe'[active] = None
        /\ mirror'.profile = p /\ mirror'.listed = None /\ mirror'.sidebarOf = None
        /\ active' = active
    BY <1>0, <1>4, <2>1 DEF SelectProfile, tabBar, NewTab
  <2>3. \A t \in Tabs : t # active => /\ view'[t] = view[t] /\ result'[t] = result[t]
                                      /\ describe'[t] = describe[t]
    BY <1>0, <2>1
  <2>4. MirrorsAgree'
    BY <2>2 DEF MirrorsAgree
  <2>5. started' = started /\ calls' = calls /\ current' = AfterBump("service")
    BY <1>4 DEF SelectProfile
  <2>6. \A i \in current' : i \in current /\ Undisturbed(i)
    <3> SUFFICES ASSUME NEW i \in current' PROVE i \in current /\ Undisturbed(i)
      OBVIOUS
    <3>1. i \in current /\ calls[i].tab \in Tabs
      BY <1>0, <2>5 DEF AfterBump, CurrentFits, TypeOK, Call
    <3>2. calls[i].tab # active \/ calls[i].kind \notin Scoped
      BY <2>5 DEF AfterBump, Outdated, Scoped
    <3> QED
      BY <2>3, <3>1, <3>2 DEF Undisturbed, Scoped
  <2>7. CurrentFits'
    BY <1>0, <2>5, <2>6, QuietCommands
  <2>8. TabsFit'
    BY <1>0, <2>2, <2>3, <2>5 DEF TabsFit, ResultsPast, ProfileSwitchWins, EntitySelectionWins
  <2>9. \A t \in Tabs : KeepsNewer(t)
    BY <1>0, <2>2, <2>3 DEF KeepsNewer, TypeOK, Result
  <2> QED
    BY <1>0, <2>4, <2>7, <2>8, <2>9 DEF TabInv
<1>5. ASSUME NEW q \in Queries, SearchShown(q)
      PROVE  TabInv' /\ \A t \in Tabs : KeepsNewer(t)
  <2>0. /\ ShowCatalog(active, view[active], mirror) /\ view[active] \in View
        /\ active' = active /\ UNCHANGED describe
    BY <1>0, <1>5 DEF SearchShown, tabBar
  <2>1. \A t \in Tabs : QuietTab(t)
    BY <1>0, <2>0, CatalogShown DEF QuietTab, TabsFit, ProfileSwitchWins
  <2>2. MirrorsAgree'
    BY <1>0, <2>0, CatalogShown DEF MirrorsAgree, TabsFit, ProfileSwitchWins
  <2> QED
    BY <1>0, <1>5, <2>1, <2>2, QuietStep DEF SearchShown
<1>6. ASSUME NEW q \in Queries, SearchListed(q)
      PROVE  TabInv' /\ \A t \in Tabs : KeepsNewer(t)
  <2> DEFINE v == [view[active] EXCEPT !.lastSearch = q]
             m == [mirror EXCEPT !.lastSearch = q]
  <2>1. /\ v \in View /\ m \in View
        /\ v.profile = view[active].profile /\ v.listed = view[active].listed
        /\ m.profile = mirror.profile /\ m.listed = mirror.listed
        /\ v.lastSearch = m.lastSearch
    <3>1. view[active] \in View
      BY <1>0
    <3>2. v \in View /\ m \in View
      BY <1>0, <3>1, ShownTyped
    <3>3. /\ v.profile = view[active].profile /\ v.listed = view[active].listed
          /\ v.lastSearch = q
      BY <3>1 DEF View
    <3>4. m.profile = mirror.profile /\ m.listed = mirror.listed /\ m.lastSearch = q
      BY <1>0 DEF View
    <3> QED
      BY <3>2, <3>3, <3>4
  <2>2. ShowCatalog(active, v, m) /\ active' = active /\ UNCHANGED describe
    BY <1>6 DEF SearchListed, tabBar
  <2> HIDE DEF v, m
  <2>3. \A t \in Tabs : QuietTab(t)
    BY <1>0, <2>1, <2>2, CatalogShown DEF QuietTab, TabsFit, ProfileSwitchWins
  <2>4. MirrorsAgree'
    BY <1>0, <2>1, <2>2, CatalogShown DEF MirrorsAgree, TabsFit, ProfileSwitchWins
  <2> QED
    BY <1>0, <1>6, <2>3, <2>4, BumpKeepsLess, QuietStep DEF SearchListed
<1>7. ASSUME NEW q \in Queries, SearchCatalog(q)
      PROVE  TabInv' /\ \A t \in Tabs : KeepsNewer(t)
  <2>1. /\ "get_services" \in Kinds \ {"run_query"}
        /\ CallFor("get_services", None, None, q) \in Call
    BY <1>0, CallTyped DEF Kinds
  <2> QED
    BY <1>0, <1>q, <1>m, <1>7, <2>1, BumpKeepsLess, QuietStart
    DEF SearchCatalog, answers, tabBar
<1>8. CASE ResolveService
  <2>1. /\ "resolve_service" \in Kinds \ {"run_query"}
        /\ CallFor("resolve_service", None, None, None) \in Call
    BY <1>0, CallTyped DEF Kinds
  <2> QED
    BY <1>0, <1>q, <1>m, <1>8, <2>1, BumpKeepsLess, QuietStart
    DEF ResolveService, answers, tabBar
<1>9. ASSUME NEW s \in Services, LoadService(s)
      PROVE  TabInv' /\ \A t \in Tabs : KeepsNewer(t)
  <2>1. /\ "get_entities" \in Kinds \ {"run_query"}
        /\ CallFor("get_entities", s, None, None) \in Call
    BY <1>0, CallTyped, TabAssumption DEF Kinds
  <2>2. /\ view' = [view EXCEPT ![active] = [view[active] EXCEPT !.service = s]]
        /\ mirror' = [mirror EXCEPT !.service = s]
    BY <1>0, <1>9 DEF LoadService, OpenPath
  <2>3. \A t \in Tabs : QuietTab(t)
    BY <1>0, <1>9, <2>2 DEF LoadService, answers, QuietTab, View
  <2>4. MirrorsAgree'
    BY <1>0, <1>9, <2>2 DEF LoadService, tabBar, MirrorsAgree, View
  <2> QED
    BY <1>0, <1>9, <2>1, <2>3, <2>4, BumpKeepsLess, QuietStart DEF LoadService
<1>10. ASSUME NEW e \in Entities, SelectEntity(e)
       PROVE  TabInv' /\ \A t \in Tabs : KeepsNewer(t)
  <2> DEFINE call == CallFor("describe_entity", mirror.service, e, None)
             kept == AfterBump("entity")
  <2>1. /\ call \in Call /\ call.kind = "describe_entity" /\ call.tab = active
        /\ call.profile = mirror.profile
    BY <1>0, CallTyped DEF Kinds, View, CallFor
  <2>2. /\ view' = [view EXCEPT ![active] = [view[active] EXCEPT !.entity = e, !.nested = None]]
        /\ mirror' = [mirror EXCEPT !.entity = e, !.nested = None]
        /\ result' = [result EXCEPT ![active] = None]
        /\ describe' = describe /\ active' = active
        /\ started' = started + 1 /\ Start(call, kept)
    BY <1>0, <1>10 DEF SelectEntity, tabBar, Start
  <2> HIDE DEF call
  <2>3. \A t \in Tabs : /\ view'[t].profile = view[t].profile
                        /\ view'[t].listed = view[t].listed
                        /\ t # active => view'[t] = view[t] /\ result'[t] = result[t]
    BY <1>0, <2>2 DEF View
  <2>4. result'[active] = None
    BY <1>0, <2>2
  <2>5. MirrorsAgree'
    BY <1>0, <2>2 DEF MirrorsAgree, View
  <2>6. \A i \in kept : i \in current /\ Undisturbed(i)
    <3> SUFFICES ASSUME NEW i \in kept PROVE i \in current /\ Undisturbed(i)
      OBVIOUS
    <3>1. i \in current /\ calls[i].tab \in Tabs
      BY <1>0 DEF AfterBump, CurrentFits, TypeOK, Call
    <3>2. calls[i].tab # active \/ calls[i].kind # "run_query"
      BY DEF AfterBump, Outdated
    <3> QED
      BY <2>3, <3>1, <3>2 DEF Undisturbed
  <2>7. call.profile \in {view'[call.tab].profile, None}
    BY <1>0, <2>1, <2>3 DEF MirrorsAgree
  <2>8. CurrentFits'
    <3>1. kept \in SUBSET current
      BY <2>6
    <3> QED
      BY <1>0, <2>1, <2>2, <2>6, <2>7, <3>1, StartedCommands
  <2>9. TabsFit'
    <3>1. \A t \in Tabs : result'[t] # None => result'[t].call <= started'
      BY <1>0, <2>2, <2>3, <2>4, TabAssumption DEF TabsFit, ResultsPast, TypeOK, Result
    <3> QED
      BY <1>0, <2>2, <2>3, <2>4, <3>1 DEF TabsFit, ResultsPast, ProfileSwitchWins,
                                          EntitySelectionWins
  <2>10. \A t \in Tabs : KeepsNewer(t)
    BY <1>0, <2>3, <2>4 DEF KeepsNewer, Result
  <2> QED
    BY <1>0, <2>5, <2>8, <2>9, <2>10 DEF TabInv
<1>11. CASE ExecuteQuery
  <2> DEFINE call == CallFor("run_query", mirror.service, mirror.entity, None)
             kept == AfterBump("query")
  <2>1. /\ call \in Call /\ call.tab = active
        /\ call.profile = mirror.profile /\ call.entity = mirror.entity
    BY <1>0, <1>11, CallTyped DEF Kinds, View, CallFor, ExecuteQuery
  <2>2. /\ Start(call, kept) /\ UNCHANGED <<view, mirror, active, result, describe>>
        /\ started' >= started
    BY <1>0, <1>11 DEF ExecuteQuery, answers, tabBar, Start, TypeOK
  <2> HIDE DEF call
  <2>3. \A t \in Tabs : QuietTab(t)
    BY <2>2, <1>q
  <2>4. TabsFit' /\ \A t \in Tabs : KeepsNewer(t)
    BY <1>0, <2>2, <2>3, QuietTabs
  <2>5. kept \in SUBSET current /\ \A i \in kept : Undisturbed(i)
    BY <1>0, <2>3, BumpKeepsLess, QuietUndisturbed
  <2>6. \A i \in kept : calls[i].kind # "run_query" \/ calls[i].tab # call.tab
    BY <2>1 DEF AfterBump, Outdated
  <2>7. /\ call.profile \in {view'[call.tab].profile, None}
        /\ view'[call.tab].entity \in {call.entity, None}
    BY <1>0, <2>1, <2>2 DEF MirrorsAgree
  <2>8. result'[call.tab] # None => result'[call.tab].call \in 0 .. started
    <3> SUFFICES ASSUME result[active] # None PROVE result[active].call \in 0 .. started
      BY <2>1, <2>2
    <3>1. result[active].call \in Nat /\ result[active].call <= started
      BY <1>0 DEF TabsFit, ResultsPast, Result
    <3> QED
      BY <3>1 DEF TypeOK, TabInv
  <2>9. CurrentFits'
    BY <1>0, <2>1, <2>2, <2>5, <2>6, <2>7, <2>8, StartedCommands
  <2> QED
    BY <1>0, <1>m, <2>2, <2>4, <2>9 DEF TabInv
<1>12. CASE LoadRowNavigation
  <2>1. /\ "navigation" \in Kinds \ {"run_query"}
        /\ CallFor("navigation", mirror.service, mirror.entity, None) \in Call
    BY <1>0, CallTyped DEF Kinds, View
  <2> QED
    BY <1>0, <1>q, <1>m, <1>12, <2>1, QuietStart DEF LoadRowNavigation, answers, tabBar
<1>13. CASE RemoveProfile
  <2>1. /\ "remove_profile" \in Kinds \ {"run_query"}
        /\ CallFor("remove_profile", None, None, None) \in Call
    BY <1>0, CallTyped DEF Kinds
  <2> QED
    BY <1>0, <1>q, <1>m, <1>13, <2>1, QuietStart DEF RemoveProfile, answers, tabBar
<1> QED
  BY <1>1, <1>2, <1>3, <1>4, <1>5, <1>6, <1>7, <1>8, <1>9, <1>10, <1>11, <1>12, <1>13 DEF User

(* Every answer keeps the invariant.                                       *)
LEMMA AnswerFits ==
  ASSUME TabInv, NEW i \in 1 .. MaxCalls, Answer(i)
  PROVE  TabInv' /\ \A t \in Tabs : KeepsNewer(t)
<1>0. /\ TypeOK /\ TypeOK' /\ MirrorsAgree /\ CurrentFits /\ TabsFit
      /\ view \in [Tabs -> View] /\ mirror \in View /\ active \in Tabs
      /\ result \in [Tabs -> Result \cup {None}]
      /\ describe \in [Tabs -> Described \cup {None}]
  BY AnswerTyped, ActiveTab DEF TabInv, TypeOK
<1>c. /\ calls \in [1 .. MaxCalls -> Call \cup {None}] /\ current \subseteq 1 .. MaxCalls
      /\ calls[i] # None => calls[i] \in Call /\ calls[i].tab \in Tabs
  BY <1>0 DEF TypeOK, Call
<1>q. ASSUME UNCHANGED <<view, result, describe>>
      PROVE  \A t \in Tabs : QuietTab(t)
  BY <1>q DEF QuietTab
<1>f. ASSUME Finish(i)
      PROVE  /\ started' = started /\ active' = active /\ current' \subseteq current
             /\ \A j \in current' : calls'[j] = calls[j]
  BY <1>c, <1>f DEF Finish, tabBar
<1>s. ASSUME ScopeActive(i), calls[i].kind \in Scoped, calls[i] # None
      PROVE  /\ calls[i].tab = active
             /\ calls[i].profile \in {view[active].profile, None}
  BY <1>0, <1>s DEF ScopeActive, CurrentFits
<1>1. CASE Drop(i)
  <2>1. Finish(i) /\ UNCHANGED <<view, mirror, result, describe>>
    BY <1>1 DEF Drop
  <2>2. MirrorsAgree'
    BY <1>0, <1>f, <2>1 DEF MirrorsAgree
  <2> QED
    BY <1>0, <1>q, <1>f, <2>1, <2>2, QuietStep
<1>2. CASE GotServices(i)
  <2> DEFINE p == calls[i].profile
             Listed(w) == [w EXCEPT !.listed = p, !.lastSearch = calls[i].query]
             v == Listed(view[active])
             m == Listed(mirror)
  <2>1. /\ calls[i] # None /\ calls[i] \in Call /\ calls[i].tab = active
        /\ p = view[active].profile /\ p \in Profiles
        /\ calls[i].query \in Queries \cup {None}
    BY <1>0, <1>c, <1>s, <1>2 DEF GotServices, Waits, MayAnswer, Scoped, ServiceKinds, Call
  <2>2. /\ v \in View /\ m \in View
        /\ v.profile = view[active].profile /\ v.listed = p
        /\ m.profile = mirror.profile /\ m.listed = p
        /\ v.lastSearch = m.lastSearch
    <3>1. view[active] \in View
      BY <1>0
    <3>2. v \in View /\ m \in View
      BY <1>0, <2>1, <3>1, ShownTyped
    <3>3. v.profile = view[active].profile /\ v.listed = p /\ v.lastSearch = calls[i].query
      BY <3>1 DEF View
    <3>4. m.profile = mirror.profile /\ m.listed = p /\ m.lastSearch = calls[i].query
      BY <1>0 DEF View
    <3> QED
      BY <3>2, <3>3, <3>4
  <2>3. ShowCatalog(active, v, m) /\ Finish(i) /\ UNCHANGED describe
    BY <1>2, <2>1 DEF GotServices
  <2> HIDE DEF p, v, m
  <2>4. /\ view'[active].profile = p /\ view'[active].listed = p
        /\ view'[active].entity = None /\ view'[active].sidebarOf = p
        /\ result'[active] \in {result[active], None}
        /\ \A t \in Tabs \ {active} : view'[t] = view[t] /\ result'[t] = result[t]
    BY <1>0, <2>1, <2>2, <2>3, CatalogShown
  <2>5. MirrorsAgree'
    BY <1>0, <1>f, <2>1, <2>2, <2>3, CatalogShown DEF MirrorsAgree
  <2>6. \A j \in current : Undisturbed(j)
    BY <1>0, <1>c, <2>1, <2>4 DEF Undisturbed, CurrentFits, TypeOK, Call
  <2>7. CurrentFits'
    BY <1>0, <1>f, <2>3, <2>6, QuietCommands
  <2>8. TabsFit'
    BY <1>0, <1>f, <2>1, <2>3, <2>4
    DEF TabsFit, ResultsPast, ProfileSwitchWins, EntitySelectionWins
  <2>9. \A t \in Tabs : KeepsNewer(t)
    <3>1. \A t \in Tabs : result'[t] \in {result[t], None} /\ (result[t] # None => result[t].call \in Nat)
      BY <1>0, <2>4, TabAssumption DEF Result
    <3> QED
      BY <3>1 DEF KeepsNewer
  <2> QED
    BY <1>0, <2>5, <2>7, <2>8, <2>9 DEF TabInv
<1>3. CASE ResolvedService(i)
  <2>1. PICK s \in Services :
          /\ OpenPath(active, s)
          /\ calls' = [calls EXCEPT ![i] = CallFor("get_entities", s, None, None)]
    BY <1>3 DEF ResolvedService
  <2> DEFINE call == CallFor("get_entities", s, None, None)
  <2>2. /\ view' = [view EXCEPT ![active] = [view[active] EXCEPT !.service = s]]
        /\ mirror' = [mirror EXCEPT !.service = s]
        /\ UNCHANGED <<result, describe, current, started, active>>
    BY <1>0, <1>3, <2>1 DEF ResolvedService, OpenPath, tabBar
  <2>3. \A t \in Tabs : QuietTab(t)
    BY <1>0, <2>2 DEF QuietTab, View
  <2>4. MirrorsAgree'
    BY <1>0, <2>2 DEF MirrorsAgree, View
  <2>5. TabsFit' /\ \A t \in Tabs : KeepsNewer(t)
    <3>1. started' >= started
      BY <1>0, <2>2 DEF TypeOK
    <3> QED
      BY <1>0, <2>3, <3>1, QuietTabs
  <2>6. /\ call # None /\ call.kind # "run_query"
        /\ call.profile \in {view'[call.tab].profile, None}
    <3>1. call \in Call
      BY <1>0, CallTyped, TabAssumption DEF Kinds
    <3>2. call # None
      BY <3>1, NoneAssumption
    <3>3. call.kind = "get_entities" /\ call.tab = active /\ call.profile = mirror.profile
      BY DEF CallFor
    <3>4. view'[active].profile = view[active].profile
      BY <1>0, <2>3 DEF QuietTab
    <3> QED
      BY <1>0, <3>2, <3>3, <3>4 DEF MirrorsAgree
  <2>7. calls'[i] = call /\ \A j \in current : j # i => calls'[j] = calls[j]
    BY <1>c, <2>1
  <2> HIDE DEF call
  <2>8. \A j \in current : Undisturbed(j)
    BY <1>0, <2>3, QuietUndisturbed
  <2>9. CurrentFits'
    BY <1>0, <2>2, <2>6, <2>7, <2>8, QuietCommands
  <2> QED
    BY <1>0, <2>4, <2>5, <2>9 DEF TabInv
<1>4. CASE GotEntities(i)
  <2>1. /\ view' = [view EXCEPT ![active] = [view[active] EXCEPT !.sidebar = calls[i].service,
                                                                 !.sidebarOf = calls[i].profile,
                                                                 !.nested = None]]
        /\ mirror' = [mirror EXCEPT !.sidebar = calls[i].service, !.sidebarOf = calls[i].profile,
                                    !.nested = None]
        /\ result' = [result EXCEPT ![calls[i].tab] = None]
        /\ Finish(i) /\ UNCHANGED describe
    BY <1>0, <1>4 DEF GotEntities
  <2>0. calls[i].profile \in {view[active].profile, None}
    BY <1>s, <1>4 DEF GotEntities, Waits, Scoped, ServiceKinds
  <2>a. /\ view'[active].profile = view[active].profile
        /\ view'[active].listed = view[active].listed
        /\ view'[active].entity = view[active].entity
        /\ view'[active].service = view[active].service
        /\ view'[active].lastSearch = view[active].lastSearch
        /\ view'[active].sidebarOf = calls[i].profile
        /\ \A t \in Tabs \ {active} : view'[t] = view[t]
    BY <1>0, <2>1 DEF View
  <2>b. \A t \in Tabs : result'[t] \in {result[t], None}
    BY <1>0, <2>1
  <2>c. /\ mirror'.profile = mirror.profile /\ mirror'.listed = mirror.listed
        /\ mirror'.entity = mirror.entity /\ mirror'.service = mirror.service
        /\ mirror'.lastSearch = mirror.lastSearch
        /\ mirror'.sidebarOf = calls[i].profile
    BY <1>0, <2>1 DEF View
  <2>2. \A t \in Tabs : QuietTab(t)
    BY <1>0, <2>0, <2>1, <2>a, <2>b DEF QuietTab
  <2>3. MirrorsAgree'
    BY <1>0, <1>f, <2>0, <2>1, <2>a, <2>c DEF MirrorsAgree
  <2> QED
    BY <1>0, <1>f, <2>1, <2>2, <2>3, QuietStep
<1>5. CASE GotDescribe(i)
  <2>1. /\ calls[i] # None /\ calls[i] \in Call /\ calls[i].tab = active
        /\ calls[i].profile = view[active].profile
    BY <1>0, <1>c, <1>s, <1>5 DEF GotDescribe, Waits, MayAnswer, Scoped, Call
  <2>2. /\ describe'[active].info[1] = view[active].profile
        /\ \A t \in Tabs \ {active} : describe'[t] = describe[t]
        /\ Finish(i) /\ UNCHANGED <<view, mirror, result>>
    BY <1>0, <1>5, <2>1 DEF GotDescribe, ContextOf
  <2>3. MirrorsAgree'
    BY <1>0, <1>f, <2>2 DEF MirrorsAgree
  <2>4. \A j \in current : Undisturbed(j)
    BY <2>2 DEF Undisturbed
  <2>5. CurrentFits'
    BY <1>0, <1>f, <2>2, <2>4, QuietCommands
  <2>6. TabsFit'
    BY <1>0, <1>f, <2>2 DEF TabsFit, ResultsPast, ProfileSwitchWins, EntitySelectionWins
  <2>7. \A t \in Tabs : KeepsNewer(t)
    BY <1>0, <2>2 DEF KeepsNewer, Result
  <2> QED
    BY <1>0, <2>3, <2>5, <2>6, <2>7 DEF TabInv
<1>6. CASE GotRows(i)
  <2> DEFINE c == calls[i]
             r == [profile |-> c.profile, service |-> c.service, entity |-> c.entity, call |-> i]
  <2>1. /\ c # None /\ c \in Call /\ c.tab = active /\ c.kind = "run_query" /\ i \in current
        /\ c.profile = view[active].profile
    BY <1>0, <1>c, <1>s, <1>6 DEF GotRows, Waits, Scoped, Call, ScopeActive
  <2>2. /\ view[active].entity \in {c.entity, None} /\ i <= started
        /\ result[active] # None => result[active].call < i
        /\ \A j \in current : calls[j].kind = "run_query" /\ calls[j].tab = active => j = i
    BY <1>0, <2>1 DEF CurrentFits, TypeOK
  <2>3. /\ result' = [result EXCEPT ![active] = r]
        /\ Finish(i) /\ mirror' = [mirror EXCEPT !.nested = None]
        /\ UNCHANGED <<view, describe>>
    BY <1>6 DEF GotRows
  <2>4. /\ result'[active].call = i /\ result'[active].profile = c.profile
        /\ result'[active].entity = c.entity
        /\ \A t \in Tabs \ {active} : result'[t] = result[t]
    BY <1>0, <2>3
  <2> HIDE DEF c, r
  <2>5. MirrorsAgree'
    BY <1>0, <1>f, <2>3 DEF MirrorsAgree, View
  <2>6. \A j \in current' : Undisturbed(j)
    <3> SUFFICES ASSUME NEW j \in current' PROVE Undisturbed(j)
      OBVIOUS
    <3>1. j \in current /\ j # i /\ calls[j].tab \in Tabs
      BY <1>0, <1>c, <2>3 DEF Finish, CurrentFits, Call
    <3> QED
      BY <2>2, <2>3, <2>4, <3>1 DEF Undisturbed
  <2>7. CurrentFits'
    BY <1>0, <1>f, <2>3, <2>6, QuietCommands
  <2>8. TabsFit'
    BY <1>0, <1>f, <2>1, <2>2, <2>3, <2>4
    DEF TabsFit, ResultsPast, ProfileSwitchWins, EntitySelectionWins
  <2>9. \A t \in Tabs : KeepsNewer(t)
    <3> SUFFICES ASSUME NEW t \in Tabs, result[t] # None, result'[t] # None
                 PROVE  result'[t].call >= result[t].call
      BY DEF KeepsNewer
    <3>1. result[t].call \in Nat
      BY <1>0 DEF Result
    <3> QED
      BY <2>2, <2>4, <3>1
  <2> QED
    BY <1>0, <2>5, <2>7, <2>8, <2>9 DEF TabInv
<1>7. CASE QueryError(i)
  <2>1. /\ view' = [view EXCEPT ![active] = [view[active] EXCEPT !.nested = None]]
        /\ mirror' = [mirror EXCEPT !.nested = None]
        /\ result' = [result EXCEPT ![active] = None]
        /\ Finish(i) /\ UNCHANGED describe
    BY <1>0, <1>7 DEF QueryError
  <2>2. \A t \in Tabs : QuietTab(t)
    BY <1>0, <2>1 DEF QuietTab, View
  <2>3. MirrorsAgree'
    BY <1>0, <1>f, <2>1 DEF MirrorsAgree, View
  <2> QED
    BY <1>0, <1>f, <2>1, <2>2, <2>3, QuietStep
<1>8. CASE GotNavigation(i)
  <2>1. /\ mirror' = [mirror EXCEPT !.nested = calls[i].tab]
        /\ Finish(i) /\ UNCHANGED <<view, result, describe>>
    BY <1>8 DEF GotNavigation
  <2>2. MirrorsAgree'
    BY <1>0, <1>f, <2>1 DEF MirrorsAgree, View
  <2> QED
    BY <1>0, <1>q, <1>f, <2>1, <2>2, QuietStep
<1>9. CASE ProfileRemoved(i)
  <2>1. /\ mirror' = [mirror EXCEPT !.profile = None, !.listed = None, !.sidebar = "none",
                                    !.sidebarOf = None, !.nested = None]
        /\ calls' = [calls EXCEPT ![i].kind = "get_profiles"]
        /\ UNCHANGED <<active, view, result, describe, current, started>>
    BY <1>9 DEF ProfileRemoved
  <2>2. MirrorsAgree'
    BY <1>0, <2>1 DEF MirrorsAgree, View
  <2>3. /\ calls[i] \in Call
        /\ calls'[i] = [calls[i] EXCEPT !.kind = "get_profiles"]
        /\ \A j \in current : j # i => calls'[j] = calls[j]
    BY <1>c, <1>9, <2>1 DEF ProfileRemoved, Waits
  <2>4. calls'[i] # None /\ calls'[i].kind = "get_profiles"
    <3>1. calls'[i] \in Call \cup {None} /\ calls'[i].kind = "get_profiles"
      BY <1>0, <2>3 DEF TypeOK, Call
    <3>2. [calls[i] EXCEPT !.kind = "get_profiles"] \in Call
      BY <1>9, <2>3 DEF Call, Kinds, ProfileRemoved, Waits
    <3> QED
      BY <2>3, <3>1, <3>2, NoneAssumption
  <2>5. \A j \in current : Undisturbed(j)
    BY <1>0, <1>q, <2>1, QuietUndisturbed
  <2>6. CurrentFits'
    BY <1>0, <2>1, <2>3, <2>4, <2>5, QuietCommands DEF Scoped, ServiceKinds
  <2>7. TabsFit' /\ \A t \in Tabs : KeepsNewer(t)
    <3>1. started' >= started
      BY <1>0, <2>1 DEF TypeOK
    <3> QED
      BY <1>0, <1>q, <2>1, <3>1, QuietTabs
  <2> QED
    BY <1>0, <2>2, <2>6, <2>7 DEF TabInv
<1>10. CASE GotProfiles(i)
  <2>1. /\ mirror' = [mirror EXCEPT !.profile = IF mirror.profile \in profiles
                                               THEN mirror.profile ELSE None]
        /\ UNCHANGED <<active, view, result, describe, started>>
        /\ current' \subseteq current /\ \A j \in current' : calls'[j] = calls[j]
    BY <1>0, <1>c, <1>10 DEF GotProfiles, answers, View
  <2>2. MirrorsAgree'
    BY <1>0, <2>1 DEF MirrorsAgree, View
  <2> QED
    BY <1>0, <1>q, <2>1, <2>2, QuietStep
<1>11. CASE ProfileError(i)
  <2>1. Finish(i) /\ UNCHANGED <<view, mirror, result, describe>>
    BY <1>11 DEF ProfileError, answers
  <2>2. MirrorsAgree'
    BY <1>0, <1>f, <2>1 DEF MirrorsAgree
  <2> QED
    BY <1>0, <1>q, <1>f, <2>1, <2>2, QuietStep
<1> QED
  BY <1>1, <1>2, <1>3, <1>4, <1>5, <1>6, <1>7, <1>8, <1>9, <1>10, <1>11 DEF Answer

(* A step of the app keeps the invariant, and newer results.               *)
LEMMA StepFits == TabInv /\ [Next]_vars => TabInv' /\ \A t \in Tabs : KeepsNewer(t)
<1> SUFFICES ASSUME TabInv, [Next]_vars PROVE TabInv' /\ \A t \in Tabs : KeepsNewer(t)
  OBVIOUS
<1>1. CASE User
  BY <1>1, UserFits
<1>2. ASSUME NEW i \in 1 .. MaxCalls, Answer(i)
      PROVE  TabInv' /\ \A t \in Tabs : KeepsNewer(t)
  BY <1>2, AnswerFits
<1>3. CASE UNCHANGED vars
  <2>1. \A t \in Tabs : KeepsNewer(t)
    BY <1>3 DEF vars, KeepsNewer, TabInv, TypeOK, Result
  <2> QED
    BY <1>3, <2>1 DEF vars, TabInv, TypeOK, OpenTabs, MirrorsAgree, CurrentFits, TabsFit,
                      ResultsPast, ProfileSwitchWins, EntitySelectionWins
<1> QED
  BY <1>1, <1>2, <1>3 DEF Next

(* Init and the steps give the invariant.                                  *)
THEOREM TabInvariant == Spec => []TabInv
<1>1. Init => TypeOK
  BY InitTyped
<1>2. Init => TabInv
  <2> SUFFICES ASSUME Init PROVE TabInv
    OBVIOUS
  <2>1. MirrorsAgree
    BY <1>1, ActiveTab DEF Init, MirrorsAgree, TypeOK, NewTab
  <2>2. CurrentFits /\ TabsFit
    BY DEF Init, CurrentFits, TabsFit, ResultsPast, ProfileSwitchWins, EntitySelectionWins, NewTab
  <2> QED
    BY <1>1, <2>1, <2>2 DEF TabInv
<1>3. TabInv /\ [Next]_vars => TabInv'
  BY StepFits
<1> QED
  BY <1>2, <1>3, PTL DEF Spec

(* The mirrors stand for the tab that is active.                           *)
THEOREM MirrorsOfActiveTab == Spec => []MirrorsAgree
<1>1. TabInv => MirrorsAgree
  BY DEF TabInv
<1> QED
  BY <1>1, TabInvariant, PTL

(* No answer to an earlier profile of a tab lands in it.                   *)
THEOREM ProfileOfAnswers == Spec => []ProfileSwitchWins
<1>1. TabInv => ProfileSwitchWins
  BY DEF TabInv, TabsFit
<1> QED
  BY <1>1, TabInvariant, PTL

(* No rows of an entity set deselected meanwhile land in a tab.            *)
THEOREM EntityOfRows == Spec => []EntitySelectionWins
<1>1. TabInv => EntitySelectionWins
  BY DEF TabInv, TabsFit
<1> QED
  BY <1>1, TabInvariant, PTL

(* The rows of a query are never replaced by those of an older one.        *)
THEOREM NewerRowsStay == Spec => NewestQueryWins
<1>1. TabInv /\ [Next]_vars => [\A t \in Tabs : KeepsNewer(t)]_vars
  BY StepFits
<1> QED
  BY <1>1, TabInvariant, PTL DEF Spec, NewestQueryWins
=============================================================================
