----------------------------- MODULE TabRequests -----------------------------
(***************************************************************************)
(* The tabs of the desktop app and the requests they start.  Every command *)
(* is an async function: it starts in the active tab, waits for the        *)
(* backend, and goes on in whatever state the user has brought the app to  *)
(* meanwhile.  A scope taken at the start tells it whether to go on: the   *)
(* tab must be active, and no newer request of its level, nor a change     *)
(* above it, must have started in that tab.                                *)
(*                                                                         *)
(* `view` is what a tab remembers, `mirror` the fields of `state` and the  *)
(* sidebar on screen that stand for the active tab.  Answers of the        *)
(* backend are names of what was asked for; they arrive in any order, and  *)
(* any of them may be an error.                                            *)
(***************************************************************************)
EXTENDS Naturals, Sequences, SequencesExt

CONSTANTS
  Tabs,        \* tab ids, never reissued
  Profiles,
  Services,
  EntitiesOf,  \* the entity sets of each service
  Queries,     \* search texts
  None,        \* null
  MaxCalls     \* bound: commands started

Entities == UNION {EntitiesOf[s] : s \in Services}

ASSUME TabAssumption ==
  /\ None \notin Tabs \cup Profiles \cup Services \cup Entities \cup Queries
  /\ {"none", "services"} \cap Services = {}
  /\ MaxCalls \in Nat

VARIABLES
  profiles,  \* the profiles the backend has
  options,   \* those in the dropdown, state.profileMap
  open,      \* the open tabs, in the order of the tab bar
  used,      \* tab ids handed out
  active,    \* state.activeTabId
  view,      \* per tab: the fields restoreTabUI mirrors
  mirror,    \* state.current*, state.cachedServices and the sidebar on screen
  result,    \* per tab: the cached query result and what it answers
  describe,  \* per tab: the describe info and the context it was filed under
  trace,     \* per tab: the profile whose HTTP trace it shows
  calls,     \* the commands that wait for an answer
  current,   \* those whose captured generation is still the tab's
  started    \* counter of MaxCalls

answers == <<result, describe, trace>>
tabBar == <<profiles, options, open, used, active>>
vars == <<profiles, options, open, used, active, view, mirror, result, describe, trace,
          calls, current, started>>

\* What the sidebar lists: nothing, a catalog, or the entity sets of a service.
Sidebars == {"none", "services"} \cup Services

\* `listed` is the profile of cachedServices, `sidebarOf` the one whose answer the sidebar
\* shows, `nested` the tab whose related rows are in expandedDataStore.
View == [profile : Profiles \cup {None}, service : Services \cup {None},
         entity : Entities \cup {None}, listed : Profiles \cup {None},
         lastSearch : Queries \cup {None}, sidebar : Sidebars, sidebarOf : Profiles \cup {None},
         nested : Tabs \cup {None}]

NewTab == [profile |-> None, service |-> None, entity |-> None, listed |-> None,
           lastSearch |-> None, sidebar |-> "none", sidebarOf |-> None, nested |-> None]

Context == (Profiles \cup {None}) \X (Services \cup {None}) \X (Entities \cup {None})

Kinds == {"get_services", "resolve_service", "get_entities", "describe_entity", "run_query",
          "navigation", "remove_profile", "get_profiles"}

\* A command under way: the tab it started in and its arguments; a load has a service,
\* a query is only sent with everything selected.
Call ==
  {c \in [kind : Kinds, tab : Tabs, profile : Profiles \cup {None},
          service : Services \cup {None}, entity : Entities \cup {None},
          query : Queries \cup {None}] :
     /\ c.kind \in {"get_entities", "run_query"} => c.service # None
     /\ c.kind = "run_query" => c.profile # None /\ c.entity # None}

ASSUME NoneAssumption == None \notin Call

ServiceKinds == {"get_services", "resolve_service", "get_entities"}

\* Mutant: a bump leaves the inner levels alone.
OutdatedOwnLevel(level) == CASE level = "service" -> ServiceKinds
                             [] level = "entity"  -> {"describe_entity"}
                             [] level = "query"   -> {"run_query"}

\* Mutant: a bump leaves its own level alone.
OutdatedInner(level) == CASE level = "service" -> {"describe_entity", "run_query"}
                          [] level = "entity"  -> {"run_query"}
                          [] level = "query"   -> {}

\* The commands whose generation a bump of `level` moves on: that level and the
\* inner ones.
Outdated(level) == CASE level = "service" -> ServiceKinds \cup {"describe_entity", "run_query"}
                     [] level = "entity"  -> {"describe_entity", "run_query"}
                     [] level = "query"   -> {"run_query"}

Result == [profile : Profiles, service : Services, entity : Entities, call : 1 .. MaxCalls]
Described == [info : Context, key : Context]
OpenTabs == ToSet(open)

(* Types; the active tab is open.                                          *)
TypeOK ==
  /\ profiles \subseteq Profiles
  /\ options \subseteq Profiles
  /\ open \in Seq(Tabs) /\ OpenTabs \subseteq used
  /\ used \subseteq Tabs
  /\ active \in OpenTabs
  /\ view \in [Tabs -> View]
  /\ mirror \in View
  /\ result \in [Tabs -> Result \cup {None}]
  /\ describe \in [Tabs -> Described \cup {None}]
  /\ trace \in [Tabs -> Profiles \cup {None}]
  /\ calls \in [1 .. MaxCalls -> Call \cup {None}]
  /\ current \subseteq 1 .. MaxCalls
  /\ started \in 0 .. MaxCalls

Init ==
  /\ profiles = Profiles
  /\ options = Profiles
  /\ \E t \in Tabs : open = <<t>> /\ used = {t} /\ active = t
  /\ view = [t \in Tabs |-> NewTab]
  /\ mirror = NewTab
  /\ result = [t \in Tabs |-> None]
  /\ describe = [t \in Tabs |-> None]
  /\ trace = [t \in Tabs |-> None]
  /\ calls = [i \in 1 .. MaxCalls |-> None]
  /\ current = {}
  /\ started = 0
-----------------------------------------------------------------------------
(***************************************************************************)
(* The tab bar.  Leaving a tab saves what is on screen into it, entering   *)
(* one restores the mirrors from it.                                       *)
(***************************************************************************)
\* saveCurrentTabState: what only the screen has.
Saved ==
  [view EXCEPT ![active] = [@ EXCEPT !.sidebar = mirror.sidebar, !.sidebarOf = mirror.sidebarOf,
                                     !.nested = mirror.nested]]

\* restoreTabUI: a cached result renders anew and drops the related rows.
Restored(t) == [Saved[t] EXCEPT !.nested = IF result[t] = None THEN @ ELSE None]

\* Mutant: the mirrors are not restored.
EnterUnrestored(t) == active' = t /\ view' = Saved /\ UNCHANGED mirror

Enter(t) == active' = t /\ view' = Saved /\ mirror' = Restored(t)

AddTab ==
  /\ \E t \in Tabs \ used : /\ open' = Append(open, t)
                            /\ used' = used \cup {t}
                            /\ Enter(t)
  /\ UNCHANGED <<profiles, options, answers, calls, current, started>>

SwitchTab ==
  /\ \E t \in OpenTabs : Enter(t)
  /\ UNCHANGED <<profiles, options, open, used, answers, calls, current, started>>

\* The last tab stays; closing the active one enters its right neighbour, or the last.
CloseTab ==
  /\ Len(open) > 1
  /\ \E i \in 1 .. Len(open) :
       /\ open' = RemoveAt(open, i)
       /\ IF open[i] = active
          THEN Enter(open'[IF i < Len(open) THEN i ELSE i - 1])
          ELSE view' = Saved /\ UNCHANGED <<active, mirror>>
  /\ UNCHANGED <<profiles, options, used, answers, calls, current, started>>
-----------------------------------------------------------------------------
(***************************************************************************)
(* Starting a command.  A bump makes the commands of the tab at its level  *)
(* and below stale; the new command is current.                            *)
(***************************************************************************)
AfterBump(level) ==
  {i \in current : calls[i].tab # active \/ calls[i].kind \notin Outdated(level)}

Start(call, stillCurrent) ==
  /\ started < MaxCalls
  /\ started' = started + 1
  /\ calls' = [calls EXCEPT ![started'] = call]
  /\ current' = stillCurrent \cup {started'}

CallFor(kind, service, entity, query) ==
  [kind |-> kind, tab |-> active, profile |-> mirror.profile,
   service |-> service, entity |-> entity, query |-> query]

\* Mutant: requests in flight are not invalidated.
SelectProfileKeepsRequests ==
  \E p \in options \cup {None} :
    /\ p # mirror.profile
    /\ view' = [view EXCEPT ![active] = [NewTab EXCEPT !.profile = p]]
    /\ mirror' = [NewTab EXCEPT !.profile = p]
    /\ result' = [result EXCEPT ![active] = None]
    /\ describe' = [describe EXCEPT ![active] = None]
    /\ trace' = [trace EXCEPT ![active] = None]
    /\ UNCHANGED <<tabBar, calls, current, started>>

\* The profile dropdown.
SelectProfile ==
  \E p \in options \cup {None} :
    /\ p # mirror.profile
    /\ view' = [view EXCEPT ![active] = [NewTab EXCEPT !.profile = p]]
    /\ mirror' = [NewTab EXCEPT !.profile = p]
    /\ result' = [result EXCEPT ![active] = None]
    /\ describe' = [describe EXCEPT ![active] = None]
    /\ trace' = [trace EXCEPT ![active] = None]
    /\ current' = AfterBump("service")
    /\ UNCHANGED <<tabBar, calls, started>>

\* renderServiceList: back to a catalog, with nothing selected.  A list without services
\* returns before it gets to the rows of the last query.
Catalog(v, profile, rows) ==
  [v EXCEPT !.sidebar = "services", !.sidebarOf = profile, !.service = None, !.entity = None,
            !.nested = IF rows THEN @ ELSE None]

ShowCatalog(t, v, m) ==
  \E empty \in BOOLEAN :
    /\ view' = [view EXCEPT ![t] = Catalog(v, v.listed, empty)]
    /\ mirror' = Catalog(m, v.listed, empty)
    /\ result' = IF empty THEN result ELSE [result EXCEPT ![active] = None]

\* The tab already shows this search: it is rendered from the cache, without a scope.
IsShown(query) == view[active].listed # None /\ view[active].lastSearch = query

SearchShown(query) ==
  /\ mirror.profile # None
  /\ IsShown(query)
  /\ ShowCatalog(active, view[active], mirror)
  /\ UNCHANGED <<tabBar, describe, trace, calls, current, started>>

\* Another search in the catalog the tab has.
SearchListed(query) ==
  /\ mirror.profile # None
  /\ ~IsShown(query)
  /\ mirror.listed # None
  /\ ShowCatalog(active, [view[active] EXCEPT !.lastSearch = query],
                         [mirror EXCEPT !.lastSearch = query])
  /\ current' = AfterBump("service")
  /\ UNCHANGED <<tabBar, describe, trace, calls, started>>

\* A search that fetches the catalog first.
SearchCatalog(query) ==
  /\ mirror.profile # None
  /\ ~IsShown(query)
  /\ mirror.listed = None
  /\ Start(CallFor("get_services", None, None, query), AfterBump("service"))
  /\ UNCHANGED <<tabBar, view, mirror, answers>>

\* A service picked or typed by name, which the backend resolves first.
ResolveService ==
  /\ mirror.profile # None
  /\ Start(CallFor("resolve_service", None, None, None), AfterBump("service"))
  /\ UNCHANGED <<tabBar, view, mirror, answers>>

\* The service path is known: it is shown, and its entity sets are fetched.
OpenPath(t, service) ==
  /\ view' = [view EXCEPT ![t].service = service]
  /\ mirror' = [mirror EXCEPT !.service = service]

\* A service path pasted or taken from a catalog entry.
LoadService(service) ==
  /\ mirror.profile # None
  /\ OpenPath(active, service)
  /\ Start(CallFor("get_entities", service, None, None), AfterBump("service"))
  /\ UNCHANGED <<tabBar, answers>>

SelectEntity(entity) ==
  /\ mirror.sidebar \in Services
  /\ entity \in EntitiesOf[mirror.sidebar]
  /\ LET Selected(v) == [v EXCEPT !.entity = entity, !.nested = None] IN
     /\ view' = [view EXCEPT ![active] = Selected(@)]
     /\ mirror' = Selected(mirror)
  /\ result' = [result EXCEPT ![active] = None]
  /\ Start(CallFor("describe_entity", mirror.service, entity, None), AfterBump("entity"))
  /\ UNCHANGED <<tabBar, describe, trace>>

\* Mutant: a query is sent whatever is selected.
ExecuteQueryUnguarded ==
  /\ Start(CallFor("run_query", mirror.service, mirror.entity, None), AfterBump("query"))
  /\ UNCHANGED <<tabBar, view, mirror, answers>>

ExecuteQuery ==
  /\ mirror.profile # None /\ mirror.service # None /\ mirror.entity # None
  /\ Start(CallFor("run_query", mirror.service, mirror.entity, None), AfterBump("query"))
  /\ UNCHANGED <<tabBar, view, mirror, answers>>

ContextOf(v) == <<v.profile, v.service, v.entity>>

\* currentDescribeInfo: the cached info while the tab is in the context it was filed under.
HasDescribe(t) == describe[t] # None /\ describe[t].key = ContextOf(view[t])

\* Related rows of a result row; the command takes no scope.
LoadRowNavigation ==
  /\ result[active] # None /\ HasDescribe(active)
  /\ Start(CallFor("navigation", mirror.service, mirror.entity, None), current)
  /\ UNCHANGED <<tabBar, view, mirror, answers>>

RemoveProfile ==
  /\ mirror.profile # None
  /\ Start(CallFor("remove_profile", None, None, None), current)
  /\ UNCHANGED <<tabBar, view, mirror, answers>>
-----------------------------------------------------------------------------
(***************************************************************************)
(* Answers.  timedInvoke files the trace under the origin tab whatever     *)
(* became of it, closed tabs excepted; then the command goes on, or stops  *)
(* at `if (!scope.active()) return`.                                       *)
(***************************************************************************)
Waits(i, kind) == calls[i] # None /\ calls[i].kind = kind

\* Mutant: the scope does not ask which tab is active.
ScopeActiveAnyTab(i) == i \in current

\* scope.active().
ScopeActive(i) == active = calls[i].tab /\ i \in current

\* The backend needs every argument; an error may come for any reason.
MayAnswer(call) == call.profile # None

TraceTo(call) ==
  trace' = IF call.tab \in OpenTabs THEN [trace EXCEPT ![call.tab] = call.profile] ELSE trace

Finish(i) ==
  /\ calls' = [calls EXCEPT ![i] = None]
  /\ current' = current \ {i}
  /\ UNCHANGED <<tabBar, started>>

\* An error of a command other than a query, or an answer that is dropped: the tab
\* keeps what it has.
Drop(i) ==
  /\ calls[i] # None /\ calls[i].kind \notin {"remove_profile", "get_profiles"}
  /\ calls[i].kind = "run_query" => ~ScopeActive(i)
  /\ TraceTo(calls[i])
  /\ Finish(i)
  /\ UNCHANGED <<view, mirror, result, describe>>

GotServices(i) ==
  /\ Waits(i, "get_services") /\ ScopeActive(i) /\ MayAnswer(calls[i])
  /\ LET Listed(v) == [v EXCEPT !.listed = calls[i].profile, !.lastSearch = calls[i].query]
     IN  ShowCatalog(calls[i].tab, Listed(view[calls[i].tab]), Listed(mirror))
  /\ TraceTo(calls[i])
  /\ Finish(i)
  /\ UNCHANGED describe

\* The command goes on to fetch the entity sets, under the scope it has.
ResolvedService(i) ==
  /\ Waits(i, "resolve_service") /\ ScopeActive(i) /\ MayAnswer(calls[i])
  /\ \E service \in Services :
       /\ OpenPath(active, service)
       /\ calls' = [calls EXCEPT ![i] = CallFor("get_entities", service, None, None)]
  /\ TraceTo(calls[i])
  /\ UNCHANGED <<tabBar, result, describe, current, started>>

GotEntities(i) ==
  /\ Waits(i, "get_entities") /\ ScopeActive(i) /\ MayAnswer(calls[i])
  /\ LET Shown(v) == [v EXCEPT !.sidebar = calls[i].service, !.sidebarOf = calls[i].profile,
                               !.nested = None] IN
     /\ view' = [view EXCEPT ![active] = Shown(@)]
     /\ mirror' = Shown(mirror)
  /\ result' = [result EXCEPT ![calls[i].tab] = None]
  /\ TraceTo(calls[i])
  /\ Finish(i)
  /\ UNCHANGED describe

\* The info is filed under the context the tab is in when it arrives.
GotDescribe(i) ==
  /\ Waits(i, "describe_entity") /\ ScopeActive(i)
  /\ MayAnswer(calls[i]) /\ calls[i].service # None
  /\ describe' = [describe EXCEPT ![calls[i].tab] =
                    [info |-> ContextOf(calls[i]), key |-> ContextOf(view[calls[i].tab])]]
  /\ TraceTo(calls[i])
  /\ Finish(i)
  /\ UNCHANGED <<view, mirror, result>>

GotRows(i) ==
  /\ Waits(i, "run_query") /\ ScopeActive(i)
  /\ result' = [result EXCEPT ![active] =
                  [profile |-> calls[i].profile, service |-> calls[i].service,
                   entity |-> calls[i].entity, call |-> i]]
  /\ mirror' = [mirror EXCEPT !.nested = None]
  /\ TraceTo(calls[i])
  /\ Finish(i)
  /\ UNCHANGED <<view, describe>>

QueryError(i) ==
  /\ Waits(i, "run_query") /\ ScopeActive(i)
  /\ result' = [result EXCEPT ![active] = None]
  /\ view' = [view EXCEPT ![active].nested = None]
  /\ mirror' = [mirror EXCEPT !.nested = None]
  /\ TraceTo(calls[i])
  /\ Finish(i)
  /\ UNCHANGED describe

\* No scope is asked: the rows go to whatever is on screen.
GotNavigation(i) ==
  /\ Waits(i, "navigation")
  /\ mirror' = [mirror EXCEPT !.nested = calls[i].tab]
  /\ TraceTo(calls[i])
  /\ Finish(i)
  /\ UNCHANGED <<view, result, describe>>

\* The profile is gone; the tab on screen is cleared, and the dropdown is reloaded.
ProfileRemoved(i) ==
  /\ Waits(i, "remove_profile") /\ calls[i].profile \in profiles
  /\ profiles' = profiles \ {calls[i].profile}
  /\ mirror' = [mirror EXCEPT !.profile = None, !.listed = None, !.sidebar = "none",
                              !.sidebarOf = None, !.nested = None]
  /\ trace' = [trace EXCEPT ![active] = None]
  /\ calls' = [calls EXCEPT ![i].kind = "get_profiles"]
  /\ UNCHANGED <<options, open, used, active, view, result, describe, current, started>>

\* loadProfiles: a selected profile that no longer exists is deselected.
GotProfiles(i) ==
  /\ Waits(i, "get_profiles")
  /\ options' = profiles
  /\ mirror' = [mirror EXCEPT !.profile = IF @ \in profiles THEN @ ELSE None]
  /\ calls' = [calls EXCEPT ![i] = None]
  /\ current' = current \ {i}
  /\ UNCHANGED <<profiles, open, used, active, view, answers, started>>

ProfileError(i) ==
  /\ calls[i] # None /\ calls[i].kind \in {"remove_profile", "get_profiles"}
  /\ Finish(i)
  /\ UNCHANGED <<view, mirror, answers>>

User == \/ AddTab \/ SwitchTab \/ CloseTab \/ SelectProfile
        \/ \E q \in Queries : SearchShown(q) \/ SearchListed(q) \/ SearchCatalog(q)
        \/ ResolveService \/ \E s \in Services : LoadService(s)
        \/ \E e \in Entities : SelectEntity(e)
        \/ ExecuteQuery \/ LoadRowNavigation \/ RemoveProfile

Answer(i) == \/ Drop(i) \/ GotServices(i) \/ ResolvedService(i) \/ GotEntities(i)
             \/ GotDescribe(i) \/ GotRows(i) \/ QueryError(i) \/ GotNavigation(i)
             \/ ProfileRemoved(i) \/ GotProfiles(i) \/ ProfileError(i)

Next == User \/ \E i \in 1 .. MaxCalls : Answer(i)

Spec == Init /\ [][Next]_vars
-----------------------------------------------------------------------------
(* The mirrors stand for the active tab: service, entity set and search are  *)
(* the tab's, and profile and catalog are too unless a removal cleared them; *)
(* the sidebar on screen lists what was asked for with the tab's profile.    *)
MirrorsAgree ==
  LET v == view[active] IN
  /\ mirror.service = v.service
  /\ mirror.entity = v.entity
  /\ mirror.lastSearch = v.lastSearch
  /\ mirror.profile \in {v.profile, None}
  /\ mirror.listed \in {v.listed, None}
  /\ mirror.sidebarOf \in {v.profile, None}

(* The catalog, the sidebar, the rows and the describe info a tab keeps were *)
(* asked for with the profile it has now, however late the answers of an     *)
(* earlier profile come.  The HTTP trace (TracesFollowProfile) and related   *)
(* rows, which no scope guards, are no part of this.                         *)
ProfileSwitchWins ==
  \A t \in Tabs :
    /\ view[t].listed \in {view[t].profile, None}
    /\ view[t].sidebarOf \in {view[t].profile, None}
    /\ result[t] # None => result[t].profile = view[t].profile
    /\ describe[t] # None => describe[t].info[1] = view[t].profile

(* app.js: responses still in flight for the previous profile must not land. *)
(* A response has two parts, its data and its HTTP trace.                    *)
TracesFollowProfile == \A t \in Tabs : trace[t] \in {view[t].profile, None}

(* The rows a tab keeps are of the entity set it has selected.               *)
EntitySelectionWins ==
  \A t \in Tabs :
    result[t] # None => view[t].entity \in {result[t].entity, None}

KeepsNewer(t) == result[t] # None /\ result'[t] # None => result'[t].call >= result[t].call

(* Within a tab a slower answer never replaces that of a newer query.        *)
NewestQueryWins == [][\A t \in Tabs : KeepsNewer(t)]_vars

Keeps(t) == view'[t] = view[t] /\ result'[t] = result[t] /\ describe'[t] = describe[t]

(* An answer that arrives after a tab switch changes nothing of the tabs     *)
(* that are not on screen but the trace of the one it was asked from.        *)
OtherTabsUntouched == [][\A t \in Tabs : t # active => Keeps(t)]_vars
=============================================================================
