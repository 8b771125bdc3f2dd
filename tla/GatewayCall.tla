---------------------------- MODULE GatewayCall ----------------------------
(***************************************************************************)
(* What one command against an SAP system promises, whatever requests it   *)
(* takes: data only if the system accepted the user's logon while the      *)
(* command ran, and "authentication failed", "service not found" and the   *)
(* hints that name a cause only if there was a cause.  A 404 does not tell *)
(* a missing service from a missing entity set, and a page of a proxy is   *)
(* taken for a logon page.  "Connected" promises nothing of the logon.     *)
(***************************************************************************)
CONSTANTS
  Paths,
  Inner   \* those that name an entity set or a key inside a service

VARIABLES
  logon,       \* the system accepts what the client presents
  registered,  \* the paths that are services of the system
  front,       \* a proxy or an error handler before the system answers with pages of its own
  running,     \* a command is under way
  seen,        \* the values logon has had while it ran
  verdict      \* how the last command ended

callVars == <<logon, registered, front, running, seen, verdict>>

Undecided == [kind |-> "none", hint |-> "none", path |-> "none"]

CallInit ==
  /\ logon \in BOOLEAN
  /\ registered \in SUBSET Paths
  /\ front \in BOOLEAN
  /\ running = FALSE
  /\ seen = {}
  /\ verdict = Undecided

Start ==
  /\ ~running
  /\ running' = TRUE
  /\ seen' = {logon}
  /\ verdict' = Undecided
  /\ UNCHANGED <<logon, registered, front>>

LogonChanges ==
  /\ logon' = ~logon
  /\ seen' = IF running THEN seen \cup {logon'} ELSE seen
  /\ UNCHANGED <<registered, front, running, verdict>>

(* What a verdict says of the system. *)
True(v) ==
  /\ v.kind = "data" => TRUE \in seen
  /\ v.kind = "refused" => FALSE \in seen \/ front \/ v.hint = "noTicket"
  /\ v.kind = "missing" => v.path \notin registered \/ v.path \in Inner \/ front
  /\ v.hint = "loginPage" => FALSE \in seen \/ front
  /\ v.hint = "logonRefused" => FALSE \in seen
  /\ v.hint = "noService" => TRUE \in seen /\ v.path \notin registered
  /\ v.hint = "navOnly" => v.path \in registered

Finish ==
  /\ running
  /\ running' = FALSE
  /\ \E v \in [kind : {"data", "connected", "raw", "refused", "missing", "notResolved", "failed"},
               hint : {"none", "noTicket", "path", "noService", "loginPage", "logonRefused", "navOnly",
                       "v4Catalog", "maybeExpired", "noReason", "lookUpCode", "backend"},
               path : Paths \cup {"none"}] :
       True(v) /\ verdict' = v
  /\ UNCHANGED <<logon, registered, front, seen>>

CallNext == Start \/ LogonChanges \/ Finish
CallSpec == CallInit /\ [][CallNext]_callVars
=============================================================================
