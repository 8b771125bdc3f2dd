---------------------------- MODULE ProfileStore ----------------------------
(***************************************************************************)
(* Connected profiles, their passwords and their browser sessions, as the  *)
(* desktop backend and any number of CLI processes change them: the table  *)
(* of connections in connections.toml (crates/core/src/config.rs), the OS  *)
(* keyring, and the sessions the desktop process keeps in memory.  A       *)
(* command loads the configuration once and then works through its steps,  *)
(* each of which is one operation on one of these stores; between them     *)
(* other commands run, an operation may fail, and a process may die.       *)
(* Offline buckets, aliases and labels of a profile are left out (the      *)
(* library modules have the buckets); save_connections is one step, for it *)
(* holds the save lock.                                                    *)
(***************************************************************************)
EXTENDS Naturals, Sequences

CONSTANTS
  Names, Targets, Languages,
  Users,         \* what may stand in the user field, Blank for nothing
  Blank,
  Forms,         \* what a profile dialog or a command line may hold
  Clis,          \* CLI processes
  Main, Async,   \* the desktop's main thread, and an async command of it
  None,
  MaxCommands,   \* bound on commands
  MaxFaults      \* bound on failing operations and deaths

ASSUME WorkerAssumption == Main # Async /\ {Main, Async} \cap Clis = {}

Modes == {"basic", "sso", "browser"}
Desktop == {Main, Async}
Workers == Desktop \cup Clis

(* A profile; plain is the user whose password the file holds in plaintext. *)
Profiles == [target : Targets, lang : Languages, mode : Modes,
             user : Users, plain : Users \cup {None}]
ASSUME BlankAssumption == Blank \in Users
ASSUME NoneAssumption == None \notin Names \cup Targets \cup Languages \cup Users \cup Profiles
ASSUME FormsAssumption ==
  \A f \in Forms : /\ f.target \in Targets /\ f.lang \in Languages /\ f.mode \in Modes
                   /\ f.user \in Users
                   /\ f.password \in BOOLEAN /\ f.plaintext \in BOOLEAN
                   /\ f.password => f.mode = "basic"

VARIABLES
  connections,  \* the table of the file: name -> profile, None where there is none
  keyring,      \* the passwords of the keyring, by name and user
  persisted,    \* the session of a name in the keyring: its target, or None
  memory,       \* browser_sessions of the desktop process, by target and language
  work,         \* what each worker is doing
  consented,    \* the names and users whose plaintext password was agreed to
  overlapped,   \* two commands have run at a time
  irregular,    \* an operation has failed, or a process died
  abandoned,    \* the passwords whose profile the wizard has replaced
  commands, faults

vars == <<connections, keyring, persisted, memory, work, consented,
          overlapped, irregular, abandoned, commands, faults>>
history == <<consented, overlapped, abandoned, commands>>

(* The steps a command still has to do, and what it carries through them. *)
Idle == [cmd |-> "none", todo |-> <<>>, name |-> None, draft |-> None, set |-> None,
         drop |-> None, conn |-> <<None, None>>, plaintext |-> FALSE, form |-> None]

Has(n) == connections[n] # None
Conn(p) == <<p.target, p.lang>>

-----------------------------------------------------------------------------
(* What the operators of config.rs and session.rs decide. *)

(* A session is good for another language, not for another URL or client. *)
SameSessionTarget(a, b) == a = b

ClearIfChanged(old, f) ==
  IF old # None /\ ~SameSessionTarget(old.target, f.target) THEN <<"clear">> ELSE <<>>

SameBasicUser(old, mode, user) ==
  old # None /\ old.mode = "basic" /\ mode = "basic" /\ old.user = user

\* Mutant: any Basic profile keeps the plaintext password.
CarriedPlaintextAnyUser(old, mode, user, given) ==
  IF old # None /\ old.mode = "basic" /\ mode = "basic" /\ ~given THEN old.plain ELSE None

CarriedPlaintext(old, mode, user, given) ==
  IF SameBasicUser(old, mode, user) /\ ~given THEN old.plain ELSE None

\* Mutant: only leaving Basic orphans the entry.
OrphanedUserOnModeChange(old, mode, user) ==
  IF old # None /\ old.mode = "basic" /\ old.user # Blank /\ mode # "basic"
  THEN old.user ELSE None

(* The entry of an empty user name is not looked for. *)
OrphanedUser(old, mode, user) ==
  IF old # None /\ old.mode = "basic" /\ old.user # Blank /\ ~SameBasicUser(old, mode, user)
  THEN old.user ELSE None

(* profile add without credentials keeps a browser profile one. *)
KeptMode(w, old, f) ==
  IF w \in Clis /\ f.mode = "basic" /\ f.user = Blank /\ ~f.password
     /\ old # None /\ old.mode = "browser"
  THEN "browser" ELSE f.mode

StoredUser(mode, f) == IF mode = "browser" THEN Blank ELSE f.user

(* --plaintext writes the password at once; the desktop only falls back. *)
NewProfile(w, old, f) ==
  LET mode == KeptMode(w, old, f)
  IN  [target |-> f.target, lang |-> f.lang, mode |-> mode, user |-> StoredUser(mode, f),
       plain |-> IF w \in Clis /\ f.password /\ f.plaintext THEN f.user
                 ELSE CarriedPlaintext(old, mode, f.user, f.password)]

\* Mutant: the old entry goes before the new profile is saved.
AddStepsDropFirst(old, f, set, drop) ==
  ClearIfChanged(old, f) \o (IF set THEN <<"setPassword">> ELSE <<>>)
  \o (IF drop # None THEN <<"deletePassword">> ELSE <<>>) \o <<"save">>

(* The old keyring entry goes after the save, so that a failed save never  *)
(* loses it.                                                               *)
AddSteps(old, f, set, drop) ==
  ClearIfChanged(old, f) \o (IF set THEN <<"setPassword">> ELSE <<>>)
  \o <<"save">> \o (IF drop # None THEN <<"deletePassword">> ELSE <<>>)

-----------------------------------------------------------------------------
Init ==
  /\ connections = [n \in Names |-> None]
  /\ keyring = {}
  /\ persisted = [n \in Names |-> None]
  /\ memory = {}
  /\ work = [w \in Workers |-> Idle]
  /\ consented = {} /\ abandoned = {}
  /\ overlapped = FALSE /\ irregular = FALSE
  /\ commands = 0 /\ faults = 0

(* A command starts with what it reads from the file. *)
Begins(w, command) ==
  /\ work[w] = Idle /\ commands < MaxCommands
  /\ commands' = commands + 1
  /\ work' = [work EXCEPT ![w] = command]
  /\ overlapped' = (overlapped \/ \E v \in Workers : work[v] # Idle)
  /\ UNCHANGED <<connections, keyring, persisted, memory, abandoned, faults>>

(* add_profile of the desktop, profile add of the CLI. *)
AddProfile(w, n, f) ==
  LET old  == connections[n]
      mode == KeptMode(w, old, f)
      set  == f.password /\ ~(w \in Clis /\ f.plaintext)
      drop == OrphanedUser(old, mode, f.user)
  IN  /\ w \in Clis \cup {Main}
      /\ w \in Clis => f.mode # "browser"
      /\ Begins(w, [Idle EXCEPT !.cmd = "add", !.name = n,
                      !.todo = AddSteps(old, f, set, drop),
                      !.draft = [connections EXCEPT ![n] = NewProfile(w, old, f)],
                      !.set = f.user, !.drop = drop, !.plaintext = f.plaintext])
      /\ consented' = IF f.password /\ f.plaintext THEN consented \cup {<<n, f.user>>}
                      ELSE consented
      /\ UNCHANGED irregular

(* The set-up wizard stores the password before it loads the file. *)
SetupWizard(w, n, f) ==
  /\ w \in Clis /\ (f.mode = "basic" => f.password)
  /\ Begins(w, [Idle EXCEPT !.cmd = "wizard", !.name = n, !.set = f.user, !.form = f,
                  !.todo = (IF f.password THEN <<"setPassword">> ELSE <<>>) \o <<"load">>])
  /\ UNCHANGED <<consented, irregular>>

(* remove_profile, profile remove: the credentials go before the profile. *)
RemoveProfile(w, n) ==
  LET p == connections[n]
      hasEntry == p.user # Blank /\ (w \in Clis \/ p.mode = "basic")
  IN  /\ w \in Clis \cup {Main} /\ Has(n)
      /\ Begins(w, [Idle EXCEPT !.cmd = "remove", !.name = n, !.drop = p.user, !.conn = Conn(p),
                      !.draft = [connections EXCEPT ![n] = None],
                      !.todo = (IF hasEntry THEN <<"deletePassword">> ELSE <<>>)
                               \o (IF w \in Desktop THEN <<"forget">> ELSE <<>>)
                               \o <<"clear", "save">>])
      /\ UNCHANGED <<consented, irregular>>

(* alias add, alias remove: the profiles are written back as they were read. *)
ChangeAlias(w, n) ==
  /\ w \in Clis /\ Has(n)
  /\ Begins(w, [Idle EXCEPT !.cmd = "alias", !.name = n, !.draft = connections,
                  !.todo = <<"save">>])
  /\ UNCHANGED <<consented, irregular>>

(* The sign-in of a saved browser profile. *)
SignIn(w, n) ==
  /\ w = Async /\ Has(n) /\ connections[n].mode = "browser"
  /\ Begins(w, [Idle EXCEPT !.cmd = "signIn", !.name = n, !.conn = Conn(connections[n]),
                  !.todo = <<"window", "remember", "persist">>])
  /\ UNCHANGED <<consented, irregular>>

(* The sign-in that tests a profile not yet saved has no name to persist for. *)
TestSignIn(w, f) ==
  /\ w = Async /\ f.mode = "browser"
  /\ Begins(w, [Idle EXCEPT !.cmd = "signIn", !.conn = <<f.target, f.lang>>,
                  !.todo = <<"window", "remember">>])
  /\ UNCHANGED <<consented, irregular>>

SignOut(w, n) ==
  /\ \/ /\ w = Async /\ Has(n)
        /\ Begins(w, [Idle EXCEPT !.cmd = "signOut", !.name = n, !.conn = Conn(connections[n]),
                        !.todo = <<"forget", "clear">>])
     \/ /\ w \in Clis
        /\ Begins(w, [Idle EXCEPT !.cmd = "signOut", !.name = n, !.todo = <<"clear">>])
  /\ UNCHANGED <<consented, irregular>>

(* A request of the CLI with a browser profile looks into the keyring; its  *)
(* flags may name another URL or client.  The desktop only looks into its    *)
(* memory.                                                                  *)
MakeClient(w, n, t) ==
  /\ w \in Clis /\ Has(n) /\ connections[n].mode = "browser"
  /\ Begins(w, [Idle EXCEPT !.cmd = "client", !.name = n, !.conn = <<t, connections[n].lang>>,
                  !.todo = <<"loadSession">>])
  /\ UNCHANGED <<consented, irregular>>

-----------------------------------------------------------------------------
(* The steps. *)

At(w, step) == work[w].todo # <<>> /\ Head(work[w].todo) = step
StepDone(w) ==
  LET k == work[w]
  IN  work' = [work EXCEPT ![w] = IF Len(k.todo) = 1 THEN Idle ELSE [k EXCEPT !.todo = Tail(@)]]
Stops(w) == work' = [work EXCEPT ![w] = Idle]

Fault == faults < MaxFaults /\ faults' = faults + 1 /\ irregular' = TRUE
NoFault == UNCHANGED <<faults, irregular>>

ClearSession(w) ==
  /\ At(w, "clear") /\ StepDone(w)
  /\ \/ NoFault /\ persisted' = [persisted EXCEPT ![work[w].name] = None]
     \/ Fault /\ UNCHANGED persisted
  /\ UNCHANGED <<connections, keyring, memory, history>>

(* The password goes into the profile that is about to be saved. *)
FallenBack(k) ==
  [k EXCEPT !.todo = Tail(@), !.draft[k.name].plain = k.set]

(* Without the keyring an add ends, unless the user agreed to plaintext on *)
(* the desktop; the wizard goes on.                                        *)
SetPassword(w) ==
  /\ At(w, "setPassword")
  /\ \/ /\ NoFault /\ StepDone(w)
        /\ keyring' = keyring \cup {<<work[w].name, work[w].set>>}
     \/ /\ Fault /\ UNCHANGED keyring
        /\ \/ work[w].cmd = "wizard" /\ StepDone(w)
           \/ /\ work[w].cmd # "wizard" /\ work[w].plaintext
              /\ work' = [work EXCEPT ![w] = FallenBack(@)]
           \/ work[w].cmd # "wizard" /\ ~work[w].plaintext /\ Stops(w)
  /\ UNCHANGED <<connections, persisted, memory, history>>

(* save_connections replaces the whole table by the command's own. *)
SaveConnections(w) ==
  /\ At(w, "save")
  /\ \/ NoFault /\ connections' = work[w].draft /\ StepDone(w)
     \/ Fault /\ UNCHANGED connections /\ Stops(w)
  /\ UNCHANGED <<keyring, persisted, memory, history>>

DeletePassword(w) ==
  /\ At(w, "deletePassword") /\ StepDone(w)
  /\ \/ NoFault /\ keyring' = keyring \ {<<work[w].name, work[w].drop>>}
     \/ Fault /\ UNCHANGED keyring
  /\ UNCHANGED <<connections, persisted, memory, history>>

(* The wizard keeps neither a plaintext password nor track of the entry that *)
(* becomes unreachable.                                                      *)
WizardLoad(w) ==
  LET n == work[w].name  f == work[w].form  old == connections[n]
  IN  /\ At(w, "load")
      /\ work' = [work EXCEPT ![w].todo = ClearIfChanged(old, f) \o <<"save">>,
                    ![w].draft = [connections EXCEPT ![n] =
                      [target |-> f.target, lang |-> f.lang, mode |-> f.mode,
                       user |-> IF f.mode = "basic" THEN f.user ELSE Blank, plain |-> None]]]
      /\ abandoned' = abandoned \cup {<<n, OrphanedUser(old, f.mode, f.user)>>}
      /\ UNCHANGED <<connections, keyring, persisted, memory, consented, overlapped, irregular,
                     commands, faults>>

Forget(w) ==
  /\ At(w, "forget") /\ StepDone(w)
  /\ memory' = memory \ {work[w].conn}
  /\ NoFault
  /\ UNCHANGED <<connections, keyring, persisted, history>>

(* The user signs in, in minutes, or closes the window. *)
Window(w) ==
  /\ At(w, "window")
  /\ StepDone(w) \/ Stops(w)
  /\ NoFault
  /\ UNCHANGED <<connections, keyring, persisted, memory, history>>

Remember(w) ==
  /\ At(w, "remember") /\ StepDone(w)
  /\ memory' = memory \cup {work[w].conn}
  /\ NoFault
  /\ UNCHANGED <<connections, keyring, persisted, history>>

Persist(w) ==
  /\ At(w, "persist") /\ StepDone(w)
  /\ \/ NoFault /\ persisted' = [persisted EXCEPT ![work[w].name] = work[w].conn[1]]
     \/ Fault /\ UNCHANGED persisted
  /\ UNCHANGED <<connections, keyring, memory, history>>

GoodFor(session, t) == session # None /\ SameSessionTarget(session, t)

(* load_for_connection: a session of another target is discarded. *)
LoadSession(w) ==
  LET n == work[w].name  t == work[w].conn[1]
  IN  /\ At(w, "loadSession") /\ StepDone(w)
      /\ IF GoodFor(persisted[n], t)
         THEN UNCHANGED persisted
         ELSE persisted' = [persisted EXCEPT ![n] = None]
      /\ NoFault
      /\ UNCHANGED <<connections, keyring, memory, history>>

(* A process dies, and with the desktop its sessions in memory. *)
Die(process) ==
  /\ \E w \in process : work[w] # Idle
  /\ Fault
  /\ work' = [w \in Workers |-> IF w \in process THEN Idle ELSE work[w]]
  /\ memory' = IF Main \in process THEN {} ELSE memory
  /\ UNCHANGED <<connections, keyring, persisted, history>>

Step(w) ==
  \/ ClearSession(w) \/ SetPassword(w) \/ SaveConnections(w) \/ DeletePassword(w)
  \/ WizardLoad(w) \/ Forget(w) \/ Window(w) \/ Remember(w) \/ Persist(w)
  \/ LoadSession(w)

Command(w) ==
  \/ \E n \in Names :
       \/ \E f \in Forms : AddProfile(w, n, f) \/ SetupWizard(w, n, f)
       \/ RemoveProfile(w, n) \/ ChangeAlias(w, n) \/ SignIn(w, n) \/ SignOut(w, n)
       \/ \E t \in Targets : MakeClient(w, n, t)
  \/ \E f \in Forms : TestSignIn(w, f)

Next ==
  \/ \E w \in Workers : Command(w) \/ Step(w)
  \/ Die(Desktop) \/ \E c \in Clis : Die({c})

Spec == Init /\ [][Next]_vars

-----------------------------------------------------------------------------
(* The stores hold what they are meant to; a browser profile has no user. *)
TypeOK ==
  /\ \A n \in Names : /\ connections[n] \in Profiles \cup {None}
                      /\ Has(n) /\ connections[n].mode = "browser" => connections[n].user = Blank
  /\ keyring \subseteq Names \X Users
  /\ persisted \in [Names -> Targets \cup {None}]
  /\ memory \subseteq Targets \X Languages
  /\ \A w \in Workers : work[w] # Idle => work[w].todo # <<>>

(* A password is in the file only if the user agreed to that, for this user  *)
(* of this profile: no failing keyring and no edit puts or carries one there *)
(* (config.rs profile_carry_over, add_profile's fallback).                   *)
PlaintextByConsent ==
  \A n \in Names : (Has(n) /\ connections[n].plain # None) =>
    /\ connections[n].plain = connections[n].user
    /\ <<n, connections[n].user>> \in consented

(* The passwords that a removal or an edit finds again: not those kept under *)
(* an empty user name (profile add --password without --user), and not those *)
(* whose profile the wizard has replaced by one of another user or mode.     *)
Tracked == {e \in keyring : e[2] # Blank} \ abandoned

AllDone == \A w \in Workers : work[w] = Idle

(* Commands that run one at a time and do not fail leave no tracked password *)
(* behind: it is that of a Basic profile and its user; and every persisted   *)
(* session is that of a profile and its system.  Untracked passwords do stay *)
(* (RemovalClears), and of the sessions in memory nothing is said.           *)
CredentialsBelong ==
  (~overlapped /\ ~irregular /\ AllDone) =>
    /\ \A e \in Tracked : /\ Has(e[1]) /\ connections[e[1]].mode = "basic"
                          /\ connections[e[1]].user = e[2]
    /\ \A n \in Names : persisted[n] # None =>
         Has(n) /\ connections[n].target = persisted[n]

(* cli main.rs, profile remove, after a removal without warnings: "removed   *)
(* (credentials and session cleared)".                                       *)
RemovalClears == (~overlapped /\ ~irregular /\ AllDone) => \A e \in keyring : Has(e[1])

(* cli main.rs, profile remove: the session goes too, "critical so that      *)
(* recreating a profile with the same name doesn't resurrect the old         *)
(* session".                                                                 *)
RemovedSessionsStayGone ==
  (~irregular /\ AllDone) => \A n \in Names : persisted[n] # None => Has(n)

Reachable(n) ==
  connections[n].plain # None \/ <<n, connections[n].user>> \in keyring

(* While a Basic profile stays as it is, its password stays reachable unless  *)
(* it is being removed, also when an edit fails half-way or dies ("so a       *)
(* failed save never loses the old credential"), as long as commands do not   *)
(* overlap.                                                                   *)
PasswordsStayReachable ==
  [][\A n \in Names :
       (/\ Has(n) /\ connections[n].mode = "basic" /\ Reachable(n) /\ ~overlapped
        /\ connections'[n] = connections[n]
        /\ \A w \in Workers : work[w].cmd # "remove")
       => Reachable(n)']_vars
=============================================================================
