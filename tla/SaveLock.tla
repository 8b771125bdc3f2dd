------------------------------ MODULE SaveLock ------------------------------
(***************************************************************************)
(* The lock around every change of connections.toml: a mutex inside each   *)
(* process, then the sidecar file connections.toml.lock, made with         *)
(* create_new and removed on Drop.  A waiter that finds the file older     *)
(* than the staleness threshold removes it by name, so what it removes     *)
(* need not be what it looked at.  Time advances in units of the sleep     *)
(* between two attempts.                                                   *)
(***************************************************************************)
EXTENDS Naturals

CONSTANTS
  Threads,
  Processes,
  ProcessOf,      \* the process of each thread
  MaxAttempts,    \* LOCK_MAX_ATTEMPTS
  StaleAfter,     \* LOCK_STALE_SECONDS, in sleeps of LOCK_SLEEP_MS
  PromptHolders,  \* TRUE: a living holder releases before its file is stale
  NoThread,
  NoLockFile,
  MaxAcquires,    \* bound: acquires started
  MaxFaults       \* bound: processes that die and file operations that fail

\* A lock file: its creator, whether that one is gone without removing it, and its
\* age up to one past the threshold.
LockFile == [by : Threads, abandoned : BOOLEAN, age : 0 .. StaleAfter + 1]

ASSUME SaveLockAssumption ==
  /\ ProcessOf \in [Threads -> Processes]
  /\ MaxAttempts \in Nat \ {0}
  /\ StaleAfter \in Nat
  /\ MaxAttempts < StaleAfter
  /\ PromptHolders \in BOOLEAN
  /\ NoThread \notin Threads
  /\ NoLockFile \notin LockFile
  /\ MaxAcquires \in Nat
  /\ MaxFaults \in Nat

VARIABLES
  pc,        \* where each thread is
  attempts,  \* attempts each thread has made
  mutex,     \* holder of each process's mutex
  file,      \* the lock file, or NoLockFile
  seen,      \* threads that found a file stale which is still the one there
  raced,     \* history: a waiter removed another file than the one it found stale
  acquires,  \* counter of MaxAcquires
  faults     \* counter of MaxFaults

vars == <<pc, attempts, mutex, file, seen, raced, acquires, faults>>

Locations == {"idle", "mutex", "create", "stat", "remove", "sleep", "held", "dropped"}

(* Types; no thread makes more than LOCK_MAX_ATTEMPTS attempts.             *)
TypeOK ==
  /\ pc \in [Threads -> Locations]
  /\ attempts \in [Threads -> 0 .. MaxAttempts]
  /\ mutex \in [Processes -> Threads \cup {NoThread}]
  /\ file \in LockFile \cup {NoLockFile}
  /\ seen \subseteq Threads
  /\ raced \in BOOLEAN
  /\ acquires \in 0 .. MaxAcquires
  /\ faults \in 0 .. MaxFaults

Init ==
  /\ pc = [t \in Threads |-> "idle"]
  /\ attempts = [t \in Threads |-> 0]
  /\ mutex = [p \in Processes |-> NoThread]
  /\ file = NoLockFile
  /\ seen = {}
  /\ raced = FALSE
  /\ acquires = 0
  /\ faults = 0
-----------------------------------------------------------------------------
Goto(t, location) == pc' = [pc EXCEPT ![t] = location]

StartAcquire(t) ==
  /\ pc[t] = "idle"
  /\ acquires < MaxAcquires
  /\ acquires' = acquires + 1
  /\ Goto(t, "mutex")
  /\ UNCHANGED <<attempts, mutex, file, seen, raced, faults>>

\* Mutant: threads of one process only have the lock file between them.
TakeMutexUnguarded(t) ==
  /\ pc[t] = "mutex"
  /\ attempts' = [attempts EXCEPT ![t] = 0]
  /\ Goto(t, "create")
  /\ UNCHANGED <<mutex, file, seen, raced, acquires, faults>>

TakeMutex(t) ==
  /\ pc[t] = "mutex"
  /\ mutex[ProcessOf[t]] = NoThread
  /\ mutex' = [mutex EXCEPT ![ProcessOf[t]] = t]
  /\ attempts' = [attempts EXCEPT ![t] = 0]
  /\ Goto(t, "create")
  /\ UNCHANGED <<file, seen, raced, acquires, faults>>

\* Mutant: one attempt more than LOCK_MAX_ATTEMPTS.
CreateNewOnceMore(t) ==
  /\ pc[t] = "create"
  /\ attempts' = [attempts EXCEPT ![t] = @ + 1]
  /\ IF file = NoLockFile
     THEN /\ file' = [by |-> t, abandoned |-> FALSE, age |-> 0]
          /\ seen' = {}
          /\ Goto(t, "held")
     ELSE Goto(t, "stat") /\ UNCHANGED <<file, seen>>
  /\ UNCHANGED <<mutex, raced, acquires, faults>>

\* Mutant: create instead of create_new, which takes over a file that is there.
CreateOver(t) ==
  /\ pc[t] = "create"
  /\ attempts[t] < MaxAttempts
  /\ attempts' = [attempts EXCEPT ![t] = @ + 1]
  /\ file' = [by |-> t, abandoned |-> FALSE, age |-> 0]
  /\ seen' = {}
  /\ Goto(t, "held")
  /\ UNCHANGED <<mutex, raced, acquires, faults>>

\* create_new: atomic in the file system, and fails when the file is there.
CreateNew(t) ==
  /\ pc[t] = "create"
  /\ attempts[t] < MaxAttempts
  /\ attempts' = [attempts EXCEPT ![t] = @ + 1]
  /\ IF file = NoLockFile
     THEN /\ file' = [by |-> t, abandoned |-> FALSE, age |-> 0]
          /\ seen' = {}
          /\ Goto(t, "held")
     ELSE Goto(t, "stat") /\ UNCHANGED <<file, seen>>
  /\ UNCHANGED <<mutex, raced, acquires, faults>>

\* Mutant: the age is not looked at.
StaleAtAnyAge(f) == f # NoLockFile

\* metadata of the file by name; one that is gone by now reads as not stale.
Stale(f) == f # NoLockFile /\ f.age > StaleAfter

Stat(t) ==
  /\ pc[t] = "stat"
  /\ IF Stale(file)
     THEN Goto(t, "remove") /\ seen' = seen \cup {t}
     ELSE Goto(t, "sleep") /\ UNCHANGED seen
  /\ UNCHANGED <<attempts, mutex, file, raced, acquires, faults>>

\* remove_file by name: whatever file is there now, if any.  It may fail, and its
\* result is ignored: the loop goes on.
RemoveStale(t) ==
  /\ pc[t] = "remove"
  /\ \/ /\ file' = NoLockFile
        /\ raced' = (raced \/ (file # NoLockFile /\ t \notin seen))
        /\ UNCHANGED faults
     \/ /\ faults < MaxFaults
        /\ faults' = faults + 1
        /\ UNCHANGED <<file, raced>>
  /\ seen' = seen \ {t}
  /\ Goto(t, "sleep")
  /\ UNCHANGED <<attempts, mutex, acquires>>

\* Mutant: the error path keeps the mutex.
ErrKeepsMutex(t) ==
  /\ Goto(t, "idle")
  /\ UNCHANGED <<attempts, mutex, file, seen, raced, acquires>>

\* The acquire returns an error and the mutex guard is dropped.
Err(t) ==
  /\ mutex' = [mutex EXCEPT ![ProcessOf[t]] = NoThread]
  /\ Goto(t, "idle")
  /\ UNCHANGED <<attempts, file, seen, raced, acquires>>

\* LockContention: the attempts are used up.
GiveUp(t) ==
  /\ pc[t] = "create"
  /\ attempts[t] = MaxAttempts
  /\ Err(t)
  /\ UNCHANGED faults

\* The directory or the file cannot be created.
CreateFails(t) ==
  /\ pc[t] = "create"
  /\ attempts[t] < MaxAttempts
  /\ faults < MaxFaults
  /\ faults' = faults + 1
  /\ Err(t)

Abandoned(f) == IF f = NoLockFile THEN f ELSE [f EXCEPT !.abandoned = TRUE]

\* Drop of the guard removes the lock file by name, which may fail, then releases
\* the mutex.
DropFile(t) ==
  /\ pc[t] = "held"
  /\ \/ file' = NoLockFile /\ UNCHANGED faults
     \/ /\ faults < MaxFaults
        /\ faults' = faults + 1
        /\ file' = IF file # NoLockFile /\ file.by = t THEN Abandoned(file) ELSE file
  /\ Goto(t, "dropped")
  /\ UNCHANGED <<attempts, mutex, seen, raced, acquires>>

DropMutex(t) ==
  /\ pc[t] = "dropped"
  /\ mutex' = [mutex EXCEPT ![ProcessOf[t]] = NoThread]
  /\ Goto(t, "idle")
  /\ UNCHANGED <<attempts, file, seen, raced, acquires, faults>>

-----------------------------------------------------------------------------
Holding == {t \in Threads : pc[t] = "held"}

\* One sleep passes: the file ages and every sleeper tries again.
Tick ==
  /\ \E t \in Threads : pc[t] \notin {"idle", "mutex"}
  /\ ~ /\ PromptHolders
       /\ file # NoLockFile
       /\ file.by \in Holding /\ ~file.abandoned
       /\ file.age = StaleAfter
  /\ file' = IF file = NoLockFile \/ file.age > StaleAfter THEN file
             ELSE [file EXCEPT !.age = @ + 1]
  /\ pc' = [t \in Threads |-> IF pc[t] = "sleep" THEN "create" ELSE pc[t]]
  /\ UNCHANGED <<attempts, mutex, seen, raced, acquires, faults>>

\* A process dies: its threads and its mutex go, a lock file of its own stays.
Die(p) ==
  LET gone == {t \in Threads : ProcessOf[t] = p}
  IN  /\ faults < MaxFaults
      /\ \E t \in gone : pc[t] # "idle"
      /\ faults' = faults + 1
      /\ pc' = [t \in Threads |-> IF t \in gone THEN "idle" ELSE pc[t]]
      /\ mutex' = [mutex EXCEPT ![p] = NoThread]
      /\ file' = IF file # NoLockFile /\ file.by \in gone THEN Abandoned(file) ELSE file
      /\ seen' = seen \ gone
      /\ UNCHANGED <<attempts, raced, acquires>>

Acquire(t) == \/ TakeMutex(t) \/ CreateNew(t) \/ Stat(t) \/ RemoveStale(t)
              \/ GiveUp(t) \/ CreateFails(t)

Release(t) == DropFile(t) \/ DropMutex(t)

Next == \/ \E t \in Threads : StartAcquire(t) \/ Acquire(t) \/ Release(t)
        \/ \E p \in Processes : Die(p)
        \/ Tick

Spec == Init /\ [][Next]_vars

(* A thread inside acquire or a save keeps running, and time passes.         *)
FairSpec == /\ Spec
            /\ WF_vars(Tick)
            /\ \A t \in Threads : WF_vars(Acquire(t)) /\ WF_vars(Release(t))
-----------------------------------------------------------------------------
(* Two threads hold the lock only after a waiter removed a lock file other   *)
(* than the one it had found stale: create_new, the age check and the order  *)
(* of Drop leave no other way in.                                            *)
ExclusiveUnlessRaced == raced \/ \A s, t \in Holding : s = t

(* Threads of one process never hold the lock together, raced or not: the    *)
(* process mutex is held from before the file is made until after it is gone.*)
ExclusiveInProcess ==
  \A s, t \in Holding : s # t => ProcessOf[s] # ProcessOf[t]

(* A living holder's file stays where it is until the holder drops it, as    *)
(* long as nobody raced: no waiter takes it for the file of a dead process.  *)
HolderKeepsFile ==
  \A t \in Holding : raced \/ (file # NoLockFile /\ file.by = t /\ ~file.abandoned)

(* Every acquire ends, with the lock or with an error, whoever dies.         *)
AcquireReturns == \A t \in Threads : pc[t] = "mutex" ~> pc[t] \in {"held", "idle"}

(* Until a waiter races, every step of create_new, of the reclaim by name,   *)
(* of Drop and of a death is a step of the lock that the library counts on:  *)
(* nobody enters while a file is there, and what is reclaimed has been left  *)
(* behind (save.rs: "we assume the holder is dead and force-remove").        *)
LockNow == IF file = NoLockFile THEN "absent" ELSE IF file.abandoned THEN "abandoned" ELSE "held"
Promised == INSTANCE WriterLock WITH Users <- Threads, lock <- LockNow, holders <- Holding
ImplementsLock == Promised!Init /\ [][raced' \/ Promised!Next]_<<LockNow, Holding>>

(* save.rs: with create_new, two processes cannot hold the lock together.    *)
MutualExclusion == \A s, t \in Holding : s = t
=============================================================================
