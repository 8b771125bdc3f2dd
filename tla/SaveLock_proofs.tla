--------------------------- MODULE SaveLock_proofs ---------------------------
(***************************************************************************)
(* Proofs about SaveLock: who can hold the lock together, for any number   *)
(* of threads, processes and attempts.                                     *)
(***************************************************************************)
EXTENDS SaveLock, TLAPS

\* A thread past the mutex has it.
MutexHeld ==
  \A t \in Threads : pc[t] \notin {"idle", "mutex"} => mutex[ProcessOf[t]] = t

\* A lock file nobody is going to remove on Drop is an abandoned one.
FileAccounted == file # NoLockFile => file.abandoned \/ file.by \in Holding

\* What a waiter found stale is still stale if it is still there.
SeenStale == \A t \in seen : file # NoLockFile => Stale(file)

\* The assumption about holders, as an invariant: a stale file is abandoned.
StaleAbandoned == PromptHolders /\ Stale(file) => file.abandoned

MutexInv == TypeOK /\ MutexHeld

LockInv == /\ MutexInv
           /\ FileAccounted
           /\ SeenStale
           /\ StaleAbandoned
           /\ HolderKeepsFile

\* A lock file that is abandoned changes in nothing else.
LEMMA AbandonedFile ==
  ASSUME NEW f \in LockFile \cup {NoLockFile}
  PROVE  /\ Abandoned(f) \in LockFile \cup {NoLockFile}
         /\ Abandoned(f) = NoLockFile <=> f = NoLockFile
         /\ f # NoLockFile => /\ Abandoned(f).by = f.by
                              /\ Abandoned(f).age = f.age
                              /\ Abandoned(f).abandoned
<1>1. CASE f = NoLockFile
  BY <1>1 DEF Abandoned
<1>2. CASE f \in LockFile
  <2>1. Abandoned(f) = [f EXCEPT !.abandoned = TRUE]
    BY <1>2, SaveLockAssumption DEF Abandoned
  <2>2. Abandoned(f) \in LockFile
    BY <1>2, <2>1 DEF LockFile
  <2>3. Abandoned(f).by = f.by /\ Abandoned(f).age = f.age /\ Abandoned(f).abandoned
    BY <1>2, <2>1 DEF LockFile
  <2> QED
    BY <1>2, <2>2, <2>3, SaveLockAssumption
<1> QED
  BY <1>1, <1>2

\* The file create_new makes.
LEMMA CreatedFile ==
  ASSUME NEW t \in Threads
  PROVE  [by |-> t, abandoned |-> FALSE, age |-> 0] \in LockFile
BY SaveLockAssumption DEF LockFile

\* The initial state satisfies the invariant of the mutex.
LEMMA MutexInit == Init => MutexInv
<1> SUFFICES ASSUME Init PROVE MutexInv
  OBVIOUS
<1> USE SaveLockAssumption DEF Init
<1>1. pc \in [Threads -> Locations] /\ attempts \in [Threads -> 0 .. MaxAttempts]
  BY DEF Locations
<1>2. mutex \in [Processes -> Threads \cup {NoThread}]
  OBVIOUS
<1>3. seen \subseteq Threads /\ raced \in BOOLEAN
  OBVIOUS
<1>4. acquires \in 0 .. MaxAcquires /\ faults \in 0 .. MaxFaults
  OBVIOUS
<1>5. MutexHeld
  BY DEF MutexHeld
<1> QED
  BY <1>1, <1>2, <1>3, <1>4, <1>5 DEF MutexInv, TypeOK

\* Every step keeps it: the mutex is taken before create_new is tried and
\* released after the last file operation.
LEMMA MutexStep == MutexInv /\ [Next]_vars => MutexInv'
<1> SUFFICES ASSUME MutexInv, [Next]_vars PROVE MutexInv'
  OBVIOUS
<1> USE SaveLockAssumption DEF MutexInv, TypeOK, MutexHeld, Locations, Goto
<1>1. ASSUME NEW t \in Threads, StartAcquire(t) PROVE MutexInv'
  BY <1>1 DEF StartAcquire
<1>2. ASSUME NEW t \in Threads, TakeMutex(t) PROVE MutexInv'
  BY <1>2 DEF TakeMutex
<1>3. ASSUME NEW t \in Threads, CreateNew(t) PROVE MutexInv'
  <2>1. file' \in LockFile \cup {NoLockFile}
    BY <1>3, CreatedFile DEF CreateNew
  <2>2. attempts' \in [Threads -> 0 .. MaxAttempts]
    BY <1>3 DEF CreateNew
  <2> QED
    BY <1>3, <2>1, <2>2 DEF CreateNew
<1>4. ASSUME NEW t \in Threads, Stat(t) PROVE MutexInv'
  BY <1>4 DEF Stat
<1>5. ASSUME NEW t \in Threads, RemoveStale(t) PROVE MutexInv'
  <2>1. file' \in LockFile \cup {NoLockFile} /\ faults' \in 0 .. MaxFaults
    BY <1>5 DEF RemoveStale
  <2>2. raced' \in BOOLEAN
    BY <1>5, Zenon DEF RemoveStale
  <2>3. seen' \subseteq Threads /\ UNCHANGED <<attempts, mutex, acquires>> /\ Goto(t, "sleep")
    BY <1>5 DEF RemoveStale
  <2> QED
    BY <1>5, <2>1, <2>2, <2>3 DEF RemoveStale
<1>6. ASSUME NEW t \in Threads, GiveUp(t) PROVE MutexInv'
  BY <1>6 DEF GiveUp, Err
<1>7. ASSUME NEW t \in Threads, CreateFails(t) PROVE MutexInv'
  BY <1>7 DEF CreateFails, Err
<1>8. ASSUME NEW t \in Threads, DropFile(t) PROVE MutexInv'
  BY <1>8, AbandonedFile DEF DropFile
<1>9. ASSUME NEW t \in Threads, DropMutex(t) PROVE MutexInv'
  BY <1>9 DEF DropMutex
<1>10. ASSUME NEW p \in Processes, Die(p) PROVE MutexInv'
  <2>1. file' \in LockFile \cup {NoLockFile}
    BY <1>10, AbandonedFile DEF Die
  <2> QED
    BY <1>10, <2>1 DEF Die
<1>11. CASE Tick
  <2>1. file' \in LockFile \cup {NoLockFile}
    BY <1>11 DEF Tick, LockFile
  <2> QED
    BY <1>11, <2>1 DEF Tick
<1>12. CASE UNCHANGED vars
  BY <1>12 DEF vars
<1> QED
  BY <1>1, <1>2, <1>3, <1>4, <1>5, <1>6, <1>7, <1>8, <1>9, <1>10, <1>11, <1>12
  DEF Next, Acquire, Release

\* Threads, processes, attempts, times and the lock file keep their types in
\* every run of SaveLock::acquire and Drop.
THEOREM SaveLockTyped == Spec => []TypeOK
BY MutexInit, MutexStep, PTL DEF Spec, MutexInv

\* The process mutex excludes the threads of one process from holding the lock
\* together, without any assumption about how long a holder takes.
THEOREM SaveLockExclusiveInProcess == Spec => []ExclusiveInProcess
<1>1. MutexInv => ExclusiveInProcess
  BY SaveLockAssumption DEF MutexInv, MutexHeld, ExclusiveInProcess, Holding
<1> QED
  BY MutexInit, MutexStep, <1>1, PTL DEF Spec
-----------------------------------------------------------------------------
\* The initial state satisfies the invariant of the lock file.
LEMMA LockInit == Init => LockInv
BY MutexInit
DEF Init, LockInv, FileAccounted, SeenStale, StaleAbandoned, HolderKeepsFile, Holding, Stale

\* Every step keeps it as long as holders are prompt: before a race, a holder's
\* file is its own and not stale, so nobody who looked at it removes it.
LEMMA LockStep == PromptHolders /\ LockInv /\ [Next]_vars => LockInv'
<1> SUFFICES ASSUME PromptHolders, LockInv, [Next]_vars PROVE LockInv'
  OBVIOUS
<1>0. MutexInv /\ MutexInv'
  BY MutexStep DEF LockInv
<1> USE <1>0, SaveLockAssumption
    DEF LockInv, FileAccounted, SeenStale, StaleAbandoned, HolderKeepsFile, Holding, Stale,
        MutexInv, TypeOK, LockFile, Locations, Goto
<1>1. ASSUME NEW t \in Threads, StartAcquire(t) PROVE LockInv'
  BY <1>1 DEF StartAcquire
<1>2. ASSUME NEW t \in Threads, TakeMutex(t) PROVE LockInv'
  BY <1>2 DEF TakeMutex
<1>3. ASSUME NEW t \in Threads, CreateNew(t) PROVE LockInv'
  <2>1. CASE file # NoLockFile
    BY <1>3, <2>1 DEF CreateNew
  <2>2. CASE file = NoLockFile
    <3>1. /\ file' # NoLockFile /\ seen' = {} /\ raced' = raced
          /\ file'.by = t /\ ~file'.abandoned /\ file'.age = 0
      <4>1. file' = [by |-> t, abandoned |-> FALSE, age |-> 0]
        BY <1>3, <2>2 DEF CreateNew
      <4>2. file' # NoLockFile
        BY <4>1, CreatedFile, Zenon
      <4> QED
        BY <1>3, <2>2, <4>1, <4>2 DEF CreateNew
    <3>2. Holding' = Holding \cup {t}
      BY <1>3, <2>2 DEF CreateNew
    <3>3. raced \/ Holding = {}
      BY <2>2
    <3> QED
      BY <3>1, <3>2, <3>3
  <2> QED
    BY <2>1, <2>2
<1>4. ASSUME NEW t \in Threads, Stat(t) PROVE LockInv'
  BY <1>4 DEF Stat
<1>5. ASSUME NEW t \in Threads, RemoveStale(t) PROVE LockInv'
  BY <1>5 DEF RemoveStale
<1>6. ASSUME NEW t \in Threads, GiveUp(t) PROVE LockInv'
  BY <1>6 DEF GiveUp, Err
<1>7. ASSUME NEW t \in Threads, CreateFails(t) PROVE LockInv'
  BY <1>7 DEF CreateFails, Err
<1>8. ASSUME NEW t \in Threads, DropFile(t) PROVE LockInv'
  BY <1>8, AbandonedFile DEF DropFile
<1>9. ASSUME NEW t \in Threads, DropMutex(t) PROVE LockInv'
  BY <1>9 DEF DropMutex
<1>10. ASSUME NEW p \in Processes, Die(p) PROVE LockInv'
  BY <1>10, AbandonedFile DEF Die
<1>11. CASE Tick
  <2>1. file' = NoLockFile <=> file = NoLockFile
    BY <1>11 DEF Tick, LockFile
  <2>2. file # NoLockFile =>
          /\ file'.by = file.by
          /\ file'.abandoned = file.abandoned
          /\ file'.age = IF file.age > StaleAfter THEN file.age ELSE file.age + 1
    BY <1>11 DEF Tick, LockFile
  <2>3. \A t \in Threads : pc'[t] = "held" <=> pc[t] = "held"
    BY <1>11 DEF Tick
  <2>4. FileAccounted' /\ HolderKeepsFile'
    BY <1>11, <2>1, <2>2, <2>3 DEF Tick
  <2>5. SeenStale'
    BY <1>11, <2>1, <2>2, SaveLockAssumption DEF Tick, LockFile
  <2>6. StaleAbandoned'
    <3> SUFFICES ASSUME file # NoLockFile, ~file.abandoned, file.age <= StaleAfter,
                        file.age + 1 > StaleAfter
                 PROVE  FALSE
      BY <2>1, <2>2, SaveLockAssumption DEF LockFile
    <3>1. file.age = StaleAfter
      BY SaveLockAssumption DEF LockFile
    <3> QED
      BY <1>11, <3>1 DEF Tick
  <2> QED
    BY <2>4, <2>5, <2>6
<1>12. CASE UNCHANGED vars
  BY <1>12 DEF vars
<1> QED
  BY <1>1, <1>2, <1>3, <1>4, <1>5, <1>6, <1>7, <1>8, <1>9, <1>10, <1>11, <1>12
  DEF Next, Acquire, Release

\* While holders are prompt and no waiter has raced, the lock file of a holder is
\* its own: nobody takes it for the file of a dead process.
THEOREM SaveLockKeepsFile == ASSUME PromptHolders PROVE Spec => []HolderKeepsFile
<1>1. LockInv /\ [Next]_vars => LockInv'
  BY LockStep
<1>2. LockInv => HolderKeepsFile
  BY DEF LockInv
<1> QED
  BY LockInit, <1>1, <1>2, PTL DEF Spec

\* With prompt holders, the only way two threads hold the lock together is the
\* removal by name of another file than the one found stale.
THEOREM SaveLockExclusive == ASSUME PromptHolders PROVE Spec => []ExclusiveUnlessRaced
<1>1. LockInv /\ [Next]_vars => LockInv'
  BY LockStep
<1>2. LockInv => ExclusiveUnlessRaced
  BY DEF LockInv, HolderKeepsFile, ExclusiveUnlessRaced, Holding
<1> QED
  BY LockInit, <1>1, <1>2, PTL DEF Spec
-----------------------------------------------------------------------------
\* Who is inside, read off the lock file while nobody has raced.
LEMMA HoldersOfFile ==
  ASSUME LockInv, ~raced
  PROVE  /\ file = NoLockFile => LockNow = "absent" /\ Holding = {}
         /\ file # NoLockFile /\ file.abandoned => LockNow = "abandoned" /\ Holding = {}
         /\ file # NoLockFile /\ ~file.abandoned => /\ LockNow = "held"
                                                    /\ file.by \in Threads
                                                    /\ Holding = {file.by}
<1>1. \A t \in Holding : file # NoLockFile /\ file.by = t /\ ~file.abandoned
  BY DEF LockInv, HolderKeepsFile
<1>2. file # NoLockFile => file.abandoned \/ file.by \in Holding
  BY DEF LockInv, FileAccounted
<1>3. Holding \subseteq Threads
  BY DEF Holding
<1> QED
  BY <1>1, <1>2, <1>3 DEF LockNow

\* A step that keeps the file and the holders is none of the abstract lock.
LEMMA LockUntouched ==
  ASSUME file' = file, \A t \in Threads : pc'[t] = "held" <=> pc[t] = "held"
  PROVE  UNCHANGED <<LockNow, Holding>>
BY DEF LockNow, Holding

\* Each step before a race, as a step of the abstract lock: create_new enters where no
\* file is, Drop and the death of the holder leave, the reclaim by name removes what a
\* holder left behind.
LEMMA LockImplements ==
  ASSUME PromptHolders, LockInv, [Next]_vars, ~raced'
  PROVE  [Promised!Next]_<<LockNow, Holding>>
<1> USE SaveLockAssumption DEF Goto
<1>0. /\ pc \in [Threads -> Locations] /\ raced \in BOOLEAN
      /\ file \in LockFile \cup {NoLockFile}
  BY DEF LockInv, MutexInv, TypeOK
<1>1. ~raced
  BY DEF Next, Acquire, Release, StartAcquire, TakeMutex, CreateNew, Stat, RemoveStale, GiveUp,
         CreateFails, Err, DropFile, DropMutex, Die, Tick, vars
<1>2. ASSUME NEW t \in Threads,
             StartAcquire(t) \/ TakeMutex(t) \/ Stat(t) \/ GiveUp(t) \/ CreateFails(t) \/ DropMutex(t)
      PROVE  UNCHANGED <<LockNow, Holding>>
  <2>1. file' = file /\ \A s \in Threads : pc'[s] = "held" <=> pc[s] = "held"
    BY <1>0, <1>2 DEF StartAcquire, TakeMutex, Stat, GiveUp, CreateFails, Err, DropMutex, Locations
  <2> QED
    BY <2>1, LockUntouched
<1>3. ASSUME NEW t \in Threads, CreateNew(t)
      PROVE  Promised!Enter(t) \/ UNCHANGED <<LockNow, Holding>>
  <2>1. CASE file # NoLockFile
    <3>1. file' = file /\ \A s \in Threads : pc'[s] = "held" <=> pc[s] = "held"
      BY <1>0, <1>3, <2>1 DEF CreateNew
    <3> QED
      BY <3>1, LockUntouched
  <2>2. CASE file = NoLockFile
    <3>1. LockNow = "absent" /\ Holding = {}
      BY <1>1, <2>2, HoldersOfFile
    <3>2. file' = [by |-> t, abandoned |-> FALSE, age |-> 0]
      BY <1>3, <2>2 DEF CreateNew
    <3>3. file' # NoLockFile
      BY <3>2, CreatedFile, Zenon
    <3>4. LockNow' = "held"
      BY <3>2, <3>3 DEF LockNow
    <3>5. Holding' = {t}
      BY <1>0, <1>3, <2>2, <3>1 DEF CreateNew, Holding
    <3> QED
      BY <3>1, <3>4, <3>5 DEF Promised!Enter
  <2> QED
    BY <2>1, <2>2
<1>4. ASSUME NEW t \in Threads, RemoveStale(t)
      PROVE  Promised!Reclaim \/ UNCHANGED <<LockNow, Holding>>
  <2>1. file' \in {file, NoLockFile} /\ \A s \in Threads : pc'[s] = "held" <=> pc[s] = "held"
    BY <1>0, <1>4 DEF RemoveStale
  <2>2. CASE file' = file
    BY <2>1, <2>2, LockUntouched
  <2>3. CASE file # NoLockFile /\ file' = NoLockFile
    <3>1. t \in seen
      BY <1>4, <2>3 DEF RemoveStale
    <3>2. file.abandoned
      BY <2>3, <3>1 DEF LockInv, SeenStale, StaleAbandoned
    <3>3. LockNow = "abandoned" /\ Holding = {}
      BY <1>1, <2>3, <3>2, HoldersOfFile
    <3>4. LockNow' = "absent" /\ Holding' = Holding
      BY <2>1, <2>3 DEF LockNow, Holding
    <3> QED
      BY <3>3, <3>4 DEF Promised!Reclaim
  <2> QED
    BY <2>1, <2>2, <2>3
<1>5. ASSUME NEW t \in Threads, DropFile(t)
      PROVE  Promised!Leave(t)
  <2>1. t \in Holding
    BY <1>5 DEF DropFile, Holding
  <2>2. file # NoLockFile /\ ~file.abandoned /\ file.by = t /\ LockNow = "held" /\ Holding = {t}
    BY <1>1, <2>1, HoldersOfFile
  <2>3. Holding' = {}
    <3>1. pc' = [pc EXCEPT ![t] = "dropped"]
      BY <1>5 DEF DropFile
    <3> QED
      BY <1>0, <2>2, <3>1 DEF Holding
  <2>4. LockNow' \in {"absent", "abandoned"}
    <3>1. file' = NoLockFile \/ file' = Abandoned(file)
      BY <1>5, <2>2 DEF DropFile
    <3> QED
      BY <1>0, <3>1, AbandonedFile DEF LockNow
  <2> QED
    BY <2>2, <2>3, <2>4 DEF Promised!Leave
<1>6. ASSUME NEW p \in Processes, Die(p)
      PROVE  (\E t \in Threads : Promised!Leave(t)) \/ UNCHANGED <<LockNow, Holding>>
  <2> DEFINE gone == {t \in Threads : ProcessOf[t] = p}
  <2>1. /\ file' = IF file # NoLockFile /\ file.by \in gone THEN Abandoned(file) ELSE file
        /\ Holding' = Holding \ gone
    BY <1>0, <1>6 DEF Die, Holding
  <2> HIDE DEF gone
  <2>2. CASE file # NoLockFile /\ ~file.abandoned /\ file.by \in gone
    <3>1. file.by \in Threads /\ LockNow = "held" /\ Holding = {file.by}
      BY <1>1, <2>2, HoldersOfFile
    <3>2. file' = Abandoned(file) /\ Holding' = {}
      BY <2>1, <2>2, <3>1
    <3>3. LockNow' = "abandoned"
      BY <1>0, <2>2, <3>2, AbandonedFile DEF LockNow
    <3> QED
      BY <3>1, <3>2, <3>3 DEF Promised!Leave
  <2>3. CASE file # NoLockFile /\ ~file.abandoned /\ file.by \notin gone
    <3>1. Holding = {file.by}
      BY <1>1, <2>3, HoldersOfFile
    <3> QED
      BY <2>1, <2>3, <3>1 DEF LockNow
  <2>4. CASE file # NoLockFile /\ file.abandoned
    <3>1. Holding = {} /\ LockNow = "abandoned"
      BY <1>1, <2>4, HoldersOfFile
    <3>2. file' # NoLockFile /\ file'.abandoned
      BY <1>0, <2>1, <2>4, AbandonedFile
    <3> QED
      BY <2>1, <3>1, <3>2 DEF LockNow
  <2>5. CASE file = NoLockFile
    <3>1. Holding = {}
      BY <1>1, <2>5, HoldersOfFile
    <3> QED
      BY <2>1, <2>5, <3>1 DEF LockNow
  <2> QED
    BY <2>2, <2>3, <2>4, <2>5
<1>7. CASE Tick
  <2>1. \A t \in Threads : pc'[t] = "held" <=> pc[t] = "held"
    BY <1>7 DEF Tick
  <2>2. (file' = NoLockFile <=> file = NoLockFile)
        /\ (file # NoLockFile => file'.abandoned = file.abandoned)
    BY <1>0, <1>7 DEF Tick, LockFile
  <2> QED
    BY <2>1, <2>2 DEF LockNow, Holding
<1>8. CASE UNCHANGED vars
  BY <1>8 DEF vars, LockNow, Holding
<1> QED
  BY <1>2, <1>3, <1>4, <1>5, <1>6, <1>7, <1>8 DEF Next, Acquire, Release, Promised!Next

\* With prompt holders, and until a waiter races, the lock file is the lock that the
\* transactions of OfflineLibrary take: nobody enters while a file is there, and a file
\* is taken away under its name only after its holder died or failed to remove it.
THEOREM SaveLockImplementsLock == ASSUME PromptHolders PROVE Spec => ImplementsLock
<1>1. Init => Promised!Init
  BY DEF Init, Promised!Init, LockNow, Holding
<1>2. LockInv /\ [Next]_vars => LockInv'
  BY LockStep
<1>3. LockInv /\ [Next]_vars => [raced' \/ Promised!Next]_<<LockNow, Holding>>
  BY LockImplements
<1> QED
  BY LockInit, <1>1, <1>2, <1>3, PTL DEF Spec, ImplementsLock
=============================================================================
