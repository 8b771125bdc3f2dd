\* Two desktop threads and a CLI run; holders are prompt, threads and time are fair.
CONSTANTS
  t1 = t1  t2 = t2  t3 = t3
  desktop = desktop  cli = cli
  Threads = {t1, t2, t3}
  Processes = {desktop, cli}
  ProcessOf <- MCProcessOf
  MaxAttempts = 2
  StaleAfter = 3
  PromptHolders = TRUE
  NoThread = NoThread
  NoLockFile = NoLockFile
  MaxAcquires = 4
  MaxFaults = 2
SPECIFICATION FairSpec
INVARIANTS
  TypeOK
  ExclusiveInProcess
  HolderKeepsFile
PROPERTIES
  AcquireReturns
  ImplementsLock
CHECK_DEADLOCK FALSE
