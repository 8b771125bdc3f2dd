\* Two waiters find the file of a dead writer stale.
CONSTANTS
  t1 = t1  t2 = t2  t3 = t3
  desktop = desktop  cli = cli
  Threads = {t1, t2, t3}
  Processes = {desktop, cli}
  ProcessOf <- MCProcessOf
  MaxAttempts = 2
  StaleAfter = 3
  PromptHolders = TRUE
  NoThread = NoThread
  NoLockFile = NoLockFile
  MaxAcquires = 4
  MaxFaults = 1
SPECIFICATION Spec
INVARIANTS
  MutualExclusion
CHECK_DEADLOCK FALSE
