SPECIFICATION FairSpec
CONSTANTS
  j1 = j1
  j2 = j2
  j3 = j3
  s1 = s1
  Jobs <- MCJobs
  Sessions = {s1}
  SessionOf <- MCSessionOf
  JobIdOf <- MCJobIdOf
  Listener = Listener
  Stopper = Stopper
  Pool = Pool
  NoThread = NoThread
  CancelTakesJobLock = FALSE
INVARIANT TypeOK
INVARIANT NoJobLeftBehind
INVARIANT NoUseAfterDelete
INVARIANT StopCancelsAll
INVARIANT JobKeysUnique
PROPERTY ImplementsJobService
PROPERTY StartedPoolStops
PROPERTY StartedPoolProcesses
