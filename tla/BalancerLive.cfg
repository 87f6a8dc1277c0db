SPECIFICATION QuietSpec
CONSTANTS
  j1 = j1
  j2 = j2
  s1 = s1
  a1 = a1
  a2 = a2
  Jobs = {j1, j2}
  Sessions = {s1}
  SessionOf <- MCSessionOf
  JobIdOf <- MCJobIdOf
  Listener = Listener
  Stopper = Stopper
  Pool = Pool
  NoThread = NoThread
  NoAdapter = NoAdapter
  CancelTakesJobLock = TRUE
  Adapters = {a1, a2}
  Serves <- MCServes
  MaxDisconnects <- MCDisconnects
PROPERTY AcceptedJobReplied
CHECK_DEADLOCK FALSE
