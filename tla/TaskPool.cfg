SPECIFICATION FairSpec
CONSTANTS
  t1 = t1
  t2 = t2
  t3 = t3
  w1 = w1
  w2 = w2
  w3 = w3
  Tasks = {t1, t3}
  Priority <- MCPriority
  Workers = {w1, w2, w3}
  FirstWorkers <- MCFirstWorkers
  Sizes = {0, 1, 3}
  MaxResizes = 2
  MayDestroy = TRUE
  NoWorker = NoWorker
  NoTask = NoTask
CHECK_DEADLOCK FALSE
INVARIANT TypeOK
INVARIANT TaskInOnePlace
INVARIANT ResizeSafe
PROPERTY UnresizedTasksExecuted
