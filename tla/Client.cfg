SPECIFICATION FairSpec
CONSTANTS
  NumJobs = 3
  MaxAttempts = 1
  MaxSpurious = 1
CHECK_DEADLOCK FALSE
INVARIANT TypeOK
INVARIANT WaitEndsCounted
PROPERTY FinishedJobsWritten
PROPERTY WaitReturns
