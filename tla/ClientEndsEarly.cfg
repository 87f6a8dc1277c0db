SPECIFICATION Spec
CONSTANTS
  NumJobs = 2
  MaxAttempts = 1
  MaxSpurious = 0
CHECK_DEADLOCK FALSE
INVARIANT EndsComplete
