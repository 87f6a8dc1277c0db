SPECIFICATION Spec
CONSTANTS
  j1 = j1
  j2 = j2
  s1 = s1
  s2 = s2
  Sessions = {s1, s2}
  Jobs = {j1, j2}
  SessionOf <- MCSessionOf
  NumChunks = 2
  NumReplies = 2
  NoSession = NoSession
INVARIANT CompleteJobScheduled
