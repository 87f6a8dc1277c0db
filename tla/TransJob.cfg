SPECIFICATION JFairSpec
CONSTANTS
  t1 = t1
  t2 = t2
  t3 = t3
  Tasks = {t1, t2, t3}
  MaxCancels = 2
  NoTask = NoTask
INVARIANT JTypeOK
INVARIANT NotifiedWhenAllDone
INVARIANT ResponseMatchesSentences
PROPERTY ResultsFinalOnceNotified
PROPERTY JobAnswered
