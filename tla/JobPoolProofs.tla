--------------------------- MODULE JobPoolProofs ---------------------------
(***************************************************************************)
(* Theorems about the session job pool, for every set of jobs, sessions    *)
(* and ids, and for both kinds of job (CancelTakesJobLock).                *)
(*                                                                         *)
(* The inductive invariant IInv says who holds each lock at each program   *)
(* location (LockInv), what stage of its life each job is in (LifeInv),    *)
(* that the finished list holds each waiting job once (ListInv), what a    *)
(* canceling loop has still to visit (CancelInv), what stop() established  *)
(* (StopInv), and that the count is exact (CountInv).                      *)
(***************************************************************************)
EXTENDS JobPool, FiniteSetTheorems, TLAPS

LockInv ==
  /\ stoppingLock = IF pc[Listener] \in {"plan", "schedule"} THEN Listener
                    ELSE IF pc[Pool] = "checkCount" THEN Pool ELSE NoThread
  /\ ~(pc[Listener] \in {"plan", "schedule"} /\ pc[Pool] = "checkCount")
  /\ allJobsLock = IF pc[Listener] \in {"schedule", "cancel"} THEN Listener
                   ELSE IF pc[Stopper] = "cancel" THEN Stopper ELSE NoThread
  /\ ~(pc[Listener] \in {"schedule", "cancel"} /\ pc[Stopper] = "cancel")
  /\ finishedLock = IF pc[Pool] \in PoolInside THEN Pool ELSE NoThread
  /\ \A j \in Jobs :
       jobLock[j] = IF work[j] \in {"reporting", "reported"} THEN j ELSE NoThread

\* Pool has taken j off the finished list and not yet deleted it.
InHand(j) == pc[Pool] \in {"delete", "synch"} /\ current[Pool] = j
Registered(j) ==
  work[j] # "none" /\ object[j] = "alive" /\ ~(pc[Pool] = "synch" /\ current[Pool] = j)
Listed(j) == \E k \in 1..Len(doneList) : doneList[k] = j

LifeInv ==
  \A j \in Jobs :
    /\ object[j] = "none" => work[j] = "none"
    /\ object[j] = "alive" /\ work[j] = "none" <=>
         pc[Listener] = "plan" /\ current[Listener] = j
    /\ j \in jobsMap <=> Registered(j)
    /\ notified[j] = IF work[j] # "none" /\ (InHand(j) \/ object[j] = "deleted")
                     THEN 1 ELSE 0
    /\ InHand(j) => object[j] = "alive" /\ work[j] \in {"reported", "left"}
    /\ object[j] = "deleted" => work[j] \in {"none", "left"}

HandInv ==
  /\ pc[Listener] \in {"plan", "schedule"} => current[Listener] \in Jobs
  /\ pc[Listener] = "schedule" => current[Listener] \in jobsMap
  /\ pc[Pool] \in {"delete", "synch"} => current[Pool] \in Jobs

ListInv ==
  /\ \A j \in Jobs : Listed(j) <=>
       work[j] \in {"reported", "left"} /\ object[j] = "alive" /\ ~InHand(j)
  /\ \A k, l \in 1..Len(doneList) : doneList[k] = doneList[l] => k = l

CancelInv ==
  \A t \in Callers : toCancel[t] \subseteq IF pc[t] = "cancel" THEN jobsMap ELSE {}

StopInv ==
  /\ isStopping <=> pc[Stopper] # "idle"
  /\ pc[Stopper] = "cancel" => \A j \in jobsMap \ toCancel[Stopper] : canceled[j]
  /\ StopCancelsAll
  /\ pc[Pool] = "exit" => isStopping /\ jobsMap = {}

CountInv == jobCount = Cardinality(jobsMap)

IInv ==
  /\ TypeOK /\ LockInv /\ LifeInv /\ HandInv /\ ListInv /\ CancelInv /\ StopInv
  /\ CountInv /\ JobKeysUnique
\* Every action keeps the types; DeleteJob needs a registered job to count down from.
LEMMA TypeInductive ==
  ASSUME TypeOK, LifeInv, HandInv, CountInv, [Next]_vars
  PROVE  TypeOK'
<1> USE ThreadsDistinct
    DEF TypeOK, Threads, Callers, ListenerPC, StopperPC, PoolPC, WorkPC,
        HandInv
<1>1. ASSUME NEW j \in Jobs, PlanNewJob(j) PROVE TypeOK'
  BY <1>1 DEF PlanNewJob, Goto, Free, admin
<1>2. ASSUME PlanRefused PROVE TypeOK'
  BY <1>2 DEF PlanRefused, Goto, admin
<1>3. ASSUME AddJob PROVE TypeOK'
  BY <1>3 DEF AddJob, Goto, Free
<1>3a. ASSUME PlanEnd PROVE TypeOK'
  BY <1>3a DEF PlanEnd, Goto, admin
<1>4. ASSUME NEW s \in Sessions, CancelJobs(s) PROVE TypeOK'
  BY <1>4 DEF CancelJobs, CancelBegin, Goto, Free, admin
<1>5. ASSUME NEW t \in Callers, NEW j \in Jobs, CancelOne(t, j) PROVE TypeOK'
  BY <1>5 DEF CancelOne, locks, admin
<1>6. ASSUME NEW t \in Callers, CancelEnd(t) PROVE TypeOK'
  BY <1>6 DEF CancelEnd, Goto, admin
<1>7. ASSUME StopBegin PROVE TypeOK'
  BY <1>7 DEF StopBegin, Goto, Free, locks
<1>8. ASSUME CancelAllJobs PROVE TypeOK'
  BY <1>8 DEF CancelAllJobs, CancelBegin, Goto, Free, admin
<1>9. ASSUME StopWake PROVE TypeOK'
  BY <1>9 DEF StopWake, NotifyOne, Free, locks, admin
<1>10. ASSUME StopJoin PROVE TypeOK'
  BY <1>10 DEF StopJoin, Goto, locks, admin
<1>11. ASSUME PoolEnter PROVE TypeOK'
  BY <1>11 DEF PoolEnter, Goto, Free, admin
<1>12. ASSUME IsStopRunningLock PROVE TypeOK'
  BY <1>12 DEF IsStopRunningLock, Goto, Free, admin
<1>13. ASSUME IsStopRunning PROVE TypeOK'
  BY <1>13 DEF IsStopRunning, Goto, Free, admin
<1>14. ASSUME SpuriousWakeup PROVE TypeOK'
  BY <1>14 DEF SpuriousWakeup, Goto, locks, admin
<1>15. ASSUME ProcessFinishedJob PROVE TypeOK'
  BY <1>15 DEF ProcessFinishedJob, Goto, locks
<1>16. ASSUME LoopEnd PROVE TypeOK'
  BY <1>16 DEF LoopEnd, Goto, locks, admin
<1>17. ASSUME DeleteJob PROVE TypeOK'
  <2>1. current[Pool] \in jobsMap
    BY <1>17 DEF DeleteJob, LifeInv, InHand, Registered
  <2>2. IsFiniteSet(jobsMap)
    BY JobsFinite, FS_Subset
  <2>3. Cardinality(jobsMap) \in Nat /\ Cardinality(jobsMap) # 0
    BY <2>1, <2>2, FS_EmptySet, FS_CardinalityType
  <2>4. jobCount - 1 \in Nat
    BY <2>3 DEF CountInv
  <2>5. QED
    BY <1>17, <2>4 DEF DeleteJob, Goto, Free, locks
<1>18. ASSUME SynchJobFinished PROVE TypeOK'
  BY <1>18 DEF SynchJobFinished, Goto, Free, locks, admin
<1>19. ASSUME NEW j \in Jobs, WorkerDone(j) PROVE TypeOK'
  BY <1>19 DEF WorkerDone, Free, admin
<1>20. ASSUME NEW j \in Jobs, NotifyJobDone(j) PROVE TypeOK'
  BY <1>20 DEF NotifyJobDone, NotifyOne, Free, locks
<1>21. ASSUME NEW j \in Jobs, WorkerLeave(j) PROVE TypeOK'
  BY <1>21 DEF WorkerLeave, admin
<1>22. ASSUME UNCHANGED vars PROVE TypeOK'
  BY <1>22 DEF vars, locks, admin
<1>23. QED
  BY <1>1, <1>2, <1>3, <1>3a, <1>4, <1>5, <1>6, <1>7, <1>8, <1>9, <1>10, <1>11, <1>12,
     <1>13, <1>14, <1>15, <1>16, <1>17, <1>18, <1>19, <1>20, <1>21, <1>22
  DEF Next, ListenerStep, StopperStep, PoolStep, WorkerStep, Terminated, Callers

\* Every action keeps the table of who holds which lock at which location.
LEMMA LockInductive ==
  ASSUME TypeOK, LockInv, LifeInv, HandInv, [Next]_vars
  PROVE  LockInv'
<1> USE ThreadsDistinct
    DEF TypeOK, Threads, Callers, ListenerPC, StopperPC, PoolPC, WorkPC,
        LockInv, PoolInside, HandInv
<1>1. ASSUME NEW j \in Jobs, PlanNewJob(j) PROVE LockInv'
  BY <1>1 DEF PlanNewJob, Goto, Free, admin
<1>2. ASSUME PlanRefused PROVE LockInv'
  BY <1>2 DEF PlanRefused, Goto, admin
<1>3. ASSUME AddJob PROVE LockInv'
  BY <1>3 DEF AddJob, Goto, Free, LifeInv
<1>3a. ASSUME PlanEnd PROVE LockInv'
  BY <1>3a DEF PlanEnd, Goto, admin
<1>4. ASSUME NEW s \in Sessions, CancelJobs(s) PROVE LockInv'
  BY <1>4 DEF CancelJobs, CancelBegin, Goto, Free, admin
<1>5. ASSUME NEW t \in Callers, NEW j \in Jobs, CancelOne(t, j) PROVE LockInv'
  BY <1>5 DEF CancelOne, locks, admin
<1>6. ASSUME NEW t \in Callers, CancelEnd(t) PROVE LockInv'
  BY <1>6 DEF CancelEnd, Goto, admin
<1>7. ASSUME StopBegin PROVE LockInv'
  BY <1>7 DEF StopBegin, Goto, Free, locks
<1>8. ASSUME CancelAllJobs PROVE LockInv'
  BY <1>8 DEF CancelAllJobs, CancelBegin, Goto, Free, admin
<1>9. ASSUME StopWake PROVE LockInv'
  BY <1>9 DEF StopWake, NotifyOne, Free, locks, admin
<1>10. ASSUME StopJoin PROVE LockInv'
  BY <1>10 DEF StopJoin, Goto, locks, admin
<1>11. ASSUME PoolEnter PROVE LockInv'
  BY <1>11 DEF PoolEnter, Goto, Free, admin
<1>12. ASSUME IsStopRunningLock PROVE LockInv'
  BY <1>12 DEF IsStopRunningLock, Goto, Free, admin
<1>13. ASSUME IsStopRunning PROVE LockInv'
  BY <1>13 DEF IsStopRunning, Goto, Free, admin
<1>14. ASSUME SpuriousWakeup PROVE LockInv'
  BY <1>14 DEF SpuriousWakeup, Goto, locks, admin
<1>15. ASSUME ProcessFinishedJob PROVE LockInv'
  BY <1>15 DEF ProcessFinishedJob, Goto, locks
<1>16. ASSUME LoopEnd PROVE LockInv'
  BY <1>16 DEF LoopEnd, Goto, locks, admin
<1>17. ASSUME DeleteJob PROVE LockInv'
  BY <1>17 DEF DeleteJob, Goto, Free, locks
<1>18. ASSUME SynchJobFinished PROVE LockInv'
  BY <1>18 DEF SynchJobFinished, Goto, Free, locks, admin
<1>19. ASSUME NEW j \in Jobs, WorkerDone(j) PROVE LockInv'
  BY <1>19 DEF WorkerDone, Free, admin
<1>20. ASSUME NEW j \in Jobs, NotifyJobDone(j) PROVE LockInv'
  BY <1>20 DEF NotifyJobDone, NotifyOne, Free, locks
<1>21. ASSUME NEW j \in Jobs, WorkerLeave(j) PROVE LockInv'
  BY <1>21 DEF WorkerLeave, admin
<1>22. ASSUME UNCHANGED vars PROVE LockInv'
  BY <1>22 DEF vars, locks, admin
<1>23. QED
  BY <1>1, <1>2, <1>3, <1>3a, <1>4, <1>5, <1>6, <1>7, <1>8, <1>9, <1>10, <1>11, <1>12,
     <1>13, <1>14, <1>15, <1>16, <1>17, <1>18, <1>19, <1>20, <1>21, <1>22
  DEF Next, ListenerStep, StopperStep, PoolStep, WorkerStep, Terminated, Callers

\* Every action keeps the stages of each job's life in step with the pool's state.
LEMMA LifeInductive ==
  ASSUME TypeOK, LockInv, LifeInv, HandInv, ListInv, [Next]_vars
  PROVE  LifeInv'
<1> USE ThreadsDistinct
    DEF TypeOK, Threads, Callers, ListenerPC, StopperPC, PoolPC, WorkPC,
        LockInv, LifeInv, HandInv, InHand, Registered, PoolInside
<1>1. ASSUME NEW j \in Jobs, PlanNewJob(j) PROVE LifeInv'
  BY <1>1 DEF PlanNewJob, Goto, Free, admin
<1>2. ASSUME PlanRefused PROVE LifeInv'
  BY <1>2 DEF PlanRefused, Goto, admin
<1>3. ASSUME AddJob PROVE LifeInv'
  BY <1>3 DEF AddJob, Goto, Free
<1>3a. ASSUME PlanEnd PROVE LifeInv'
  BY <1>3a DEF PlanEnd, Goto, admin
<1>4. ASSUME NEW s \in Sessions, CancelJobs(s) PROVE LifeInv'
  BY <1>4 DEF CancelJobs, CancelBegin, Goto, Free, admin
<1>5. ASSUME NEW t \in Callers, NEW j \in Jobs, CancelOne(t, j) PROVE LifeInv'
  BY <1>5 DEF CancelOne, locks, admin
<1>6. ASSUME NEW t \in Callers, CancelEnd(t) PROVE LifeInv'
  BY <1>6 DEF CancelEnd, Goto, admin
<1>7. ASSUME StopBegin PROVE LifeInv'
  BY <1>7 DEF StopBegin, Goto, Free, locks
<1>8. ASSUME CancelAllJobs PROVE LifeInv'
  BY <1>8 DEF CancelAllJobs, CancelBegin, Goto, Free, admin
<1>9. ASSUME StopWake PROVE LifeInv'
  BY <1>9 DEF StopWake, NotifyOne, Free, locks, admin
<1>10. ASSUME StopJoin PROVE LifeInv'
  BY <1>10 DEF StopJoin, Goto, locks, admin
<1>11. ASSUME PoolEnter PROVE LifeInv'
  BY <1>11 DEF PoolEnter, Goto, Free, admin
<1>12. ASSUME IsStopRunningLock PROVE LifeInv'
  BY <1>12 DEF IsStopRunningLock, Goto, Free, admin
<1>13. ASSUME IsStopRunning PROVE LifeInv'
  BY <1>13 DEF IsStopRunning, Goto, Free, admin
<1>14. ASSUME SpuriousWakeup PROVE LifeInv'
  BY <1>14 DEF SpuriousWakeup, Goto, locks, admin
<1>15. ASSUME ProcessFinishedJob PROVE LifeInv'
  <2> DEFINE h == Head(doneList)
  <2>1. h \in Jobs /\ h = doneList[1] /\ 1 \in 1..Len(doneList)
    BY <1>15 DEF ProcessFinishedJob
  <2>2. work[h] \in {"reported", "left"} /\ object[h] = "alive"
    BY <2>1 DEF ListInv, Listed
  <2>3. QED
    BY <1>15, <2>1, <2>2 DEF ProcessFinishedJob, Goto, locks
<1>16. ASSUME LoopEnd PROVE LifeInv'
  BY <1>16 DEF LoopEnd, Goto, locks, admin
<1>17. ASSUME DeleteJob PROVE LifeInv'
  BY <1>17 DEF DeleteJob, Goto, Free, locks
<1>18. ASSUME SynchJobFinished PROVE LifeInv'
  BY <1>18 DEF SynchJobFinished, Goto, Free, locks, admin
<1>19. ASSUME NEW j \in Jobs, WorkerDone(j) PROVE LifeInv'
  BY <1>19 DEF WorkerDone, Free, admin
<1>20. ASSUME NEW j \in Jobs, NotifyJobDone(j) PROVE LifeInv'
  BY <1>20 DEF NotifyJobDone, NotifyOne, Free, locks
<1>21. ASSUME NEW j \in Jobs, WorkerLeave(j) PROVE LifeInv'
  BY <1>21 DEF WorkerLeave, admin
<1>22. ASSUME UNCHANGED vars PROVE LifeInv'
  BY <1>22 DEF vars, locks, admin
<1>23. QED
  BY <1>1, <1>2, <1>3, <1>3a, <1>4, <1>5, <1>6, <1>7, <1>8, <1>9, <1>10, <1>11, <1>12,
     <1>13, <1>14, <1>15, <1>16, <1>17, <1>18, <1>19, <1>20, <1>21, <1>22
  DEF Next, ListenerStep, StopperStep, PoolStep, WorkerStep, Terminated, Callers

\* Every action keeps the jobs the listener and the pool's thread have in hand.
LEMMA HandInductive ==
  ASSUME TypeOK, LockInv, HandInv, [Next]_vars
  PROVE  HandInv'
<1> USE ThreadsDistinct
    DEF TypeOK, Threads, Callers, ListenerPC, StopperPC, PoolPC, WorkPC,
        LockInv, HandInv
<1>1. ASSUME NEW j \in Jobs, PlanNewJob(j) PROVE HandInv'
  BY <1>1 DEF PlanNewJob, Goto, Free, admin
<1>2. ASSUME PlanRefused PROVE HandInv'
  BY <1>2 DEF PlanRefused, Goto, admin
<1>3. ASSUME AddJob PROVE HandInv'
  BY <1>3 DEF AddJob, Goto, Free
<1>3a. ASSUME PlanEnd PROVE HandInv'
  BY <1>3a DEF PlanEnd, Goto, admin
<1>4. ASSUME NEW s \in Sessions, CancelJobs(s) PROVE HandInv'
  BY <1>4 DEF CancelJobs, CancelBegin, Goto, Free, admin
<1>5. ASSUME NEW t \in Callers, NEW j \in Jobs, CancelOne(t, j) PROVE HandInv'
  BY <1>5 DEF CancelOne, locks, admin
<1>6. ASSUME NEW t \in Callers, CancelEnd(t) PROVE HandInv'
  BY <1>6 DEF CancelEnd, Goto, admin
<1>7. ASSUME StopBegin PROVE HandInv'
  BY <1>7 DEF StopBegin, Goto, Free, locks
<1>8. ASSUME CancelAllJobs PROVE HandInv'
  BY <1>8 DEF CancelAllJobs, CancelBegin, Goto, Free, admin
<1>9. ASSUME StopWake PROVE HandInv'
  BY <1>9 DEF StopWake, NotifyOne, Free, locks, admin
<1>10. ASSUME StopJoin PROVE HandInv'
  BY <1>10 DEF StopJoin, Goto, locks, admin
<1>11. ASSUME PoolEnter PROVE HandInv'
  BY <1>11 DEF PoolEnter, Goto, Free, admin
<1>12. ASSUME IsStopRunningLock PROVE HandInv'
  BY <1>12 DEF IsStopRunningLock, Goto, Free, admin
<1>13. ASSUME IsStopRunning PROVE HandInv'
  BY <1>13 DEF IsStopRunning, Goto, Free, admin
<1>14. ASSUME SpuriousWakeup PROVE HandInv'
  BY <1>14 DEF SpuriousWakeup, Goto, locks, admin
<1>15. ASSUME ProcessFinishedJob PROVE HandInv'
  BY <1>15 DEF ProcessFinishedJob, Goto, locks
<1>16. ASSUME LoopEnd PROVE HandInv'
  BY <1>16 DEF LoopEnd, Goto, locks, admin
<1>17. ASSUME DeleteJob PROVE HandInv'
  BY <1>17 DEF DeleteJob, Goto, Free, locks
<1>18. ASSUME SynchJobFinished PROVE HandInv'
  BY <1>18 DEF SynchJobFinished, Goto, Free, locks, admin
<1>19. ASSUME NEW j \in Jobs, WorkerDone(j) PROVE HandInv'
  BY <1>19 DEF WorkerDone, Free, admin
<1>20. ASSUME NEW j \in Jobs, NotifyJobDone(j) PROVE HandInv'
  BY <1>20 DEF NotifyJobDone, NotifyOne, Free, locks
<1>21. ASSUME NEW j \in Jobs, WorkerLeave(j) PROVE HandInv'
  BY <1>21 DEF WorkerLeave, admin
<1>22. ASSUME UNCHANGED vars PROVE HandInv'
  BY <1>22 DEF vars, locks, admin
<1>23. QED
  BY <1>1, <1>2, <1>3, <1>3a, <1>4, <1>5, <1>6, <1>7, <1>8, <1>9, <1>10, <1>11, <1>12,
     <1>13, <1>14, <1>15, <1>16, <1>17, <1>18, <1>19, <1>20, <1>21, <1>22
  DEF Next, ListenerStep, StopperStep, PoolStep, WorkerStep, Terminated, Callers

\* Every action keeps the finished list: each reported, unprocessed job, once.
LEMMA ListInductive ==
  ASSUME TypeOK, LockInv, LifeInv, HandInv, ListInv, [Next]_vars
  PROVE  ListInv'
<1> USE ThreadsDistinct
    DEF TypeOK, Threads, Callers, ListenerPC, StopperPC, PoolPC, WorkPC,
        LockInv, LifeInv, HandInv, ListInv, Listed, InHand, Registered, PoolInside
<1>1. ASSUME NEW j \in Jobs, PlanNewJob(j) PROVE ListInv'
  BY <1>1 DEF PlanNewJob, Goto, Free, admin
<1>2. ASSUME PlanRefused PROVE ListInv'
  BY <1>2 DEF PlanRefused, Goto, admin
<1>3. ASSUME AddJob PROVE ListInv'
  BY <1>3 DEF AddJob, Goto, Free
<1>3a. ASSUME PlanEnd PROVE ListInv'
  <2>1. pc'[Pool] = pc[Pool]
    BY <1>3a DEF PlanEnd, Goto
  <2>2. UNCHANGED <<doneList, work, object, current>>
    BY <1>3a DEF PlanEnd, admin
  <2>3. QED
    BY <2>1, <2>2
<1>4. ASSUME NEW s \in Sessions, CancelJobs(s) PROVE ListInv'
  BY <1>4 DEF CancelJobs, CancelBegin, Goto, Free, admin
<1>5. ASSUME NEW t \in Callers, NEW j \in Jobs, CancelOne(t, j) PROVE ListInv'
  BY <1>5 DEF CancelOne, locks, admin
<1>6. ASSUME NEW t \in Callers, CancelEnd(t) PROVE ListInv'
  <2>1. pc'[Pool] = pc[Pool]
    BY <1>6 DEF CancelEnd, Goto
  <2>2. UNCHANGED <<doneList, work, object, current>>
    BY <1>6 DEF CancelEnd, admin
  <2>3. QED
    BY <2>1, <2>2
<1>7. ASSUME StopBegin PROVE ListInv'
  BY <1>7 DEF StopBegin, Goto, Free, locks
<1>8. ASSUME CancelAllJobs PROVE ListInv'
  BY <1>8 DEF CancelAllJobs, CancelBegin, Goto, Free, admin
<1>9. ASSUME StopWake PROVE ListInv'
  BY <1>9 DEF StopWake, NotifyOne, Free, locks, admin
<1>10. ASSUME StopJoin PROVE ListInv'
  BY <1>10 DEF StopJoin, Goto, locks, admin
<1>11. ASSUME PoolEnter PROVE ListInv'
  BY <1>11 DEF PoolEnter, Goto, Free, admin
<1>12. ASSUME IsStopRunningLock PROVE ListInv'
  BY <1>12 DEF IsStopRunningLock, Goto, Free, admin
<1>13. ASSUME IsStopRunning PROVE ListInv'
  BY <1>13 DEF IsStopRunning, Goto, Free, admin
<1>14. ASSUME SpuriousWakeup PROVE ListInv'
  BY <1>14 DEF SpuriousWakeup, Goto, locks, admin
<1>15. ASSUME ProcessFinishedJob PROVE ListInv'
  <2> DEFINE h == Head(doneList)
  <2>1. /\ h \in Jobs /\ h = doneList[1] /\ 1 \in 1..Len(doneList)
        /\ doneList' \in Seq(Jobs) /\ Len(doneList') = Len(doneList) - 1
        /\ \A k \in 1..Len(doneList') : doneList'[k] = doneList[k + 1]
    BY <1>15 DEF ProcessFinishedJob
  <2>2. \A k, l \in 1..Len(doneList') : doneList'[k] = doneList'[l] => k = l
    <3>1. ASSUME NEW k \in 1..Len(doneList'), NEW l \in 1..Len(doneList'),
                 doneList'[k] = doneList'[l]
          PROVE  k = l
      <4> HIDE DEF TypeOK, LockInv, LifeInv, HandInv
      <4>1. doneList[k + 1] = doneList[l + 1]
        BY <2>1, <3>1
      <4>2. Len(doneList) \in Nat
        BY DEF TypeOK
      <4>3. k + 1 \in 1..Len(doneList) /\ l + 1 \in 1..Len(doneList)
        BY <2>1, <4>2
      <4>4. k + 1 = l + 1
        BY <4>1, <4>3
      <4>5. QED
        BY <2>1, <4>2, <4>4
    <3>2. QED
      BY <3>1
  <2>3. \A i \in Jobs : Listed(i)' <=> Listed(i) /\ i # h
    <3>1. Len(doneList) \in Nat /\ \A k, l \in 1..Len(doneList) : doneList[k] = doneList[l] => k = l
      OBVIOUS
    <3> HIDE DEF TypeOK, LockInv, LifeInv, HandInv, ListInv
    <3>2. ASSUME NEW i \in Jobs, Listed(i)' PROVE Listed(i) /\ i # h
      <4>1. PICK k \in 1..Len(doneList') : doneList'[k] = i
        BY <3>2
      <4>2. k + 1 \in 1..Len(doneList) /\ k + 1 # 1 /\ doneList[k + 1] = i
        BY <2>1, <3>1, <4>1
      <4>3. QED
        BY <2>1, <3>1, <4>2
    <3>3. ASSUME NEW i \in Jobs, Listed(i), i # h PROVE Listed(i)'
      <4>1. PICK k \in 1..Len(doneList) : doneList[k] = i
        BY <3>3
      <4>2. k - 1 \in 1..Len(doneList')
        BY <2>1, <3>1, <3>3, <4>1
      <4>3. doneList'[k - 1] = doneList[(k - 1) + 1] /\ (k - 1) + 1 = k
        BY <2>1, <3>1, <4>2
      <4>4. QED
        BY <4>1, <4>2, <4>3
    <3>4. QED
      BY <3>2, <3>3
  <2>4. \A i \in Jobs : InHand(i)' <=> i = h
    BY <1>15, <2>1 DEF ProcessFinishedJob, Goto
  <2>5. UNCHANGED <<work, object>> /\ \A i \in Jobs : ~InHand(i)
    BY <1>15 DEF ProcessFinishedJob
  <2>6. QED
    BY <2>2, <2>3, <2>4, <2>5
<1>16. ASSUME LoopEnd PROVE ListInv'
  BY <1>16 DEF LoopEnd, Goto, locks, admin
<1>17. ASSUME DeleteJob PROVE ListInv'
  BY <1>17 DEF DeleteJob, Goto, Free, locks
<1>18. ASSUME SynchJobFinished PROVE ListInv'
  BY <1>18 DEF SynchJobFinished, Goto, Free, locks, admin
<1>19. ASSUME NEW j \in Jobs, WorkerDone(j) PROVE ListInv'
  BY <1>19 DEF WorkerDone, Free, admin
<1>20. ASSUME NEW j \in Jobs, NotifyJobDone(j) PROVE ListInv'
  <2>1. /\ doneList' = Append(doneList, j) /\ Len(doneList') = Len(doneList) + 1
        /\ \A k \in 1..Len(doneList) : doneList'[k] = doneList[k]
        /\ doneList'[Len(doneList) + 1] = j
    BY <1>20 DEF NotifyJobDone
  <2>2. ~Listed(j) /\ object[j] = "alive" /\ ~InHand(j)
    BY <1>20 DEF NotifyJobDone
  <2>3. \A k, l \in 1..Len(doneList') : doneList'[k] = doneList'[l] => k = l
    BY <2>1, <2>2
  <2>4. \A i \in Jobs : Listed(i)' <=> Listed(i) \/ i = j
    BY <2>1
  <2>5. \A i \in Jobs : InHand(i)' <=> InHand(i)
    BY <1>20 DEF NotifyJobDone, NotifyOne
  <2>6. QED
    BY <1>20, <2>2, <2>3, <2>4, <2>5, SMTT(30) DEF NotifyJobDone
<1>21. ASSUME NEW j \in Jobs, WorkerLeave(j) PROVE ListInv'
  BY <1>21 DEF WorkerLeave, admin
<1>22. ASSUME UNCHANGED vars PROVE ListInv'
  BY <1>22 DEF vars, locks, admin
<1>23. QED
  BY <1>1, <1>2, <1>3, <1>3a, <1>4, <1>5, <1>6, <1>7, <1>8, <1>9, <1>10, <1>11, <1>12,
     <1>13, <1>14, <1>15, <1>16, <1>17, <1>18, <1>19, <1>20, <1>21, <1>22
  DEF Next, ListenerStep, StopperStep, PoolStep, WorkerStep, Terminated, Callers

\* A canceling loop only ever has registered jobs ahead: no job leaves the
\* administration while the loop holds m_all_jobs_lock.
LEMMA CancelInductive ==
  ASSUME TypeOK, LockInv, CancelInv, [Next]_vars
  PROVE  CancelInv'
<1> USE ThreadsDistinct
    DEF TypeOK, Threads, Callers, ListenerPC, StopperPC, PoolPC, WorkPC,
        LockInv, CancelInv
<1>1. ASSUME NEW j \in Jobs, PlanNewJob(j) PROVE CancelInv'
  BY <1>1 DEF PlanNewJob, Goto, Free, admin
<1>2. ASSUME PlanRefused PROVE CancelInv'
  BY <1>2 DEF PlanRefused, Goto, admin
<1>3. ASSUME AddJob PROVE CancelInv'
  BY <1>3 DEF AddJob, Goto, Free
<1>3a. ASSUME PlanEnd PROVE CancelInv'
  BY <1>3a DEF PlanEnd, Goto, admin
<1>4. ASSUME NEW s \in Sessions, CancelJobs(s) PROVE CancelInv'
  BY <1>4 DEF CancelJobs, CancelBegin, Goto, Free, admin
<1>5. ASSUME NEW t \in Callers, NEW j \in Jobs, CancelOne(t, j) PROVE CancelInv'
  BY <1>5 DEF CancelOne, locks, admin
<1>6. ASSUME NEW t \in Callers, CancelEnd(t) PROVE CancelInv'
  BY <1>6 DEF CancelEnd, Goto, admin
<1>7. ASSUME StopBegin PROVE CancelInv'
  BY <1>7 DEF StopBegin, Goto, Free, locks
<1>8. ASSUME CancelAllJobs PROVE CancelInv'
  BY <1>8 DEF CancelAllJobs, CancelBegin, Goto, Free, admin
<1>9. ASSUME StopWake PROVE CancelInv'
  BY <1>9 DEF StopWake, NotifyOne, Free, locks, admin
<1>10. ASSUME StopJoin PROVE CancelInv'
  BY <1>10 DEF StopJoin, Goto, locks, admin
<1>11. ASSUME PoolEnter PROVE CancelInv'
  BY <1>11 DEF PoolEnter, Goto, Free, admin
<1>12. ASSUME IsStopRunningLock PROVE CancelInv'
  BY <1>12 DEF IsStopRunningLock, Goto, Free, admin
<1>13. ASSUME IsStopRunning PROVE CancelInv'
  BY <1>13 DEF IsStopRunning, Goto, Free, admin
<1>14. ASSUME SpuriousWakeup PROVE CancelInv'
  BY <1>14 DEF SpuriousWakeup, Goto, locks, admin
<1>15. ASSUME ProcessFinishedJob PROVE CancelInv'
  BY <1>15 DEF ProcessFinishedJob, Goto, locks
<1>16. ASSUME LoopEnd PROVE CancelInv'
  BY <1>16 DEF LoopEnd, Goto, locks, admin
<1>17. ASSUME DeleteJob PROVE CancelInv'
  BY <1>17 DEF DeleteJob, Goto, Free, locks
<1>18. ASSUME SynchJobFinished PROVE CancelInv'
  BY <1>18 DEF SynchJobFinished, Goto, Free, locks, admin
<1>19. ASSUME NEW j \in Jobs, WorkerDone(j) PROVE CancelInv'
  BY <1>19 DEF WorkerDone, Free, admin
<1>20. ASSUME NEW j \in Jobs, NotifyJobDone(j) PROVE CancelInv'
  BY <1>20 DEF NotifyJobDone, NotifyOne, Free, locks
<1>21. ASSUME NEW j \in Jobs, WorkerLeave(j) PROVE CancelInv'
  BY <1>21 DEF WorkerLeave, admin
<1>22. ASSUME UNCHANGED vars PROVE CancelInv'
  BY <1>22 DEF vars, locks, admin
<1>23. QED
  BY <1>1, <1>2, <1>3, <1>3a, <1>4, <1>5, <1>6, <1>7, <1>8, <1>9, <1>10, <1>11, <1>12,
     <1>13, <1>14, <1>15, <1>16, <1>17, <1>18, <1>19, <1>20, <1>21, <1>22
  DEF Next, ListenerStep, StopperStep, PoolStep, WorkerStep, Terminated, Callers

\* Every action keeps what stop() established so far.
LEMMA StopInductive ==
  ASSUME TypeOK, LockInv, CancelInv, StopInv, CountInv, [Next]_vars
  PROVE  StopInv'
<1> USE ThreadsDistinct
    DEF TypeOK, Threads, Callers, ListenerPC, StopperPC, PoolPC, WorkPC,
        LockInv, CancelInv, StopInv, StopCancelsAll
<1>1. ASSUME NEW j \in Jobs, PlanNewJob(j) PROVE StopInv'
  BY <1>1 DEF PlanNewJob, Goto, Free, admin
<1>2. ASSUME PlanRefused PROVE StopInv'
  BY <1>2 DEF PlanRefused, Goto, admin
<1>3. ASSUME AddJob PROVE StopInv'
  BY <1>3 DEF AddJob, Goto, Free
<1>3a. ASSUME PlanEnd PROVE StopInv'
  BY <1>3a DEF PlanEnd, Goto, admin
<1>4. ASSUME NEW s \in Sessions, CancelJobs(s) PROVE StopInv'
  BY <1>4 DEF CancelJobs, CancelBegin, Goto, Free, admin
<1>5. ASSUME NEW t \in Callers, NEW j \in Jobs, CancelOne(t, j) PROVE StopInv'
  BY <1>5 DEF CancelOne, locks, admin
<1>6. ASSUME NEW t \in Callers, CancelEnd(t) PROVE StopInv'
  BY <1>6 DEF CancelEnd, Goto, admin
<1>7. ASSUME StopBegin PROVE StopInv'
  BY <1>7 DEF StopBegin, Goto, Free, locks
<1>8. ASSUME CancelAllJobs PROVE StopInv'
  BY <1>8 DEF CancelAllJobs, CancelBegin, Goto, Free, admin
<1>9. ASSUME StopWake PROVE StopInv'
  BY <1>9 DEF StopWake, NotifyOne, Free, locks, admin
<1>10. ASSUME StopJoin PROVE StopInv'
  BY <1>10 DEF StopJoin, Goto, locks, admin
<1>11. ASSUME PoolEnter PROVE StopInv'
  BY <1>11 DEF PoolEnter, Goto, Free, admin
<1>12. ASSUME IsStopRunningLock PROVE StopInv'
  BY <1>12 DEF IsStopRunningLock, Goto, Free, admin
<1>13. ASSUME IsStopRunning PROVE StopInv'
  <2>1. isStopping /\ jobCount = 0 => jobsMap = {}
    BY JobsFinite, FS_Subset, FS_EmptySet DEF CountInv
  <2>2. QED
    BY <1>13, <2>1 DEF IsStopRunning, Goto, Free, admin
<1>14. ASSUME SpuriousWakeup PROVE StopInv'
  BY <1>14 DEF SpuriousWakeup, Goto, locks, admin
<1>15. ASSUME ProcessFinishedJob PROVE StopInv'
  BY <1>15 DEF ProcessFinishedJob, Goto, locks
<1>16. ASSUME LoopEnd PROVE StopInv'
  BY <1>16 DEF LoopEnd, Goto, locks, admin
<1>17. ASSUME DeleteJob PROVE StopInv'
  BY <1>17 DEF DeleteJob, Goto, Free, locks
<1>18. ASSUME SynchJobFinished PROVE StopInv'
  BY <1>18 DEF SynchJobFinished, Goto, Free, locks, admin
<1>19. ASSUME NEW j \in Jobs, WorkerDone(j) PROVE StopInv'
  BY <1>19 DEF WorkerDone, Free, admin
<1>20. ASSUME NEW j \in Jobs, NotifyJobDone(j) PROVE StopInv'
  BY <1>20 DEF NotifyJobDone, NotifyOne, Free, locks
<1>21. ASSUME NEW j \in Jobs, WorkerLeave(j) PROVE StopInv'
  BY <1>21 DEF WorkerLeave, admin
<1>22. ASSUME UNCHANGED vars PROVE StopInv'
  BY <1>22 DEF vars, locks, admin
<1>23. QED
  BY <1>1, <1>2, <1>3, <1>3a, <1>4, <1>5, <1>6, <1>7, <1>8, <1>9, <1>10, <1>11, <1>12,
     <1>13, <1>14, <1>15, <1>16, <1>17, <1>18, <1>19, <1>20, <1>21, <1>22
  DEF Next, ListenerStep, StopperStep, PoolStep, WorkerStep, Terminated, Callers

\* Every action keeps the keys of the registered jobs distinct.
LEMMA KeyInductive ==
  ASSUME TypeOK, HandInv, JobKeysUnique, [Next]_vars
  PROVE  JobKeysUnique'
<1> USE ThreadsDistinct
    DEF TypeOK, Threads, Callers, ListenerPC, StopperPC, PoolPC, WorkPC,
        HandInv, JobKeysUnique, SameKey
<1>1. ASSUME NEW j \in Jobs, PlanNewJob(j) PROVE JobKeysUnique'
  BY <1>1 DEF PlanNewJob, Goto, Free, admin
<1>2. ASSUME PlanRefused PROVE JobKeysUnique'
  BY <1>2 DEF PlanRefused, Goto, admin
<1>3. ASSUME AddJob PROVE JobKeysUnique'
  BY <1>3, ZenonT(60) DEF AddJob, Goto, Free
<1>3a. ASSUME PlanEnd PROVE JobKeysUnique'
  BY <1>3a DEF PlanEnd, Goto, admin
<1>4. ASSUME NEW s \in Sessions, CancelJobs(s) PROVE JobKeysUnique'
  BY <1>4 DEF CancelJobs, CancelBegin, Goto, Free, admin
<1>5. ASSUME NEW t \in Callers, NEW j \in Jobs, CancelOne(t, j) PROVE JobKeysUnique'
  BY <1>5 DEF CancelOne, locks, admin
<1>6. ASSUME NEW t \in Callers, CancelEnd(t) PROVE JobKeysUnique'
  BY <1>6 DEF CancelEnd, Goto, admin
<1>7. ASSUME StopBegin PROVE JobKeysUnique'
  BY <1>7 DEF StopBegin, Goto, Free, locks
<1>8. ASSUME CancelAllJobs PROVE JobKeysUnique'
  BY <1>8 DEF CancelAllJobs, CancelBegin, Goto, Free, admin
<1>9. ASSUME StopWake PROVE JobKeysUnique'
  BY <1>9 DEF StopWake, NotifyOne, Free, locks, admin
<1>10. ASSUME StopJoin PROVE JobKeysUnique'
  BY <1>10 DEF StopJoin, Goto, locks, admin
<1>11. ASSUME PoolEnter PROVE JobKeysUnique'
  BY <1>11 DEF PoolEnter, Goto, Free, admin
<1>12. ASSUME IsStopRunningLock PROVE JobKeysUnique'
  BY <1>12 DEF IsStopRunningLock, Goto, Free, admin
<1>13. ASSUME IsStopRunning PROVE JobKeysUnique'
  BY <1>13 DEF IsStopRunning, Goto, Free, admin
<1>14. ASSUME SpuriousWakeup PROVE JobKeysUnique'
  BY <1>14 DEF SpuriousWakeup, Goto, locks, admin
<1>15. ASSUME ProcessFinishedJob PROVE JobKeysUnique'
  BY <1>15 DEF ProcessFinishedJob, Goto, locks
<1>16. ASSUME LoopEnd PROVE JobKeysUnique'
  BY <1>16 DEF LoopEnd, Goto, locks, admin
<1>17. ASSUME DeleteJob PROVE JobKeysUnique'
  BY <1>17 DEF DeleteJob, Goto, Free, locks
<1>18. ASSUME SynchJobFinished PROVE JobKeysUnique'
  BY <1>18 DEF SynchJobFinished, Goto, Free, locks, admin
<1>19. ASSUME NEW j \in Jobs, WorkerDone(j) PROVE JobKeysUnique'
  BY <1>19 DEF WorkerDone, Free, admin
<1>20. ASSUME NEW j \in Jobs, NotifyJobDone(j) PROVE JobKeysUnique'
  BY <1>20 DEF NotifyJobDone, NotifyOne, Free, locks
<1>21. ASSUME NEW j \in Jobs, WorkerLeave(j) PROVE JobKeysUnique'
  BY <1>21 DEF WorkerLeave, admin
<1>22. ASSUME UNCHANGED vars PROVE JobKeysUnique'
  BY <1>22 DEF vars, locks, admin
<1>23. QED
  BY <1>1, <1>2, <1>3, <1>3a, <1>4, <1>5, <1>6, <1>7, <1>8, <1>9, <1>10, <1>11, <1>12,
     <1>13, <1>14, <1>15, <1>16, <1>17, <1>18, <1>19, <1>20, <1>21, <1>22
  DEF Next, ListenerStep, StopperStep, PoolStep, WorkerStep, Terminated, Callers

\* Every action keeps m_job_count equal to the number of registered jobs.
LEMMA CountInductive ==
  ASSUME TypeOK, LifeInv, HandInv, CountInv, [Next]_vars
  PROVE  CountInv'
<1> USE ThreadsDistinct DEF CountInv
<1>1. ASSUME NEW j \in Jobs, PlanNewJob(j) PROVE CountInv'
  BY <1>1 DEF PlanNewJob, Goto, Free, admin
<1>2. ASSUME PlanRefused PROVE CountInv'
  BY <1>2 DEF PlanRefused, Goto, admin
<1>3. ASSUME AddJob PROVE CountInv'
  <2>1. IsFiniteSet(jobsMap)
    BY JobsFinite, FS_Subset DEF TypeOK
  <2>2. current[Listener] \notin jobsMap
    BY <1>3 DEF AddJob, LifeInv, HandInv, Registered
  <2>3. Cardinality(jobsMap \cup {current[Listener]}) = Cardinality(jobsMap) + 1
    BY <2>1, <2>2, FS_AddElement
  <2>4. QED
    BY <1>3, <2>3 DEF AddJob
<1>3a. ASSUME PlanEnd PROVE CountInv'
  BY <1>3a DEF PlanEnd, Goto, admin
<1>4. ASSUME NEW s \in Sessions, CancelJobs(s) PROVE CountInv'
  BY <1>4 DEF CancelJobs, CancelBegin, Goto, Free, admin
<1>5. ASSUME NEW t \in Callers, NEW j \in Jobs, CancelOne(t, j) PROVE CountInv'
  BY <1>5 DEF CancelOne, locks, admin
<1>6. ASSUME NEW t \in Callers, CancelEnd(t) PROVE CountInv'
  BY <1>6 DEF CancelEnd, Goto, admin
<1>7. ASSUME StopBegin PROVE CountInv'
  BY <1>7 DEF StopBegin, Goto, Free, locks
<1>8. ASSUME CancelAllJobs PROVE CountInv'
  BY <1>8 DEF CancelAllJobs, CancelBegin, Goto, Free, admin
<1>9. ASSUME StopWake PROVE CountInv'
  BY <1>9 DEF StopWake, NotifyOne, Free, locks, admin
<1>10. ASSUME StopJoin PROVE CountInv'
  BY <1>10 DEF StopJoin, Goto, locks, admin
<1>11. ASSUME PoolEnter PROVE CountInv'
  BY <1>11 DEF PoolEnter, Goto, Free, admin
<1>12. ASSUME IsStopRunningLock PROVE CountInv'
  BY <1>12 DEF IsStopRunningLock, Goto, Free, admin
<1>13. ASSUME IsStopRunning PROVE CountInv'
  BY <1>13 DEF IsStopRunning, Goto, Free, admin
<1>14. ASSUME SpuriousWakeup PROVE CountInv'
  BY <1>14 DEF SpuriousWakeup, Goto, locks, admin
<1>15. ASSUME ProcessFinishedJob PROVE CountInv'
  BY <1>15 DEF ProcessFinishedJob, Goto, locks
<1>16. ASSUME LoopEnd PROVE CountInv'
  BY <1>16 DEF LoopEnd, Goto, locks, admin
<1>17. ASSUME DeleteJob PROVE CountInv'
  <2>1. IsFiniteSet(jobsMap)
    BY JobsFinite, FS_Subset DEF TypeOK
  <2>2. current[Pool] \in jobsMap
    BY <1>17 DEF DeleteJob, LifeInv, HandInv, InHand, Registered
  <2>3. Cardinality(jobsMap \ {current[Pool]}) = Cardinality(jobsMap) - 1
    BY <2>1, <2>2, FS_RemoveElement
  <2>4. QED
    BY <1>17, <2>3 DEF DeleteJob
<1>18. ASSUME SynchJobFinished PROVE CountInv'
  BY <1>18 DEF SynchJobFinished, Goto, Free, locks, admin
<1>19. ASSUME NEW j \in Jobs, WorkerDone(j) PROVE CountInv'
  BY <1>19 DEF WorkerDone, Free, admin
<1>20. ASSUME NEW j \in Jobs, NotifyJobDone(j) PROVE CountInv'
  BY <1>20 DEF NotifyJobDone, NotifyOne, Free, locks
<1>21. ASSUME NEW j \in Jobs, WorkerLeave(j) PROVE CountInv'
  BY <1>21 DEF WorkerLeave, admin
<1>22. ASSUME UNCHANGED vars PROVE CountInv'
  BY <1>22 DEF vars, locks, admin
<1>23. QED
  BY <1>1, <1>2, <1>3, <1>3a, <1>4, <1>5, <1>6, <1>7, <1>8, <1>9, <1>10, <1>11, <1>12,
     <1>13, <1>14, <1>15, <1>16, <1>17, <1>18, <1>19, <1>20, <1>21, <1>22
  DEF Next, ListenerStep, StopperStep, PoolStep, WorkerStep, Terminated, Callers

\* The constructor establishes the invariant.
LEMMA InitIInv == Init => IInv
<1> SUFFICES ASSUME Init PROVE IInv
  OBVIOUS
<1> USE ThreadsDistinct DEF Init
<1>1. TypeOK
  <2>1. /\ pc \in [{Listener, Stopper, Pool} -> ListenerPC \cup StopperPC \cup PoolPC]
        /\ pc[Listener] \in ListenerPC /\ pc[Stopper] \in StopperPC /\ pc[Pool] \in PoolPC
    BY DEF ListenerPC, StopperPC, PoolPC
  <2>2. jobCount \in Nat /\ doneList \in Seq(Jobs) /\ jobsMap \subseteq Jobs
    OBVIOUS
  <2>3. QED
    BY <2>1, <2>2 DEF TypeOK, Threads, Callers, WorkPC
<1>2. LockInv
  BY DEF LockInv, PoolInside
<1>3. LifeInv /\ HandInv
  BY DEF LifeInv, HandInv, InHand, Registered
<1>4. ListInv
  BY DEF ListInv, Listed, InHand
<1>5. CancelInv /\ StopInv
  BY DEF CancelInv, StopInv, StopCancelsAll, Callers
<1>6. CountInv
  BY FS_EmptySet DEF CountInv
<1>7. JobKeysUnique
  BY DEF JobKeysUnique
<1>8. QED
  BY <1>1, <1>2, <1>3, <1>4, <1>5, <1>6, <1>7 DEF IInv

\* Every step preserves the invariant.
LEMMA NextIInv == IInv /\ [Next]_vars => IInv'
  BY TypeInductive, LockInductive, LifeInductive, HandInductive, ListInductive,
     CancelInductive, StopInductive, CountInductive, KeyInductive
  DEF IInv

\* The pool's state is always one of those IInv describes.
THEOREM IInvAlways == Spec => []IInv
  BY InitIInv, NextIInv, PTL DEF Spec

\* Every variable keeps its type; in particular m_job_count, an unsigned
\* integer in the code, is never decremented at zero.
THEOREM TypeAlways == Spec => []TypeOK
<1>1. IInv => TypeOK
  BY DEF IInv
<1>2. QED
  BY <1>1, IInvAlways, PTL

\* No job object is deleted while its worker is inside the notification, while
\* a canceling loop has it ahead, or while the pool's lists hold it.
THEOREM DeleteIsSafe == Spec => []NoUseAfterDelete
<1>1. IInv => NoUseAfterDelete
  <2> SUFFICES ASSUME IInv, NEW j \in Jobs, object[j] = "deleted"
               PROVE  /\ work[j] \in {"none", "left"} /\ Free(jobLock[j])
                      /\ ~(pc[Listener] \in {"plan", "schedule"} /\ current[Listener] = j)
                      /\ j \notin jobsMap
                      /\ \A t \in Callers : j \notin toCancel[t]
                      /\ \A k \in 1..Len(doneList) : doneList[k] # j
    BY DEF NoUseAfterDelete
  <2>1. work[j] \in {"none", "left"} /\ j \notin jobsMap
    BY DEF IInv, LifeInv, Registered
  <2>2. Free(jobLock[j])
    BY <2>1 DEF IInv, LockInv, Free
  <2>3. \A t \in Callers : j \notin toCancel[t]
    BY <2>1 DEF IInv, CancelInv
  <2>4. ~Listed(j)
    BY DEF IInv, ListInv
  <2>5. ~(pc[Listener] \in {"plan", "schedule"} /\ current[Listener] = j)
    BY <2>1 DEF IInv, LifeInv, HandInv
  <2>6. QED
    BY <2>1, <2>2, <2>3, <2>4, <2>5 DEF Listed
<1>2. QED
  BY <1>1, IInvAlways, PTL

\* The owner of a job is told that it is done exactly once.
THEOREM NotifiedOnceAlways == Spec => []NotifiedExactlyOnce
<1>1. IInv => NotifiedExactlyOnce
  BY DEF IInv, LifeInv, InHand, NotifiedExactlyOnce
<1>2. QED
  BY <1>1, IInvAlways, PTL

\* The count is exact and the pool's thread never ends with work left.
THEOREM ExitIsClean == Spec => []NoJobLeftBehind
<1>1. IInv => NoJobLeftBehind
  <2> SUFFICES ASSUME IInv PROVE NoJobLeftBehind
    OBVIOUS
  <2>1. jobCount = Cardinality(jobsMap)
    BY DEF IInv, CountInv
  <2>2. ASSUME pc[Pool] = "exit" PROVE isStopping /\ jobsMap = {}
    BY <2>2 DEF IInv, StopInv
  <2>3. ASSUME pc[Pool] = "exit" PROVE doneList = <<>>
    <3>1. \A j \in Jobs : ~Listed(j)
      BY <2>2, <2>3 DEF IInv, ListInv, LifeInv, Registered, InHand
    <3>2. doneList \in Seq(Jobs)
      BY DEF IInv, TypeOK
    <3>3. Len(doneList) = 0
      BY <3>1, <3>2 DEF Listed
    <3>4. QED
      BY <3>2, <3>3
  <2>4. QED
    BY <2>1, <2>2, <2>3 DEF NoJobLeftBehind
<1>2. QED
  BY <1>1, IInvAlways, PTL

\* stop() has canceled every job that is still registered when it waits.
THEOREM StopCancelsAllAlways == Spec => []StopCancelsAll
<1>1. IInv => StopCancelsAll
  BY DEF IInv, StopInv
<1>2. QED
  BY <1>1, IInvAlways, PTL

\* However the clients choose their job ids, no registered job is replaced by a
\* later one with its session and id.
THEOREM JobKeysUniqueAlways == Spec => []JobKeysUnique
<1>1. IInv => JobKeysUnique
  BY DEF IInv
<1>2. QED
  BY <1>1, IInvAlways, PTL

-----------------------------------------------------------------------------
(* The refinement: every step of the pool is a step of JobService or leaves *)
(* the service as it was.                                                   *)

\* When nothing the mapping reads changes, the service takes no step.
LEMMA ServiceUnchanged ==
  ASSUME isStopping' = isStopping, (pc[Pool] = "exit")' = (pc[Pool] = "exit"),
         ServiceStatus' = ServiceStatus
  PROVE  UNCHANGED Service!svars
  BY DEF Service!svars

\* A step that leaves work, object and notified alone leaves the status alone.
LEMMA StatusUnchanged ==
  ASSUME UNCHANGED <<work, object, notified>>
  PROVE  ServiceStatus' = ServiceStatus
  BY DEF ServiceStatus, Answered

\* The status of the one job that is answered.
LEMMA StatusAnswered ==
  ASSUME NEW h \in Jobs, work[h] # "none", object[h] = "alive", notified[h] = 0,
         notified \in [Jobs -> Nat], notified' = [notified EXCEPT ![h] = 1],
         UNCHANGED <<work, object>>
  PROVE  /\ ServiceStatus[h] = "active"
         /\ ServiceStatus' = [ServiceStatus EXCEPT ![h] = "answered"]
<1>1. ServiceStatus[h] = "active" /\ ServiceStatus'[h] = "answered"
  BY DEF ServiceStatus, Answered
<1>2. \A i \in Jobs : i # h => ServiceStatus'[i] = ServiceStatus[i]
  BY DEF ServiceStatus, Answered
<1>3. /\ ServiceStatus = [i \in Jobs |-> ServiceStatus[i]]
      /\ ServiceStatus' = [i \in Jobs |-> ServiceStatus'[i]]
  BY DEF ServiceStatus, Answered
<1>4. QED
  BY <1>1, <1>2, <1>3

\* The status of the job whose object is deleted.
LEMMA StatusRetired ==
  ASSUME NEW h \in Jobs, work[h] # "none", object[h] = "alive", notified[h] = 1,
         object \in [Jobs -> {"none", "alive", "deleted"}],
         object' = [object EXCEPT ![h] = "deleted"], UNCHANGED <<work, notified>>
  PROVE  /\ ServiceStatus[h] = "answered"
         /\ ServiceStatus' = [ServiceStatus EXCEPT ![h] = "retired"]
<1>1. ServiceStatus[h] = "answered" /\ ServiceStatus'[h] = "retired"
  BY DEF ServiceStatus, Answered
<1>2. \A i \in Jobs : i # h => ServiceStatus'[i] = ServiceStatus[i]
  BY DEF ServiceStatus, Answered
<1>3. /\ ServiceStatus = [i \in Jobs |-> ServiceStatus[i]]
      /\ ServiceStatus' = [i \in Jobs |-> ServiceStatus'[i]]
  BY DEF ServiceStatus, Answered
<1>4. QED
  BY <1>1, <1>2, <1>3

\* Every step of the pool maps to a step of JobService or to none.
LEMMA ServiceStep ==
  ASSUME IInv, [Next]_vars
  PROVE  [Service!SNext]_Service!svars
<1> USE ThreadsDistinct DEF IInv, TypeOK, ListenerPC, StopperPC, PoolPC, WorkPC
<1>1. ASSUME NEW j \in Jobs, PlanNewJob(j) PROVE UNCHANGED Service!svars
  <2>1. work[j] = "none" /\ object[j] = "none"
    BY <1>1 DEF PlanNewJob, LifeInv
  <2>2. ServiceStatus' = ServiceStatus
    BY <1>1, <2>1 DEF PlanNewJob, ServiceStatus, Answered
  <2>3. isStopping' = isStopping /\ pc'[Pool] = pc[Pool]
    BY <1>1 DEF PlanNewJob, Goto, admin
  <2>4. QED
    BY <2>2, <2>3, ServiceUnchanged
<1>2. ASSUME PlanRefused PROVE Service!Refuse(current[Listener])
  <2> DEFINE r == current[Listener]
  <2>1. r \in Jobs /\ work[r] = "none" /\ object[r] = "alive"
    BY <1>2 DEF PlanRefused, LifeInv, HandInv
  <2>2. ServiceStatus[r] = "new" /\ ServiceStatus' = [ServiceStatus EXCEPT ![r] = "refused"]
    BY <1>2, <2>1 DEF PlanRefused, ServiceStatus, Answered
  <2>3. isStopping' = isStopping /\ pc'[Pool] = pc[Pool]
    BY <1>2 DEF PlanRefused, Goto, admin
  <2>4. QED
    BY <2>2, <2>3 DEF Service!Refuse, Service!Move
<1>3. ASSUME AddJob PROVE Service!Accept(current[Listener])
  <2> DEFINE r == current[Listener]
  <2>1. r \in Jobs /\ work[r] = "none" /\ object[r] = "alive" /\ notified[r] = 0
    BY <1>3 DEF AddJob, LifeInv, HandInv
  <2>2. ServiceStatus[r] = "new" /\ ServiceStatus' = [ServiceStatus EXCEPT ![r] = "active"]
    BY <1>3, <2>1 DEF AddJob, ServiceStatus, Answered
  <2>3. ~isStopping /\ isStopping' = isStopping /\ pc'[Pool] = pc[Pool]
    BY <1>3 DEF AddJob, Goto
  <2>4. QED
    BY <2>2, <2>3 DEF Service!Accept, Service!Move
<1>3a. ASSUME PlanEnd PROVE UNCHANGED Service!svars
  BY <1>3a, StatusUnchanged, ServiceUnchanged DEF PlanEnd, Goto, admin
<1>4. ASSUME NEW s \in Sessions, CancelJobs(s) PROVE UNCHANGED Service!svars
  BY <1>4, StatusUnchanged, ServiceUnchanged DEF CancelJobs, CancelBegin, Goto, admin
<1>5. ASSUME NEW t \in Callers, NEW j \in Jobs, CancelOne(t, j) PROVE UNCHANGED Service!svars
  BY <1>5, StatusUnchanged, ServiceUnchanged DEF CancelOne, admin
<1>6. ASSUME NEW t \in Callers, CancelEnd(t) PROVE UNCHANGED Service!svars
  <2>1. isStopping' = isStopping /\ pc'[Pool] = pc[Pool] /\ UNCHANGED <<work, object, notified>>
    BY <1>6 DEF CancelEnd, Goto, admin, Callers
  <2>2. QED
    BY <2>1, StatusUnchanged, ServiceUnchanged
<1>7. ASSUME StopBegin PROVE Service!Stop
  <2>1. ~isStopping /\ isStopping' = TRUE /\ pc'[Pool] = pc[Pool]
    BY <1>7 DEF StopBegin, Goto, StopInv
  <2>2. ServiceStatus' = ServiceStatus
    BY <1>7, StatusUnchanged DEF StopBegin
  <2>3. QED
    BY <2>1, <2>2 DEF Service!Stop
<1>8. ASSUME CancelAllJobs PROVE UNCHANGED Service!svars
  BY <1>8, StatusUnchanged, ServiceUnchanged DEF CancelAllJobs, CancelBegin, Goto, admin
<1>9. ASSUME StopWake PROVE UNCHANGED Service!svars
  BY <1>9, StatusUnchanged, ServiceUnchanged DEF StopWake, NotifyOne, admin
<1>10. ASSUME StopJoin PROVE UNCHANGED Service!svars
  BY <1>10, StatusUnchanged, ServiceUnchanged DEF StopJoin, Goto, admin
<1>11. ASSUME PoolEnter PROVE UNCHANGED Service!svars
  BY <1>11, StatusUnchanged, ServiceUnchanged DEF PoolEnter, Goto, admin
<1>12. ASSUME IsStopRunningLock PROVE UNCHANGED Service!svars
  BY <1>12, StatusUnchanged, ServiceUnchanged DEF IsStopRunningLock, Goto, admin
<1>13. ASSUME IsStopRunning PROVE [Service!SNext]_Service!svars
  <2>1. ServiceStatus' = ServiceStatus /\ isStopping' = isStopping
    BY <1>13, StatusUnchanged DEF IsStopRunning, admin
  <2>2. CASE ~(isStopping /\ jobCount = 0)
    <3>1. pc[Pool] # "exit" /\ pc'[Pool] # "exit"
      BY <1>13, <2>2 DEF IsStopRunning, Goto
    <3>2. QED
      BY <2>1, <3>1, ServiceUnchanged
  <2>3. CASE isStopping /\ jobCount = 0
    <3>1. pc[Pool] = "checkCount" /\ pc'[Pool] = "exit"
      BY <1>13, <2>3 DEF IsStopRunning, Goto
    <3>2. jobsMap = {}
      BY <2>3, JobsFinite, FS_Subset, FS_EmptySet DEF CountInv
    <3>3. \A j \in Jobs : work[j] = "none" \/ object[j] = "deleted"
      BY <3>1, <3>2 DEF LifeInv, Registered
    <3>4. \A j \in Jobs : ServiceStatus[j] \in {"new", "refused", "retired"}
      BY <3>3 DEF ServiceStatus, Answered
    <3>5. Service!Halt
      BY <2>1, <2>3, <3>1, <3>4 DEF Service!Halt
    <3>6. QED
      BY <3>5 DEF Service!SNext
  <2>4. QED
    BY <2>2, <2>3
<1>14. ASSUME SpuriousWakeup PROVE UNCHANGED Service!svars
  BY <1>14, StatusUnchanged, ServiceUnchanged DEF SpuriousWakeup, Goto, admin
<1>15. ASSUME ProcessFinishedJob PROVE Service!Answer(Head(doneList)) /\ Head(doneList) \in Jobs
  <2> DEFINE h == Head(doneList)
  <2>1. h \in Jobs /\ Listed(h)
    BY <1>15 DEF ProcessFinishedJob, Listed
  <2>2. work[h] # "none" /\ object[h] = "alive" /\ notified[h] = 0
    BY <1>15, <2>1 DEF ProcessFinishedJob, ListInv, LifeInv, InHand
  <2>3. ServiceStatus[h] = "active" /\ ServiceStatus' = [ServiceStatus EXCEPT ![h] = "answered"]
    <3>1. notified' = [notified EXCEPT ![h] = 1] /\ UNCHANGED <<work, object>>
      BY <1>15, <2>1, <2>2 DEF ProcessFinishedJob
    <3>2. QED
      BY <2>1, <2>2, <3>1, StatusAnswered
  <2>4. isStopping' = isStopping /\ pc[Pool] # "exit" /\ pc'[Pool] # "exit"
    BY <1>15 DEF ProcessFinishedJob, Goto
  <2>5. QED
    BY <2>1, <2>3, <2>4 DEF Service!Answer, Service!Move
<1>16. ASSUME LoopEnd PROVE UNCHANGED Service!svars
  BY <1>16, StatusUnchanged, ServiceUnchanged DEF LoopEnd, Goto, admin
<1>17. ASSUME DeleteJob PROVE UNCHANGED Service!svars
  BY <1>17, StatusUnchanged, ServiceUnchanged DEF DeleteJob, Goto
<1>18. ASSUME SynchJobFinished PROVE Service!Retire(current[Pool]) /\ current[Pool] \in Jobs
  <2> DEFINE h == current[Pool]
  <2>1. h \in Jobs
    BY <1>18 DEF SynchJobFinished, HandInv
  <2>2. work[h] # "none" /\ object[h] = "alive" /\ notified[h] = 1
    BY <1>18, <2>1 DEF SynchJobFinished, LifeInv, InHand
  <2>3. ServiceStatus[h] = "answered" /\ ServiceStatus' = [ServiceStatus EXCEPT ![h] = "retired"]
    <3>1. object' = [object EXCEPT ![h] = "deleted"] /\ UNCHANGED <<work, notified>>
      BY <1>18 DEF SynchJobFinished
    <3>2. QED
      BY <2>1, <2>2, <3>1, StatusRetired
  <2>4. isStopping' = isStopping /\ pc[Pool] # "exit" /\ pc'[Pool] # "exit"
    BY <1>18 DEF SynchJobFinished, Goto, admin
  <2>5. QED
    BY <2>1, <2>3, <2>4 DEF Service!Retire, Service!Move
<1>19. ASSUME NEW j \in Jobs, WorkerStep(j) PROVE UNCHANGED Service!svars
  <2>1. /\ work[j] # "none" /\ work'[j] # "none"
        /\ \A i \in Jobs : i # j => work'[i] = work[i]
        /\ UNCHANGED <<object, notified, isStopping>>
    BY <1>19 DEF WorkerStep, WorkerDone, NotifyJobDone, WorkerLeave, admin
  <2>2. ServiceStatus' = ServiceStatus
    BY <2>1 DEF ServiceStatus, Answered
  <2>3. (pc[Pool] = "exit")' = (pc[Pool] = "exit")
    BY <1>19 DEF WorkerStep, WorkerDone, NotifyJobDone, WorkerLeave, NotifyOne
  <2>4. QED
    BY <2>1, <2>2, <2>3, ServiceUnchanged
<1>20. ASSUME UNCHANGED vars PROVE UNCHANGED Service!svars
  BY <1>20, StatusUnchanged, ServiceUnchanged DEF vars, admin
<1>21. current[Listener] \in Jobs \/ ~(PlanRefused \/ AddJob)
  BY DEF PlanRefused, AddJob, HandInv
<1>22. QED
  <2> HIDE DEF IInv
  <2>1. CASE ListenerStep
    BY <2>1, <1>1, <1>2, <1>3, <1>3a, <1>4, <1>5, <1>6, <1>21 DEF ListenerStep, Callers, Service!SNext
  <2>2. CASE StopperStep
    BY <2>2, <1>5, <1>6, <1>7, <1>8, <1>9, <1>10 DEF StopperStep, Callers, Service!SNext
  <2>3. CASE PoolStep \/ SpuriousWakeup
    BY <2>3, <1>11, <1>12, <1>13, <1>14, <1>15, <1>16, <1>17, <1>18 DEF PoolStep, Service!SNext
  <2>4. QED
    BY <2>1, <2>2, <2>3, <1>19, <1>20 DEF Next, Terminated

\* The session job pool implements JobService: accepted jobs are answered
\* exactly once and then retired, and the pool's thread ends only when none is
\* left.
THEOREM PoolImplementsJobService == Spec => ImplementsJobService
<1>1. Init => Service!SInit
  BY ThreadsDistinct DEF Init, Service!SInit, ServiceStatus, Answered
<1>2. IInv /\ [Next]_vars => [Service!SNext]_Service!svars
  BY ServiceStep
<1>3. QED
  BY <1>1, <1>2, IInvAlways, PTL DEF Spec, ImplementsJobService, Service!SSpec
=============================================================================
