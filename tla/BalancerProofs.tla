--------------------------- MODULE BalancerProofs ---------------------------
(***************************************************************************)
(* Theorems about the balancer's jobs, for every set of jobs, sessions and *)
(* adapters and any number of lost connections.                            *)
(*                                                                         *)
(* The first one is the refinement the rest is built on: hidden behind     *)
(* ReportingLock, the balancer's steps are steps of the session job pool   *)
(* or change nothing of it.  The job pool's inductive invariant (module    *)
(* JobPoolProofs) therefore holds of the balancer, and what it says about  *)
(* the life of the job objects (PoolFacts) is used to show that phases,    *)
(* queues and replies follow the job's execution (PhaseInv) and that a job *)
(* leaves its adapter's map before it is deleted (AwaitInv).               *)
(***************************************************************************)
EXTENDS Balancer, TLAPS

\* JobPool and its theorems, of the pool as PoolBelow sees it.
Below == INSTANCE JobPoolProofs WITH jobLock <- ReportingLock

LockTyped == jobLock \in [Jobs -> Threads]

\* What the proofs need of the job pool's invariant.
InHandOfPool(j) == pc[Pool] \in {"delete", "synch"} /\ current[Pool] = j
PoolFacts ==
  /\ work \in [Jobs -> WorkPC] /\ object \in [Jobs -> {"none", "alive", "deleted"}]
  /\ pc \in [{Listener, Stopper, Pool} -> ListenerPC \cup StopperPC \cup PoolPC]
  /\ current \in [{Listener, Pool} -> Jobs \cup {NoThread}]
  /\ isStopping \in BOOLEAN /\ (isStopping <=> pc[Stopper] # "idle")
  /\ \A j \in Jobs : /\ object[j] = "none" => work[j] = "none"
                     /\ object[j] = "deleted" => work[j] \in {"none", "left"}
                     /\ InHandOfPool(j) => object[j] = "alive" /\ work[j] \in {"reported", "left"}
  /\ pc[Listener] = "plan" => /\ current[Listener] \in Jobs
                              /\ object[current[Listener]] = "alive"
                              /\ work[current[Listener]] = "none"
  /\ pc[Pool] \in {"delete", "synch"} => current[Pool] \in Jobs
  /\ \A t \in Callers, j \in Jobs : j \in toCancel[t] => work[j] # "none"
  /\ pc[Pool] = "loop" /\ doneList # <<>> =>
       /\ Head(doneList) \in Jobs
       /\ work[Head(doneList)] \in {"reported", "left"} /\ object[Head(doneList)] = "alive"
  /\ pc[Pool] = "exit" => isStopping /\ \A j \in Jobs : work[j] = "none" \/ object[j] = "deleted"

\* A job's phase follows its execution: it waits for a server or for its reply
\* only between add_job and its last execution, and is replied to in that one.
PhaseInv ==
  \A j \in Jobs :
    /\ work[j] = "none" => phase[j] = "REQUEST" /\ adapterOf[j] = NoAdapter
    /\ phase[j] = "DONE" <=> work[j] \in {"reporting", "reported", "left"}
    /\ phase[j] = "RESPONSE" => adapterOf[j] # NoAdapter
    /\ replies[j] = IF phase[j] = "DONE" THEN 1 ELSE 0

\* The jobs an adapter knows, or is just visiting, are not yet in the hands of
\* the thread that deletes them.
AwaitInv ==
  \A a \in Adapters :
    /\ AwaitingFree(a) => toNotify[a] = {}
    /\ \A j \in awaiting[a] \cup toNotify[a] :
         object[j] = "alive" /\ adapterOf[j] = a /\ phase[j] # "REQUEST" /\ ~InHandOfPool(j)

BIInv ==
  /\ LockTyped /\ BTypeOK /\ Below!IInv
  /\ PhaseInv /\ ScheduledForItsPhase /\ AwaitInv

-----------------------------------------------------------------------------
(* The two instances of JobPool are the same, and its assumptions hold.      *)

LEMMA BelowFinite == Below!IsFiniteSet(Jobs)
BY JobsFinite DEF IsFiniteSet, Below!IsFiniteSet

LEMMA SameNext == [PoolBelow!Next]_PoolBelow!vars <=> [Below!Next]_Below!vars
BY DEF PoolBelow!Next, Below!Next, PoolBelow!vars, Below!vars, PoolBelow!locks, Below!locks,
         PoolBelow!admin, Below!admin, PoolBelow!Goto, Below!Goto, PoolBelow!Free,
         Below!Free, PoolBelow!SameKey, Below!SameKey, PoolBelow!NotifyOne,
         Below!NotifyOne, PoolBelow!CancelBegin, Below!CancelBegin,
         PoolBelow!ListenerStep, Below!ListenerStep, PoolBelow!StopperStep,
         Below!StopperStep, PoolBelow!WorkerStep, Below!WorkerStep, PoolBelow!PoolStep,
         Below!PoolStep, PoolBelow!PlanNewJob, Below!PlanNewJob, PoolBelow!PlanRefused,
         Below!PlanRefused, PoolBelow!AddJob, Below!AddJob, PoolBelow!PlanEnd,
         Below!PlanEnd, PoolBelow!CancelJobs, Below!CancelJobs, PoolBelow!CancelAllJobs,
         Below!CancelAllJobs, PoolBelow!CancelOne, Below!CancelOne, PoolBelow!CancelEnd,
         Below!CancelEnd, PoolBelow!WorkerDone, Below!WorkerDone, PoolBelow!NotifyJobDone,
         Below!NotifyJobDone, PoolBelow!WorkerLeave, Below!WorkerLeave,
         PoolBelow!PoolEnter, Below!PoolEnter, PoolBelow!IsStopRunningLock,
         Below!IsStopRunningLock, PoolBelow!IsStopRunning, Below!IsStopRunning,
         PoolBelow!SpuriousWakeup, Below!SpuriousWakeup, PoolBelow!ProcessFinishedJob,
         Below!ProcessFinishedJob, PoolBelow!LoopEnd, Below!LoopEnd, PoolBelow!DeleteJob,
         Below!DeleteJob, PoolBelow!SynchJobFinished, Below!SynchJobFinished,
         PoolBelow!StopBegin, Below!StopBegin, PoolBelow!StopWake, Below!StopWake,
         PoolBelow!StopJoin, Below!StopJoin, PoolBelow!Terminated, Below!Terminated,
         PoolBelow!Callers, Below!Callers

LEMMA BelowInductive ==
  ASSUME Below!IInv, [PoolBelow!Next]_PoolBelow!vars
  PROVE  Below!IInv'
BY SameNext, BelowFinite, JobsFinite, JobKeys, ThreadsDistinct, SwitchBoolean, Below!NextIInv

LEMMA BelowInit == BInit => PoolBelow!Init /\ Below!IInv
<1> SUFFICES ASSUME BInit PROVE PoolBelow!Init /\ Below!IInv
  OBVIOUS
<1>1. ReportingLock = [j \in Jobs |-> NoThread]
  BY ThreadsDistinct DEF BInit, Init, ReportingLock, Sending
<1>2. PoolBelow!Init
  BY <1>1 DEF BInit, Init, PoolBelow!Init, Callers, PoolBelow!Callers
<1>3. Below!Init
  BY <1>1 DEF BInit, Init, Below!Init, Callers, Below!Callers
<1>4. QED
  BY <1>2, <1>3, BelowFinite, JobsFinite, JobKeys, ThreadsDistinct, SwitchBoolean,
     Below!InitIInv

LEMMA PoolFactsHold ==
  ASSUME Below!IInv
  PROVE  PoolFacts
<1> USE DEF Below!IInv, Below!TypeOK
<1>1. /\ work \in [Jobs -> WorkPC] /\ object \in [Jobs -> {"none", "alive", "deleted"}]
      /\ pc \in [{Listener, Stopper, Pool} -> ListenerPC \cup StopperPC \cup PoolPC]
      /\ current \in [{Listener, Pool} -> Jobs \cup {NoThread}] /\ isStopping \in BOOLEAN
  BY DEF WorkPC, Below!WorkPC, ListenerPC, StopperPC, PoolPC,
         Below!ListenerPC, Below!StopperPC, Below!PoolPC
<1>2. \A j \in Jobs :
        /\ object[j] = "none" => work[j] = "none"
        /\ object[j] = "deleted" => work[j] \in {"none", "left"}
        /\ InHandOfPool(j) => object[j] = "alive" /\ work[j] \in {"reported", "left"}
  BY DEF Below!LifeInv, Below!InHand, InHandOfPool
<1>3. pc[Listener] = "plan" => /\ current[Listener] \in Jobs
                               /\ object[current[Listener]] = "alive"
                               /\ work[current[Listener]] = "none"
  BY DEF Below!LifeInv, Below!HandInv
<1>4. pc[Pool] \in {"delete", "synch"} => current[Pool] \in Jobs
  BY DEF Below!HandInv
<1>5. \A t \in Callers, j \in Jobs : j \in toCancel[t] => work[j] # "none"
  BY DEF Below!CancelInv, Callers, Below!Callers, Below!LifeInv, Below!Registered
<1>6. ASSUME pc[Pool] = "loop", doneList # <<>>
      PROVE  /\ Head(doneList) \in Jobs
             /\ work[Head(doneList)] \in {"reported", "left"} /\ object[Head(doneList)] = "alive"
  <2>1. Head(doneList) \in Jobs /\ 1 \in 1..Len(doneList) /\ Head(doneList) = doneList[1]
    BY <1>6
  <2>2. QED
    BY <2>1 DEF Below!ListInv, Below!Listed
<1>7. (isStopping <=> pc[Stopper] # "idle") /\ (pc[Pool] = "exit" => isStopping /\ jobsMap = {})
  BY DEF Below!StopInv
<1>8. ASSUME pc[Pool] = "exit", NEW j \in Jobs PROVE work[j] = "none" \/ object[j] = "deleted"
  BY <1>2, <1>7, <1>8 DEF Below!LifeInv, Below!Registered
<1>9. QED
  BY <1>1, <1>2, <1>3, <1>4, <1>5, <1>6, <1>7, <1>8 DEF PoolFacts

-----------------------------------------------------------------------------
(* Every step of the balancer is a step of the job pool, or leaves it alone. *)

LEMMA LockViewSame ==
  ASSUME \A j \in Jobs : jobLock'[j] = jobLock[j] /\ (jobLock[j] = j => phase'[j] = phase[j])
  PROVE  ReportingLock' = ReportingLock
BY DEF ReportingLock, Sending

LEMMA LockViewFree ==
  ASSUME NEW j \in Jobs, jobLock[j] = NoThread
  PROVE  ReportingLock[j] = NoThread
BY DEF ReportingLock, Sending

\* What the balancer does by itself.
LEMMA OwnStepBelow ==
  ASSUME LockTyped, BTypeOK,
         \/ \E j \in Jobs : \/ RequestFails(j) \/ RegisterAwaitingResp(j)
                            \/ \E a \in Adapters : SendRequest(j, a) \/ ResponseArrives(a, j)
         \/ \E a \in Adapters : AdapterStep(a) \/ ConnectionLost(a) \/ AdapterReady(a)
  PROVE  UNCHANGED PoolBelow!vars
<1> USE ThreadsDistinct DEF LockTyped, Free, locks, admin, vars, jobVars
<1> DEFINE Same == UNCHANGED PoolBelow!vars
<1>1. ASSUME NEW j \in Jobs, RequestFails(j) PROVE Same
  <2>1. ReportingLock' = ReportingLock
    BY <1>1, LockViewSame DEF RequestFails, TakeIncoming, ScheduleFailedJobReply, BTypeOK
  <2>2. QED
    BY <1>1, <2>1 DEF RequestFails, PoolBelow!vars, PoolBelow!locks, PoolBelow!admin
<1>2. ASSUME NEW j \in Jobs, NEW a \in Adapters, SendRequest(j, a) PROVE Same
  <2>1. ReportingLock' = ReportingLock
    BY <1>2 DEF SendRequest, TakeIncoming, BTypeOK, ReportingLock, Sending
  <2>2. QED
    BY <1>2, <2>1 DEF SendRequest, PoolBelow!vars, PoolBelow!locks, PoolBelow!admin
<1>3. ASSUME NEW j \in Jobs, RegisterAwaitingResp(j) PROVE Same
  <2>1. ReportingLock' = ReportingLock
    BY <1>3 DEF RegisterAwaitingResp, BTypeOK, ReportingLock, Sending
  <2>2. QED
    BY <1>3, <2>1 DEF RegisterAwaitingResp, PoolBelow!vars, PoolBelow!locks, PoolBelow!admin
<1>4. ASSUME NEW a \in Adapters, NEW j \in Jobs, SetTransJobResp(a, j) \/ Fail(a, j) PROVE Same
  <2>1. ReportingLock' = ReportingLock
    BY <1>4, LockViewSame DEF SetTransJobResp, Fail, ScheduleFailedJobReply, BTypeOK
  <2>2. QED
    BY <1>4, <2>1 DEF SetTransJobResp, Fail, PoolBelow!vars, PoolBelow!locks, PoolBelow!admin
<1>5. ASSUME NEW a \in Adapters,
             \/ NotifyAdapterDisconnect(a) \/ FailEnd(a) \/ ConnectionLost(a) \/ AdapterReady(a)
             \/ \E j \in Jobs : ResponseArrives(a, j)
      PROVE  Same
  <2>1. UNCHANGED vars /\ UNCHANGED phase
    BY <1>5 DEF NotifyAdapterDisconnect, FailEnd, ConnectionLost, AdapterReady, ResponseArrives
  <2>2. ReportingLock' = ReportingLock
    BY <2>1, LockViewSame
  <2>3. QED
    BY <2>1, <2>2 DEF PoolBelow!vars, PoolBelow!locks, PoolBelow!admin
<1>6. QED
  BY <1>1, <1>2, <1>3, <1>4, <1>5 DEF AdapterStep

\* The steps of JobPool that the balancer takes with nothing or little added.
LEMMA InheritedStepBelow ==
  ASSUME UNCHANGED phase, LockTyped, PoolFacts,
         \/ InheritedListener \/ InheritedStopper \/ InheritedPool \/ AddJob
         \/ ProcessFinishedJob \/ SpuriousWakeup \/ Terminated
         \/ \E j \in Jobs : NotifyJobDone(j)
  PROVE  [PoolBelow!Next]_PoolBelow!vars
<1> USE DEF LockTyped, Free, PoolBelow!Free, Goto, PoolBelow!Goto, locks, admin,
            PoolBelow!locks, PoolBelow!admin, NotifyOne, PoolBelow!NotifyOne
<1>1. UNCHANGED jobLock
  BY DEF InheritedListener, InheritedStopper, InheritedPool, PlanNewJob, PlanRefused, AddJob,
         PlanEnd, CancelJobs, CancelAllJobs, CancelBegin, CancelEnd, NotifyJobDone, PoolEnter,
         IsStopRunningLock, IsStopRunning, SpuriousWakeup, ProcessFinishedJob, LoopEnd,
         DeleteJob, SynchJobFinished, StopBegin, StopWake, StopJoin, Terminated, vars
<1>2. ReportingLock' = ReportingLock
  BY <1>1, LockViewSame
<1>3. CASE InheritedListener
  <2>1. ASSUME NEW j \in Jobs, PlanNewJob(j) PROVE PoolBelow!PlanNewJob(j)
    BY <1>2, <2>1 DEF PlanNewJob, PoolBelow!PlanNewJob
  <2>2. CASE PlanRefused
    BY <1>2, <2>2 DEF PlanRefused, PoolBelow!PlanRefused, PoolBelow!Next, PoolBelow!ListenerStep,
                      SameKey, PoolBelow!SameKey
  <2>3. CASE PlanEnd
    BY <1>2, <2>3 DEF PlanEnd, PoolBelow!PlanEnd, PoolBelow!Next, PoolBelow!ListenerStep
  <2>4. ASSUME NEW s \in Sessions, CancelJobs(s) PROVE PoolBelow!CancelJobs(s)
    BY <1>2, <2>4 DEF CancelJobs, PoolBelow!CancelJobs, CancelBegin, PoolBelow!CancelBegin
  <2>5. CASE CancelEnd(Listener)
    BY <1>2, <2>5 DEF CancelEnd, PoolBelow!CancelEnd, PoolBelow!Next, PoolBelow!ListenerStep
  <2>6. QED
    BY <1>3, <2>1, <2>2, <2>3, <2>4, <2>5
       DEF InheritedListener, PoolBelow!Next, PoolBelow!ListenerStep
<1>4. CASE InheritedStopper
  <2>1. StopBegin => PoolBelow!StopBegin
    BY <1>2 DEF StopBegin, PoolBelow!StopBegin
  <2>2. CancelAllJobs => PoolBelow!CancelAllJobs
    BY <1>2 DEF CancelAllJobs, PoolBelow!CancelAllJobs, CancelBegin, PoolBelow!CancelBegin
  <2>3. CancelEnd(Stopper) => PoolBelow!CancelEnd(Stopper)
    BY <1>2 DEF CancelEnd, PoolBelow!CancelEnd
  <2>4. StopWake => PoolBelow!StopWake
    BY <1>2 DEF StopWake, PoolBelow!StopWake
  <2>5. StopJoin => PoolBelow!StopJoin
    BY <1>2 DEF StopJoin, PoolBelow!StopJoin
  <2>6. QED
    BY <1>4, <2>1, <2>2, <2>3, <2>4, <2>5
       DEF InheritedStopper, PoolBelow!Next, PoolBelow!StopperStep
<1>5. CASE InheritedPool
  <2>1. PoolEnter => PoolBelow!PoolEnter
    BY <1>2 DEF PoolEnter, PoolBelow!PoolEnter
  <2>2. IsStopRunningLock => PoolBelow!IsStopRunningLock
    BY <1>2 DEF IsStopRunningLock, PoolBelow!IsStopRunningLock
  <2>3. IsStopRunning => PoolBelow!IsStopRunning
    BY <1>2 DEF IsStopRunning, PoolBelow!IsStopRunning
  <2>4. LoopEnd => PoolBelow!LoopEnd
    BY <1>2 DEF LoopEnd, PoolBelow!LoopEnd
  <2>5. DeleteJob => PoolBelow!DeleteJob
    BY <1>2 DEF DeleteJob, PoolBelow!DeleteJob
  <2>6. SynchJobFinished => PoolBelow!SynchJobFinished
    <3>1. /\ pc[Pool] = "synch" => current[Pool] \in Jobs
          /\ \A j \in Jobs : jobLock[j] = NoThread => ReportingLock[j] = NoThread
      BY LockViewFree DEF PoolFacts
    <3>2. QED
      BY <1>2, <3>1 DEF SynchJobFinished, PoolBelow!SynchJobFinished
  <2>7. QED
    BY <1>5, <2>1, <2>2, <2>3, <2>4, <2>5, <2>6
       DEF InheritedPool, PoolBelow!Next, PoolBelow!PoolStep
<1>6. CASE AddJob
  BY <1>2, <1>6 DEF AddJob, PoolBelow!AddJob, PoolBelow!Next, PoolBelow!ListenerStep,
                    SameKey, PoolBelow!SameKey
<1>7. CASE ProcessFinishedJob
  BY <1>2, <1>7 DEF ProcessFinishedJob, PoolBelow!ProcessFinishedJob, PoolBelow!Next,
                    PoolBelow!PoolStep
<1>8. CASE SpuriousWakeup
  BY <1>2, <1>8 DEF SpuriousWakeup, PoolBelow!SpuriousWakeup, PoolBelow!Next
<1>9. CASE Terminated
  BY <1>2, <1>9 DEF Terminated, vars, PoolBelow!vars
<1>10. ASSUME NEW j \in Jobs, NotifyJobDone(j) PROVE PoolBelow!NotifyJobDone(j)
  BY <1>2, <1>10 DEF NotifyJobDone, PoolBelow!NotifyJobDone
<1>11. QED
  BY <1>3, <1>4, <1>5, <1>6, <1>7, <1>8, <1>9, <1>10 DEF PoolBelow!Next, PoolBelow!WorkerStep

LEMMA StepBelow ==
  ASSUME LockTyped, BTypeOK, Below!IInv, [BNext]_bvars
  PROVE  [PoolBelow!Next]_PoolBelow!vars
<1> USE ThreadsDistinct, PoolFactsHold DEF Plain, jobVars
<1>1. ASSUME NEW j \in Jobs, ExecuteStep(j) PROVE [PoolBelow!Next]_PoolBelow!vars
  <2>1. CASE RequestFails(j) \/ (\E a \in Adapters : SendRequest(j, a)) \/ RegisterAwaitingResp(j)
    BY <2>1, OwnStepBelow
  <2>2. CASE SendReply(j)
    <3>1. ReportingLock' = [ReportingLock EXCEPT ![j] = j] /\ ReportingLock[j] = NoThread
      BY <2>2 DEF SendReply, WorkerDone, Free, LockTyped, BTypeOK, ReportingLock, Sending
    <3>2. PoolBelow!WorkerDone(j)
      BY <2>2, <3>1 DEF SendReply, WorkerDone, PoolBelow!WorkerDone, PoolBelow!Free, admin,
                        PoolBelow!admin
    <3>3. QED
      BY <3>2 DEF PoolBelow!Next, PoolBelow!WorkerStep
  <2>3. CASE Plain(NotifyJobDone(j))
    BY <2>3, InheritedStepBelow
  <2>4. CASE Plain(WorkerLeave(j))
    <3>1. ReportingLock' = [ReportingLock EXCEPT ![j] = NoThread]
      BY <2>4 DEF WorkerLeave, LockTyped, ReportingLock, Sending
    <3>2. PoolBelow!WorkerLeave(j)
      BY <2>4, <3>1 DEF WorkerLeave, PoolBelow!WorkerLeave, admin, PoolBelow!admin
    <3>3. QED
      BY <3>2 DEF PoolBelow!Next, PoolBelow!WorkerStep
  <2>5. QED
    BY <1>1, <2>1, <2>2, <2>3, <2>4 DEF ExecuteStep
<1>2. ASSUME NEW a \in Adapters, AdapterStep(a) \/ ConnectionLost(a) \/ AdapterReady(a)
      PROVE  [PoolBelow!Next]_PoolBelow!vars
  BY <1>2, OwnStepBelow
<1>3. ASSUME NEW a \in Adapters, NEW j \in Jobs, ResponseArrives(a, j)
      PROVE  [PoolBelow!Next]_PoolBelow!vars
  BY <1>3, OwnStepBelow
<1>4. CASE BAddJob \/ BProcessFinishedJob \/ Plain(InheritedListener) \/ Plain(InheritedStopper)
           \/ Plain(InheritedPool) \/ Plain(SpuriousWakeup) \/ Plain(Terminated)
  BY <1>4, InheritedStepBelow DEF BAddJob, BProcessFinishedJob
<1>5. ASSUME NEW t \in Callers, NEW j \in Jobs, BCancelOne(t, j)
      PROVE  [PoolBelow!Next]_PoolBelow!vars
  <2>1. jobLock[j] = NoThread /\ UNCHANGED jobLock
    BY <1>5, BalancerConstants DEF BCancelOne, CancelOne, Free, locks
  <2>2. \A i \in Jobs : i # j => phase'[i] = phase[i]
    <3>1. phase' = phase \/ phase' = [phase EXCEPT ![j] = "REPLY"]
      <4>1. phase[j] \in {"REQUEST", "REPLY", "RESPONSE", "DONE"}
        BY DEF BTypeOK, Phases
      <4>2. QED
        BY <1>5, <4>1, Zenon DEF BCancelOne, ScheduleFailedJobReply
    <3>2. phase \in [Jobs -> Phases]
      BY DEF BTypeOK
    <3>3. QED
      BY <3>1, <3>2, Zenon
  <2>3. ReportingLock' = ReportingLock
    BY <2>1, <2>2, LockViewSame
  <2>4. PoolBelow!CancelOne(t, j)
    BY <1>5, <2>1, <2>3, LockViewFree
       DEF BCancelOne, CancelOne, PoolBelow!CancelOne, PoolBelow!Free, locks, PoolBelow!locks,
           admin, PoolBelow!admin
  <2>5. QED
    BY <2>4 DEF Callers, PoolBelow!Next, PoolBelow!ListenerStep, PoolBelow!StopperStep
<1>6. CASE UNCHANGED bvars
  <2>1. UNCHANGED vars /\ UNCHANGED phase
    BY <1>6 DEF bvars
  <2>2. ReportingLock' = ReportingLock
    BY <2>1, LockViewSame DEF vars, locks
  <2>3. QED
    BY <2>1, <2>2 DEF vars, locks, admin, PoolBelow!vars, PoolBelow!locks, PoolBelow!admin
<1>7. QED
  BY <1>1, <1>2, <1>3, <1>4, <1>5, <1>6 DEF BNext, BPoolStep

-----------------------------------------------------------------------------
(* Types                                                                     *)

LEMMA LockTypedStep ==
  ASSUME LockTyped, [BNext]_bvars
  PROVE  LockTyped'
<1> USE DEF LockTyped, Threads
<1>1. CASE UNCHANGED jobLock
  BY <1>1
<1>2. CASE \E j \in Jobs : \/ (\E a \in Adapters : SendRequest(j, a)) \/ RegisterAwaitingResp(j)
                           \/ WorkerDone(j) \/ WorkerLeave(j)
  BY <1>2 DEF SendRequest, RegisterAwaitingResp, WorkerDone, WorkerLeave
<1>3. QED
  <2> DEFINE Moved == \E j \in Jobs : \/ (\E a \in Adapters : SendRequest(j, a))
                                      \/ RegisterAwaitingResp(j) \/ WorkerDone(j) \/ WorkerLeave(j)
  <2>1. ASSUME NEW j \in Jobs, ExecuteStep(j) PROVE UNCHANGED jobLock \/ Moved
    BY <2>1 DEF ExecuteStep, RequestFails, SendReply, Plain, NotifyJobDone, vars, locks
  <2>2. ASSUME NEW a \in Adapters, AdapterStep(a) \/ ConnectionLost(a) \/ AdapterReady(a)
        PROVE  UNCHANGED jobLock
    BY <2>2 DEF AdapterStep, SetTransJobResp, Fail, NotifyAdapterDisconnect, FailEnd,
                ConnectionLost, AdapterReady, vars, locks
  <2>3. ASSUME NEW a \in Adapters, NEW j \in Jobs, ResponseArrives(a, j) PROVE UNCHANGED jobLock
    BY <2>3 DEF ResponseArrives, vars, locks
  <2>4. CASE BAddJob \/ BProcessFinishedJob \/ Plain(SpuriousWakeup) \/ Plain(Terminated)
    BY <2>4 DEF BAddJob, AddJob, BProcessFinishedJob, ProcessFinishedJob, Plain, SpuriousWakeup,
                Terminated, vars, locks
  <2>5. CASE Plain(InheritedListener) \/ Plain(InheritedStopper) \/ Plain(InheritedPool)
    BY <2>5 DEF Plain, InheritedListener, InheritedStopper, InheritedPool, PlanNewJob,
                PlanRefused, PlanEnd, CancelJobs, CancelAllJobs, CancelBegin, CancelEnd,
                PoolEnter, IsStopRunningLock, IsStopRunning, LoopEnd, DeleteJob,
                SynchJobFinished, StopBegin, StopWake, StopJoin, locks
  <2>6. ASSUME NEW t \in Callers, NEW j \in Jobs, BCancelOne(t, j) PROVE UNCHANGED jobLock
    BY <2>6 DEF BCancelOne, CancelOne, locks
  <2>7. CASE UNCHANGED bvars
    BY <2>7 DEF bvars, vars, locks
  <2>8. QED
    BY <1>1, <1>2, <2>1, <2>2, <2>3, <2>4, <2>5, <2>6, <2>7 DEF BNext, BPoolStep

LEMMA ReachType ==
  ASSUME BTypeOK, NEW a \in Adapters, NEW js \in SUBSET Jobs, Reach(a, js)
  PROVE  visiting' \in [Adapters -> Jobs \cup {NoThread}]
<1>1. PICK j \in Jobs \cup {NoThread} : visiting' = [visiting EXCEPT ![a] = j]
  BY DEF Reach
<1>2. QED
  BY <1>1 DEF BTypeOK

LEMMA TypeStep ==
  ASSUME BTypeOK, PoolFacts, PhaseInv, ScheduledForItsPhase, [BNext]_bvars
  PROVE  BTypeOK'
<1> USE BalancerConstants DEF BTypeOK, Phases, States, Plain, jobVars, adapterVars
<1>1. ASSUME NEW j \in Jobs, ExecuteStep(j) PROVE BTypeOK'
  <2>1. CASE RequestFails(j)
    <3>1. /\ TakeIncoming(j) /\ UNCHANGED <<hasResp, replies, adapterVars>>
          /\ ScheduleFailedJobReply(j, "CANCELED") \/ ScheduleFailedJobReply(j, "FAILED")
      BY <2>1, Zenon DEF RequestFails
    <3>2. incoming' \in [Jobs -> 0..1] /\ phase[j] = "REQUEST"
      BY <3>1 DEF TakeIncoming
    <3>3. phase' \in [Jobs -> Phases] /\ state' \in [Jobs -> States]
      BY <3>1 DEF ScheduleFailedJobReply
    <3>4. outgoing[j] = 0 /\ outgoing' = [outgoing EXCEPT ![j] = @ + 1]
      BY <3>1, <3>2 DEF ScheduleFailedJobReply, ScheduledForItsPhase
    <3>5. outgoing' \in [Jobs -> 0..1]
      BY <3>4
    <3>6. adapterOf' \in [Jobs -> Adapters \cup {NoAdapter}]
      <4>1. adapterOf' = adapterOf \/ \E a \in Adapters : adapterOf' = [adapterOf EXCEPT ![j] = a]
        BY <2>1 DEF RequestFails
      <4>2. QED
        BY <4>1
    <3>7. QED
      BY <3>1, <3>2, <3>3, <3>5, <3>6, Zenon
  <2>2. ASSUME NEW a \in Adapters, SendRequest(j, a) PROVE BTypeOK'
    BY <2>2 DEF SendRequest, TakeIncoming
  <2>3. CASE RegisterAwaitingResp(j)
    <3>1. UNCHANGED <<jobVars, inFlight, online, disconnects, apc, toNotify, visiting>>
      BY <2>3 DEF RegisterAwaitingResp
    <3>2. awaiting' \in [Adapters -> SUBSET Jobs]
      <4>1. awaiting' = [awaiting EXCEPT ![adapterOf[j]] = @ \cup {j}]
        BY <2>3, Zenon DEF RegisterAwaitingResp
      <4>2. awaiting \in [Adapters -> SUBSET Jobs]
        OBVIOUS
      <4> HIDE DEF BTypeOK
      <4>3. QED
        BY <4>1, <4>2
    <3>3. QED
      BY <3>1, <3>2, Zenon
  <2>4. CASE SendReply(j)
    BY <2>4 DEF SendReply
  <2>5. CASE Plain(NotifyJobDone(j)) \/ Plain(WorkerLeave(j))
    BY <2>5
  <2>6. QED
    BY <1>1, <2>1, <2>2, <2>3, <2>4, <2>5 DEF ExecuteStep
<1>2. ASSUME NEW a \in Adapters, AdapterStep(a) \/ ConnectionLost(a) \/ AdapterReady(a)
      PROVE  BTypeOK'
  <2>1. ASSUME NEW j \in Jobs, SetTransJobResp(a, j) PROVE BTypeOK'
    <3>1. CASE phase[j] = "RESPONSE" /\ state[j] # "FAILED"
      <4>1. outgoing[j] = 0
        BY <3>1 DEF ScheduledForItsPhase
      <4>2. /\ outgoing' = [outgoing EXCEPT ![j] = @ + 1]
            /\ phase' = [phase EXCEPT ![j] = "REPLY"] /\ hasResp' = [hasResp EXCEPT ![j] = TRUE]
        BY <2>1, <3>1, Zenon DEF SetTransJobResp
      <4>3. outgoing' \in [Jobs -> 0..1]
        BY <4>1, <4>2
      <4>4. outgoing' \in [Jobs -> 0..1] /\ phase' \in [Jobs -> Phases] /\ hasResp' \in [Jobs -> BOOLEAN]
        BY <4>2, <4>3
      <4>5. QED
        BY <2>1, <4>4 DEF SetTransJobResp
    <3>2. CASE ~(phase[j] = "RESPONSE" /\ state[j] # "FAILED")
      BY <2>1, <3>2 DEF SetTransJobResp
    <3>3. QED
      BY <3>1, <3>2
  <2>2. ASSUME NEW j \in Jobs, Fail(a, j) PROVE BTypeOK'
    <3>1. visiting' \in [Adapters -> Jobs \cup {NoThread}]
      BY <2>2, ReachType DEF Fail
    <3>2. toNotify' \in [Adapters -> SUBSET Jobs]
      BY <2>2 DEF Fail
    <3>5. /\ hasResp' = hasResp /\ adapterOf' = adapterOf /\ incoming' = incoming
          /\ replies' = replies /\ awaiting' = awaiting /\ inFlight' = inFlight
          /\ online' = online /\ disconnects' = disconnects /\ apc' = apc
      BY <2>2 DEF Fail
    <3>3. CASE phase[j] = "RESPONSE"
      <4>1. ScheduleFailedJobReply(j, "CANCELED") \/ ScheduleFailedJobReply(j, "FAILED")
        BY <2>2, <3>3 DEF Fail
      <4>2. phase' \in [Jobs -> Phases] /\ state' \in [Jobs -> States]
        BY <4>1 DEF ScheduleFailedJobReply
      <4>3. outgoing[j] = 0 /\ outgoing' = [outgoing EXCEPT ![j] = @ + 1]
        BY <3>3, <4>1 DEF ScheduleFailedJobReply, ScheduledForItsPhase
      <4>4. outgoing' \in [Jobs -> 0..1]
        BY <4>3
      <4>5. QED
        BY <3>1, <3>2, <3>5, <4>2, <4>4, Zenon DEF BTypeOK, Phases, States
    <3>4. CASE phase[j] # "RESPONSE"
      <4>1. UNCHANGED <<phase, state, outgoing>>
        BY <2>2, <3>4 DEF Fail
      <4>2. QED
        BY <3>1, <3>2, <3>5, <4>1, Zenon DEF BTypeOK
    <3>6. QED
      BY <3>3, <3>4
  <2>3. CASE NotifyAdapterDisconnect(a)
    <3>1. visiting' \in [Adapters -> Jobs \cup {NoThread}]
      BY <2>3, ReachType DEF NotifyAdapterDisconnect
    <3>2. QED
      BY <2>3, <3>1 DEF NotifyAdapterDisconnect
  <2>4. CASE ConnectionLost(a)
    <3>1. /\ disconnects' \in [Adapters -> Nat]
          /\ \A b \in Adapters : disconnects'[b] <= MaxDisconnects[b]
      BY <2>4 DEF ConnectionLost
    <3>2. QED
      BY <2>4, <3>1 DEF ConnectionLost
  <2>5. CASE FailEnd(a) \/ AdapterReady(a)
    BY <2>5 DEF FailEnd, AdapterReady
  <2>6. QED
    BY <1>2, <2>1, <2>2, <2>3, <2>4, <2>5 DEF AdapterStep
<1>3. ASSUME NEW a \in Adapters, NEW j \in Jobs, ResponseArrives(a, j) PROVE BTypeOK'
  <2>1. /\ UNCHANGED <<jobVars, awaiting, online, disconnects>>
        /\ inFlight' \in [Adapters -> SUBSET Jobs]
    BY <1>3 DEF ResponseArrives
  <2>2. apc' = apc \/ apc' = [apc EXCEPT ![a] = "respond"]
    BY <1>3, Zenon DEF ResponseArrives
  <2>3. toNotify' = toNotify \/ toNotify' = [toNotify EXCEPT ![a] = {j}]
    BY <1>3, Zenon DEF ResponseArrives
  <2>4. visiting' = visiting \/ visiting' = [visiting EXCEPT ![a] = j]
    BY <1>3, Zenon DEF ResponseArrives
  <2>5. /\ apc \in [Adapters -> {"idle", "respond", "closing", "fail"}]
        /\ toNotify \in [Adapters -> SUBSET Jobs]
        /\ visiting \in [Adapters -> Jobs \cup {NoThread}]
    OBVIOUS
  <2>6. /\ apc' \in [Adapters -> {"idle", "respond", "closing", "fail"}]
        /\ toNotify' \in [Adapters -> SUBSET Jobs]
        /\ visiting' \in [Adapters -> Jobs \cup {NoThread}]
    <3> HIDE DEF BTypeOK
    <3>1. QED
      BY <2>2, <2>3, <2>4, <2>5
  <2>7. QED
    BY <2>1, <2>6, Zenon
<1>4. CASE BAddJob
  BY <1>4 DEF BAddJob, AddJob, PoolFacts, ScheduledForItsPhase
<1>5. CASE BProcessFinishedJob
  BY <1>5 DEF BProcessFinishedJob
<1>6. CASE Plain(InheritedListener) \/ Plain(InheritedStopper) \/ Plain(InheritedPool)
           \/ Plain(SpuriousWakeup) \/ Plain(Terminated)
  BY <1>6
<1>7. ASSUME NEW t \in Callers, NEW j \in Jobs, BCancelOne(t, j) PROVE BTypeOK'
  <2>1. CASE phase[j] \in {"REQUEST", "REPLY"}
    BY <1>7, <2>1 DEF BCancelOne
  <2>2. CASE phase[j] = "RESPONSE"
    <3>1. ScheduleFailedJobReply(j, "CANCELED")
      BY <1>7, <2>2 DEF BCancelOne
    <3>2. phase' \in [Jobs -> Phases] /\ state' \in [Jobs -> States]
      BY <3>1 DEF ScheduleFailedJobReply
    <3>3. outgoing[j] = 0 /\ outgoing' = [outgoing EXCEPT ![j] = @ + 1]
      BY <2>2, <3>1 DEF ScheduleFailedJobReply, ScheduledForItsPhase
    <3>4. outgoing' \in [Jobs -> 0..1]
      BY <3>3
    <3>5. QED
      BY <1>7, <3>2, <3>4 DEF BCancelOne
  <2>3. CASE phase[j] = "DONE"
    BY <1>7, <2>3 DEF BCancelOne
  <2>4. QED
    BY <2>1, <2>2, <2>3
<1>8. CASE UNCHANGED bvars
  BY <1>8 DEF bvars
<1>9. QED
  BY <1>1, <1>2, <1>3, <1>4, <1>5, <1>6, <1>7, <1>8 DEF BNext, BPoolStep

-----------------------------------------------------------------------------
(* Phases, queues and replies                                                *)

\* The job pool's inherited actions neither start nor advance an execution.
LEMMA InheritedSame ==
  ASSUME \/ InheritedListener \/ InheritedStopper \/ InheritedPool \/ SpuriousWakeup
         \/ Terminated \/ ProcessFinishedJob \/ \E t \in Callers, j \in Jobs : CancelOne(t, j)
  PROVE  UNCHANGED work
BY DEF InheritedListener, InheritedStopper, InheritedPool, PlanNewJob, PlanRefused, PlanEnd,
       CancelJobs, CancelAllJobs, CancelBegin, CancelEnd, CancelOne, PoolEnter,
       IsStopRunningLock, IsStopRunning, LoopEnd, DeleteJob, SynchJobFinished, StopBegin,
       StopWake, StopJoin, SpuriousWakeup, Terminated, ProcessFinishedJob, vars

LEMMA PhaseSame ==
  ASSUME PhaseInv, ScheduledForItsPhase,
         UNCHANGED <<work, phase, state, adapterOf, incoming, outgoing, replies>>
  PROVE  PhaseInv' /\ ScheduledForItsPhase'
BY DEF PhaseInv, ScheduledForItsPhase

LEMMA PhaseStep ==
  ASSUME BTypeOK, PoolFacts, PhaseInv, ScheduledForItsPhase, [BNext]_bvars
  PROVE  PhaseInv' /\ ScheduledForItsPhase'
<1> USE BalancerConstants DEF BTypeOK, Phases, States, Plain, jobVars
<1> DEFINE Kept == PhaseInv' /\ ScheduledForItsPhase'
<1>1. ASSUME NEW j \in Jobs, ExecuteStep(j) PROVE Kept
  <2>1. CASE RequestFails(j)
    <3>1. /\ phase[j] = "REQUEST" /\ work[j] # "none" /\ work' = work /\ replies' = replies
          /\ incoming[j] = 1 /\ incoming' = [incoming EXCEPT ![j] = @ - 1]
      BY <2>1 DEF RequestFails, TakeIncoming, ScheduledForItsPhase, vars
    <3>2. /\ phase' = [phase EXCEPT ![j] = "REPLY"]
          /\ outgoing' = [outgoing EXCEPT ![j] = @ + 1]
          /\ \E st \in States : state' = [state EXCEPT ![j] = st]
          /\ \A i \in Jobs : i # j => adapterOf'[i] = adapterOf[i]
      BY <2>1 DEF RequestFails, ScheduleFailedJobReply
    <3>3. work[j] \notin {"reporting", "reported", "left"} /\ outgoing[j] = 0
      BY <3>1 DEF PhaseInv, ScheduledForItsPhase
    <3>4. PhaseInv'
      BY <3>1, <3>2, <3>3 DEF PhaseInv
    <3>5. ScheduledForItsPhase'
      BY <3>1, <3>2, <3>3 DEF ScheduledForItsPhase
    <3>6. QED
      BY <3>4, <3>5
  <2>2. ASSUME NEW a \in Adapters, SendRequest(j, a) PROVE Kept
    <3>1. /\ phase[j] = "REQUEST" /\ work[j] # "none" /\ work' = work /\ replies' = replies
          /\ incoming[j] = 1 /\ incoming' = [incoming EXCEPT ![j] = @ - 1]
          /\ phase' = [phase EXCEPT ![j] = "RESPONSE"] /\ state[j] = "ACTIVE" /\ state' = state
          /\ outgoing' = outgoing /\ adapterOf' = [adapterOf EXCEPT ![j] = a]
      BY <2>2 DEF SendRequest, TakeIncoming, ScheduledForItsPhase
    <3>2. PhaseInv'
      BY <3>1 DEF PhaseInv
    <3>3. ScheduledForItsPhase'
      BY <3>1 DEF ScheduledForItsPhase
    <3>4. QED
      BY <3>2, <3>3
  <2>3. CASE RegisterAwaitingResp(j)
    BY <2>3, PhaseSame DEF RegisterAwaitingResp
  <2>4. CASE SendReply(j)
    <3>1. /\ phase[j] = "REPLY" /\ outgoing[j] = 1 /\ work' = [work EXCEPT ![j] = "reporting"]
          /\ outgoing' = [outgoing EXCEPT ![j] = @ - 1] /\ replies' = [replies EXCEPT ![j] = @ + 1]
          /\ phase' = [phase EXCEPT ![j] = "DONE"] /\ UNCHANGED <<state, adapterOf, incoming>>
          /\ work[j] = "running"
      BY <2>4 DEF SendReply, WorkerDone, ScheduledForItsPhase
    <3>2. PhaseInv'
      <4>0. replies[j] = 0 /\ work \in [Jobs -> WorkPC]
        BY <3>1 DEF PhaseInv, PoolFacts
      <4>1. replies'[j] = 1 /\ phase'[j] = "DONE" /\ work'[j] = "reporting"
        BY <3>1, <4>0
      <4>2. \A i \in Jobs : i # j => /\ replies'[i] = replies[i] /\ phase'[i] = phase[i]
                                     /\ work'[i] = work[i]
        BY <3>1
      <4>3. QED
        BY <3>1, <4>1, <4>2 DEF PhaseInv
    <3>3. ScheduledForItsPhase'
      BY <3>1 DEF ScheduledForItsPhase, PoolFacts
    <3>4. QED
      BY <3>2, <3>3
  <2>5. CASE Plain(NotifyJobDone(j)) \/ Plain(WorkerLeave(j))
    <3>1. /\ work[j] \in {"reporting", "reported"}
          /\ work' = [work EXCEPT ![j] = "reported"] \/ work' = [work EXCEPT ![j] = "left"]
          /\ UNCHANGED jobVars
      BY <2>5 DEF NotifyJobDone, WorkerLeave
    <3>2. \A i \in Jobs : /\ work'[i] = "none" <=> work[i] = "none"
                          /\ work'[i] \in {"reporting", "reported", "left"}
                               <=> work[i] \in {"reporting", "reported", "left"}
      BY <3>1 DEF PoolFacts
    <3>3. PhaseInv' /\ ScheduledForItsPhase'
      BY <3>1, <3>2 DEF PhaseInv, ScheduledForItsPhase
    <3>4. QED
      BY <3>3
  <2>6. QED
    BY <1>1, <2>1, <2>2, <2>3, <2>4, <2>5 DEF ExecuteStep
<1>2. ASSUME NEW a \in Adapters, AdapterStep(a) \/ ConnectionLost(a) \/ AdapterReady(a)
      PROVE  Kept
  <2>1. ASSUME NEW j \in Jobs, SetTransJobResp(a, j) \/ Fail(a, j), phase[j] = "RESPONSE" PROVE Kept
    <3>1. /\ phase' = [phase EXCEPT ![j] = "REPLY"] /\ outgoing' = [outgoing EXCEPT ![j] = @ + 1]
          /\ UNCHANGED <<work, adapterOf, incoming, replies>>
          /\ \A i \in Jobs : i # j => state'[i] = state[i]
      BY <2>1 DEF SetTransJobResp, Fail, ScheduleFailedJobReply, ScheduledForItsPhase, vars
    <3>2. outgoing[j] = 0
      BY <2>1 DEF ScheduledForItsPhase
    <3>3. PhaseInv'
      BY <2>1, <3>1 DEF PhaseInv
    <3>4. ScheduledForItsPhase'
      BY <2>1, <3>1, <3>2 DEF ScheduledForItsPhase
    <3>5. QED
      BY <3>3, <3>4
  <2>2. ASSUME NEW j \in Jobs, SetTransJobResp(a, j) \/ Fail(a, j), phase[j] # "RESPONSE" PROVE Kept
    BY <2>2, PhaseSame DEF SetTransJobResp, Fail, vars
  <2>3. CASE NotifyAdapterDisconnect(a) \/ FailEnd(a) \/ ConnectionLost(a) \/ AdapterReady(a)
    BY <2>3, PhaseSame DEF NotifyAdapterDisconnect, FailEnd, ConnectionLost, AdapterReady, vars
  <2>4. QED
    BY <1>2, <2>1, <2>2, <2>3 DEF AdapterStep
<1>3. ASSUME NEW a \in Adapters, NEW j \in Jobs, ResponseArrives(a, j) PROVE Kept
  BY <1>3, PhaseSame DEF ResponseArrives, vars
<1>4. CASE BAddJob
  <2>1. PICK j \in Jobs :
          /\ work[j] = "none" /\ work' = [work EXCEPT ![j] = "running"]
          /\ incoming' = [incoming EXCEPT ![j] = @ + 1]
          /\ UNCHANGED <<phase, state, adapterOf, outgoing, replies>>
    BY <1>4 DEF BAddJob, AddJob, PoolFacts
  <2>2. phase[j] = "REQUEST" /\ incoming[j] = 0
    BY <2>1 DEF PhaseInv, ScheduledForItsPhase
  <2>3. PhaseInv'
    BY <2>1, <2>2 DEF PhaseInv, PoolFacts
  <2>4. ScheduledForItsPhase'
    BY <2>1, <2>2 DEF ScheduledForItsPhase, PoolFacts
  <2>5. QED
    BY <2>3, <2>4
<1>5. CASE BProcessFinishedJob
  BY <1>5, PhaseSame, InheritedSame DEF BProcessFinishedJob
<1>6. CASE Plain(InheritedListener) \/ Plain(InheritedStopper) \/ Plain(InheritedPool)
           \/ Plain(SpuriousWakeup) \/ Plain(Terminated)
  BY <1>6, PhaseSame, InheritedSame
<1>7. ASSUME NEW t \in Callers, NEW j \in Jobs, BCancelOne(t, j) PROVE Kept
  <2>1. UNCHANGED <<work, adapterOf, incoming, replies>>
    BY <1>7, InheritedSame DEF BCancelOne
  <2>2. CASE phase[j] \in {"REQUEST", "REPLY"}
    <3>1. UNCHANGED <<phase, outgoing>> /\ state' = [state EXCEPT ![j] = "CANCELED"]
      BY <1>7, <2>2 DEF BCancelOne
    <3>2. QED
      BY <2>1, <2>2, <3>1 DEF PhaseInv, ScheduledForItsPhase
  <2>3. CASE phase[j] = "RESPONSE"
    <3>1. /\ phase' = [phase EXCEPT ![j] = "REPLY"] /\ outgoing' = [outgoing EXCEPT ![j] = @ + 1]
          /\ state' = [state EXCEPT ![j] = "CANCELED"]
      BY <1>7, <2>3 DEF BCancelOne, ScheduleFailedJobReply
    <3>2. outgoing[j] = 0
      BY <2>3 DEF ScheduledForItsPhase
    <3>3. PhaseInv'
      BY <2>1, <2>3, <3>1 DEF PhaseInv
    <3>4. ScheduledForItsPhase'
      BY <2>1, <2>3, <3>1, <3>2 DEF ScheduledForItsPhase
    <3>5. QED
      BY <3>3, <3>4
  <2>4. CASE phase[j] = "DONE"
    BY <1>7, <2>1, <2>4, PhaseSame DEF BCancelOne
  <2>5. QED
    BY <2>2, <2>3, <2>4
<1>8. CASE UNCHANGED bvars
  BY <1>8, PhaseSame DEF bvars, vars
<1>9. QED
  BY <1>1, <1>2, <1>3, <1>4, <1>5, <1>6, <1>7, <1>8 DEF BNext, BPoolStep

-----------------------------------------------------------------------------
(* The jobs an adapter knows                                                 *)

\* Nothing is added to what the adapters know, and what they know keeps its life.
LEMMA AwaitSame ==
  ASSUME AwaitInv,
         \A a \in Adapters : /\ awaiting'[a] \subseteq awaiting[a]
                             /\ toNotify'[a] \subseteq toNotify[a]
                             /\ apc'[a] = apc[a] \/ toNotify'[a] = {},
         \A a \in Adapters : \A j \in awaiting'[a] \cup toNotify'[a] :
           /\ object'[j] = object[j] /\ adapterOf'[j] = adapterOf[j]
           /\ phase'[j] = phase[j] \/ phase'[j] # "REQUEST"
           /\ InHandOfPool(j)' => InHandOfPool(j)
  PROVE  AwaitInv'
<1> SUFFICES ASSUME NEW a \in Adapters
             PROVE  /\ AwaitingFree(a)' => toNotify'[a] = {}
                    /\ \A j \in awaiting'[a] \cup toNotify'[a] :
                         /\ object'[j] = "alive" /\ adapterOf'[j] = a /\ phase'[j] # "REQUEST"
                         /\ ~InHandOfPool(j)'
  BY DEF AwaitInv
<1>1. AwaitingFree(a)' => toNotify'[a] = {}
  BY DEF AwaitInv, AwaitingFree
<1>2. \A j \in awaiting'[a] \cup toNotify'[a] : j \in awaiting[a] \cup toNotify[a]
  OBVIOUS
<1>3. QED
  BY <1>1, <1>2 DEF AwaitInv

LEMMA AwaitStep ==
  ASSUME BTypeOK, PoolFacts, PhaseInv, ScheduledForItsPhase, AwaitInv, [BNext]_bvars
  PROVE  AwaitInv'
<1> USE BalancerConstants, ThreadsDistinct DEF BTypeOK, Plain, jobVars, adapterVars
<1>1. ASSUME NEW j \in Jobs, ExecuteStep(j) PROVE AwaitInv'
  <2>1. CASE RequestFails(j) \/ \E a \in Adapters : SendRequest(j, a)
    <3>1. /\ phase[j] = "REQUEST" /\ phase'[j] # "REQUEST"
          /\ \A i \in Jobs : i # j => phase'[i] = phase[i] /\ adapterOf'[i] = adapterOf[i]
          /\ UNCHANGED <<awaiting, toNotify, apc, object, pc, current>>
      BY <2>1 DEF RequestFails, SendRequest, TakeIncoming, ScheduleFailedJobReply, vars
    <3>2. \A a \in Adapters : j \notin awaiting[a] \cup toNotify[a]
      BY <3>1 DEF AwaitInv
    <3>3. QED
      BY <3>1, <3>2, AwaitSame DEF InHandOfPool
  <2>2. CASE RegisterAwaitingResp(j)
    <3>1. PICK a \in Adapters :
            /\ adapterOf[j] = a /\ AwaitingFree(a) /\ phase[j] = "RESPONSE"
            /\ awaiting' = [awaiting EXCEPT ![a] = @ \cup {j}]
            /\ UNCHANGED <<toNotify, apc, object, pc, current, phase, adapterOf>>
      BY <2>2 DEF RegisterAwaitingResp, Sending, PhaseInv
    <3>2. work[j] \notin {"none", "reporting", "reported", "left"}
      BY <3>1 DEF PhaseInv
    <3>3. object[j] = "alive" /\ ~InHandOfPool(j)
      BY <3>2 DEF PoolFacts
    <3>4. QED
      BY <3>1, <3>3 DEF AwaitInv, AwaitingFree, InHandOfPool
  <2>3. CASE SendReply(j)
    BY <2>3, AwaitSame DEF SendReply, WorkerDone, InHandOfPool
  <2>4. CASE Plain(NotifyJobDone(j)) \/ Plain(WorkerLeave(j))
    <3>1. /\ UNCHANGED <<awaiting, toNotify, apc, object, current, phase, adapterOf>>
          /\ pc'[Pool] = pc[Pool] \/ pc'[Pool] = "woken"
      BY <2>4 DEF NotifyJobDone, WorkerLeave, NotifyOne, PoolFacts
    <3>2. QED
      BY <3>1, AwaitSame DEF InHandOfPool
  <2>5. QED
    BY <1>1, <2>1, <2>2, <2>3, <2>4 DEF ExecuteStep
<1>2. ASSUME NEW a \in Adapters, AdapterStep(a) \/ ConnectionLost(a) \/ AdapterReady(a)
      PROVE  AwaitInv'
  <2>1. ASSUME NEW j \in Jobs, SetTransJobResp(a, j) PROVE AwaitInv'
    <3>1. /\ toNotify' = [toNotify EXCEPT ![a] = {}] /\ apc' = [apc EXCEPT ![a] = "idle"]
          /\ UNCHANGED <<awaiting, object, pc, current, adapterOf>>
          /\ phase' = phase \/ phase' = [phase EXCEPT ![j] = "REPLY"]
      BY <2>1 DEF SetTransJobResp, vars
    <3>2. QED
      BY <3>1, AwaitSame DEF InHandOfPool
  <2>2. ASSUME NEW j \in Jobs, Fail(a, j) PROVE AwaitInv'
    <3>1. /\ toNotify' = [toNotify EXCEPT ![a] = @ \ {j}]
          /\ UNCHANGED <<awaiting, apc, object, pc, current, adapterOf>>
          /\ phase' = phase \/ phase' = [phase EXCEPT ![j] = "REPLY"]
      BY <2>2 DEF Fail, ScheduleFailedJobReply, vars
    <3>2. QED
      BY <3>1, AwaitSame DEF InHandOfPool
  <2>3. CASE NotifyAdapterDisconnect(a)
    <3>1. /\ toNotify' = [toNotify EXCEPT ![a] = awaiting[a]] /\ apc' = [apc EXCEPT ![a] = "fail"]
          /\ UNCHANGED <<awaiting, object, pc, current, phase, adapterOf>>
      BY <2>3 DEF NotifyAdapterDisconnect, vars
    <3>2. QED
      BY <3>1 DEF AwaitInv, AwaitingFree, InHandOfPool
  <2>4. CASE FailEnd(a)
    <3>1. /\ toNotify[a] = {} /\ UNCHANGED <<awaiting, toNotify, object, pc, current, phase, adapterOf>>
          /\ apc' = [apc EXCEPT ![a] = "idle"]
      BY <2>4 DEF FailEnd, vars
    <3>2. QED
      BY <3>1, AwaitSame DEF InHandOfPool
  <2>5. CASE ConnectionLost(a)
    <3>1. /\ toNotify[a] = {} /\ UNCHANGED <<awaiting, toNotify, object, pc, current, phase, adapterOf>>
          /\ apc' = [apc EXCEPT ![a] = "closing"]
      BY <2>5 DEF ConnectionLost, AwaitInv, AwaitingFree, vars
    <3>2. QED
      BY <3>1, AwaitSame DEF InHandOfPool
  <2>6. CASE AdapterReady(a)
    BY <2>6, AwaitSame DEF AdapterReady, InHandOfPool, vars
  <2>7. QED
    BY <1>2, <2>1, <2>2, <2>3, <2>4, <2>5, <2>6 DEF AdapterStep
<1>3. ASSUME NEW a \in Adapters, NEW j \in Jobs, ResponseArrives(a, j) PROVE AwaitInv'
  <2>1. UNCHANGED <<awaiting, object, pc, current, phase, adapterOf>>
    BY <1>3 DEF ResponseArrives, vars
  <2>2. CASE j \in awaiting[a]
    <3>1. toNotify' = [toNotify EXCEPT ![a] = {j}] /\ apc' = [apc EXCEPT ![a] = "respond"]
      BY <1>3, <2>2 DEF ResponseArrives
    <3>2. QED
      BY <2>1, <2>2, <3>1 DEF AwaitInv, AwaitingFree, InHandOfPool
  <2>3. CASE j \notin awaiting[a]
    BY <1>3, <2>1, <2>3, AwaitSame DEF ResponseArrives, InHandOfPool
  <2>4. QED
    BY <2>2, <2>3
<1>4. CASE BAddJob
  <2>1. /\ UNCHANGED <<awaiting, toNotify, apc, object, current, phase, adapterOf>>
        /\ pc'[Pool] = pc[Pool]
    BY <1>4 DEF BAddJob, AddJob, Goto, PoolFacts
  <2>2. QED
    BY <2>1, AwaitSame DEF InHandOfPool
<1>5. CASE BProcessFinishedJob
  <2>1. PICK h \in Jobs : h = Head(doneList) /\ current'[Pool] = h
    BY <1>5 DEF BProcessFinishedJob, ProcessFinishedJob, PoolFacts
  <2>2. UNCHANGED <<toNotify, apc, object, phase, adapterOf>>
    BY <1>5 DEF BProcessFinishedJob, ProcessFinishedJob
  <2>3. ASSUME NEW a \in Adapters
        PROVE  /\ awaiting'[a] \subseteq awaiting[a] /\ h \notin awaiting'[a] \cup toNotify[a]
    <3>1. CASE adapterOf[h] = a
      <4>1. AwaitingFree(a) /\ awaiting' = [awaiting EXCEPT ![a] = @ \ {h}]
        BY <1>5, <2>1, <3>1 DEF BProcessFinishedJob
      <4>2. QED
        BY <4>1 DEF AwaitInv
    <3>2. CASE adapterOf[h] # a
      <4>1. awaiting'[a] = awaiting[a]
        BY <1>5, <2>1, <3>2 DEF BProcessFinishedJob
      <4>2. QED
        BY <3>2, <4>1 DEF AwaitInv
    <3>3. QED
      BY <3>1, <3>2
  <2>4. QED
    BY <2>1, <2>2, <2>3, AwaitSame DEF InHandOfPool
<1>6. CASE Plain(InheritedListener)
  <2>1. /\ UNCHANGED <<awaiting, toNotify, apc, phase, adapterOf>>
        /\ pc'[Pool] = pc[Pool] /\ current'[Pool] = current[Pool]
    BY <1>6 DEF InheritedListener, PlanNewJob, PlanRefused, PlanEnd, CancelJobs, CancelBegin,
                CancelEnd, Goto, PoolFacts
  <2>2. \A a \in Adapters : \A j \in awaiting[a] \cup toNotify[a] : work[j] # "none"
    BY DEF AwaitInv, PhaseInv
  <2>3. ASSUME NEW a \in Adapters, NEW j \in awaiting[a] \cup toNotify[a]
        PROVE  object'[j] = object[j]
    <3>1. object[j] = "alive" /\ work[j] # "none" /\ j \in Jobs
      BY <2>2 DEF AwaitInv
    <3>2. PlanRefused => current[Listener] # j
      BY <3>1 DEF PlanRefused, PoolFacts
    <3>3. QED
      BY <1>6, <3>1, <3>2 DEF InheritedListener, PlanNewJob, PlanRefused, PlanEnd, CancelJobs,
                              CancelBegin, CancelEnd, PoolFacts
  <2>4. QED
    BY <2>1, <2>3, AwaitSame DEF InHandOfPool
<1>7. CASE Plain(InheritedStopper)
  <2>1. /\ UNCHANGED <<awaiting, toNotify, apc, object, phase, adapterOf, current>>
        /\ pc'[Pool] = pc[Pool] \/ pc'[Pool] = "woken"
    BY <1>7 DEF InheritedStopper, StopBegin, CancelAllJobs, CancelBegin, CancelEnd, StopWake,
                StopJoin, Goto, NotifyOne, PoolFacts
  <2>2. QED
    BY <2>1, AwaitSame DEF InHandOfPool
<1>8. CASE Plain(InheritedPool)
  <2>1. CASE SynchJobFinished
    <3>1. /\ UNCHANGED <<awaiting, toNotify, apc, phase, adapterOf, current>>
          /\ pc'[Pool] = "loop" /\ InHandOfPool(current[Pool])
          /\ object' = [object EXCEPT ![current[Pool]] = "deleted"]
      BY <1>8, <2>1 DEF SynchJobFinished, Goto, PoolFacts, InHandOfPool
    <3>2. \A a \in Adapters : current[Pool] \notin awaiting[a] \cup toNotify[a]
      BY <3>1 DEF AwaitInv
    <3>3. \A a \in Adapters : \A j \in awaiting[a] \cup toNotify[a] : object'[j] = object[j]
      BY <3>1, <3>2 DEF PoolFacts
    <3>4. QED
      BY <3>1, <3>3, AwaitSame DEF InHandOfPool
  <2>2. CASE ~SynchJobFinished
    <3>1. /\ UNCHANGED <<awaiting, toNotify, apc, object, phase, adapterOf, current>>
          /\ pc'[Pool] \in {"delete", "synch"} => pc[Pool] \in {"delete", "synch"}
      BY <1>8, <2>2 DEF InheritedPool, PoolEnter, IsStopRunningLock, IsStopRunning, LoopEnd,
                        DeleteJob, Goto, PoolFacts
    <3>2. QED
      BY <3>1, AwaitSame DEF InHandOfPool
  <2>3. QED
    BY <2>1, <2>2
<1>9. CASE Plain(SpuriousWakeup) \/ Plain(Terminated)
  <2>1. /\ UNCHANGED <<awaiting, toNotify, apc, object, phase, adapterOf, current>>
        /\ pc'[Pool] = pc[Pool] \/ pc'[Pool] = "woken"
    BY <1>9 DEF SpuriousWakeup, Terminated, Goto, PoolFacts, vars
  <2>2. QED
    BY <2>1, AwaitSame DEF InHandOfPool
<1>10. ASSUME NEW t \in Callers, NEW j \in Jobs, BCancelOne(t, j) PROVE AwaitInv'
  <2>1. /\ UNCHANGED <<awaiting, toNotify, apc, object, pc, current, adapterOf>>
        /\ phase' = phase \/ phase' = [phase EXCEPT ![j] = "REPLY"]
    BY <1>10 DEF BCancelOne, CancelOne, ScheduleFailedJobReply, Phases
  <2>2. QED
    BY <2>1, AwaitSame DEF InHandOfPool
<1>11. CASE UNCHANGED bvars
  BY <1>11, AwaitSame DEF bvars, vars, InHandOfPool
<1>12. QED
  BY <1>1, <1>2, <1>3, <1>4, <1>5, <1>6, <1>7, <1>8, <1>9, <1>10, <1>11 DEF BNext, BPoolStep

-----------------------------------------------------------------------------
(* What the clients see                                                      *)

\* Nothing the mapping reads changes.
LEMMA ClientsUnchanged ==
  ASSUME UNCHANGED <<object, replies, isStopping>>,
         \A j \in Jobs : work'[j] = "none" <=> work[j] = "none",
         pc'[Pool] = "exit" <=> pc[Pool] = "exit"
  PROVE  UNCHANGED Clients!svars
<1>1. ClientStatus' = ClientStatus
  BY DEF ClientStatus, Answered
<1>2. QED
  BY <1>1 DEF Clients!svars

\* One job's status changes.
LEMMA ClientMoves ==
  ASSUME NEW h \in Jobs, NEW from, NEW to, ClientStatus[h] = from, ClientStatus'[h] = to,
         \A i \in Jobs : i # h => /\ work'[i] = "none" <=> work[i] = "none"
                                  /\ object'[i] = "deleted" <=> object[i] = "deleted"
                                  /\ replies'[i] = replies[i],
         isStopping' = isStopping, pc'[Pool] = "exit" <=> pc[Pool] = "exit"
  PROVE  Clients!Move(h, from, to)
<1>1. \A i \in Jobs : i # h => ClientStatus'[i] = ClientStatus[i]
  BY DEF ClientStatus, Answered
<1>2. /\ ClientStatus = [i \in Jobs |-> ClientStatus[i]]
      /\ ClientStatus' = [i \in Jobs |-> ClientStatus'[i]]
  BY DEF ClientStatus, Answered
<1>3. ClientStatus' = [ClientStatus EXCEPT ![h] = to]
  BY <1>1, <1>2
<1>4. QED
  BY <1>3 DEF Clients!Move

LEMMA ClientStep ==
  ASSUME BTypeOK, PoolFacts, PoolFacts', PhaseInv, PhaseInv', [BNext]_bvars
  PROVE  [Clients!SNext]_Clients!svars
<1> USE ThreadsDistinct DEF Plain, jobVars
<1> DEFINE Seen == [Clients!SNext]_Clients!svars
<1>1. ASSUME NEW j \in Jobs, ExecuteStep(j) PROVE Seen
  <2>1. CASE RequestFails(j) \/ (\E a \in Adapters : SendRequest(j, a)) \/ RegisterAwaitingResp(j)
    BY <2>1, ClientsUnchanged DEF RequestFails, SendRequest, TakeIncoming, RegisterAwaitingResp,
                                  vars, admin
  <2>2. CASE SendReply(j)
    <3>1. /\ work[j] = "running" /\ phase[j] = "REPLY" /\ work' = [work EXCEPT ![j] = "reporting"]
          /\ replies' = [replies EXCEPT ![j] = @ + 1] /\ UNCHANGED <<object, isStopping, pc>>
      BY <2>2 DEF SendReply, WorkerDone, admin
    <3>2. replies[j] = 0 /\ object[j] # "deleted"
      BY <3>1 DEF PhaseInv, PoolFacts
    <3>3. ClientStatus[j] = "active"
      BY <3>1, <3>2 DEF ClientStatus, Answered
    <3>4. work'[j] = "reporting" /\ replies'[j] = 1
      BY <3>1, <3>2 DEF BTypeOK, PoolFacts
    <3>5. ClientStatus'[j] = "answered"
      BY <3>1, <3>2, <3>4 DEF ClientStatus, Answered
    <3>6. Clients!Move(j, "active", "answered")
      BY <3>1, <3>3, <3>5, ClientMoves
    <3>7. QED
      BY <3>6 DEF Clients!SNext, Clients!Answer
  <2>3. CASE Plain(NotifyJobDone(j)) \/ Plain(WorkerLeave(j))
    <3>1. /\ UNCHANGED <<object, replies, isStopping>>
          /\ \A i \in Jobs : work'[i] = "none" <=> work[i] = "none"
          /\ pc'[Pool] = "exit" <=> pc[Pool] = "exit"
      BY <2>3 DEF NotifyJobDone, WorkerLeave, NotifyOne, PoolFacts, admin
    <3>2. QED
      BY <3>1, ClientsUnchanged
  <2>4. QED
    BY <1>1, <2>1, <2>2, <2>3 DEF ExecuteStep
<1>2. ASSUME NEW a \in Adapters, \/ AdapterStep(a) \/ ConnectionLost(a) \/ AdapterReady(a)
                                 \/ \E j \in Jobs : ResponseArrives(a, j)
      PROVE  Seen
  BY <1>2, ClientsUnchanged DEF AdapterStep, SetTransJobResp, Fail, ScheduleFailedJobReply,
     NotifyAdapterDisconnect, FailEnd, ConnectionLost, AdapterReady, ResponseArrives, vars, admin
<1>3. CASE BAddJob
  <2>1. PICK j \in Jobs :
          /\ work[j] = "none" /\ object[j] = "alive" /\ ~isStopping
          /\ work' = [work EXCEPT ![j] = "running"]
          /\ UNCHANGED <<object, replies, isStopping>> /\ pc'[Pool] = pc[Pool]
    BY <1>3 DEF BAddJob, AddJob, PoolFacts, Goto
  <2>2. replies[j] = 0
    BY <2>1 DEF PhaseInv
  <2>3. ClientStatus[j] = "new" /\ ClientStatus'[j] = "active"
    BY <2>1, <2>2 DEF ClientStatus, Answered, PoolFacts
  <2>4. Clients!Move(j, "new", "active")
    BY <2>1, <2>3, ClientMoves
  <2>5. QED
    BY <2>1, <2>4 DEF Clients!SNext, Clients!Accept
<1>4. CASE BProcessFinishedJob
  BY <1>4, ClientsUnchanged DEF BProcessFinishedJob, ProcessFinishedJob, Goto, PoolFacts
<1>5. CASE Plain(InheritedListener)
  <2>1. /\ UNCHANGED <<work, replies, isStopping>> /\ pc'[Pool] = pc[Pool]
    BY <1>5 DEF InheritedListener, PlanNewJob, PlanRefused, PlanEnd, CancelJobs, CancelBegin,
                CancelEnd, Goto, PoolFacts, admin
  <2>2. CASE PlanRefused
    <3>1. PICK j \in Jobs : /\ work[j] = "none" /\ object[j] = "alive"
                            /\ object' = [object EXCEPT ![j] = "deleted"]
      BY <2>2 DEF PlanRefused, PoolFacts
    <3>2. ClientStatus[j] = "new" /\ ClientStatus'[j] = "refused"
      BY <2>1, <3>1 DEF ClientStatus, Answered, PoolFacts
    <3>3. Clients!Move(j, "new", "refused")
      BY <2>1, <3>1, <3>2, ClientMoves DEF PoolFacts
    <3>4. QED
      BY <3>3 DEF Clients!SNext, Clients!Refuse
  <2>3. ASSUME NEW j \in Jobs, PlanNewJob(j) PROVE Seen
    <3>1. object[j] = "none" /\ object' = [object EXCEPT ![j] = "alive"]
      BY <2>3 DEF PlanNewJob
    <3>2. \A i \in Jobs : object'[i] = "deleted" <=> object[i] = "deleted"
      BY <3>1 DEF PoolFacts
    <3>3. ClientStatus' = ClientStatus
      BY <2>1, <3>2 DEF ClientStatus, Answered
    <3>4. QED
      BY <2>1, <3>3 DEF Clients!svars
  <2>4. CASE PlanEnd \/ CancelEnd(Listener) \/ \E s \in Sessions : CancelJobs(s)
    BY <2>1, <2>4, ClientsUnchanged DEF PlanEnd, CancelJobs, CancelBegin, CancelEnd
  <2>5. QED
    BY <1>5, <2>2, <2>3, <2>4 DEF InheritedListener
<1>6. CASE Plain(InheritedStopper)
  <2>1. CASE StopBegin
    <3>1. /\ isStopping' = TRUE /\ ~isStopping /\ UNCHANGED <<work, object, replies>>
          /\ pc'[Pool] = pc[Pool]
      BY <1>6, <2>1 DEF StopBegin, Goto, PoolFacts
    <3>2. ClientStatus' = ClientStatus
      BY <3>1 DEF ClientStatus
    <3>3. QED
      BY <3>1, <3>2 DEF Clients!SNext, Clients!Stop
  <2>2. CASE ~StopBegin
    <3>1. /\ UNCHANGED <<object, replies, isStopping, work>>
          /\ pc'[Pool] = "exit" <=> pc[Pool] = "exit"
      BY <1>6, <2>2 DEF InheritedStopper, CancelAllJobs, CancelBegin, CancelEnd, StopWake,
                        StopJoin, Goto, NotifyOne, PoolFacts, admin
    <3>2. QED
      BY <3>1, ClientsUnchanged
  <2>3. QED
    BY <2>1, <2>2
<1>7. CASE Plain(InheritedPool)
  <2>1. UNCHANGED <<work, replies, isStopping>>
    BY <1>7 DEF InheritedPool, PoolEnter, IsStopRunningLock, IsStopRunning, LoopEnd, DeleteJob,
                SynchJobFinished, admin
  <2>2. CASE SynchJobFinished
    <3>1. PICK j \in Jobs : /\ InHandOfPool(j) /\ object' = [object EXCEPT ![j] = "deleted"]
      BY <2>2 DEF SynchJobFinished, PoolFacts, InHandOfPool
    <3>2. object[j] = "alive" /\ work[j] \in {"reported", "left"}
      BY <3>1 DEF PoolFacts
    <3>3. replies[j] = 1
      BY <3>2 DEF PhaseInv
    <3>4. ClientStatus[j] = "answered"
      BY <3>2, <3>3 DEF ClientStatus, Answered
    <3>5. ClientStatus'[j] = "retired"
      BY <2>1, <3>1, <3>2 DEF ClientStatus, Answered, PoolFacts
    <3>6. pc[Pool] # "exit" /\ pc'[Pool] # "exit"
      BY <2>2 DEF SynchJobFinished, Goto, PoolFacts
    <3>7. Clients!Move(j, "answered", "retired")
      BY <2>1, <3>1, <3>4, <3>5, <3>6, ClientMoves DEF PoolFacts
    <3>8. QED
      BY <3>7 DEF Clients!SNext, Clients!Retire
  <2>3. CASE IsStopRunning /\ pc'[Pool] = "exit"
    <3>1. pc[Pool] = "checkCount" /\ UNCHANGED object
      BY <2>3 DEF IsStopRunning
    <3>2. isStopping /\ \A j \in Jobs : work[j] = "none" \/ object[j] = "deleted"
      BY <2>1, <2>3, <3>1 DEF PoolFacts
    <3>3. \A j \in Jobs : ClientStatus[j] \in {"new", "refused", "retired"}
      BY <3>2 DEF ClientStatus
    <3>4. ClientStatus' = ClientStatus
      BY <2>1, <3>1 DEF ClientStatus
    <3>5. Clients!Halt
      BY <2>1, <2>3, <3>1, <3>2, <3>3, <3>4 DEF Clients!Halt
    <3>6. QED
      BY <3>5 DEF Clients!SNext
  <2>4. CASE ~SynchJobFinished /\ ~(IsStopRunning /\ pc'[Pool] = "exit")
    <3>1. UNCHANGED object /\ pc[Pool] # "exit" /\ pc'[Pool] # "exit"
      BY <1>7, <2>4 DEF InheritedPool, PoolEnter, IsStopRunningLock, IsStopRunning, LoopEnd,
                        DeleteJob, Goto, PoolFacts
    <3>2. QED
      BY <2>1, <3>1, ClientsUnchanged
  <2>5. QED
    BY <2>2, <2>3, <2>4
<1>8. CASE Plain(SpuriousWakeup) \/ Plain(Terminated)
  BY <1>8, ClientsUnchanged DEF SpuriousWakeup, Terminated, Goto, PoolFacts, vars, admin
<1>9. ASSUME NEW t \in Callers, NEW j \in Jobs, BCancelOne(t, j) PROVE Seen
  BY <1>9, ClientsUnchanged DEF BCancelOne, CancelOne, admin
<1>10. CASE UNCHANGED bvars
  BY <1>10, ClientsUnchanged DEF bvars, vars, admin
<1>11. QED
  BY <1>1, <1>2, <1>3, <1>4, <1>5, <1>6, <1>7, <1>8, <1>9, <1>10 DEF BNext, BPoolStep

-----------------------------------------------------------------------------
LEMMA InitBIInv == BInit => BIInv
<1> SUFFICES ASSUME BInit PROVE BIInv
  OBVIOUS
<1> USE BalancerConstants DEF BInit, Init
<1>1. LockTyped
  BY DEF LockTyped, Threads
<1>2. BTypeOK
  BY DEF BTypeOK, Phases, States
<1>3. PhaseInv /\ ScheduledForItsPhase
  BY DEF PhaseInv, ScheduledForItsPhase
<1>4. AwaitInv
  BY DEF AwaitInv, AwaitingFree
<1>5. QED
  BY <1>1, <1>2, <1>3, <1>4, BelowInit DEF BIInv

LEMMA PoolFactsFollow == Below!IInv => PoolFacts
BY PoolFactsHold

LEMMA NextBIInv ==
  ASSUME BIInv, [BNext]_bvars
  PROVE  /\ BIInv' /\ PoolFacts /\ PoolFacts'
         /\ [PoolBelow!Next]_PoolBelow!vars
<1>1. PoolFacts
  BY PoolFactsHold DEF BIInv
<1>2. [PoolBelow!Next]_PoolBelow!vars
  BY StepBelow DEF BIInv
<1>3. Below!IInv'
  BY <1>2, BelowInductive DEF BIInv
<1>4. PoolFacts'
  BY <1>3, PoolFactsFollow, PTL
<1>5. LockTyped' /\ BTypeOK'
  BY <1>1, LockTypedStep, TypeStep DEF BIInv
<1>6. PhaseInv' /\ ScheduledForItsPhase'
  BY <1>1, PhaseStep DEF BIInv
<1>7. AwaitInv'
  BY <1>1, AwaitStep DEF BIInv
<1>8. QED
  BY <1>1, <1>2, <1>3, <1>4, <1>5, <1>6, <1>7 DEF BIInv

LEMMA BIInvAlways == BSpec => []BIInv
<1>1. BIInv /\ [BNext]_bvars => BIInv'
  BY NextBIInv
<1>2. QED
  BY InitBIInv, <1>1, PTL DEF BSpec

\* The balancer's variables keep their types: in particular no job is ever twice
\* in a pool's queue.
THEOREM BTypeAlways == BSpec => []BTypeOK
<1>1. BIInv => BTypeOK
  BY DEF BIInv
<1>2. QED
  BY BIInvAlways, <1>1, PTL

\* Whatever races for a waiting job schedules one reply, and execute() meets a
\* job only in a phase that asks for an execution.
THEOREM ScheduledForItsPhaseAlways == BSpec => []ScheduledForItsPhase
<1>1. BIInv => ScheduledForItsPhase
  BY DEF BIInv
<1>2. QED
  BY BIInvAlways, <1>1, PTL

\* The pointers in the adapters' maps of awaiting jobs are valid.
THEOREM AwaitingJobsAliveAlways == BSpec => []AwaitingJobsAlive
<1>1. BIInv => AwaitingJobsAlive
  BY DEF BIInv, AwaitInv, AwaitingJobsAlive
<1>2. QED
  BY BIInvAlways, <1>1, PTL

\* The balancer's steps are steps of the session job pool, whose theorems
\* therefore hold of it.
THEOREM BalancerImplementsJobPool == BSpec => ImplementsJobPool
<1>1. BInit => PoolBelow!Init
  BY BelowInit
<1>2. BIInv /\ [BNext]_bvars => [PoolBelow!Next]_PoolBelow!vars
  BY NextBIInv
<1>3. QED
  BY <1>1, <1>2, BIInvAlways, PTL DEF BSpec, ImplementsJobPool, PoolBelow!Spec

\* To its clients the balancer is a service that replies exactly once to every
\* request it accepts, and deletes a job only afterwards.
THEOREM BalancerImplementsClientService == BSpec => ImplementsClientService
<1>1. BInit => Clients!SInit
  BY ThreadsDistinct DEF BInit, Init, Clients!SInit, ClientStatus
<1>2. BIInv /\ [BNext]_bvars => [Clients!SNext]_Clients!svars
  BY NextBIInv, ClientStep DEF BIInv
<1>3. QED
  BY <1>1, <1>2, BIInvAlways, PTL DEF BSpec, ImplementsClientService, Clients!SSpec
=============================================================================
