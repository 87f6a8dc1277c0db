------------------------------ MODULE Balancer ------------------------------
(***************************************************************************)
(* The balancer's jobs, inc/balancer/balancer_job.hpp, and their manager,  *)
(* inc/balancer/balancer_manager.hpp, on top of the session job pool they  *)
(* inherit (module JobPool, whose actions are conjoined with what the      *)
(* balancer's virtual functions and callbacks add).                        *)
(*                                                                         *)
(* A job is executed twice: by a thread of the incoming pool, which sends  *)
(* the request to a translation server, and by one of the outgoing pool,   *)
(* which sends the reply to the client.  In between it waits, registered   *)
(* with its adapter, for the server's response, for the adapter's          *)
(* disconnection, or for the client to leave.                              *)
(*                                                                         *)
(* Threads in addition to JobPool's: one I/O thread per adapter.  JobPool's *)
(* jobLock[j] is the job's m_g_lock.  m_awaiting_jobs_lock of an adapter is *)
(* held across steps by the adapter's own thread only, at the locations    *)
(* "respond" and "fail"; every other section under it is one step.         *)
(***************************************************************************)
EXTENDS JobPool

CONSTANTS
  Adapters,        \* translation servers, each behind one adapter
  NoAdapter,
  Serves,          \* the adapters with each job's pair of languages
  MaxDisconnects   \* how often each server's connection is lost, at most

ASSUME BalancerConstants ==
  /\ NoAdapter \notin Adapters
  /\ Serves \in [Jobs -> SUBSET Adapters]
  /\ MaxDisconnects \in [Adapters -> Nat]
  /\ CancelTakesJobLock

VARIABLES
  phase, state,  \* m_phase and m_state of each job
  hasResp,       \* m_trans_resp # NULL
  adapterOf,     \* m_adapter_uid of each job
  incoming,      \* entries of each job in m_incoming_pool
  outgoing,      \* entries of each job in m_outgoing_pool
  awaiting,      \* m_awaiting_jobs of each adapter
  inFlight,      \* requests each server has and has not answered
  online,        \* is the adapter registered with the adapters' manager?
  disconnects,   \* connection losses so far
  apc,           \* where each adapter's thread is
  toNotify,      \* the jobs it has still to visit there
  visiting,      \* the one of them it has reached
  replies        \* replies sent to the client per job (history)

jobVars == <<phase, state, hasResp, adapterOf, incoming, outgoing, replies>>
adapterVars == <<awaiting, inFlight, online, disconnects, apc, toNotify, visiting>>
bvars == <<vars, jobVars, adapterVars>>

Phases == {"REQUEST", "RESPONSE", "REPLY", "DONE"}
States == {"ACTIVE", "CANCELED", "FAILED"}

BTypeOK ==
  /\ phase \in [Jobs -> Phases] /\ state \in [Jobs -> States]
  /\ hasResp \in [Jobs -> BOOLEAN]
  /\ adapterOf \in [Jobs -> Adapters \cup {NoAdapter}]
  /\ incoming \in [Jobs -> 0..1] /\ outgoing \in [Jobs -> 0..1]
  /\ awaiting \in [Adapters -> SUBSET Jobs] /\ inFlight \in [Adapters -> SUBSET Jobs]
  /\ online \in [Adapters -> BOOLEAN]
  /\ disconnects \in [Adapters -> Nat] /\ \A a \in Adapters : disconnects[a] <= MaxDisconnects[a]
  /\ apc \in [Adapters -> {"idle", "respond", "closing", "fail"}]
  /\ toNotify \in [Adapters -> SUBSET Jobs]
  /\ visiting \in [Adapters -> Jobs \cup {NoThread}]
  /\ replies \in [Jobs -> Nat]

BInit ==
  /\ Init
  /\ phase = [j \in Jobs |-> "REQUEST"] /\ state = [j \in Jobs |-> "ACTIVE"]
  /\ hasResp = [j \in Jobs |-> FALSE] /\ adapterOf = [j \in Jobs |-> NoAdapter]
  /\ incoming = [j \in Jobs |-> 0] /\ outgoing = [j \in Jobs |-> 0]
  /\ awaiting = [a \in Adapters |-> {}] /\ inFlight = [a \in Adapters |-> {}]
  /\ online = [a \in Adapters |-> TRUE] /\ disconnects = [a \in Adapters |-> 0]
  /\ apc = [a \in Adapters |-> "idle"] /\ toNotify = [a \in Adapters |-> {}]
  /\ visiting = [a \in Adapters |-> NoThread]
  /\ replies = [j \in Jobs |-> 0]

AwaitingFree(a) == apc[a] \in {"idle", "closing"}
Sending(j) == phase[j] = "RESPONSE" /\ jobLock[j] = j

\* schedule_failed_job_reply: the job goes to the outgoing pool with an error.
ScheduleFailedJobReply(j, st) ==
  /\ phase' = [phase EXCEPT ![j] = "REPLY"]
  /\ state' = [state EXCEPT ![j] = st]
  /\ outgoing' = [outgoing EXCEPT ![j] = @ + 1]

-----------------------------------------------------------------------------
(* Execution by a thread of the incoming pool.  execute() ignores a job in  *)
(* any other phase; ScheduledForItsPhase says that this never happens.      *)
TakeIncoming(j) ==
  /\ incoming[j] > 0 /\ Free(jobLock[j]) /\ phase[j] = "REQUEST"
  /\ incoming' = [incoming EXCEPT ![j] = @ - 1]

\* Mutant: a request that cannot be sent is reported as done on the spot.
RequestDropped(j) ==
  /\ TakeIncoming(j) /\ state[j] = "CANCELED"
  /\ phase' = [phase EXCEPT ![j] = "DONE"]
  /\ doneList' = Append(doneList, j)
  /\ pc' = NotifyOne(pc)
  /\ UNCHANGED <<locks, isStopping, jobsMap, jobCount, work, current, toCancel, object,
                 canceled, closed, notified, state, outgoing, adapterOf, hasResp, replies,
                 adapterVars>>

\* send_request when it ends at once: the job was canceled, there is no server
\* for its languages, or adapter->send throws.
RequestFails(j) ==
  /\ TakeIncoming(j)
  /\ \/ state[j] = "CANCELED" /\ ScheduleFailedJobReply(j, "CANCELED") /\ UNCHANGED adapterOf
     \/ /\ state[j] = "ACTIVE" /\ \A a \in Serves[j] : ~online[a]
        /\ ScheduleFailedJobReply(j, "FAILED") /\ UNCHANGED adapterOf
     \/ /\ state[j] = "ACTIVE"
        /\ \E a \in Serves[j] :
             disconnects[a] > 0 /\ adapterOf' = [adapterOf EXCEPT ![j] = a]
        /\ ScheduleFailedJobReply(j, "FAILED")
  /\ UNCHANGED <<vars, hasResp, replies, adapterVars>>

\* send_request up to adapter->send: from here on the server may answer.
SendRequest(j, a) ==
  /\ TakeIncoming(j) /\ state[j] = "ACTIVE" /\ a \in Serves[j] /\ online[a]
  /\ jobLock' = [jobLock EXCEPT ![j] = j]
  /\ adapterOf' = [adapterOf EXCEPT ![j] = a]
  /\ phase' = [phase EXCEPT ![j] = "RESPONSE"]
  /\ inFlight' = [inFlight EXCEPT ![a] = @ \cup {j}]
  /\ UNCHANGED <<stoppingLock, allJobsLock, finishedLock, admin, pc, work, current, toCancel,
                 object, canceled, closed, notified, state, hasResp, outgoing, replies,
                 awaiting, online, disconnects, apc, toNotify, visiting>>

\* register_awaiting_resp, the last thing send_request does.
RegisterAwaitingResp(j) ==
  /\ Sending(j) /\ AwaitingFree(adapterOf[j])
  /\ awaiting' = [awaiting EXCEPT ![adapterOf[j]] = @ \cup {j}]
  /\ jobLock' = [jobLock EXCEPT ![j] = NoThread]
  /\ UNCHANGED <<stoppingLock, allJobsLock, finishedLock, admin, pc, work, current, toCancel,
                 object, canceled, closed, notified, jobVars, inFlight, online, disconnects,
                 apc, toNotify, visiting>>

-----------------------------------------------------------------------------
(* Execution by a thread of the outgoing pool: send_reply.  With m_g_lock   *)
(* held the reply is sent and the phase set (here), then the job pool is    *)
(* told (JobPool: NotifyJobDone), then the lock is released (WorkerLeave).  *)
\* Mutant: a canceled job is finished without a reply.
SendReplyUnlessCanceled(j) ==
  /\ outgoing[j] > 0 /\ phase[j] = "REPLY"
  /\ WorkerDone(j)
  /\ outgoing' = [outgoing EXCEPT ![j] = @ - 1]
  /\ replies' = IF state[j] = "CANCELED" THEN replies ELSE [replies EXCEPT ![j] = @ + 1]
  /\ phase' = [phase EXCEPT ![j] = "DONE"]
  /\ UNCHANGED <<state, hasResp, adapterOf, incoming, adapterVars>>

SendReply(j) ==
  /\ outgoing[j] > 0 /\ phase[j] = "REPLY"
  /\ WorkerDone(j)
  /\ outgoing' = [outgoing EXCEPT ![j] = @ - 1]
  /\ replies' = [replies EXCEPT ![j] = @ + 1]
  /\ phase' = [phase EXCEPT ![j] = "DONE"]
  /\ UNCHANGED <<state, hasResp, adapterOf, incoming, adapterVars>>

-----------------------------------------------------------------------------
(* The adapter's thread.                                                    *)
\* notify_translation_response: the server's response to j arrives; that to a
\* job that is not, or not yet, registered is ignored.
ResponseArrives(a, j) ==
  /\ apc[a] = "idle" /\ j \in inFlight[a]
  /\ inFlight' = [inFlight EXCEPT ![a] = @ \ {j}]
  /\ IF j \in awaiting[a]
     THEN /\ apc' = [apc EXCEPT ![a] = "respond"]
          /\ toNotify' = [toNotify EXCEPT ![a] = {j}]
          /\ visiting' = [visiting EXCEPT ![a] = j]
     ELSE UNCHANGED <<apc, toNotify, visiting>>
  /\ UNCHANGED <<vars, jobVars, awaiting, online, disconnects>>

\* set_trans_job_resp: only a job in the response phase takes the response.
SetTransJobResp(a, j) ==
  /\ apc[a] = "respond" /\ j \in toNotify[a]
  /\ Free(jobLock[j])
  /\ IF phase[j] = "RESPONSE" /\ state[j] # "FAILED"
     THEN /\ hasResp' = [hasResp EXCEPT ![j] = TRUE]
          /\ phase' = [phase EXCEPT ![j] = "REPLY"]
          /\ outgoing' = [outgoing EXCEPT ![j] = @ + 1]
     ELSE UNCHANGED <<hasResp, phase, outgoing>>
  /\ apc' = [apc EXCEPT ![a] = "idle"]
  /\ toNotify' = [toNotify EXCEPT ![a] = {}]
  /\ visiting' = [visiting EXCEPT ![a] = NoThread]
  /\ UNCHANGED <<vars, state, adapterOf, incoming, replies, awaiting, inFlight, online,
                 disconnects>>

\* The connection is lost: first the adapter is unregistered, so that it is no
\* longer chosen (adapters_manager::notify_disconnected) ...
ConnectionLost(a) ==
  /\ apc[a] = "idle" /\ online[a] /\ disconnects[a] < MaxDisconnects[a]
  /\ online' = [online EXCEPT ![a] = FALSE]
  /\ disconnects' = [disconnects EXCEPT ![a] = @ + 1]
  /\ inFlight' = [inFlight EXCEPT ![a] = {}]
  /\ apc' = [apc EXCEPT ![a] = "closing"]
  /\ UNCHANGED <<vars, jobVars, awaiting, toNotify, visiting>>

\* Mutant: the jobs that await the lost adapter are forgotten.
DisconnectSilently(a) ==
  /\ apc[a] = "closing"
  /\ apc' = [apc EXCEPT ![a] = "fail"]
  /\ UNCHANGED <<vars, jobVars, awaiting, inFlight, online, disconnects, toNotify, visiting>>

\* The loop goes on to another of the jobs js, in the order of the map.
Reach(a, js) ==
  \E j \in (IF js = {} THEN {NoThread} ELSE js) : visiting' = [visiting EXCEPT ![a] = j]

\* ... then notify_adapter_disconnect fails the jobs that await it, one by one,
\* under m_awaiting_jobs_lock.
NotifyAdapterDisconnect(a) ==
  /\ apc[a] = "closing"
  /\ apc' = [apc EXCEPT ![a] = "fail"]
  /\ toNotify' = [toNotify EXCEPT ![a] = awaiting[a]] /\ Reach(a, awaiting[a])
  /\ UNCHANGED <<vars, jobVars, awaiting, inFlight, online, disconnects>>

\* Mutant: fail() does not look at the phase.
FailInAnyPhase(a, j) ==
  /\ apc[a] = "fail" /\ visiting[a] = j /\ j \in toNotify[a]
  /\ Free(jobLock[j])
  /\ ScheduleFailedJobReply(j, IF state[j] = "CANCELED" THEN "CANCELED" ELSE "FAILED")
  /\ toNotify' = [toNotify EXCEPT ![a] = @ \ {j}] /\ Reach(a, toNotify[a] \ {j})
  /\ UNCHANGED <<vars, hasResp, adapterOf, incoming, replies, awaiting, inFlight, online,
                 disconnects, apc>>

\* fail() of the job that the loop has reached: it waits for the job's lock.
Fail(a, j) ==
  /\ apc[a] = "fail" /\ visiting[a] = j /\ j \in toNotify[a]
  /\ Free(jobLock[j])
  /\ IF phase[j] = "RESPONSE"
     THEN ScheduleFailedJobReply(j, IF state[j] = "CANCELED" THEN "CANCELED" ELSE "FAILED")
     ELSE UNCHANGED <<phase, state, outgoing>>
  /\ toNotify' = [toNotify EXCEPT ![a] = @ \ {j}] /\ Reach(a, toNotify[a] \ {j})
  /\ UNCHANGED <<vars, hasResp, adapterOf, incoming, replies, awaiting, inFlight, online,
                 disconnects, apc>>

FailEnd(a) ==
  /\ apc[a] = "fail" /\ toNotify[a] = {}
  /\ apc' = [apc EXCEPT ![a] = "idle"]
  /\ UNCHANGED <<vars, jobVars, awaiting, inFlight, online, disconnects, toNotify, visiting>>

\* The re-connection thread got the server back and it reported its languages.
AdapterReady(a) ==
  /\ apc[a] = "idle" /\ ~online[a]
  /\ online' = [online EXCEPT ![a] = TRUE]
  /\ UNCHANGED <<vars, jobVars, awaiting, inFlight, disconnects, apc, toNotify, visiting>>

-----------------------------------------------------------------------------
(* JobPool's actions with the balancer's part of them.                      *)
\* schedule_new_job: into the incoming pool.
BAddJob ==
  /\ AddJob
  /\ incoming' = [incoming EXCEPT ![current[Listener]] = @ + 1]
  /\ UNCHANGED <<phase, state, hasResp, adapterOf, outgoing, replies, adapterVars>>

\* Mutant: cancel() schedules a reply also when one is scheduled already.
CancelOneAgain(t, j) ==
  /\ CancelOne(t, j)
  /\ IF phase[j] \in {"REPLY", "RESPONSE"} THEN ScheduleFailedJobReply(j, "CANCELED")
     ELSE state' = [state EXCEPT ![j] = "CANCELED"] /\ UNCHANGED <<phase, outgoing>>
  /\ UNCHANGED <<hasResp, adapterOf, incoming, replies, adapterVars>>

\* balancer_job::cancel
BCancelOne(t, j) ==
  /\ CancelOne(t, j)
  /\ CASE phase[j] \in {"REQUEST", "REPLY"} ->
            state' = [state EXCEPT ![j] = "CANCELED"] /\ UNCHANGED <<phase, outgoing>>
       [] phase[j] = "RESPONSE" -> ScheduleFailedJobReply(j, "CANCELED")
       [] phase[j] = "DONE" -> UNCHANGED <<phase, state, outgoing>>
  /\ UNCHANGED <<hasResp, adapterOf, incoming, replies, adapterVars>>

\* Mutant: the registration is left behind.
ProcessKeepsRegistration ==
  ProcessFinishedJob /\ UNCHANGED <<jobVars, adapterVars>>

\* balancer_manager::notify_job_done: forget the job's registration, under the
\* adapter's m_awaiting_jobs_lock and with m_finished_jobs_lock held.
BProcessFinishedJob ==
  /\ ProcessFinishedJob
  /\ LET a == adapterOf[Head(doneList)]
     IN IF a = NoAdapter
        THEN UNCHANGED awaiting
        ELSE AwaitingFree(a) /\ awaiting' = [awaiting EXCEPT ![a] = @ \ {Head(doneList)}]
  /\ UNCHANGED <<jobVars, inFlight, online, disconnects, apc, toNotify, visiting>>

\* The actions the balancer adds nothing to.
InheritedListener ==
  \/ \E j \in Jobs : PlanNewJob(j)
  \/ PlanRefused \/ PlanEnd \/ (\E s \in Sessions : CancelJobs(s)) \/ CancelEnd(Listener)
InheritedStopper == StopBegin \/ CancelAllJobs \/ CancelEnd(Stopper) \/ StopWake \/ StopJoin
InheritedPool ==
  \/ PoolEnter \/ IsStopRunningLock \/ IsStopRunning
  \/ LoopEnd \/ DeleteJob \/ SynchJobFinished
Plain(A) == A /\ UNCHANGED <<jobVars, adapterVars>>

-----------------------------------------------------------------------------
ExecuteStep(j) ==
  \/ RequestFails(j) \/ (\E a \in Adapters : SendRequest(j, a)) \/ RegisterAwaitingResp(j)
  \/ SendReply(j) \/ Plain(NotifyJobDone(j)) \/ Plain(WorkerLeave(j))
AdapterStep(a) ==
  \/ \E j \in Jobs : SetTransJobResp(a, j) \/ Fail(a, j)
  \/ NotifyAdapterDisconnect(a) \/ FailEnd(a)
BPoolStep == Plain(InheritedPool) \/ BProcessFinishedJob

BNext ==
  \/ \E j \in Jobs : ExecuteStep(j)
  \/ \E a \in Adapters : AdapterStep(a) \/ ConnectionLost(a) \/ AdapterReady(a)
  \/ \E a \in Adapters, j \in Jobs : ResponseArrives(a, j)
  \/ BAddJob \/ Plain(InheritedListener) \/ Plain(InheritedStopper)
  \/ \E t \in Callers, j \in Jobs : BCancelOne(t, j)
  \/ BPoolStep \/ Plain(SpuriousWakeup) \/ Plain(Terminated)

BSpec == BInit /\ [][BNext]_bvars

(***************************************************************************)
(* Fairness: the threads of the pools, of the listener, of stop() and of   *)
(* the adapters run when they can.  A server answers a request it has, or  *)
(* its connection is lost: the response, if nothing else, arrives.         *)
(***************************************************************************)
BFairness ==
  /\ \A j \in Jobs :
       /\ WF_bvars(RequestFails(j) \/ \E a \in Adapters : SendRequest(j, a))
       /\ WF_bvars(RegisterAwaitingResp(j)) /\ WF_bvars(SendReply(j))
       /\ SF_bvars(Plain(NotifyJobDone(j))) /\ WF_bvars(Plain(WorkerLeave(j)))
  /\ \A a \in Adapters :
       WF_bvars(AdapterStep(a)) /\ WF_bvars(\E j \in Jobs : ResponseArrives(a, j))
  /\ WF_bvars(BAddJob \/ Plain(PlanRefused) \/ Plain(PlanEnd))
  /\ \A t \in Callers :
       WF_bvars(\E j \in Jobs : BCancelOne(t, j)) /\ WF_bvars(Plain(CancelEnd(t)))
  /\ WF_bvars(Plain(CancelAllJobs)) /\ SF_bvars(Plain(StopWake)) /\ WF_bvars(Plain(StopJoin))
  /\ WF_bvars(BPoolStep)

-----------------------------------------------------------------------------
(* To its clients the balancer is a JobService that answers by replying.    *)
ClientStatus ==
  [j \in Jobs |->
     CASE work[j] = "none" -> IF object[j] = "deleted" THEN "refused" ELSE "new"
       [] work[j] # "none" /\ object[j] = "deleted" -> "retired"
       [] OTHER -> Answered(replies[j])]

Clients == INSTANCE JobService
  WITH status <- ClientStatus, accepting <- ~isStopping, halted <- pc[Pool] = "exit"

\* The pool underneath sees a job's lock only while the job reports to it.
ReportingLock == [j \in Jobs |-> IF Sending(j) THEN NoThread ELSE jobLock[j]]
PoolBelow == INSTANCE JobPool WITH jobLock <- ReportingLock

-----------------------------------------------------------------------------
(* Properties *)

\* Whatever the order of responses, disconnections, cancellations and stop():
\* no client request is replied to twice, and no accepted job is deleted before
\* it is replied to.
ImplementsClientService == Clients!SSpec

\* The balancer's jobs keep the protocol the session job pool relies on (a job
\* reports once, under its lock, and is not touched afterwards), although they
\* take the same lock on other occasions too.
ImplementsJobPool == PoolBelow!Spec

\* A job is in exactly one of the pools' queues while its phase asks for an
\* execution, and in none otherwise: cancel(), fail() and a response that race
\* for a waiting job schedule one reply, not two, and execute() never meets a
\* job in a phase it cannot handle.  A job that waits for its server is active,
\* as cancel() leaves that phase at once: the branches of set_trans_job_resp
\* and fail() for a canceled job in the response phase are dead.
ScheduledForItsPhase ==
  \A j \in Jobs :
    /\ phase[j] = "RESPONSE" => state[j] = "ACTIVE"
    /\ incoming[j] = IF phase[j] = "REQUEST" /\ work[j] # "none" THEN 1 ELSE 0
    /\ outgoing[j] = IF phase[j] = "REPLY" THEN 1 ELSE 0

\* An adapter's map only holds live jobs, and only jobs that were sent to that
\* adapter: the raw pointers notify_translation_response and
\* notify_adapter_disconnect follow are valid, also while they visit them.
AwaitingJobsAlive ==
  \A a \in Adapters : \A j \in awaiting[a] \cup toNotify[a] :
    object[j] = "alive" /\ adapterOf[j] = a

\* The job's request is being sent while the response to it was ignored, or
\* the connection was lost and its jobs failed: it will be registered as waiting
\* for a response that does not come any more.
AnswerMissed(j) ==
  Sending(j) /\ LET a == adapterOf[j] IN j \notin inFlight[a] /\ apc[a] # "closing"

\* The pool's thread, which holds m_finished_jobs_lock, waits for the
\* m_awaiting_jobs_lock of an adapter whose thread waits for the m_g_lock of a
\* job whose worker waits for m_finished_jobs_lock.
LockCycle ==
  /\ finishedLock = Pool /\ pc[Pool] = "loop" /\ doneList # <<>>
  /\ LET a == adapterOf[Head(doneList)]
     IN /\ a # NoAdapter /\ ~AwaitingFree(a)
        /\ visiting[a] # NoThread /\ work[visiting[a]] = "reporting"

\* Every accepted job is replied to, provided the server answers or is lost:
\* the reply can only be missing if the answer came before the job waited for
\* it, or if the threads have closed the cycle of locks above; there is no other
\* way to lose a request or to block.
AcceptedJobReplied ==
  \A j \in Jobs : incoming[j] > 0 ~> replies[j] = 1 \/ AnswerMissed(j) \/ LockCycle

\* A response that is ignored is that of a job which no longer waits.  Violated:
\* the job is registered only after its request was sent.
IgnoredResponsesLate ==
  [][\A a \in Adapters, j \in Jobs :
       j \in inFlight[a] \ inFlight'[a] /\ apc[a] = "idle" /\ apc'[a] = "idle"
         => phase[j] \in {"REPLY", "DONE"}]_bvars
=============================================================================
