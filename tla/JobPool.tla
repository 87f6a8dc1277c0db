------------------------------ MODULE JobPool ------------------------------
(***************************************************************************)
(* The session job pool, inc/common/messaging/session_job_pool_base.hpp.   *)
(*                                                                         *)
(* The pool registers jobs per session, hands them to worker threads, and  *)
(* runs one thread of its own that notifies the owner of every finished    *)
(* job and then deletes the job object.  It is the base class of the       *)
(* translation manager (server), of the balancer manager and, with the     *)
(* same stop protocol, of the processor manager.                           *)
(*                                                                         *)
(* Threads:                                                                *)
(*   Pool      m_jobs_thread, runs process_finished_jobs                   *)
(*   Listener  the single websocket I/O thread: plan_new_job, cancel_jobs  *)
(*   Stopper   the thread that calls stop()                                *)
(*   j \in Jobs   the worker thread that completes job j                   *)
(*                                                                         *)
(* Every mutex of the class is explicit.  A critical section that takes no *)
(* further lock is one step, enabled when its mutex is free; one that does *)
(* holds its mutex across steps.  m_all_jobs_lock is recursive, but is     *)
(* only re-entered by its owner, so one owner is all there is to model.    *)
(***************************************************************************)
EXTENDS Naturals, Sequences, FiniteSets

CONSTANTS
  Jobs,                \* the job objects the clients' requests create
  Sessions,            \* the session ids
  SessionOf,           \* get_session_id() of each job
  JobIdOf,             \* get_job_id() of each job
  Listener, Stopper, Pool, NoThread,
  CancelTakesJobLock   \* does job->cancel() take the lock the job holds
                       \* while it reports that it is done?  TRUE for
                       \* balancer_job, FALSE for trans_job, processor_job

ASSUME JobsFinite == IsFiniteSet(Jobs)
ASSUME JobKeys == SessionOf \in [Jobs -> Sessions]
ASSUME ThreadsDistinct ==
  /\ {Listener, Stopper, Pool, NoThread} \cap Jobs = {}
  /\ Listener # Stopper /\ Listener # Pool /\ Listener # NoThread
  /\ Stopper # Pool /\ Stopper # NoThread /\ Pool # NoThread
ASSUME SwitchBoolean == CancelTakesJobLock \in BOOLEAN

VARIABLES
  stoppingLock,   \* owner of m_stopping_lock
  allJobsLock,    \* owner of m_all_jobs_lock
  finishedLock,   \* owner of m_finished_jobs_lock
  jobLock,        \* owner of each job's own lock
  isStopping,     \* m_is_stopping
  jobsMap,        \* m_sessions_map, as the set of the jobs it holds
  jobCount,       \* m_job_count
  doneList,       \* m_done_jobs_list
  pc,             \* where each of Listener, Stopper, Pool is
  work,           \* where each job's worker is
  current,        \* the job each of Listener, Pool has in hand
  toCancel,       \* the jobs a canceling loop has still to visit
  object,         \* life of each job object
  canceled,       \* has job->cancel() run?
  closed,         \* the sessions whose connection is closed
  notified        \* calls of m_notify_job_done_func per job (history)

locks == <<stoppingLock, allJobsLock, finishedLock, jobLock>>
admin == <<isStopping, jobsMap, jobCount, doneList>>
vars == <<locks, admin, pc, work, current, toCancel, object, canceled,
          closed, notified>>

Callers == {Listener, Stopper}
Threads == {Listener, Stopper, Pool, NoThread} \cup Jobs

ListenerPC == {"idle", "plan", "schedule", "cancel"}
StopperPC == {"idle", "cancelAll", "cancel", "wake", "join", "stopped"}
PoolPC == {"start", "check", "checkCount", "wait", "woken", "loop", "delete",
           "synch", "exit"}
\* The locations of Pool at which it holds m_finished_jobs_lock.
PoolInside == {"check", "checkCount", "loop", "delete", "synch"}
WorkPC == {"none", "running", "reporting", "reported", "left"}

Free(lock) == lock = NoThread
SameKey(i, j) == SessionOf[i] = SessionOf[j] /\ JobIdOf[i] = JobIdOf[j]

TypeOK ==
  /\ stoppingLock \in Threads /\ allJobsLock \in Threads /\ finishedLock \in Threads
  /\ jobLock \in [Jobs -> Threads]
  /\ isStopping \in BOOLEAN
  /\ jobsMap \subseteq Jobs
  /\ jobCount \in Nat
  /\ doneList \in Seq(Jobs)
  /\ pc \in [{Listener, Stopper, Pool} -> ListenerPC \cup StopperPC \cup PoolPC]
  /\ pc[Listener] \in ListenerPC /\ pc[Stopper] \in StopperPC /\ pc[Pool] \in PoolPC
  /\ work \in [Jobs -> WorkPC]
  /\ current \in [{Listener, Pool} -> Jobs \cup {NoThread}]
  /\ toCancel \in [Callers -> SUBSET Jobs]
  /\ object \in [Jobs -> {"none", "alive", "deleted"}]
  /\ canceled \in [Jobs -> BOOLEAN]
  /\ closed \subseteq Sessions
  /\ notified \in [Jobs -> Nat]

Init ==
  /\ stoppingLock = NoThread /\ allJobsLock = NoThread /\ finishedLock = NoThread
  /\ jobLock = [j \in Jobs |-> NoThread]
  /\ isStopping = FALSE
  /\ jobsMap = {} /\ jobCount = 0 /\ doneList = <<>>
  /\ pc = [t \in {Listener, Stopper, Pool} |-> IF t = Pool THEN "start" ELSE "idle"]
  /\ work = [j \in Jobs |-> "none"]
  /\ current = [t \in {Listener, Pool} |-> NoThread]
  /\ toCancel = [t \in Callers |-> {}]
  /\ object = [j \in Jobs |-> "none"]
  /\ canceled = [j \in Jobs |-> FALSE]
  /\ closed = {}
  /\ notified = [j \in Jobs |-> 0]

Goto(t, l) == pc' = [pc EXCEPT ![t] = l]

-----------------------------------------------------------------------------
(* plan_new_job: the job is created by the caller, m_stopping_lock is held  *)
(* from the first line to the end.                                          *)
PlanNewJob(j) ==
  /\ pc[Listener] = "idle" /\ object[j] = "none" /\ SessionOf[j] \notin closed
  /\ Free(stoppingLock)
  /\ stoppingLock' = Listener
  /\ object' = [object EXCEPT ![j] = "alive"]
  /\ current' = [current EXCEPT ![Listener] = j]
  /\ Goto(Listener, "plan")
  /\ UNCHANGED <<allJobsLock, finishedLock, jobLock, admin, work, toCancel,
                 canceled, closed, notified>>

\* The exception path: the pool is stopping, or (under m_all_jobs_lock) the
\* session already has a job with this id.  The new job object is deleted.
PlanRefused ==
  /\ pc[Listener] = "plan"
  /\ \/ isStopping
     \/ Free(allJobsLock) /\ \E i \in jobsMap : SameKey(i, current[Listener])
  /\ object' = [object EXCEPT ![current[Listener]] = "deleted"]
  /\ stoppingLock' = NoThread
  /\ Goto(Listener, "idle")
  /\ UNCHANGED <<allJobsLock, finishedLock, jobLock, admin, work, current, toCancel,
                 canceled, closed, notified>>

\* Mutants of AddJob: the job is not counted; the stopping flag is not looked at;
\* the key may be taken.
AddJobUncounted ==
  /\ pc[Listener] = "plan" /\ ~isStopping
  /\ Free(allJobsLock) /\ \A i \in jobsMap : ~SameKey(i, current[Listener])
  /\ allJobsLock' = Listener
  /\ jobsMap' = jobsMap \cup {current[Listener]}
  /\ work' = [work EXCEPT ![current[Listener]] = "running"]
  /\ Goto(Listener, "schedule")
  /\ UNCHANGED <<stoppingLock, finishedLock, jobLock, isStopping, jobCount, doneList,
                 current, toCancel, object, canceled, closed, notified>>
AddJobRegardless(check) ==
  /\ pc[Listener] = "plan" /\ check
  /\ Free(allJobsLock)
  /\ allJobsLock' = Listener
  /\ jobsMap' = jobsMap \cup {current[Listener]}
  /\ jobCount' = jobCount + 1
  /\ work' = [work EXCEPT ![current[Listener]] = "running"]
  /\ Goto(Listener, "schedule")
  /\ UNCHANGED <<stoppingLock, finishedLock, jobLock, isStopping, doneList, current,
                 toCancel, object, canceled, closed, notified>>
AddJobWhileStopping ==
  AddJobRegardless(\A i \in jobsMap : ~SameKey(i, current[Listener]))
AddJobSameKey == AddJobRegardless(~isStopping)

\* add_job: register, count, schedule.  From the moment the job's last task is
\* with the workers the job may finish, while schedule_new_job still uses it;
\* m_all_jobs_lock is held until schedule_new_job returns.
AddJob ==
  /\ pc[Listener] = "plan" /\ ~isStopping
  /\ Free(allJobsLock) /\ \A i \in jobsMap : ~SameKey(i, current[Listener])
  /\ allJobsLock' = Listener
  /\ jobsMap' = jobsMap \cup {current[Listener]}
  /\ jobCount' = jobCount + 1
  /\ work' = [work EXCEPT ![current[Listener]] = "running"]
  /\ Goto(Listener, "schedule")
  /\ UNCHANGED <<stoppingLock, finishedLock, jobLock, isStopping, doneList, current,
                 toCancel, object, canceled, closed, notified>>

PlanEnd ==
  /\ pc[Listener] = "schedule"
  /\ allJobsLock' = NoThread /\ stoppingLock' = NoThread
  /\ Goto(Listener, "idle")
  /\ UNCHANGED <<finishedLock, jobLock, admin, work, current, toCancel, object, canceled,
                 closed, notified>>

-----------------------------------------------------------------------------
(* cancel_jobs (a session was closed) and cancel_all_jobs (stop): hold      *)
(* m_all_jobs_lock while calling cancel() on each job.                      *)
CancelBegin(t, from, js) ==
  /\ pc[t] = from
  /\ Free(allJobsLock)
  /\ allJobsLock' = t
  /\ toCancel' = [toCancel EXCEPT ![t] = js]
  /\ Goto(t, "cancel")
  /\ UNCHANGED <<stoppingLock, finishedLock, jobLock, admin, work, current, object,
                 canceled, notified>>

\* A connection closes once, and nothing is read from it afterwards.
CancelJobs(s) ==
  /\ s \notin closed
  /\ closed' = closed \cup {s}
  /\ CancelBegin(Listener, "idle", {j \in jobsMap : SessionOf[j] = s})
CancelAllJobs == CancelBegin(Stopper, "cancelAll", jobsMap) /\ UNCHANGED closed

CancelOne(t, j) ==
  /\ pc[t] = "cancel" /\ j \in toCancel[t]
  /\ CancelTakesJobLock => Free(jobLock[j])
  /\ canceled' = [canceled EXCEPT ![j] = TRUE]
  /\ toCancel' = [toCancel EXCEPT ![t] = @ \ {j}]
  /\ UNCHANGED <<locks, admin, pc, work, current, object, closed, notified>>

CancelEnd(t) ==
  /\ pc[t] = "cancel" /\ toCancel[t] = {}
  /\ allJobsLock' = NoThread
  /\ Goto(t, IF t = Stopper THEN "wake" ELSE "idle")
  /\ UNCHANGED <<stoppingLock, finishedLock, jobLock, admin, work, current, toCancel,
                 object, canceled, closed, notified>>

-----------------------------------------------------------------------------
(* m_is_job_done.notify_one(): the pool's thread is its only waiter.        *)
\* Mutant: the notification is forgotten.
NotifyNobody(l) == l

NotifyOne(l) == IF pc[Pool] = "wait" THEN [l EXCEPT ![Pool] = "woken"] ELSE l

(* A job's worker completes the job: it takes the job's lock, reports to    *)
(* the pool under it (notify_job_done), and only then leaves the job.       *)
WorkerDone(j) ==
  /\ work[j] = "running"
  /\ Free(jobLock[j])
  /\ jobLock' = [jobLock EXCEPT ![j] = j]
  /\ work' = [work EXCEPT ![j] = "reporting"]
  /\ UNCHANGED <<stoppingLock, allJobsLock, finishedLock, admin, pc, current, toCancel,
                 object, canceled, closed, notified>>

NotifyJobDone(j) ==
  /\ work[j] = "reporting"
  /\ Free(finishedLock)
  /\ doneList' = Append(doneList, j)
  /\ pc' = NotifyOne(pc)
  /\ work' = [work EXCEPT ![j] = "reported"]
  /\ UNCHANGED <<locks, isStopping, jobsMap, jobCount, current, toCancel, object,
                 canceled, closed, notified>>

WorkerLeave(j) ==
  /\ work[j] = "reported"
  /\ jobLock' = [jobLock EXCEPT ![j] = NoThread]
  /\ work' = [work EXCEPT ![j] = "left"]
  /\ UNCHANGED <<stoppingLock, allJobsLock, finishedLock, admin, pc, current, toCancel,
                 object, canceled, closed, notified>>

-----------------------------------------------------------------------------
(* process_finished_jobs *)
\* The thread enters (or re-enters, after the wait) m_finished_jobs_lock.
PoolEnter ==
  /\ pc[Pool] \in {"start", "woken"}
  /\ Free(finishedLock)
  /\ finishedLock' = Pool
  /\ Goto(Pool, IF pc[Pool] = "start" THEN "check" ELSE "loop")
  /\ UNCHANGED <<stoppingLock, allJobsLock, jobLock, admin, work, current, toCancel,
                 object, canceled, closed, notified>>

\* is_stop_running: m_stopping_lock, then m_all_jobs_lock inside it.
IsStopRunningLock ==
  /\ pc[Pool] = "check"
  /\ Free(stoppingLock)
  /\ stoppingLock' = Pool
  /\ Goto(Pool, "checkCount")
  /\ UNCHANGED <<allJobsLock, finishedLock, jobLock, admin, work, current, toCancel,
                 object, canceled, closed, notified>>

\* Mutant: the jobs count is not looked at.
IsStopRunningNoCount ==
  /\ pc[Pool] = "checkCount"
  /\ Free(allJobsLock)
  /\ Goto(Pool, IF isStopping THEN "exit" ELSE "wait")
  /\ stoppingLock' = NoThread /\ finishedLock' = NoThread
  /\ UNCHANGED <<allJobsLock, jobLock, admin, work, current, toCancel, object, canceled,
                 closed, notified>>

\* The loop ends, or waits on m_is_job_done; either way the lock is let go.
IsStopRunning ==
  /\ pc[Pool] = "checkCount"
  /\ Free(allJobsLock)
  /\ Goto(Pool, IF isStopping /\ jobCount = 0 THEN "exit" ELSE "wait")
  /\ stoppingLock' = NoThread /\ finishedLock' = NoThread
  /\ UNCHANGED <<allJobsLock, jobLock, admin, work, current, toCancel, object, canceled,
                 closed, notified>>

\* wait() has no predicate and may return without a notification.
SpuriousWakeup ==
  /\ pc[Pool] = "wait"
  /\ Goto(Pool, "woken")
  /\ UNCHANGED <<locks, admin, work, current, toCancel, object, canceled, closed, notified>>

\* Mutant: the owner is not notified.
ProcessWithoutNotify ==
  /\ pc[Pool] = "loop" /\ doneList # <<>>
  /\ doneList' = Tail(doneList)
  /\ current' = [current EXCEPT ![Pool] = Head(doneList)]
  /\ Goto(Pool, "delete")
  /\ UNCHANGED <<locks, isStopping, jobsMap, jobCount, work, toCancel, object, canceled,
                 closed, notified>>

ProcessFinishedJob ==
  /\ pc[Pool] = "loop" /\ doneList # <<>>
  /\ notified' = [notified EXCEPT ![Head(doneList)] = @ + 1]
  /\ doneList' = Tail(doneList)
  /\ current' = [current EXCEPT ![Pool] = Head(doneList)]
  /\ Goto(Pool, "delete")
  /\ UNCHANGED <<locks, isStopping, jobsMap, jobCount, work, toCancel, object, canceled, closed>>

LoopEnd ==
  /\ pc[Pool] = "loop" /\ doneList = <<>>
  /\ Goto(Pool, "check")
  /\ UNCHANGED <<locks, admin, work, current, toCancel, object, canceled, closed, notified>>

\* delete_job: out of the administration first ...
DeleteJob ==
  /\ pc[Pool] = "delete"
  /\ Free(allJobsLock)
  /\ jobsMap' = jobsMap \ {current[Pool]}
  /\ jobCount' = jobCount - 1
  /\ Goto(Pool, "synch")
  /\ UNCHANGED <<locks, isStopping, doneList, work, current, toCancel, object, canceled,
                 closed, notified>>

\* Mutant: the job is deleted without waiting for its lock.
DeleteWithoutSynch ==
  /\ pc[Pool] = "synch"
  /\ object' = [object EXCEPT ![current[Pool]] = "deleted"]
  /\ Goto(Pool, "loop")
  /\ UNCHANGED <<locks, admin, work, current, toCancel, canceled, closed, notified>>

\* ... then synch_job_finished waits for the job's lock, then the delete.
SynchJobFinished ==
  /\ pc[Pool] = "synch"
  /\ Free(jobLock[current[Pool]])
  /\ object' = [object EXCEPT ![current[Pool]] = "deleted"]
  /\ Goto(Pool, "loop")
  /\ UNCHANGED <<locks, admin, work, current, toCancel, canceled, closed, notified>>

-----------------------------------------------------------------------------
(* stop *)
StopBegin ==
  /\ pc[Stopper] = "idle"
  /\ Free(stoppingLock)
  /\ isStopping' = TRUE
  /\ Goto(Stopper, "cancelAll")
  /\ UNCHANGED <<locks, jobsMap, jobCount, doneList, work, current, toCancel, object,
                 canceled, closed, notified>>

\* Mutant: stop() joins without waking the pool's thread.
StopWithoutWake ==
  /\ pc[Stopper] = "wake"
  /\ Goto(Stopper, "join")
  /\ UNCHANGED <<locks, admin, work, current, toCancel, object, canceled, closed, notified>>

\* start_processing_finished_jobs
StopWake ==
  /\ pc[Stopper] = "wake"
  /\ Free(finishedLock)
  /\ pc' = [NotifyOne(pc) EXCEPT ![Stopper] = "join"]
  /\ UNCHANGED <<locks, admin, work, current, toCancel, object, canceled, closed, notified>>

\* m_jobs_thread.join()
StopJoin ==
  /\ pc[Stopper] = "join" /\ pc[Pool] = "exit"
  /\ Goto(Stopper, "stopped")
  /\ UNCHANGED <<locks, admin, work, current, toCancel, object, canceled, closed, notified>>

\* Nothing is left to do once the pool is stopped and every job was refused
\* or deleted.
Terminated ==
  /\ pc[Stopper] = "stopped" /\ pc[Listener] = "idle"
  /\ \A j \in Jobs : object[j] = "deleted" \/ SessionOf[j] \in closed
  /\ UNCHANGED vars

-----------------------------------------------------------------------------
ListenerStep ==
  \/ \E j \in Jobs : PlanNewJob(j)
  \/ PlanRefused \/ AddJob \/ PlanEnd
  \/ \E s \in Sessions : CancelJobs(s)
  \/ \E j \in Jobs : CancelOne(Listener, j)
  \/ CancelEnd(Listener)
StopperStep ==
  \/ StopBegin \/ CancelAllJobs
  \/ \E j \in Jobs : CancelOne(Stopper, j)
  \/ CancelEnd(Stopper) \/ StopWake \/ StopJoin
WorkerStep(j) == WorkerDone(j) \/ NotifyJobDone(j) \/ WorkerLeave(j)
PoolStep ==
  \/ PoolEnter \/ IsStopRunningLock \/ IsStopRunning
  \/ ProcessFinishedJob \/ LoopEnd \/ DeleteJob \/ SynchJobFinished

Next ==
  \/ ListenerStep \/ StopperStep \/ PoolStep \/ SpuriousWakeup
  \/ \E j \in Jobs : WorkerStep(j)
  \/ Terminated

Spec == Init /\ [][Next]_vars

(***************************************************************************)
(* Fairness: every thread that can take a step eventually does, with three *)
(* exceptions.  Nobody is obliged to call plan_new_job, cancel_jobs or     *)
(* stop.  A spurious wakeup is never owed.  A job that nobody cancels may  *)
(* run for ever: only a canceled job has to finish.  Strong fairness is    *)
(* asked only for the two steps that compete with the pool's thread for    *)
(* m_finished_jobs_lock, which spurious wakeups could make it retake again *)
(* and again; every other mutex is contended finitely often.               *)
(***************************************************************************)
Fairness ==
  /\ WF_vars(PlanRefused \/ AddJob \/ PlanEnd \/ CancelEnd(Listener)
             \/ \E j \in Jobs : CancelOne(Listener, j))
  /\ WF_vars(CancelAllJobs \/ StopJoin \/ CancelEnd(Stopper)
             \/ \E j \in Jobs : CancelOne(Stopper, j))
  /\ SF_vars(StopWake)
  /\ \A j \in Jobs : /\ WF_vars((canceled[j] /\ WorkerDone(j)) \/ WorkerLeave(j))
                     /\ SF_vars(NotifyJobDone(j))
  /\ WF_vars(PoolStep)

FairSpec == Spec /\ Fairness

-----------------------------------------------------------------------------
(* What the pool looks like from outside: a job is accepted when it is      *)
(* registered and scheduled, answered by m_notify_job_done_func, retired    *)
(* by the delete.                                                           *)
Answered(n) ==
  IF n = 0 THEN "active" ELSE IF n = 1 THEN "answered" ELSE "answered again"

ServiceStatus ==
  [j \in Jobs |->
     CASE work[j] = "none" -> IF object[j] = "deleted" THEN "refused" ELSE "new"
       [] work[j] # "none" /\ object[j] = "deleted" -> "retired"
       [] OTHER -> Answered(notified[j])]

Service == INSTANCE JobService
  WITH status <- ServiceStatus, accepting <- ~isStopping, halted <- pc[Pool] = "exit"

-----------------------------------------------------------------------------
(* Properties *)

\* The pool keeps the promise of JobService, with the mapping above: in
\* particular no job is answered twice, none is deleted before it is answered,
\* and the pool's thread ends only when every accepted job is retired.
ImplementsJobService == Service!SSpec

\* m_job_count is the number of the registered jobs, so that the test of
\* is_stop_running (count = 0) means what it says, and the pool's thread never
\* ends with a job registered or a finished job unprocessed: the error that
\* stop() logs after the join ("there are still ... running jobs left") never
\* happens.
NoJobLeftBehind ==
  /\ jobCount = Cardinality(jobsMap)
  /\ pc[Pool] = "exit" =>
       /\ jobsMap = {} /\ doneList = <<>>
       /\ pc[Listener] = "plan" => isStopping

\* The pool deletes a job only when nothing can touch it again: its worker has
\* left the job's critical section (synch_job_finished), schedule_new_job has
\* returned, no canceling loop has it ahead, and neither the administration nor
\* the finished list holds it.
NoUseAfterDelete ==
  \A j \in Jobs : object[j] = "deleted" =>
    /\ work[j] \in {"none", "left"} /\ Free(jobLock[j])
    /\ ~(pc[Listener] \in {"plan", "schedule"} /\ current[Listener] = j)
    /\ j \notin jobsMap
    /\ \A t \in Callers : j \notin toCancel[t]
    /\ \A k \in 1..Len(doneList) : doneList[k] # j

\* m_notify_job_done_func is called exactly once for a job that was scheduled
\* and is deleted, at most once before that, and never for a refused job.
NotifiedExactlyOnce ==
  \A j \in Jobs :
    /\ notified[j] <= 1
    /\ object[j] = "deleted" => notified[j] = IF work[j] = "none" THEN 0 ELSE 1

\* When stop() starts to wait, every job still registered was canceled: no job
\* can slip in behind cancel_all_jobs, because plan_new_job reads the flag that
\* stop() set under the same m_stopping_lock.
StopCancelsAll ==
  pc[Stopper] \in {"wake", "join", "stopped"} => \A j \in jobsMap : canceled[j]

\* No two registered jobs have the same session and job id, whatever ids the
\* clients choose: the map never loses a running job to a later one with its
\* key, so every registered job can be found to be canceled and erased.
JobKeysUnique == \A i, j \in jobsMap : SameKey(i, j) => i = j

\* stop() "Allows to stop all the running jobs and try to send all the
\* responses and then exit": once the flag is set stop() returns, provided the
\* pool's thread has started by the time stop() comes to wake it.
StartedPoolStops ==
  pc[Stopper] \in {"cancelAll", "cancel", "wake"} /\ pc[Pool] # "start"
    ~> pc[Stopper] = "stopped"

\* A job that is about to report once the pool's thread has started is processed
\* and its object deleted, whether or not any other job is ever finished.
StartedPoolProcesses ==
  \A j \in Jobs : work[j] = "reporting" /\ pc[Pool] # "start" ~> object[j] = "deleted"
=============================================================================
