------------------------------ MODULE TaskPool ------------------------------
(***************************************************************************)
(* The thread pool of inc/common/utils/threads/task_pool.hpp and the loop  *)
(* of its workers, task_pool_worker.hpp.                                   *)
(*                                                                         *)
(* Threads: one per worker object; one planner per task (plan_new_task is  *)
(* called by the listener, by adapters and by other workers); and Admin,   *)
(* the console thread, which resizes the pool and finally destroys it.     *)
(*                                                                         *)
(* m_stop and m_is_on are set WITHOUT m_queue_mutex, so the moment between *)
(* a worker's test of them and its wait is a state of its own ("empty").   *)
(***************************************************************************)
EXTENDS Naturals, Sequences, FiniteSets, SequencesExt, TransTask

CONSTANTS
  Priority,     \* get_priority() of each task
  Workers,      \* the worker objects that may be created
  FirstWorkers, \* the workers the constructor creates, as a sequence
  Sizes,        \* the arguments set_num_threads is called with
  MaxResizes,   \* how often it is called
  MayDestroy,   \* may the pool be destroyed?
  NoWorker

ASSUME PriorityType == Priority \in [Tasks -> Nat]
ASSUME WorkersEnough ==
  /\ IsFiniteSet(Workers) /\ NoWorker \notin Workers /\ NoTask \notin Tasks
  /\ FirstWorkers \in Seq(Workers) /\ IsInjective(FirstWorkers)
ASSUME SizesType ==
  Sizes \subseteq Nat /\ MaxResizes \in Nat /\ MayDestroy \in BOOLEAN

VARIABLES
  tasks,      \* m_tasks: its front is any of the tasks of highest priority
  mutex,      \* owner of m_queue_mutex
  workers,    \* m_workers (and m_threads: they change together)
  mStop,      \* m_stop
  isOn,       \* m_is_on of each worker
  isBusy,     \* m_is_busy of each worker
  taskOf,     \* the local variable task of each worker
  wpc,        \* where each worker's thread is
  plan,       \* where the planner of each task is
  executed,   \* how often each task was executed (history)
  apc,        \* where Admin is
  target,     \* new_num_threads
  idx,        \* the position the shrinking loop looks at, from 0
  resizes     \* calls of set_num_threads so far

pool == <<tasks, mutex, mStop>>
threads == <<isOn, isBusy, taskOf, wpc, executed>>
adminVars == <<workers, apc, target, idx, resizes>>
vars == <<pool, threads, plan, adminVars>>

WorkerPC == {"none", "loop", "locked", "empty", "waiting", "woken", "popped", "exec",
             "ended", "deleted"}
AdminPC == {"idle", "grow", "scan", "notifyAll", "join", "destroy", "destroyJoin", "gone"}

TypeOK ==
  /\ tasks \subseteq Tasks /\ mutex \in Workers \cup {NoWorker}
  /\ workers \in Seq(Workers)
  /\ mStop \in BOOLEAN
  /\ isOn \in [Workers -> BOOLEAN] /\ isBusy \in [Workers -> BOOLEAN]
  /\ taskOf \in [Workers -> Tasks \cup {NoTask}]
  /\ wpc \in [Workers -> WorkerPC]
  /\ plan \in [Tasks -> {"new", "pushed", "planned"}]
  /\ executed \in [Tasks -> Nat]
  /\ apc \in AdminPC /\ target \in Nat /\ idx \in Nat /\ resizes \in 0..MaxResizes

Init ==
  /\ tasks = {} /\ mutex = NoWorker /\ mStop = FALSE
  /\ workers = FirstWorkers
  /\ isOn = [w \in Workers |-> TRUE] /\ isBusy = [w \in Workers |-> FALSE]
  /\ taskOf = [w \in Workers |-> NoTask]
  /\ wpc = [w \in Workers |-> IF w \in Range(FirstWorkers) THEN "loop" ELSE "none"]
  /\ plan = [t \in Tasks |-> "new"] /\ executed = [t \in Tasks |-> 0]
  /\ apc = "idle" /\ target = 0 /\ idx = 0 /\ resizes = 0

Free == mutex = NoWorker
OnDuty(w) == ~mStop /\ isOn[w]
WGoto(w, l) == wpc' = [wpc EXCEPT ![w] = l]
WakeAll == [w \in Workers |-> IF wpc[w] = "waiting" THEN "woken" ELSE wpc[w]]

-----------------------------------------------------------------------------
(* plan_new_task: m_stop is not looked at, so a task may be planned while the  *)
(* destructor waits for the workers; the object is there until it has ended.   *)
PushTask(t) ==
  /\ plan[t] = "new" /\ apc # "gone"
  /\ Free
  /\ tasks' = tasks \cup {t}
  /\ plan' = [plan EXCEPT ![t] = "pushed"]
  /\ UNCHANGED <<mutex, mStop, threads, adminVars>>

\* Mutant: nobody is woken.
NotifyNobody(t) ==
  /\ plan[t] = "pushed"
  /\ plan' = [plan EXCEPT ![t] = "planned"]
  /\ UNCHANGED <<pool, threads, adminVars>>

\* notify_one, after the mutex was released: some waiting worker, if any.
NotifyOne(t) ==
  /\ plan[t] = "pushed"
  /\ plan' = [plan EXCEPT ![t] = "planned"]
  /\ \/ \E w \in Workers : wpc[w] = "waiting" /\ WGoto(w, "woken")
     \/ (\A w \in Workers : wpc[w] # "waiting") /\ UNCHANGED wpc
  /\ UNCHANGED <<pool, isOn, isBusy, taskOf, executed, adminVars>>

-----------------------------------------------------------------------------
(* task_pool_worker::operator() *)
WorkerLeaves(w) ==
  /\ wpc[w] = "loop" /\ ~OnDuty(w)
  /\ WGoto(w, "ended")
  /\ UNCHANGED <<pool, isOn, isBusy, taskOf, executed, plan, adminVars>>

\* Enter the critical section, for the first time or when wait() returns.
WorkerLocks(w) ==
  /\ (wpc[w] = "loop" /\ OnDuty(w)) \/ wpc[w] = "woken"
  /\ Free
  /\ mutex' = w
  /\ WGoto(w, "locked")
  /\ UNCHANGED <<tasks, mStop, isOn, isBusy, taskOf, executed, plan, adminVars>>

\* The inner loop's condition holds: the worker will wait ...
WorkerFindsEmpty(w) ==
  /\ wpc[w] = "locked" /\ OnDuty(w) /\ tasks = {}
  /\ WGoto(w, "empty")
  /\ UNCHANGED <<pool, isOn, isBusy, taskOf, executed, plan, adminVars>>

\* ... whatever happened to the flags meanwhile.
WorkerWaits(w) ==
  /\ wpc[w] = "empty"
  /\ mutex' = NoWorker
  /\ WGoto(w, "waiting")
  /\ UNCHANGED <<tasks, mStop, isOn, isBusy, taskOf, executed, plan, adminVars>>

SpuriousWakeup(w) ==
  /\ wpc[w] = "waiting"
  /\ WGoto(w, "woken")
  /\ UNCHANGED <<pool, isOn, isBusy, taskOf, executed, plan, adminVars>>

WorkerEnds(w) ==
  /\ wpc[w] = "locked" /\ ~OnDuty(w)
  /\ mutex' = NoWorker
  /\ WGoto(w, "ended")
  /\ UNCHANGED <<tasks, mStop, isOn, isBusy, taskOf, executed, plan, adminVars>>

\* Mutant: the task is read but not removed.
WorkerTops(w, t) ==
  /\ wpc[w] = "locked" /\ OnDuty(w)
  /\ t \in tasks /\ \A u \in tasks : Priority[u] <= Priority[t]
  /\ taskOf' = [taskOf EXCEPT ![w] = t]
  /\ mutex' = NoWorker
  /\ WGoto(w, "popped")
  /\ UNCHANGED <<tasks, mStop, isOn, isBusy, executed, plan, adminVars>>

WorkerPops(w, t) ==
  /\ wpc[w] = "locked" /\ OnDuty(w)
  /\ t \in tasks /\ \A u \in tasks : Priority[u] <= Priority[t]
  /\ tasks' = tasks \ {t}
  /\ taskOf' = [taskOf EXCEPT ![w] = t]
  /\ mutex' = NoWorker
  /\ WGoto(w, "popped")
  /\ UNCHANGED <<mStop, isOn, isBusy, executed, plan, adminVars>>

WorkerBusy(w) ==
  /\ wpc[w] = "popped"
  /\ isBusy' = [isBusy EXCEPT ![w] = TRUE]
  /\ WGoto(w, "exec")
  /\ UNCHANGED <<pool, isOn, taskOf, executed, plan, adminVars>>

WorkerExecutes(w) ==
  /\ wpc[w] = "exec"
  /\ executed' = [executed EXCEPT ![taskOf[w]] = @ + 1]
  /\ taskOf' = [taskOf EXCEPT ![w] = NoTask]
  /\ isBusy' = [isBusy EXCEPT ![w] = FALSE]
  /\ WGoto(w, "loop")
  /\ UNCHANGED <<pool, isOn, plan, adminVars>>

-----------------------------------------------------------------------------
(* set_num_threads; the argument 0 is refused by an exception *)
SetNumThreads(n) ==
  /\ apc = "idle" /\ resizes < MaxResizes
  /\ n # 0 /\ n # Len(workers)
  /\ resizes' = resizes + 1
  /\ target' = n
  /\ idx' = 0
  /\ apc' = IF n > Len(workers) THEN "grow" ELSE "scan"
  /\ UNCHANGED <<pool, threads, plan, workers>>

AddWorker(w) ==
  /\ apc = "grow" /\ wpc[w] = "none"
  /\ workers' = Append(workers, w)
  /\ WGoto(w, "loop")
  /\ apc' = IF Len(workers) + 1 = target THEN "idle" ELSE "grow"
  /\ UNCHANGED <<pool, isOn, isBusy, taskOf, executed, plan, target, idx, resizes>>

\* One round of the shrinking loop: a busy worker is passed over, an idle one
\* is told to stop.
SkipBusy ==
  /\ apc = "scan" /\ isBusy[workers[idx + 1]]
  /\ idx' = (idx + 1) % Len(workers)
  /\ UNCHANGED <<pool, threads, plan, workers, apc, target, resizes>>

StopIdle ==
  /\ apc = "scan" /\ ~isBusy[workers[idx + 1]]
  /\ isOn' = [isOn EXCEPT ![workers[idx + 1]] = FALSE]
  /\ apc' = "notifyAll"
  /\ UNCHANGED <<pool, isBusy, taskOf, wpc, executed, plan, workers, target, idx, resizes>>

NotifyAll ==
  /\ apc = "notifyAll"
  /\ wpc' = WakeAll
  /\ apc' = "join"
  /\ UNCHANGED <<pool, isOn, isBusy, taskOf, executed, plan, workers, target, idx, resizes>>

\* The joined worker's object, pointer and thread are erased.
Erase(next) ==
  /\ wpc' = [wpc EXCEPT ![workers[idx + 1]] = "deleted"]
  /\ workers' = RemoveAt(workers, idx + 1)
  /\ idx' = next
  /\ apc' = IF Len(workers) - 1 = target THEN "idle" ELSE "scan"
  /\ UNCHANGED <<pool, isOn, isBusy, taskOf, executed, plan, target, resizes>>
Joined == apc = "join" /\ wpc[workers[idx + 1]] = "ended"

\* Mutants: the loop steps back after the erase; the thread is not joined.
JoinAndStepBack == Joined /\ Erase(idx - 1)
EraseWithoutJoin == apc = "join" /\ Erase((idx + 1) % (Len(workers) - 1))

JoinAndErase == Joined /\ Erase((idx + 1) % (Len(workers) - 1))

-----------------------------------------------------------------------------
(* ~task_pool *)
Destroy ==
  /\ MayDestroy /\ apc = "idle"
  /\ mStop' = TRUE
  /\ apc' = "destroy"
  /\ UNCHANGED <<tasks, mutex, threads, plan, workers, target, idx, resizes>>

DestroyNotify ==
  /\ apc = "destroy"
  /\ wpc' = WakeAll
  /\ apc' = "destroyJoin"
  /\ UNCHANGED <<pool, isOn, isBusy, taskOf, executed, plan, workers, target, idx, resizes>>

DestroyJoin ==
  /\ apc = "destroyJoin" /\ \A w \in Range(workers) : wpc[w] = "ended"
  /\ wpc' = [w \in Workers |-> IF w \in Range(workers) THEN "deleted" ELSE wpc[w]]
  /\ apc' = "gone"
  /\ UNCHANGED <<pool, isOn, isBusy, taskOf, executed, plan, workers, target, idx, resizes>>

-----------------------------------------------------------------------------
WorkerStep(w) ==
  \/ WorkerLeaves(w) \/ WorkerLocks(w) \/ WorkerFindsEmpty(w) \/ WorkerWaits(w)
  \/ WorkerEnds(w) \/ (\E t \in Tasks : WorkerPops(w, t))
  \/ WorkerBusy(w) \/ WorkerExecutes(w)
AdminStep ==
  \/ (\E w \in Workers : AddWorker(w)) \/ SkipBusy \/ StopIdle \/ NotifyAll
  \/ JoinAndErase \/ DestroyNotify \/ DestroyJoin

Next ==
  \/ \E t \in Tasks : PushTask(t) \/ NotifyOne(t)
  \/ \E w \in Workers : WorkerStep(w) \/ SpuriousWakeup(w)
  \/ \E n \in Sizes : SetNumThreads(n)
  \/ AdminStep \/ Destroy

Spec == Init /\ [][Next]_vars

(***************************************************************************)
(* Fairness: threads that can run do.  Nobody has to plan a task, resize   *)
(* or destroy the pool; spurious wakeups are never owed; execute() ends.   *)
(***************************************************************************)
Fairness ==
  /\ \A t \in Tasks : WF_vars(NotifyOne(t))
  /\ \A w \in Workers : WF_vars(WorkerStep(w))
  /\ WF_vars(AdminStep)

FairSpec == Spec /\ Fairness

-----------------------------------------------------------------------------
(* Properties *)

Holders(t) == {w \in Workers : taskOf[w] = t}

\* A planned task is in exactly one place: in the queue, in the hands of one
\* worker, or executed once.  Neither resizing nor destroying the pool loses a
\* task a worker has popped, even in the moment before m_is_busy is set, when
\* set_num_threads takes the worker for idle.
TaskInOnePlace ==
  \A t \in Tasks : plan[t] # "new" =>
    (IF t \in tasks THEN 1 ELSE 0) + Cardinality(Holders(t)) + executed[t] = 1

\* A worker object is deleted only after its thread has ended, with no task in
\* its hands and the mutex released, and the list holds exactly the workers
\* that are not deleted ("the deleted ones are let to finish their translation
\* task execution"); meanwhile the shrinking loop's index stays inside
\* m_workers, and the loop never takes the pool below the requested number of
\* threads (so never to none).
ResizeSafe ==
  /\ \A w \in Workers : wpc[w] = "deleted" => taskOf[w] = NoTask /\ mutex # w
  /\ apc # "gone" => Range(workers) = {w \in Workers : wpc[w] \notin {"none", "deleted"}}
  /\ IsInjective(workers)
  /\ apc \in {"scan", "notifyAll", "join"} => idx < Len(workers) /\ target < Len(workers)

\* A planned task is executed, unless the pool is resized or destroyed.
UnresizedTasksExecuted ==
  \A t \in Tasks : plan[t] # "new" ~> executed[t] = 1 \/ mStop \/ resizes > 0
=============================================================================
