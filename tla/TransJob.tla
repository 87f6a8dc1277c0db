------------------------------ MODULE TransJob ------------------------------
(***************************************************************************)
(* One translation job of the server and its sentence tasks:               *)
(* inc/server/trans_job.hpp, inc/server/trans_task.hpp, and the two        *)
(* callbacks of inc/server/translation_manager.hpp that schedule the job   *)
(* and answer it.                                                          *)
(*                                                                         *)
(* Each task runs on a thread of the task pool; Canceler is whichever      *)
(* thread holds the job pool's m_all_jobs_lock and cancels the job (the    *)
(* session was closed, or the server stops: at most two of them, one after *)
(* the other); Pool is the job pool's thread, which collects the results.  *)
(* Each task's m_end_lock only guards short sections that take no other    *)
(* lock, so those sections are single steps; m_tasks_lock is explicit.     *)
(***************************************************************************)
EXTENDS Naturals, FiniteSets, TransTask

CONSTANTS
  MaxCancels   \* cancel() runs: once when the session closes, once by stop()

\* An empty request would never be answered: no task would ever report.
ASSUME TasksFinite == IsFiniteSet(Tasks) /\ Tasks # {} /\ NoTask \notin Tasks
ASSUME CancelsType == MaxCancels \in 0..2

VARIABLES
  tpc,          \* where each task is
  isStop,       \* m_is_stop of each task
  code,         \* m_status_code of each task
  text,         \* what m_target_text holds for each task
  tasksLock,    \* the task that owns m_tasks_lock
  numError,     \* m_num_error_tasks
  numCancel,    \* m_num_cancel_tasks
  numDone,      \* m_done_tasks_count
  notified,     \* calls of m_notify_job_done_func (history)
  toCancel,     \* tasks that the running cancel() has still to visit
  cancels,      \* cancel() calls so far
  collected,    \* the tasks whose results are in the response
  response,     \* the sentences' codes in the response
  jobStatus     \* the status of the response; "none" until it is set

counts == <<numError, numCancel, numDone>>
tasksVars == <<tpc, isStop, code, text>>
cancelVars == <<toCancel, cancels>>
respVars == <<collected, response, jobStatus>>
jvars == <<tasksVars, tasksLock, counts, notified, cancelVars, respVars>>

Codes == {"UNDEFINED", "OK", "PARTIAL", "CANCELED", "ERROR"}
TaskPC == {"new", "planned", "translating", "over", "notifying", "counted", "told", "done"}

JTypeOK ==
  /\ tpc \in [Tasks -> TaskPC] /\ isStop \in [Tasks -> BOOLEAN]
  /\ code \in [Tasks -> Codes] /\ text \in [Tasks -> {"none", "partial", "target", "source"}]
  /\ tasksLock \in Tasks \cup {NoTask}
  /\ numError \in Nat /\ numCancel \in Nat
  /\ numDone \in 0..Cardinality(Tasks) /\ notified \in Nat
  /\ toCancel \subseteq Tasks /\ cancels \in 0..MaxCancels
  /\ collected \subseteq Tasks /\ response \in [Tasks -> Codes]
  /\ jobStatus \in Codes \cup {"none"}

JInit ==
  /\ tpc = [t \in Tasks |-> "new"] /\ isStop = [t \in Tasks |-> FALSE]
  /\ code = [t \in Tasks |-> "UNDEFINED"] /\ text = [t \in Tasks |-> "none"]
  /\ tasksLock = NoTask
  /\ numError = 0 /\ numCancel = 0 /\ numDone = 0 /\ notified = 0
  /\ toCancel = {} /\ cancels = 0
  /\ collected = {} /\ response = [t \in Tasks |-> "UNDEFINED"] /\ jobStatus = "none"

TGoto(t, l) == tpc' = [tpc EXCEPT ![t] = l]
Scheduled == \A t \in Tasks : tpc[t] # "new"

-----------------------------------------------------------------------------
(* schedule_new_job hands over the tasks one by one; tasks already handed  *)
(* over may run meanwhile, but m_all_jobs_lock keeps cancel() out.          *)
PlanTask(t) ==
  /\ tpc[t] = "new"
  /\ TGoto(t, "planned")
  /\ UNCHANGED <<isStop, code, text, tasksLock, counts, notified, cancelVars, respVars>>

\* trans_task::execute
Execute(t) ==
  /\ tpc[t] = "planned"
  /\ TGoto(t, "translating")
  /\ UNCHANGED <<isStop, code, text, tasksLock, counts, notified, cancelVars, respVars>>

\* The decoder finishes the sentence, gives up because m_is_stop is set, or
\* throws; the exception is caught and recorded.
Translate(t) ==
  /\ tpc[t] = "translating"
  /\ \/ text' = [text EXCEPT ![t] = "target"] /\ UNCHANGED code
     \/ isStop[t] /\ text' = [text EXCEPT ![t] = "partial"] /\ UNCHANGED code
     \/ code' = [code EXCEPT ![t] = "ERROR"] /\ text' = [text EXCEPT ![t] = "partial"]
  /\ TGoto(t, "over")
  /\ UNCHANGED <<isStop, tasksLock, counts, notified, cancelVars, respVars>>

\* Mutant: a sentence the decoder gave up counts as translated.
ResultCodeNoStop(t) == IF code[t] = "ERROR" THEN "ERROR" ELSE "OK"

\* process_task_result, under m_end_lock
ResultCode(t) ==
  CASE code[t] = "ERROR" -> "ERROR"
    [] code[t] # "ERROR" /\ isStop[t] -> "CANCELED"
    [] OTHER -> "OK"

ProcessTaskResult(t) ==
  /\ tpc[t] = "over"
  /\ code' = [code EXCEPT ![t] = ResultCode(t)]
  /\ text' = [text EXCEPT ![t] = IF ResultCode(t) = "OK" THEN @ ELSE "source"]
  /\ TGoto(t, "notifying")
  /\ UNCHANGED <<isStop, tasksLock, counts, notified, cancelVars, respVars>>

-----------------------------------------------------------------------------
(* trans_job::notify_task_done: m_tasks_lock is held from the first line,   *)
(* over the counting and the notification of the job pool, to the end.      *)
\* Mutant: the task reports without m_tasks_lock.
CountUnlocked(t) ==
  /\ tpc[t] = "notifying"
  /\ numError' = IF code[t] = "ERROR" THEN numError + 1 ELSE numError
  /\ numCancel' = IF code[t] = "CANCELED" THEN numCancel + 1 ELSE numCancel
  /\ numDone' = numDone + 1
  /\ TGoto(t, "counted")
  /\ UNCHANGED <<isStop, code, text, tasksLock, notified, cancelVars, respVars>>

CountTask(t) ==
  /\ tpc[t] = "notifying" /\ tasksLock = NoTask
  /\ tasksLock' = t
  /\ numError' = IF code[t] = "ERROR" THEN numError + 1 ELSE numError
  /\ numCancel' = IF code[t] = "CANCELED" THEN numCancel + 1 ELSE numCancel
  /\ numDone' = numDone + 1
  /\ TGoto(t, "counted")
  /\ UNCHANGED <<isStop, code, text, notified, cancelVars, respVars>>

\* Mutant: off by one.
IsJobOverfull == numDone > Cardinality(Tasks)

IsJobFinished == numDone = Cardinality(Tasks)

NotifyJobDone(t) ==
  /\ tpc[t] = "counted"
  /\ notified' = IF IsJobFinished THEN notified + 1 ELSE notified
  /\ TGoto(t, "told")
  /\ UNCHANGED <<isStop, code, text, tasksLock, counts, cancelVars, respVars>>

\* Mutant: the task reports a second time.
ReportAgain(t) ==
  /\ tpc[t] = "told"
  /\ tasksLock' = NoTask
  /\ TGoto(t, "notifying")
  /\ UNCHANGED <<isStop, code, text, counts, notified, cancelVars, respVars>>

LeaveJob(t) ==
  /\ tpc[t] = "told"
  /\ tasksLock' = NoTask
  /\ TGoto(t, "done")
  /\ UNCHANGED <<isStop, code, text, counts, notified, cancelVars, respVars>>

-----------------------------------------------------------------------------
(* trans_job::cancel visits the tasks without m_tasks_lock; it can come     *)
(* until delete_job takes the job out of the pool, which is after the       *)
(* response is sent.                                                        *)
CancelJob ==
  /\ Scheduled /\ toCancel = {} /\ cancels < MaxCancels
  /\ cancels' = cancels + 1
  /\ toCancel' = Tasks
  /\ UNCHANGED <<tasksVars, tasksLock, counts, notified, respVars>>

\* Mutant: cancel() also writes the result.
CancelTaskResult(t) ==
  /\ t \in toCancel
  /\ isStop' = [isStop EXCEPT ![t] = TRUE]
  /\ code' = [code EXCEPT ![t] = "CANCELED"]
  /\ toCancel' = toCancel \ {t}
  /\ UNCHANGED <<tpc, text, tasksLock, counts, notified, cancels, respVars>>

\* trans_task::cancel, under m_end_lock: only the flag is set.
CancelTask(t) ==
  /\ t \in toCancel
  /\ isStop' = [isStop EXCEPT ![t] = TRUE]
  /\ toCancel' = toCancel \ {t}
  /\ UNCHANGED <<tpc, code, text, tasksLock, counts, notified, cancels, respVars>>

-----------------------------------------------------------------------------
(* translation_manager::notify_job_done on the pool's thread, which does    *)
(* not take m_tasks_lock: collect_job_results and set_job_status.           *)
CollectTask(t) ==
  /\ notified > 0 /\ t \notin collected
  /\ response' = [response EXCEPT ![t] = code[t]]
  /\ collected' = collected \cup {t}
  /\ UNCHANGED <<tasksVars, tasksLock, counts, notified, cancelVars, jobStatus>>

StatusOfCounts ==
  CASE numCancel = 0 /\ numError = 0 -> "OK"
    [] numCancel + numError > 0 /\ numCancel = numDone -> "CANCELED"
    [] OTHER -> "PARTIAL"

SetJobStatus ==
  /\ notified > 0 /\ collected = Tasks /\ jobStatus = "none"
  /\ jobStatus' = StatusOfCounts
  /\ UNCHANGED <<tasksVars, tasksLock, counts, notified, cancelVars, collected, response>>

Finished ==
  /\ jobStatus # "none" /\ \A t \in Tasks : tpc[t] = "done"
  /\ UNCHANGED jvars

-----------------------------------------------------------------------------
TaskStep(t) ==
  \/ Execute(t) \/ Translate(t) \/ ProcessTaskResult(t)
  \/ CountTask(t) \/ NotifyJobDone(t) \/ LeaveJob(t)
PoolStep == SetJobStatus \/ \E t \in Tasks : CollectTask(t)

JNext ==
  \/ \E t \in Tasks : PlanTask(t) \/ TaskStep(t) \/ CancelTask(t)
  \/ CancelJob \/ PoolStep \/ Finished

JSpec == JInit /\ [][JNext]_jvars

(***************************************************************************)
(* Fairness: the listener schedules all tasks, every planned task is       *)
(* executed (TaskPool: UnresizedTasksExecuted), the decoder ends, the      *)
(* threads that hold or want m_tasks_lock run.  Nobody has to cancel.      *)
(***************************************************************************)
JFairness ==
  /\ \A t \in Tasks : WF_jvars(PlanTask(t)) /\ WF_jvars(TaskStep(t)) /\ WF_jvars(CancelTask(t))
  /\ WF_jvars(PoolStep)

JFairSpec == JSpec /\ JFairness

-----------------------------------------------------------------------------
(* Properties *)

With(c) == {t \in Tasks : code[t] = c}
Settled == {t \in Tasks : tpc[t] \in {"notifying", "counted", "told", "done"}}
Counted == {t \in Tasks : tpc[t] \in {"counted", "told", "done"}}

\* The counters agree with the results of the tasks that reported, at every
\* moment and however the tasks interleave: it is from the counters, not from
\* the results, that set_job_status decides.
CountsMatchResults ==
  /\ numDone = Cardinality(Counted)
  /\ numError = Cardinality(Counted \cap With("ERROR"))
  /\ numCancel = Cardinality(Counted \cap With("CANCELED"))

\* The job pool is told exactly when the last task reported, once, by counters
\* that are right; so the results it collects without any lock are all final.
NotifiedWhenAllDone ==
  /\ CountsMatchResults
  /\ notified <= 1
  /\ notified = 1 => Counted = Tasks
  /\ tasksLock = NoTask /\ Counted = Tasks => notified = 1

\* A cancel() that arrives after the job pool was told changes no result and no
\* counter, though it does set the tasks' flags.
ResultsFinalOnceNotified ==
  [][notified > 0 => UNCHANGED <<code, text, counts, notified>>]_jvars

\* A sentence is reported as OK only with a complete translation; one that was
\* given up or failed is returned in the source language, and the response
\* carries the final code of every sentence and the status that follows from
\* them: OK if all were translated, CANCELED if all were canceled.  PARTIAL is
\* everything else, no sentence translated included (PartlyTranslated).
ResponseMatchesSentences ==
  /\ \A t \in Settled : text[t] = IF code[t] = "OK" THEN "target" ELSE "source"
  /\ \A t \in collected : t \in Settled /\ response[t] = code[t] /\ code[t] # "UNDEFINED"
  /\ jobStatus = "OK" => With("OK") = Tasks
  /\ jobStatus = "CANCELED" => With("CANCELED") = Tasks
  /\ jobStatus = "PARTIAL" => With("OK") # Tasks /\ With("CANCELED") # Tasks

\* A job is answered with PARTIAL only if a sentence of it was translated.
\* Violated: set_job_status counts the canceled tasks, not the failed ones.
PartlyTranslated == jobStatus = "PARTIAL" => With("OK") # {}

\* Every job, canceled or not, is answered.
JobAnswered == <>(jobStatus # "none")
=============================================================================
