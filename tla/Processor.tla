------------------------------ MODULE Processor ------------------------------
(***************************************************************************)
(* The text processor: processor_manager (inc/processor/                   *)
(* processor_manager.hpp) with the sessions it inherits from               *)
(* session_manager and the jobs it runs (processor_job.hpp).  A client     *)
(* sends a text in chunks; the chunks of a job are collected in the        *)
(* session's entry of m_sessions, and with the last one the job goes to    *)
(* the session job pool, whose promise (JobService) is used here: a        *)
(* planned job is executed, then deleted once.                             *)
(*                                                                         *)
(* Threads: the server's asio thread, which opens and closes sessions and  *)
(* receives the chunks; the thread that calls stop(); one of the task pool *)
(* for each planned job; the job pool's, which deletes.  m_sessions_lock   *)
(* is held by stop() to its end, and within one step otherwise.  Once a    *)
(* deleted object or an erased map entry has been used, anything may       *)
(* happen: here nothing does any more (broken).  A pointer read from an    *)
(* erased entry may also still be the right one (Process).                 *)
(***************************************************************************)
EXTENDS Naturals, FiniteSets, Functions

CONSTANTS
  Sessions,       \* one for each connection; it opens at most once
  Jobs,           \* a session's job tokens, each used once
  SessionOf,
  NumChunks,      \* chunks of a request's text
  NumReplies,     \* chunks of the longest processed text
  NoSession

ASSUME ProcessorAssumption ==
  /\ NoSession \notin Sessions /\ SessionOf \in [Jobs -> Sessions]
  /\ NumChunks \in Nat \ {0} /\ NumReplies \in Nat \ {0}

VARIABLES
  conn,       \* each client's connection, as the client sees it
  opened,     \* session_manager::m_sessions: the sessions with an id
  handlers,   \* session_manager::m_handlers: session -> "live" or "empty" handle
  closing,    \* the session the asio thread is closing
  lpc,        \* where the asio thread is
  pending,    \* processor_manager::m_sessions: the jobs' pointers, by session
  chunks,     \* m_act_num_chunks
  stage,      \* where the job is in process(), once it is complete
  canceled,   \* m_is_canceled
  toSend,     \* replies the job has still to send
  usesHandler,\* does it hold a reference into m_handlers?
  sent,       \* replies that reached the client (history)
  files,      \* the jobs with files in the work directory
  fileGen,    \* m_is_file_gen
  deletes,    \* how often the job's object was deleted
  isStopping, spc,  \* the manager's flag, and where stop() is
  broken

sessionVars == <<conn, opened, handlers, closing, lpc>>
jobVars == <<chunks, stage, canceled, toSend, usesHandler, sent, files, fileGen, deletes>>
vars == <<sessionVars, jobVars, pending, isStopping, spc, broken>>

Stages == {"collecting", "queued", "store", "call", "script", "reply", "tell", "told",
           "retired"}

TypeOK ==
  /\ conn \in [Sessions -> {"none", "open", "left"}]
  /\ opened \subseteq Sessions /\ DOMAIN handlers \subseteq Sessions
  /\ closing \in Sessions \cup {NoSession}
  /\ lpc \in {"idle", "cancelIncomp", "cancelJobs"} /\ (closing = NoSession <=> lpc = "idle")
  /\ pending \in [Sessions -> SUBSET Jobs]
  /\ chunks \in [Jobs -> 0..NumChunks] /\ stage \in [Jobs -> Stages]
  /\ canceled \in [Jobs -> BOOLEAN] /\ usesHandler \in [Jobs -> BOOLEAN]
  /\ toSend \in [Jobs -> Nat] /\ sent \in [Jobs -> 0..NumReplies]
  /\ files \subseteq Jobs /\ fileGen \in [Jobs -> BOOLEAN]
  /\ deletes \in [Jobs -> 0..2]
  /\ isStopping \in BOOLEAN /\ broken \in BOOLEAN
  /\ spc \in {"run", "cancelAll", "wait", "stopped", "gone"}

Init ==
  /\ conn = [s \in Sessions |-> "none"]
  /\ opened = {} /\ handlers = <<>> /\ closing = NoSession /\ lpc = "idle"
  /\ pending = [s \in Sessions |-> {}]
  /\ chunks = [j \in Jobs |-> 0] /\ stage = [j \in Jobs |-> "collecting"]
  /\ canceled = [j \in Jobs |-> FALSE] /\ toSend = [j \in Jobs |-> 0]
  /\ usesHandler = [j \in Jobs |-> FALSE] /\ sent = [j \in Jobs |-> 0]
  /\ files = {} /\ fileGen = [j \in Jobs |-> FALSE] /\ deletes = [j \in Jobs |-> 0]
  /\ isStopping = FALSE /\ spc = "run" /\ broken = FALSE

SessionsLockFree == spc \in {"run", "stopped"}
Listening == ~broken /\ lpc = "idle" /\ spc # "gone"
Planned(j) == stage[j] \notin {"collecting", "retired"}

\* delete: the second time it is undefined what happens.
Delete(S) ==
  /\ deletes' = [j \in Jobs |-> IF j \in S THEN deletes[j] + 1 ELSE deletes[j]]
  /\ broken' = \E j \in S : deletes[j] > 0

Cancel(S) == canceled' = [j \in Jobs |-> canceled[j] \/ j \in S]

-----------------------------------------------------------------------------
(* The sessions, and the clients                                           *)

\* A connection is made, and the server learns of it.
OpenSession(s) ==
  /\ Listening /\ spc = "run" /\ conn[s] = "none"
  /\ conn' = [conn EXCEPT ![s] = "open"]
  /\ opened' = opened \cup {s}
  /\ handlers' = [t \in DOMAIN handlers \cup {s} |-> IF t = s THEN "live" ELSE handlers[t]]
  /\ UNCHANGED <<closing, lpc, jobVars, pending, isStopping, spc, broken>>

ClientLeaves(s) ==
  /\ ~broken /\ conn[s] = "open"
  /\ conn' = [conn EXCEPT ![s] = "left"]
  /\ UNCHANGED <<opened, handlers, closing, lpc, jobVars, pending, isStopping, spc, broken>>

\* close_session: first the mappings are erased ...
CloseSession(s) ==
  /\ Listening /\ conn[s] = "left" /\ s \in opened
  /\ opened' = opened \ {s}
  /\ handlers' = Restrict(handlers, DOMAIN handlers \ {s})
  /\ closing' = s /\ lpc' = "cancelIncomp"
  /\ UNCHANGED <<conn, jobVars, pending, isStopping, spc, broken>>

\* ... then session_is_closed cancels the incomplete jobs, in a copy of the
\* session's entry; with the copy's end they are deleted, while the entry keeps
\* their pointers ...
CancelIncompJobs ==
  /\ ~broken /\ lpc = "cancelIncomp" /\ SessionsLockFree
  /\ lpc' = "cancelJobs"
  /\ Cancel(pending[closing]) /\ Delete(pending[closing])
  /\ UNCHANGED <<conn, opened, handlers, closing, chunks, stage, toSend, usesHandler, sent,
                 files, fileGen, pending, isStopping, spc>>

\* Mutant: the planned jobs of a closed session are left alone.
CancelNoJobs ==
  /\ ~broken /\ lpc = "cancelJobs"
  /\ lpc' = "idle" /\ closing' = NoSession
  /\ UNCHANGED <<conn, opened, handlers, jobVars, pending, isStopping, spc, broken>>

\* ... and the planned ones (session_job_pool_base::cancel_jobs).
CancelJobs ==
  /\ ~broken /\ lpc = "cancelJobs"
  /\ lpc' = "idle" /\ closing' = NoSession
  /\ Cancel({j \in Jobs : SessionOf[j] = closing /\ Planned(j)})
  /\ UNCHANGED <<conn, opened, handlers, chunks, stage, toSend, usesHandler, sent, files,
                 fileGen, deletes, pending, isStopping, spc, broken>>

\* Mutant: a complete job stays in the session's entry.
ProcessKeepsEntry(j) ==
  LET s == SessionOf[j]
      complete == chunks[j] + 1 = NumChunks
  IN /\ Listening /\ SessionsLockFree /\ ~isStopping
     /\ s \in opened /\ chunks[j] < NumChunks
     /\ chunks' = [chunks EXCEPT ![j] = @ + 1]
     /\ pending' = [pending EXCEPT ![s] = @ \cup {j}]
     /\ stage' = [stage EXCEPT ![j] = IF complete THEN "queued" ELSE @]
     /\ UNCHANGED <<sessionVars, canceled, toSend, usesHandler, sent, files, fileGen, deletes,
                    isStopping, spc, broken>>

\* process(), for one more chunk of the job: with the first one the job is
\* made, with the last one it leaves the session's entry and is planned.  The
\* pointer that plan_new_job gets is read through a reference into the entry
\* that has just been erased: it is still there, or it is something else.
Process(j) ==
  LET s == SessionOf[j]
      complete == chunks[j] + 1 = NumChunks
  IN /\ Listening /\ SessionsLockFree /\ ~isStopping
     /\ s \in opened /\ chunks[j] < NumChunks
     /\ chunks' = [chunks EXCEPT ![j] = @ + 1]
     /\ pending' = [pending EXCEPT ![s] = IF complete THEN @ \ {j} ELSE @ \cup {j}]
     /\ \/ ~complete /\ UNCHANGED <<stage, broken>>
        \/ complete /\ stage' = [stage EXCEPT ![j] = "queued"] /\ UNCHANGED broken
        \/ complete /\ broken' = TRUE /\ UNCHANGED stage
     /\ UNCHANGED <<sessionVars, canceled, toSend, usesHandler, sent, files, fileGen, deletes,
                    isStopping, spc>>

-----------------------------------------------------------------------------
(* The execution of a job: process<is_pnp>() and what it calls             *)

At(j, place) == ~broken /\ stage[j] = place
Goto(j, place) == stage' = [stage EXCEPT ![j] = place]
Reply(j, n) == Goto(j, "reply") /\ toSend' = [toSend EXCEPT ![j] = n]

\* Mutant: a text in an unsupported language is not answered.
ExecuteSilently(j) ==
  /\ At(j, "queued")
  /\ \/ canceled[j] /\ Goto(j, "tell") /\ UNCHANGED toSend
     \/ ~canceled[j] /\ Goto(j, "store") /\ UNCHANGED toSend
     \/ ~canceled[j] /\ Goto(j, "tell") /\ UNCHANGED toSend
  /\ UNCHANGED <<sessionVars, chunks, canceled, usesHandler, sent, files, fileGen, deletes,
                 pending, isStopping, spc, broken>>

\* A canceled job does nothing; without a processor for the language the reply
\* is an error.
Execute(j) ==
  /\ At(j, "queued")
  /\ \/ canceled[j] /\ Goto(j, "tell") /\ UNCHANGED toSend
     \/ ~canceled[j] /\ Goto(j, "store") /\ UNCHANGED toSend
     \/ ~canceled[j] /\ Reply(j, 1)
  /\ UNCHANGED <<sessionVars, chunks, canceled, usesHandler, sent, files, fileGen, deletes,
                 pending, isStopping, spc, broken>>

\* store_text_to_file: the input file is written, or cannot be opened.
StoreTextToFile(j) ==
  /\ At(j, "store")
  /\ \/ canceled[j] /\ Goto(j, "call") /\ UNCHANGED <<toSend, files, fileGen>>
     \/ /\ ~canceled[j] /\ Goto(j, "call")
        /\ files' = files \cup {j} /\ fileGen' = [fileGen EXCEPT ![j] = TRUE]
        /\ UNCHANGED toSend
     \/ ~canceled[j] /\ Reply(j, 1) /\ UNCHANGED <<files, fileGen>>
  /\ UNCHANGED <<sessionVars, chunks, canceled, usesHandler, sent, deletes, pending,
                 isStopping, spc, broken>>

\* call_processor_script: m_is_canceled is looked at once, ...
CallProcessorScript(j) ==
  /\ At(j, "call")
  /\ Goto(j, IF canceled[j] THEN "tell" ELSE "script")
  /\ UNCHANGED <<sessionVars, chunks, canceled, toSend, usesHandler, sent, files, fileGen,
                 deletes, pending, isStopping, spc, broken>>

\* ... then the script runs, and its results are processed: the output is cut
\* into chunks, none if it is empty, or something went wrong; or the script
\* could not be started.
ProcessScriptResults(j) ==
  /\ At(j, "script")
  /\ \/ /\ \E n \in 0..NumReplies : Reply(j, n)
        /\ files' = files \cup {j} /\ fileGen' = [fileGen EXCEPT ![j] = TRUE]
     \/ Reply(j, 1) /\ UNCHANGED <<files, fileGen>>
  /\ UNCHANGED <<sessionVars, chunks, canceled, usesHandler, sent, deletes, pending,
                 isStopping, spc, broken>>

\* send_response of the job, then of session_manager: get_session_hdl gives a
\* reference into m_handlers, in an entry it makes if there is none ...
GetSessionHdl(j) ==
  /\ At(j, "reply") /\ toSend[j] > 0 /\ ~canceled[j] /\ ~usesHandler[j]
  /\ usesHandler' = [usesHandler EXCEPT ![j] = TRUE]
  /\ handlers' = [s \in DOMAIN handlers \cup {SessionOf[j]} |->
                    IF s \in DOMAIN handlers THEN handlers[s] ELSE "empty"]
  /\ UNCHANGED <<conn, opened, closing, lpc, chunks, stage, canceled, toSend, sent, files,
                 fileGen, deletes, pending, isStopping, spc, broken>>

\* Mutant: the same chunk is sent again.
SendResponseAgain(j) ==
  /\ At(j, "reply") /\ usesHandler[j]
  /\ usesHandler' = [usesHandler EXCEPT ![j] = FALSE]
  /\ broken' = (SessionOf[j] \notin DOMAIN handlers)
  /\ sent' = IF /\ SessionOf[j] \in DOMAIN handlers /\ handlers[SessionOf[j]] = "live"
                /\ conn[SessionOf[j]] = "open"
             THEN [sent EXCEPT ![j] = @ + 1] ELSE sent
  /\ UNCHANGED <<sessionVars, chunks, stage, canceled, toSend, files, fileGen, deletes, pending,
                 isStopping, spc>>

\* ... which is read once the lock is released; by then close_session may have
\* erased the entry.
SendResponse(j) ==
  /\ At(j, "reply") /\ usesHandler[j]
  /\ usesHandler' = [usesHandler EXCEPT ![j] = FALSE]
  /\ toSend' = [toSend EXCEPT ![j] = @ - 1]
  /\ broken' = (SessionOf[j] \notin DOMAIN handlers)
  /\ sent' = IF /\ SessionOf[j] \in DOMAIN handlers /\ handlers[SessionOf[j]] = "live"
                /\ conn[SessionOf[j]] = "open"
             THEN [sent EXCEPT ![j] = @ + 1] ELSE sent
  /\ UNCHANGED <<sessionVars, chunks, stage, canceled, files, fileGen, deletes, pending,
                 isStopping, spc>>

\* All is sent, or the job was canceled: what is left is not sent.
RepliesDone(j) ==
  /\ At(j, "reply") /\ ~usesHandler[j] /\ (toSend[j] = 0 \/ canceled[j])
  /\ Goto(j, "tell") /\ toSend' = [toSend EXCEPT ![j] = 0]
  /\ UNCHANGED <<sessionVars, chunks, canceled, usesHandler, sent, files, fileGen, deletes,
                 pending, isStopping, spc, broken>>

\* The end of process(): the pool is told, and deletes the job once the job's
\* final lock is released.
NotifyJobDone(j) ==
  /\ At(j, "tell")
  /\ Goto(j, "told")
  /\ UNCHANGED <<sessionVars, chunks, canceled, toSend, usesHandler, sent, files, fileGen,
                 deletes, pending, isStopping, spc, broken>>

\* The job is deleted, and its files with it.
DeleteJob(j) ==
  /\ At(j, "told")
  /\ Goto(j, "retired") /\ Delete({j})
  /\ files' = IF fileGen[j] THEN files \ {j} ELSE files
  /\ UNCHANGED <<sessionVars, chunks, canceled, toSend, usesHandler, sent, fileGen, pending,
                 isStopping, spc>>

JobStep(j) ==
  \/ Execute(j) \/ StoreTextToFile(j) \/ CallProcessorScript(j) \/ ProcessScriptResults(j)
  \/ GetSessionHdl(j) \/ SendResponse(j) \/ RepliesDone(j)
  \/ NotifyJobDone(j) \/ DeleteJob(j)

-----------------------------------------------------------------------------
(* stop(), and the end of the manager                                      *)

\* The incomplete jobs of all sessions are canceled, and deleted.
StopBegin ==
  /\ ~broken /\ spc = "run"
  /\ isStopping' = TRUE /\ spc' = "cancelAll"
  /\ LET incomplete == UNION {pending[s] : s \in Sessions}
     IN Cancel(incomplete) /\ Delete(incomplete)
  /\ UNCHANGED <<sessionVars, chunks, stage, toSend, usesHandler, sent, files, fileGen, pending>>

\* session_job_pool_base::stop: all the planned ones are canceled ...
StopCancelAll ==
  /\ ~broken /\ spc = "cancelAll" /\ spc' = "wait"
  /\ Cancel({j \in Jobs : Planned(j)})
  /\ UNCHANGED <<sessionVars, chunks, stage, toSend, usesHandler, sent, files, fileGen, deletes,
                 pending, isStopping, broken>>

\* ... and waited for.
StopJoin ==
  /\ ~broken /\ spc = "wait" /\ spc' = "stopped"
  /\ \A j \in Jobs : ~Planned(j)
  /\ UNCHANGED <<sessionVars, jobVars, pending, isStopping, broken>>

\* The manager's destructor deletes what m_sessions holds.
Destroy ==
  /\ ~broken /\ spc = "stopped" /\ lpc = "idle" /\ spc' = "gone"
  /\ Delete(UNION {pending[s] : s \in Sessions})
  /\ UNCHANGED <<sessionVars, chunks, stage, canceled, toSend, usesHandler, sent, files, fileGen,
                 pending, isStopping>>

Terminated == (broken \/ spc = "gone") /\ UNCHANGED vars

Next ==
  \/ \E s \in Sessions : OpenSession(s) \/ ClientLeaves(s) \/ CloseSession(s)
  \/ CancelIncompJobs \/ CancelJobs
  \/ \E j \in Jobs : Process(j) \/ JobStep(j)
  \/ StopBegin \/ StopCancelAll \/ StopJoin \/ Destroy
  \/ Terminated

Spec == Init /\ [][Next]_vars

\* The threads of the jobs, of the closing of a session and of stop() go on;
\* nobody has to send a chunk, leave, or stop the server.
Fairness ==
  /\ \A j \in Jobs : WF_vars(JobStep(j))
  /\ WF_vars(CancelIncompJobs \/ CancelJobs)
  /\ WF_vars(StopCancelAll \/ StopJoin)

FairSpec == Spec /\ Fairness

-----------------------------------------------------------------------------
(* Properties *)

Complete(j) == chunks[j] = NumChunks

\* A complete job belongs to the job pool alone: no session's entry has its
\* pointer any more, it is deleted once and when it is retired, whichever of
\* stop(), the closing of its session and its own end come together; and its
\* files go with it, also if it was canceled halfway.  (CompleteJobScheduled is
\* about the jobs that the pool never gets, DeletedOnce about the ones that are
\* not complete.)
CompleteJobsDeletedOnce ==
  \A j \in Jobs : Complete(j) =>
    /\ j \notin pending[SessionOf[j]]
    /\ deletes[j] = IF stage[j] = "retired" THEN 1 ELSE 0
    /\ stage[j] = "retired" => j \notin files /\ ~usesHandler[j]

\* With its last chunk a job goes to the job pool.  Violated: process() erases
\* the job's entry and then reads the pointer that it plans from it.
CompleteJobScheduled == \A j \in Jobs : Complete(j) => stage[j] # "collecting"

\* No job is deleted twice, the incomplete ones included.  Violated:
\* cancel_incomp_jobs copies the session's data, the copy's destructor deletes
\* the jobs, and the entry keeps their pointers for stop() or the destructor.
DeletedOnce == \A j \in Jobs : deletes[j] <= 1

\* Once the closing of a session is over, all of its jobs are canceled that are
\* planned or incomplete; a script may still be started for one that had looked
\* at m_is_canceled before.  The two maps of the sessions agree: an open session
\* has a handle, and a closed one at most the empty entry that a job's last
\* reply made, so that no reply goes to another connection.
ClosedSessionsForgotten ==
  /\ \A s \in opened : s \in DOMAIN handlers /\ handlers[s] = "live"
  /\ \A s \in Sessions \ opened :
       /\ s \in DOMAIN handlers => conn[s] = "left" /\ handlers[s] = "empty"
       /\ conn[s] = "left" /\ closing # s =>
            \A j \in Jobs : SessionOf[j] = s /\ (Planned(j) \/ j \in pending[s]) => canceled[j]

\* The client is there, and all that its job has to send to it is nothing.
EmptyOutput(j) ==
  stage[j] = "reply" /\ toSend[j] = 0 /\ sent[j] = 0 /\ conn[SessionOf[j]] = "open"

\* A complete job is executed to its end, and stop(), which holds the lock of
\* the sessions meanwhile, returns; unless the process is broken.  A planned job
\* tells its client, if the client is still there, nobody calls stop() and the
\* script's output is not empty.
JobsEndAndStopReturns ==
  /\ spc = "cancelAll" ~> broken \/ spc \in {"stopped", "gone"}
  /\ \A j \in Jobs :
       /\ Complete(j) ~> broken \/ stage[j] = "retired"
       /\ stage[j] = "queued" ~> \/ broken \/ EmptyOutput(j)
                                 \/ sent[j] > 0 \/ isStopping \/ conn[SessionOf[j]] = "left"

\* A job that was not canceled has told its client when it ends.  Violated: for
\* an empty output process_utf8_chunks sends nothing, and does not throw.
EndedJobAnswered ==
  \A j \in Jobs : stage[j] = "retired" /\ ~canceled[j] /\ conn[SessionOf[j]] = "open" => sent[j] > 0
=============================================================================
