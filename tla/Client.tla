------------------------------- MODULE Client -------------------------------
(***************************************************************************)
(* The translation client: inc/client/client_manager.hpp and its           *)
(* trans_manager.hpp, over the websocket client of generic_client.hpp.     *)
(*                                                                         *)
(* Threads: Main runs start(), wait() and stop(); Sender, which start()    *)
(* creates, sends the requests in order; Io is the asio thread of the      *)
(* current generic_client and runs its callbacks.                          *)
(*                                                                         *)
(* The text of a job and of its response are left out: a job is a number   *)
(* in the order of m_jobs_list, a response is present or not.              *)
(***************************************************************************)
EXTENDS Naturals, FiniteSets

CONSTANTS
  NumJobs,      \* length of m_jobs_list
  MaxAttempts,  \* MAX_NUM_CONNECTION_ATTEMPTS
  MaxSpurious   \* bound of this model: spurious wakeups of Main

ASSUME BoundsType == NumJobs \in Nat /\ MaxAttempts \in Nat /\ MaxSpurious \in Nat

Jobs == 1..NumJobs

VARIABLES
  main, sender, io, \* where the threads are
  attempt,          \* attempts to connect so far
  flags,            \* m_opened and m_closed: "connecting", "open" or "closed"
  link,             \* the library's connection: "down", "up", "lost" when the
                    \* server ended it, "cut" when disconnect() did
  wire,             \* requests the server has and has not answered
  ptr,              \* is m_sending_thread_ptr set?
  joining, joined,  \* the threads inside join() of the sender; has one returned?
  next,             \* the request the sender deals with
  msg,              \* the response Io deals with
  stopping,         \* m_is_stopping
  allSent, allDone, \* m_is_all_jobs_sent, m_is_all_jobs_done
  numDone,          \* m_num_done_jobs
  expected,         \* m_exp_num_resp
  status, response, \* m_status and whether m_response is set, of each job
  written,          \* the jobs whose response process_results has written
  spurious          \* spurious wakeups so far

connVars == <<attempt, flags, link, wire>>
joinVars == <<ptr, joining, joined>>
doneVars == <<allSent, allDone, numDone, expected>>
jobVars == <<status, response, written>>
vars == <<main, sender, io, connVars, joinVars, next, msg, stopping, doneVars, jobVars, spurious>>

\* The values the variables may have; only requests that were sent can be with
\* the server, and no more responses are counted than were asked for.
TypeOK ==
  /\ main \in {"start", "connect", "create", "store", "waitSent", "waitDone", "stop", "join",
               "disconnect", "joinIo", "process", "ended", "gaveUp", "crashed"}
  /\ sender \in {"none", "loop", "sent", "notify", "check", "ended"}
  /\ io \in {"none", "loop", "count", "set", "check", "closed", "join", "done", "ended"}
  /\ attempt \in 0..MaxAttempts /\ flags \in {"connecting", "open", "closed"}
  /\ link \in {"down", "up", "lost", "cut"}
  /\ wire \subseteq 1..next /\ wire \subseteq Jobs
  /\ {ptr, joined, stopping, allSent, allDone} \subseteq BOOLEAN
  /\ joining \subseteq {"main", "io"}
  /\ next \in 1..NumJobs + 1 /\ msg \in 0..NumJobs
  /\ {numDone, expected} \subseteq 0..NumJobs /\ numDone + Cardinality(wire) <= NumJobs
  /\ status \in [Jobs -> {"INITIALIZED", "SENT_GOOD", "SENT_FAIL", "RECEIVED"}]
  /\ response \in [Jobs -> BOOLEAN] /\ written \subseteq Jobs
  /\ spurious \in 0..MaxSpurious

Init ==
  /\ main = "start" /\ sender = "none" /\ io = "none"
  /\ attempt = 0 /\ flags = "closed" /\ link = "down" /\ wire = {}
  /\ ptr = FALSE /\ joining = {} /\ joined = FALSE
  /\ next = 1 /\ msg = 0 /\ stopping = FALSE
  /\ allSent = FALSE /\ allDone = FALSE /\ numDone = 0 /\ expected = 0
  /\ status = [j \in Jobs |-> "INITIALIZED"] /\ response = [j \in Jobs |-> FALSE]
  /\ written = {} /\ spurious = 0

-----------------------------------------------------------------------------
(* join() of the sending thread, by stop() and by notify_conn_closed.  Two   *)
(* threads that join one thread are undefined behaviour; the builds throw a  *)
(* system_error that nobody on the asio thread catches.                      *)
BeginJoin(t) == joining = {} /\ joining' = {t}
EndJoin(t) == sender = "ended" /\ t \in joining /\ joining' = {} /\ joined' = TRUE

DoubleJoin ==
  /\ (main = "join" /\ "io" \in joining) \/ (io = "join" /\ "main" \in joining)
  /\ main' = "crashed" /\ io' = "ended" /\ sender' = "ended"
  /\ UNCHANGED <<connVars, joinVars, next, msg, stopping, doneVars, jobVars, spurious>>

-----------------------------------------------------------------------------
(* Main: start, wait, stop *)
\* create_client, after the previous client, if any, is closed and deleted
Connect ==
  /\ main = "start" /\ io \in {"none", "ended"}
  /\ main' = "connect" /\ io' = "loop" /\ flags' = "connecting" /\ link' = "down"
  /\ UNCHANGED <<sender, attempt, wire, joinVars, next, msg, stopping, doneVars, jobVars, spurious>>

\* wait_connect
Connected ==
  /\ main = "connect" /\ flags # "connecting"
  /\ \/ flags = "open" /\ main' = "create" /\ UNCHANGED attempt
     \/ flags = "closed" /\ attempt < MaxAttempts /\ main' = "start" /\ attempt' = attempt + 1
     \/ flags = "closed" /\ attempt = MaxAttempts /\ main' = "gaveUp" /\ UNCHANGED attempt
  /\ UNCHANGED <<sender, io, flags, link, wire, joinVars, next, msg, stopping, doneVars, jobVars, spurious>>

\* new thread(send_requests) ...
CreateSender ==
  /\ main = "create"
  /\ main' = "store" /\ sender' = "loop"
  /\ UNCHANGED <<io, connVars, joinVars, next, msg, stopping, doneVars, jobVars, spurious>>

\* ... and only then the pointer is stored
StorePointer ==
  /\ main = "store"
  /\ main' = "waitSent" /\ ptr' = TRUE
  /\ UNCHANGED <<sender, io, connVars, joining, joined, next, msg, stopping, doneVars, jobVars, spurious>>

WaitEnds ==
  /\ \/ main = "waitSent" /\ allSent /\ main' = "waitDone"
     \/ main = "waitDone" /\ allDone /\ main' = "stop"
  /\ UNCHANGED <<sender, io, connVars, joinVars, next, msg, stopping, doneVars, jobVars, spurious>>

\* The loops go on after a time out only: any other return of wait_for ends them.
SpuriousWakeup ==
  /\ spurious < MaxSpurious /\ spurious' = spurious + 1
  /\ \/ main = "waitSent" /\ main' = "waitDone"
     \/ main = "waitDone" /\ main' = "stop"
  /\ UNCHANGED <<sender, io, connVars, joinVars, next, msg, stopping, doneVars, jobVars>>

Stop ==
  /\ main = "stop"
  /\ stopping' = TRUE /\ main' = IF joined THEN "disconnect" ELSE "join"
  /\ UNCHANGED <<sender, io, connVars, joinVars, next, msg, doneVars, jobVars, spurious>>

StopJoins ==
  /\ main = "join"
  /\ \/ BeginJoin("main") /\ ~joined /\ UNCHANGED <<main, joined>>
     \/ EndJoin("main") /\ main' = "disconnect"
     \/ joining = {} /\ joined /\ main' = "disconnect" /\ UNCHANGED <<joining, joined>>
  /\ UNCHANGED <<sender, io, connVars, ptr, next, msg, stopping, doneVars, jobVars, spurious>>

\* Mutant: the asio thread is not joined.
DisconnectOnly ==
  /\ main = "disconnect"
  /\ main' = "process"
  /\ flags' = IF flags = "open" THEN "closed" ELSE flags
  /\ link' = IF flags = "open" /\ link = "up" THEN "cut" ELSE link
  /\ UNCHANGED <<sender, io, attempt, wire, joinVars, next, msg, stopping, doneVars, jobVars, spurious>>

\* generic_client::disconnect closes an open connection, ...
Disconnect ==
  /\ main = "disconnect"
  /\ main' = "joinIo"
  /\ flags' = IF flags = "open" THEN "closed" ELSE flags
  /\ link' = IF flags = "open" /\ link = "up" THEN "cut" ELSE link
  /\ UNCHANGED <<sender, io, attempt, wire, joinVars, next, msg, stopping, doneVars, jobVars, spurious>>

\* ... stops the asio service, which makes the thread leave its loop, and joins it.
JoinIo ==
  /\ main = "joinIo" /\ io \in {"loop", "ended"}
  /\ main' = "process" /\ io' = "ended"
  /\ UNCHANGED <<sender, connVars, joinVars, next, msg, stopping, doneVars, jobVars, spurious>>

ProcessResults ==
  /\ main = "process"
  /\ main' = "ended" /\ written' = {j \in Jobs : status[j] = "RECEIVED"}
  /\ UNCHANGED <<sender, io, connVars, joinVars, next, msg, stopping, doneVars, status, response, spurious>>

-----------------------------------------------------------------------------
(* Sender: trans_manager::send_job_requests, then client_manager::send_requests *)
\* client.send of the next request, which throws on a connection that is gone
SendRequest ==
  /\ sender = "loop" /\ next <= NumJobs /\ ~stopping
  /\ IF link = "up"
     THEN wire' = wire \cup {next} /\ sender' = "sent" /\ UNCHANGED <<next, status>>
     ELSE /\ status' = [status EXCEPT ![next] = "SENT_FAIL"] /\ next' = next + 1
          /\ UNCHANGED <<wire, sender>>
  /\ UNCHANGED <<main, io, attempt, flags, link, joinVars, msg, stopping, doneVars, response,
                 written, spurious>>

\* Mutant: the loop does not go on to the next job.
MarkSentAgain ==
  /\ sender = "sent"
  /\ status' = [status EXCEPT ![next] = "SENT_GOOD"] /\ expected' = expected + 1
  /\ sender' = "loop"
  /\ UNCHANGED <<main, io, connVars, joinVars, next, msg, stopping, allSent, allDone, numDone,
                 response, written, spurious>>

\* The status is written once the request is out; the response may have come.
MarkSent ==
  /\ sender = "sent"
  /\ status' = [status EXCEPT ![next] = "SENT_GOOD"] /\ expected' = expected + 1
  /\ next' = next + 1 /\ sender' = "loop"
  /\ UNCHANGED <<main, io, connVars, joinVars, msg, stopping, allSent, allDone, numDone,
                 response, written, spurious>>

SendEnds ==
  /\ sender = "loop" /\ (next > NumJobs \/ stopping)
  /\ sender' = "notify"
  /\ UNCHANGED <<main, io, connVars, joinVars, next, msg, stopping, doneVars, jobVars, spurious>>

NotifyJobsSent ==
  /\ sender = "notify"
  /\ allSent' = TRUE /\ sender' = "check"
  /\ UNCHANGED <<main, io, connVars, joinVars, next, msg, stopping, allDone, numDone, expected,
                 jobVars, spurious>>

\* Mutant: only the number of responses is looked at.
DoneByCount == allDone \/ numDone >= expected

\* check_jobs_done_and_notify
Done == allDone \/ (allSent /\ numDone >= expected)

\* Mutant: send_requests does not look whether all responses have come.
SenderNoCheck ==
  /\ sender = "check"
  /\ sender' = "ended"
  /\ UNCHANGED <<main, io, connVars, joinVars, next, msg, stopping, doneVars, jobVars, spurious>>

SenderChecks ==
  /\ sender = "check"
  /\ allDone' = Done /\ sender' = "ended"
  /\ UNCHANGED <<main, io, connVars, joinVars, next, msg, stopping, allSent, numDone, expected,
                 jobVars, spurious>>

-----------------------------------------------------------------------------
(* Io: the callbacks of generic_client *)
OnOpen ==
  /\ io = "loop" /\ flags = "connecting"
  /\ flags' = "open" /\ link' = "up"
  /\ UNCHANGED <<main, sender, io, attempt, wire, joinVars, next, msg, stopping, doneVars, jobVars,
                 spurious>>

OnFail ==
  /\ io = "loop" /\ flags = "connecting"
  /\ flags' = "closed" /\ io' = "closed"
  /\ UNCHANGED <<main, sender, attempt, link, wire, joinVars, next, msg, stopping, doneVars,
                 jobVars, spurious>>

\* The server answers a request: on_message, notify_new_msg
OnMessage(j) ==
  /\ io = "loop" /\ link = "up" /\ j \in wire
  /\ wire' = wire \ {j} /\ msg' = j /\ numDone' = numDone + 1 /\ io' = "count"
  /\ UNCHANGED <<main, sender, attempt, flags, link, joinVars, next, stopping, allSent, allDone,
                 expected, jobVars, spurious>>

TestStopping ==
  /\ io = "count"
  /\ io' = IF stopping THEN "loop" ELSE "set"
  /\ UNCHANGED <<main, sender, connVars, joinVars, next, msg, stopping, doneVars, jobVars, spurious>>

SetJobResponse ==
  /\ io = "set"
  /\ response' = [response EXCEPT ![msg] = TRUE]
  /\ status' = [status EXCEPT ![msg] = "RECEIVED"]
  /\ io' = "check"
  /\ UNCHANGED <<main, sender, connVars, joinVars, next, msg, stopping, doneVars, written, spurious>>

IoChecks ==
  /\ io = "check"
  /\ allDone' = Done /\ io' = "loop"
  /\ UNCHANGED <<main, sender, connVars, joinVars, next, msg, stopping, allSent, numDone, expected,
                 jobVars, spurious>>

\* The server, or the network, ends the connection.
ConnectionLost ==
  /\ link = "up"
  /\ link' = "lost"
  /\ UNCHANGED <<main, sender, io, attempt, flags, wire, joinVars, next, msg, stopping, doneVars,
                 jobVars, spurious>>

OnClose ==
  /\ io = "loop" /\ link \in {"lost", "cut"}
  /\ flags' = "closed" /\ io' = "closed"
  /\ UNCHANGED <<main, sender, attempt, link, wire, joinVars, next, msg, stopping, doneVars, jobVars,
                 spurious>>

\* notify_conn_closed, which does nothing before the pointer is stored.  The
\* event loop has nothing left to do after it.
NotifyConnClosed ==
  /\ io = "closed"
  /\ IF ptr THEN stopping' = TRUE /\ io' = IF joined THEN "done" ELSE "join"
            ELSE io' = "ended" /\ UNCHANGED stopping
  /\ UNCHANGED <<main, sender, connVars, joinVars, next, msg, doneVars, jobVars, spurious>>

IoJoins ==
  /\ io = "join"
  /\ \/ BeginJoin("io") /\ ~joined /\ UNCHANGED <<io, joined>>
     \/ EndJoin("io") /\ io' = "done"
     \/ joining = {} /\ joined /\ io' = "done" /\ UNCHANGED <<joining, joined>>
  /\ UNCHANGED <<main, sender, connVars, ptr, next, msg, stopping, doneVars, jobVars, spurious>>

NotifyJobsDone ==
  /\ io = "done"
  /\ allDone' = TRUE /\ io' = "ended"
  /\ UNCHANGED <<main, sender, connVars, joinVars, next, msg, stopping, allSent, numDone, expected,
                 jobVars, spurious>>

-----------------------------------------------------------------------------
MainStep ==
  \/ Connect \/ Connected \/ CreateSender \/ StorePointer \/ WaitEnds
  \/ Stop \/ StopJoins \/ Disconnect \/ JoinIo \/ ProcessResults
SenderStep == SendRequest \/ MarkSent \/ SendEnds \/ NotifyJobsSent \/ SenderChecks
IoStep ==
  \/ OnOpen \/ OnFail \/ TestStopping \/ SetJobResponse \/ IoChecks
  \/ OnClose \/ NotifyConnClosed \/ IoJoins \/ NotifyJobsDone
ServerStep == \E j \in Jobs : OnMessage(j)

Next ==
  \/ MainStep \/ SenderStep \/ IoStep \/ ServerStep
  \/ SpuriousWakeup \/ DoubleJoin \/ ConnectionLost

Spec == Init /\ [][Next]_vars

(***************************************************************************)
(* Fairness: the threads run, an attempt to connect ends, and the server   *)
(* answers what it was sent unless the connection is lost.                 *)
(***************************************************************************)
FairSpec ==
  /\ Spec /\ WF_vars(MainStep) /\ WF_vars(SenderStep) /\ WF_vars(IoStep) /\ WF_vars(ServerStep)

-----------------------------------------------------------------------------
(* Properties *)

\* wait() returns only when the response to every request that went out has been
\* accepted or is just being handled, unless the connection was lost or the wait
\* ended by a spurious wakeup: the counters that two threads change never make it
\* return before a response has come.
Accepted(j) == status[j] = "SENT_FAIL" \/ response[j]
Regular == link # "lost" /\ spurious = 0
WaitEndsCounted ==
  main = "stop" /\ Regular =>
    \A j \in Jobs : Accepted(j) \/ (io \in {"count", "set"} /\ msg = j)

\* "If we received all the jobs then notify that all the jobs are received!": once
\* the client is done, every response is accepted.
EndsComplete == main = "ended" /\ Regular => \A j \in Jobs : Accepted(j)

\* "The finished translation jobs are collected and once all of them are finished
\* the resulting text is written": a response the client has accepted is in the
\* output, also when the client stops early, unless it overtakes the sender on
\* its way from sending the request to noting that it was sent.
Overtakes == sender = "sent" /\ io = "set" /\ msg = next
FinishedJobsWritten ==
  [](~Overtakes) => [](main = "ended" => \A j \in Jobs : response[j] => j \in written)

\* wait() returns, whether the server answers or the connection is lost, unless
\* it is lost after the sender was created and before its pointer was stored
\* (the client has then not been told), or the double join ends the process.
LossMissed == io = "closed" /\ main = "store"
WaitReturns ==
  [](~LossMissed) => (main = "waitSent" ~> main \in {"stop", "crashed"})
=============================================================================
