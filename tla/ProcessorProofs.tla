--------------------------- MODULE ProcessorProofs ---------------------------
(***************************************************************************)
(* Theorems about the text processor, for every set of sessions and jobs   *)
(* and any number of chunks.                                               *)
(*                                                                         *)
(* None of the properties is inductive.  That a complete job is deleted    *)
(* once depends on who owns a job before its last chunk (OwnInv) and on    *)
(* the fact that no chunk arrives any more once the incomplete jobs of its *)
(* session were deleted (DeleteInv); that closed sessions are forgotten on *)
(* the order in which the asio thread opens and closes them (SessionInv)   *)
(* and on what it has canceled halfway (ClosedInv).                        *)
(***************************************************************************)
EXTENDS Processor, TLAPS

\* The session's entry has the jobs that wait for chunks, the pool the others.
OwnInv ==
  \A j \in Jobs :
    /\ stage[j] # "collecting" => Complete(j)
    /\ ~broken /\ Complete(j) => stage[j] # "collecting"
    /\ \A s \in Sessions : j \in pending[s] => SessionOf[j] = s /\ stage[j] = "collecting" /\ ~Complete(j)
    /\ conn[SessionOf[j]] = "none" => stage[j] = "collecting" /\ j \notin pending[SessionOf[j]]

\* Can a chunk of the job still arrive?
Receiving(j) ==
  /\ stage[j] = "collecting" /\ ~isStopping
  /\ SessionOf[j] \in opened \/ conn[SessionOf[j]] = "none"

DeleteInv ==
  \A j \in Jobs :
    /\ Complete(j) => deletes[j] = IF stage[j] = "retired" THEN 1 ELSE 0
    /\ Receiving(j) => deletes[j] = 0
    /\ ~broken => deletes[j] <= 1

ReplyInv ==
  \A j \in Jobs :
    /\ usesHandler[j] => stage[j] = "reply" /\ toSend[j] > 0
    /\ stage[j] = "reply" => sent[j] + toSend[j] <= NumReplies
    /\ stage[j] \in {"collecting", "queued", "store", "call", "script"} => sent[j] = 0
    /\ j \in files => fileGen[j] /\ stage[j] # "retired"

SessionInv ==
  /\ isStopping <=> spc # "run"
  /\ closing # NoSession => conn[closing] = "left" /\ closing \notin opened
  /\ \A s \in Sessions :
       /\ conn[s] = "none" => s \notin opened
       /\ conn[s] = "open" => s \in opened
       /\ s \in opened => s \in DOMAIN handlers /\ handlers[s] = "live"
       /\ s \notin opened /\ s \in DOMAIN handlers => conn[s] = "left" /\ handlers[s] = "empty"

\* The jobs that the closing of their session has canceled by now.
ClosedInv ==
  \A j \in Jobs :
    conn[SessionOf[j]] = "left" /\ SessionOf[j] \notin opened =>
      /\ (closing # SessionOf[j] \/ lpc = "cancelJobs") /\ j \in pending[SessionOf[j]] => canceled[j]
      /\ closing # SessionOf[j] /\ Planned(j) => canceled[j]

IInv == TypeOK /\ OwnInv /\ DeleteInv /\ ReplyInv /\ SessionInv /\ ClosedInv

-----------------------------------------------------------------------------
LEMMA InitIInv == Init => IInv
<1> SUFFICES ASSUME Init PROVE IInv
  OBVIOUS
<1> USE ProcessorAssumption DEF Init
<1>1. TypeOK
  <2>1. DOMAIN handlers = {}
    OBVIOUS
  <2>2. pending \in [Sessions -> SUBSET Jobs] /\ files \subseteq Jobs
    OBVIOUS
  <2>3. toSend \in [Jobs -> Nat] /\ chunks \in [Jobs -> 0..NumChunks] /\ sent \in [Jobs -> 0..NumReplies]
    OBVIOUS
  <2>4. conn \in [Sessions -> {"none", "open", "left"}] /\ stage \in [Jobs -> Stages]
    BY DEF Stages
  <2>5. /\ canceled \in [Jobs -> BOOLEAN] /\ usesHandler \in [Jobs -> BOOLEAN]
        /\ fileGen \in [Jobs -> BOOLEAN] /\ isStopping \in BOOLEAN /\ broken \in BOOLEAN
    BY Zenon
  <2>6. deletes \in [Jobs -> 0..2] /\ opened \subseteq Sessions
    OBVIOUS
  <2>7. /\ closing \in Sessions \cup {NoSession}
        /\ lpc \in {"idle", "cancelIncomp", "cancelJobs"} /\ (closing = NoSession <=> lpc = "idle")
        /\ spc \in {"run", "cancelAll", "wait", "stopped", "gone"}
    OBVIOUS
  <2>8. QED
    BY <2>1, <2>2, <2>3, <2>4, <2>5, <2>6, <2>7 DEF TypeOK
<1>2. OwnInv /\ ReplyInv
  BY DEF OwnInv, ReplyInv, Complete
<1>3. DeleteInv /\ SessionInv
  BY DEF DeleteInv, SessionInv
<1>4. ClosedInv
  BY DEF ClosedInv
<1>5. QED
  BY <1>1, <1>2, <1>3, <1>4 DEF IInv

LEMMA TypeStep ==
  ASSUME TypeOK, DeleteInv, ReplyInv, [Next]_vars
  PROVE  TypeOK'
<1> USE DEF sessionVars, jobVars, TypeOK, Stages
<1> USE ProcessorAssumption
<1>1. ASSUME NEW s \in Sessions, OpenSession(s) PROVE TypeOK'
  BY <1>1 DEF OpenSession, Listening
<1>2. ASSUME NEW s \in Sessions, ClientLeaves(s) PROVE TypeOK'
  BY <1>2 DEF ClientLeaves
<1>3. ASSUME NEW s \in Sessions, CloseSession(s) PROVE TypeOK'
  BY <1>3 DEF CloseSession, Listening, Restrict
<1>4. ASSUME CancelIncompJobs PROVE TypeOK'
  BY <1>4 DEF CancelIncompJobs, SessionsLockFree, Cancel, Delete, DeleteInv
<1>5. ASSUME CancelJobs PROVE TypeOK'
  BY <1>5 DEF CancelJobs, Cancel, Planned
<1>6. ASSUME NEW j \in Jobs, Process(j) PROVE TypeOK'
  <2>1. chunks' \in [Jobs -> 0..NumChunks] /\ pending' \in [Sessions -> SUBSET Jobs]
    BY <1>6 DEF Process
  <2>2. stage' \in [Jobs -> Stages] /\ broken' \in BOOLEAN
    <3>1. CASE UNCHANGED stage /\ (broken' = TRUE \/ UNCHANGED broken)
      BY <3>1, Zenon
    <3>2. CASE stage' = [stage EXCEPT ![j] = "queued"] /\ UNCHANGED broken
      BY <3>2
    <3>3. QED
      BY <1>6, <3>1, <3>2 DEF Process
  <2>3. QED
    BY <1>6, <2>1, <2>2 DEF Process
<1>7. ASSUME NEW j \in Jobs, Execute(j) PROVE TypeOK'
  BY <1>7 DEF Execute, At, Goto, Reply
<1>8. ASSUME NEW j \in Jobs, StoreTextToFile(j) PROVE TypeOK'
  <2>1. stage' \in [Jobs -> Stages]
    BY <1>8 DEF StoreTextToFile, At, Goto, Reply
  <2>2. toSend' \in [Jobs -> Nat]
    BY <1>8 DEF StoreTextToFile, At, Goto, Reply
  <2>3. files' \subseteq Jobs
    BY <1>8 DEF StoreTextToFile, At
  <2>4. fileGen' \in [Jobs -> BOOLEAN]
    BY <1>8 DEF StoreTextToFile, At
  <2>5. QED
    BY <1>8, <2>1, <2>2, <2>3, <2>4 DEF StoreTextToFile
<1>9. ASSUME NEW j \in Jobs, CallProcessorScript(j) PROVE TypeOK'
  <2>1. stage' \in [Jobs -> Stages]
    BY <1>9 DEF CallProcessorScript, At, Goto, Reply
  <2>2. toSend' \in [Jobs -> Nat]
    BY <1>9 DEF CallProcessorScript, At, Goto, Reply
  <2>3. files' \subseteq Jobs
    BY <1>9 DEF CallProcessorScript, At
  <2>4. fileGen' \in [Jobs -> BOOLEAN]
    BY <1>9 DEF CallProcessorScript, At
  <2>5. QED
    BY <1>9, <2>1, <2>2, <2>3, <2>4 DEF CallProcessorScript
<1>10. ASSUME NEW j \in Jobs, GetSessionHdl(j) PROVE TypeOK'
  BY <1>10 DEF GetSessionHdl, At
<1>11. ASSUME NEW j \in Jobs, SendResponse(j) PROVE TypeOK'
  <2>1. toSend[j] \in Nat \ {0} /\ sent[j] < NumReplies /\ sent[j] \in Nat
    BY <1>11 DEF SendResponse, At, ReplyInv
  <2>2. toSend' \in [Jobs -> Nat]
    BY <1>11, <2>1, SMTT(30) DEF SendResponse
  <2>3. sent[j] + 1 \in 0..NumReplies
    BY <2>1
  <2>4. sent' \in [Jobs -> 0..NumReplies]
    BY <1>11, <2>3 DEF SendResponse
  <2>5. broken' \in BOOLEAN
    BY <1>11 DEF SendResponse
  <2>6. QED
    BY <1>11, <2>2, <2>4, <2>5 DEF SendResponse
<1>12. ASSUME NEW j \in Jobs, RepliesDone(j) PROVE TypeOK'
  BY <1>12 DEF RepliesDone, At, Goto
<1>13. ASSUME NEW j \in Jobs, NotifyJobDone(j) PROVE TypeOK'
  BY <1>13 DEF NotifyJobDone, At, Goto
<1>14. ASSUME NEW j \in Jobs, DeleteJob(j) PROVE TypeOK'
  BY <1>14 DEF DeleteJob, At, Goto, Delete, DeleteInv
<1>15. ASSUME StopBegin PROVE TypeOK'
  BY <1>15 DEF StopBegin, Cancel, Delete, DeleteInv
<1>16. ASSUME StopCancelAll PROVE TypeOK'
  BY <1>16 DEF StopCancelAll, Cancel, Planned
<1>17. ASSUME StopJoin PROVE TypeOK'
  BY <1>17 DEF StopJoin, Planned
<1>18. ASSUME Destroy PROVE TypeOK'
  BY <1>18 DEF Destroy, Delete, DeleteInv
<1>19. CASE UNCHANGED vars
  BY <1>19 DEF vars
<1>20. ASSUME NEW j \in Jobs, ProcessScriptResults(j) PROVE TypeOK'
  <2>1. stage' \in [Jobs -> Stages] /\ toSend' \in [Jobs -> Nat]
    BY <1>20 DEF ProcessScriptResults, Goto, Reply
  <2>2. files' \subseteq Jobs
    BY <1>20 DEF ProcessScriptResults
  <2>3. fileGen' \in [Jobs -> BOOLEAN]
    BY <1>20 DEF ProcessScriptResults
  <2>4. QED
    BY <1>20, <2>1, <2>2, <2>3 DEF ProcessScriptResults
<1>21. QED
  BY <1>1, <1>2, <1>3, <1>4, <1>5, <1>6, <1>7, <1>8, <1>9, <1>10, <1>11, <1>12, <1>13, <1>14, <1>15, <1>16, <1>17, <1>18, <1>19, <1>20 DEF Next, JobStep, Terminated

LEMMA OwnStep ==
  ASSUME TypeOK, OwnInv, SessionInv, [Next]_vars
  PROVE  OwnInv'
<1> USE DEF sessionVars, jobVars, OwnInv, Complete
<1> USE ProcessorAssumption DEF TypeOK, Stages, SessionInv
<1>1. ASSUME NEW s \in Sessions, OpenSession(s) PROVE OwnInv'
  BY <1>1 DEF OpenSession, Listening
<1>2. ASSUME NEW s \in Sessions, ClientLeaves(s) PROVE OwnInv'
  BY <1>2 DEF ClientLeaves
<1>3. ASSUME NEW s \in Sessions, CloseSession(s) PROVE OwnInv'
  BY <1>3 DEF CloseSession, Listening, Restrict
<1>4. ASSUME CancelIncompJobs PROVE OwnInv'
  BY <1>4 DEF CancelIncompJobs, SessionsLockFree, Cancel, Delete
<1>5. ASSUME CancelJobs PROVE OwnInv'
  BY <1>5 DEF CancelJobs, Cancel, Planned
<1>6. ASSUME NEW j \in Jobs, Process(j) PROVE OwnInv'
  BY <1>6 DEF Process, Listening, SessionsLockFree
<1>7. ASSUME NEW j \in Jobs, Execute(j) PROVE OwnInv'
  BY <1>7 DEF Execute, At, Goto, Reply
<1>8. ASSUME NEW j \in Jobs, StoreTextToFile(j) PROVE OwnInv'
  BY <1>8 DEF StoreTextToFile, At, Goto, Reply
<1>9. ASSUME NEW j \in Jobs, CallProcessorScript(j) PROVE OwnInv'
  BY <1>9 DEF CallProcessorScript, At, Goto, Reply
<1>10. ASSUME NEW j \in Jobs, GetSessionHdl(j) PROVE OwnInv'
  BY <1>10 DEF GetSessionHdl, At
<1>11. ASSUME NEW j \in Jobs, SendResponse(j) PROVE OwnInv'
  BY <1>11 DEF SendResponse, At
<1>12. ASSUME NEW j \in Jobs, RepliesDone(j) PROVE OwnInv'
  BY <1>12 DEF RepliesDone, At, Goto
<1>13. ASSUME NEW j \in Jobs, NotifyJobDone(j) PROVE OwnInv'
  BY <1>13 DEF NotifyJobDone, At, Goto
<1>14. ASSUME NEW j \in Jobs, DeleteJob(j) PROVE OwnInv'
  BY <1>14 DEF DeleteJob, At, Goto, Delete
<1>15. ASSUME StopBegin PROVE OwnInv'
  BY <1>15 DEF StopBegin, Cancel, Delete
<1>16. ASSUME StopCancelAll PROVE OwnInv'
  BY <1>16 DEF StopCancelAll, Cancel, Planned
<1>17. ASSUME StopJoin PROVE OwnInv'
  BY <1>17 DEF StopJoin, Planned
<1>18. ASSUME Destroy PROVE OwnInv'
  BY <1>18 DEF Destroy, Delete
<1>19. CASE UNCHANGED vars
  BY <1>19 DEF vars
<1>20. ASSUME NEW j \in Jobs, ProcessScriptResults(j) PROVE OwnInv'
  BY <1>20 DEF ProcessScriptResults, At, Goto, Reply
<1>21. QED
  BY <1>1, <1>2, <1>3, <1>4, <1>5, <1>6, <1>7, <1>8, <1>9, <1>10, <1>11, <1>12, <1>13, <1>14, <1>15, <1>16, <1>17, <1>18, <1>19, <1>20 DEF Next, JobStep, Terminated

LEMMA DeleteStep ==
  ASSUME TypeOK, OwnInv, DeleteInv, SessionInv, [Next]_vars
  PROVE  DeleteInv'
<1> USE DEF sessionVars, jobVars, DeleteInv, Receiving
<1> USE ProcessorAssumption DEF TypeOK, Stages, OwnInv, SessionInv, Complete
<1>1. ASSUME NEW s \in Sessions, OpenSession(s) PROVE DeleteInv'
  BY <1>1 DEF OpenSession, Listening
<1>2. ASSUME NEW s \in Sessions, ClientLeaves(s) PROVE DeleteInv'
  BY <1>2 DEF ClientLeaves
<1>3. ASSUME NEW s \in Sessions, CloseSession(s) PROVE DeleteInv'
  BY <1>3 DEF CloseSession, Listening, Restrict
<1>4. ASSUME CancelIncompJobs PROVE DeleteInv'
  BY <1>4 DEF CancelIncompJobs, SessionsLockFree, Cancel, Delete
<1>5. ASSUME CancelJobs PROVE DeleteInv'
  BY <1>5 DEF CancelJobs, Cancel, Planned
<1>6. ASSUME NEW j \in Jobs, Process(j) PROVE DeleteInv'
  BY <1>6 DEF Process, Listening, SessionsLockFree
<1>7. ASSUME NEW j \in Jobs, Execute(j) PROVE DeleteInv'
  BY <1>7 DEF Execute, At, Goto, Reply
<1>8. ASSUME NEW j \in Jobs, StoreTextToFile(j) PROVE DeleteInv'
  BY <1>8 DEF StoreTextToFile, At, Goto, Reply
<1>9. ASSUME NEW j \in Jobs, CallProcessorScript(j) PROVE DeleteInv'
  BY <1>9 DEF CallProcessorScript, At, Goto, Reply
<1>10. ASSUME NEW j \in Jobs, GetSessionHdl(j) PROVE DeleteInv'
  BY <1>10 DEF GetSessionHdl, At
<1>11. ASSUME NEW j \in Jobs, SendResponse(j) PROVE DeleteInv'
  BY <1>11 DEF SendResponse, At
<1>12. ASSUME NEW j \in Jobs, RepliesDone(j) PROVE DeleteInv'
  BY <1>12 DEF RepliesDone, At, Goto
<1>13. ASSUME NEW j \in Jobs, NotifyJobDone(j) PROVE DeleteInv'
  BY <1>13 DEF NotifyJobDone, At, Goto
<1>14. ASSUME NEW j \in Jobs, DeleteJob(j) PROVE DeleteInv'
  BY <1>14 DEF DeleteJob, At, Goto, Delete
<1>15. ASSUME StopBegin PROVE DeleteInv'
  BY <1>15 DEF StopBegin, Cancel, Delete
<1>16. ASSUME StopCancelAll PROVE DeleteInv'
  BY <1>16 DEF StopCancelAll, Cancel, Planned
<1>17. ASSUME StopJoin PROVE DeleteInv'
  BY <1>17 DEF StopJoin, Planned
<1>18. ASSUME Destroy PROVE DeleteInv'
  BY <1>18 DEF Destroy, Delete
<1>19. CASE UNCHANGED vars
  BY <1>19 DEF vars
<1>20. ASSUME NEW j \in Jobs, ProcessScriptResults(j) PROVE DeleteInv'
  BY <1>20 DEF ProcessScriptResults, At, Goto, Reply
<1>21. QED
  BY <1>1, <1>2, <1>3, <1>4, <1>5, <1>6, <1>7, <1>8, <1>9, <1>10, <1>11, <1>12, <1>13, <1>14, <1>15, <1>16, <1>17, <1>18, <1>19, <1>20 DEF Next, JobStep, Terminated

LEMMA ReplyStep ==
  ASSUME TypeOK, OwnInv, ReplyInv, [Next]_vars
  PROVE  ReplyInv'
<1> USE DEF sessionVars, jobVars, ReplyInv
<1> USE ProcessorAssumption DEF TypeOK, Stages, OwnInv, Complete
<1>1. ASSUME NEW s \in Sessions, OpenSession(s) PROVE ReplyInv'
  BY <1>1 DEF OpenSession, Listening
<1>2. ASSUME NEW s \in Sessions, ClientLeaves(s) PROVE ReplyInv'
  BY <1>2 DEF ClientLeaves
<1>3. ASSUME NEW s \in Sessions, CloseSession(s) PROVE ReplyInv'
  BY <1>3 DEF CloseSession, Listening, Restrict
<1>4. ASSUME CancelIncompJobs PROVE ReplyInv'
  BY <1>4 DEF CancelIncompJobs, SessionsLockFree, Cancel, Delete
<1>5. ASSUME CancelJobs PROVE ReplyInv'
  BY <1>5 DEF CancelJobs, Cancel, Planned
<1>6. ASSUME NEW j \in Jobs, Process(j) PROVE ReplyInv'
  BY <1>6 DEF Process, Listening, SessionsLockFree
<1>7. ASSUME NEW j \in Jobs, Execute(j) PROVE ReplyInv'
  BY <1>7 DEF Execute, At, Goto, Reply
<1>8. ASSUME NEW j \in Jobs, StoreTextToFile(j) PROVE ReplyInv'
  BY <1>8 DEF StoreTextToFile, At, Goto, Reply
<1>9. ASSUME NEW j \in Jobs, CallProcessorScript(j) PROVE ReplyInv'
  BY <1>9 DEF CallProcessorScript, At, Goto, Reply
<1>10. ASSUME NEW j \in Jobs, GetSessionHdl(j) PROVE ReplyInv'
  BY <1>10 DEF GetSessionHdl, At
<1>11. ASSUME NEW j \in Jobs, SendResponse(j) PROVE ReplyInv'
  BY <1>11 DEF SendResponse, At
<1>12. ASSUME NEW j \in Jobs, RepliesDone(j) PROVE ReplyInv'
  BY <1>12 DEF RepliesDone, At, Goto
<1>13. ASSUME NEW j \in Jobs, NotifyJobDone(j) PROVE ReplyInv'
  BY <1>13 DEF NotifyJobDone, At, Goto
<1>14. ASSUME NEW j \in Jobs, DeleteJob(j) PROVE ReplyInv'
  BY <1>14 DEF DeleteJob, At, Goto, Delete
<1>15. ASSUME StopBegin PROVE ReplyInv'
  BY <1>15 DEF StopBegin, Cancel, Delete
<1>16. ASSUME StopCancelAll PROVE ReplyInv'
  BY <1>16 DEF StopCancelAll, Cancel, Planned
<1>17. ASSUME StopJoin PROVE ReplyInv'
  BY <1>17 DEF StopJoin, Planned
<1>18. ASSUME Destroy PROVE ReplyInv'
  BY <1>18 DEF Destroy, Delete
<1>19. CASE UNCHANGED vars
  BY <1>19 DEF vars
<1>20. ASSUME NEW j \in Jobs, ProcessScriptResults(j) PROVE ReplyInv'
  BY <1>20 DEF ProcessScriptResults, At, Goto, Reply
<1>21. QED
  BY <1>1, <1>2, <1>3, <1>4, <1>5, <1>6, <1>7, <1>8, <1>9, <1>10, <1>11, <1>12, <1>13, <1>14, <1>15, <1>16, <1>17, <1>18, <1>19, <1>20 DEF Next, JobStep, Terminated

LEMMA SessionStep ==
  ASSUME TypeOK, OwnInv, SessionInv, [Next]_vars
  PROVE  SessionInv'
<1> USE DEF sessionVars, jobVars, SessionInv
<1> USE ProcessorAssumption DEF TypeOK, OwnInv
<1>1. ASSUME NEW s \in Sessions, OpenSession(s) PROVE SessionInv'
  BY <1>1 DEF OpenSession, Listening
<1>2. ASSUME NEW s \in Sessions, ClientLeaves(s) PROVE SessionInv'
  BY <1>2 DEF ClientLeaves
<1>3. ASSUME NEW s \in Sessions, CloseSession(s) PROVE SessionInv'
  BY <1>3 DEF CloseSession, Listening, Restrict
<1>4. ASSUME CancelIncompJobs PROVE SessionInv'
  BY <1>4 DEF CancelIncompJobs, SessionsLockFree, Cancel, Delete
<1>5. ASSUME CancelJobs PROVE SessionInv'
  BY <1>5 DEF CancelJobs, Cancel, Planned
<1>6. ASSUME NEW j \in Jobs, Process(j) PROVE SessionInv'
  BY <1>6 DEF Process, Listening, SessionsLockFree
<1>7. ASSUME NEW j \in Jobs, Execute(j) PROVE SessionInv'
  BY <1>7 DEF Execute, At, Goto, Reply
<1>8. ASSUME NEW j \in Jobs, StoreTextToFile(j) PROVE SessionInv'
  BY <1>8 DEF StoreTextToFile, At, Goto, Reply
<1>9. ASSUME NEW j \in Jobs, CallProcessorScript(j) PROVE SessionInv'
  BY <1>9 DEF CallProcessorScript, At, Goto, Reply
<1>10. ASSUME NEW j \in Jobs, GetSessionHdl(j) PROVE SessionInv'
  BY <1>10 DEF GetSessionHdl, At
<1>11. ASSUME NEW j \in Jobs, SendResponse(j) PROVE SessionInv'
  BY <1>11 DEF SendResponse, At
<1>12. ASSUME NEW j \in Jobs, RepliesDone(j) PROVE SessionInv'
  BY <1>12 DEF RepliesDone, At, Goto
<1>13. ASSUME NEW j \in Jobs, NotifyJobDone(j) PROVE SessionInv'
  BY <1>13 DEF NotifyJobDone, At, Goto
<1>14. ASSUME NEW j \in Jobs, DeleteJob(j) PROVE SessionInv'
  BY <1>14 DEF DeleteJob, At, Goto, Delete
<1>15. ASSUME StopBegin PROVE SessionInv'
  BY <1>15 DEF StopBegin, Cancel, Delete
<1>16. ASSUME StopCancelAll PROVE SessionInv'
  BY <1>16 DEF StopCancelAll, Cancel, Planned
<1>17. ASSUME StopJoin PROVE SessionInv'
  BY <1>17 DEF StopJoin, Planned
<1>18. ASSUME Destroy PROVE SessionInv'
  BY <1>18 DEF Destroy, Delete
<1>19. CASE UNCHANGED vars
  BY <1>19 DEF vars
<1>20. ASSUME NEW j \in Jobs, ProcessScriptResults(j) PROVE SessionInv'
  BY <1>20 DEF ProcessScriptResults, At, Goto, Reply
<1>21. QED
  BY <1>1, <1>2, <1>3, <1>4, <1>5, <1>6, <1>7, <1>8, <1>9, <1>10, <1>11, <1>12, <1>13, <1>14, <1>15, <1>16, <1>17, <1>18, <1>19, <1>20 DEF Next, JobStep, Terminated

LEMMA ClosedStep ==
  ASSUME TypeOK, OwnInv, SessionInv, ClosedInv, [Next]_vars
  PROVE  ClosedInv'
<1> USE DEF sessionVars, jobVars, ClosedInv, Planned
<1> USE ProcessorAssumption DEF TypeOK, OwnInv, SessionInv, Complete
<1>1. ASSUME NEW s \in Sessions, OpenSession(s) PROVE ClosedInv'
  BY <1>1 DEF OpenSession, Listening
<1>2. ASSUME NEW s \in Sessions, ClientLeaves(s) PROVE ClosedInv'
  BY <1>2 DEF ClientLeaves
<1>3. ASSUME NEW s \in Sessions, CloseSession(s) PROVE ClosedInv'
  BY <1>3 DEF CloseSession, Listening, Restrict
<1>4. ASSUME CancelIncompJobs PROVE ClosedInv'
  BY <1>4 DEF CancelIncompJobs, SessionsLockFree, Cancel, Delete
<1>5. ASSUME CancelJobs PROVE ClosedInv'
  BY <1>5 DEF CancelJobs, Cancel, Planned
<1>6. ASSUME NEW j \in Jobs, Process(j) PROVE ClosedInv'
  BY <1>6 DEF Process, Listening, SessionsLockFree
<1>7. ASSUME NEW j \in Jobs, Execute(j) PROVE ClosedInv'
  BY <1>7 DEF Execute, At, Goto, Reply
<1>8. ASSUME NEW j \in Jobs, StoreTextToFile(j) PROVE ClosedInv'
  BY <1>8 DEF StoreTextToFile, At, Goto, Reply
<1>9. ASSUME NEW j \in Jobs, CallProcessorScript(j) PROVE ClosedInv'
  BY <1>9 DEF CallProcessorScript, At, Goto, Reply
<1>10. ASSUME NEW j \in Jobs, GetSessionHdl(j) PROVE ClosedInv'
  BY <1>10 DEF GetSessionHdl, At
<1>11. ASSUME NEW j \in Jobs, SendResponse(j) PROVE ClosedInv'
  BY <1>11 DEF SendResponse, At
<1>12. ASSUME NEW j \in Jobs, RepliesDone(j) PROVE ClosedInv'
  BY <1>12 DEF RepliesDone, At, Goto
<1>13. ASSUME NEW j \in Jobs, NotifyJobDone(j) PROVE ClosedInv'
  BY <1>13 DEF NotifyJobDone, At, Goto
<1>14. ASSUME NEW j \in Jobs, DeleteJob(j) PROVE ClosedInv'
  BY <1>14 DEF DeleteJob, At, Goto, Delete
<1>15. ASSUME StopBegin PROVE ClosedInv'
  BY <1>15 DEF StopBegin, Cancel, Delete
<1>16. ASSUME StopCancelAll PROVE ClosedInv'
  BY <1>16 DEF StopCancelAll, Cancel, Planned
<1>17. ASSUME StopJoin PROVE ClosedInv'
  BY <1>17 DEF StopJoin, Planned
<1>18. ASSUME Destroy PROVE ClosedInv'
  BY <1>18 DEF Destroy, Delete
<1>19. CASE UNCHANGED vars
  BY <1>19 DEF vars
<1>20. ASSUME NEW j \in Jobs, ProcessScriptResults(j) PROVE ClosedInv'
  BY <1>20 DEF ProcessScriptResults, At, Goto, Reply
<1>21. QED
  BY <1>1, <1>2, <1>3, <1>4, <1>5, <1>6, <1>7, <1>8, <1>9, <1>10, <1>11, <1>12, <1>13, <1>14, <1>15, <1>16, <1>17, <1>18, <1>19, <1>20 DEF Next, JobStep, Terminated

LEMMA NextIInv == IInv /\ [Next]_vars => IInv'
  BY TypeStep, OwnStep, DeleteStep, ReplyStep, SessionStep, ClosedStep DEF IInv

THEOREM IInvAlways == Spec => []IInv
  BY InitIInv, NextIInv, PTL DEF Spec

-----------------------------------------------------------------------------
\* Every variable of the processor keeps its type: no client is sent more than
\* the processed text, and no job is deleted a third time.
THEOREM TypeAlways == Spec => []TypeOK
  BY IInvAlways, PTL DEF IInv

\* A complete job belongs to the job pool alone: it is deleted once, with its
\* files and when nothing of it uses the sessions any more, whichever of
\* stop(), the closing of its session and its own end come together.
THEOREM CompleteJobsDeletedOnceAlways == Spec => []CompleteJobsDeletedOnce
<1>1. IInv => CompleteJobsDeletedOnce
  BY ProcessorAssumption
     DEF IInv, TypeOK, OwnInv, DeleteInv, ReplyInv, CompleteJobsDeletedOnce, Complete
<1>2. QED
  BY <1>1, IInvAlways, PTL

\* The maps of the sessions agree, and once a session is closed its planned and
\* its incomplete jobs are canceled.
THEOREM ClosedSessionsForgottenAlways == Spec => []ClosedSessionsForgotten
<1>1. IInv => ClosedSessionsForgotten
  BY DEF IInv, TypeOK, SessionInv, ClosedInv, ClosedSessionsForgotten
<1>2. QED
  BY <1>1, IInvAlways, PTL
=============================================================================
