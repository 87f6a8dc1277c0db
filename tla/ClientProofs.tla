---------------------------- MODULE ClientProofs ----------------------------
(***************************************************************************)
(* Theorems about the translation client, for every number of jobs, of     *)
(* attempts to connect and of spurious wakeups.                            *)
(*                                                                         *)
(* That wait() returns only when every response has come rests on the two  *)
(* counters: together with the requests on the wire the responses counted  *)
(* are the requests that went out, and expected lags behind by the one the *)
(* sender has not marked yet (CountInv).  While the connection is up none  *)
(* of the flags that end the wait early is set (UpInv), and each request   *)
(* that went out is on the wire, accepted, or in Io's hands (AnswerInv).   *)
(***************************************************************************)
EXTENDS Client, FiniteSetTheorems, TLAPS

\* The double join ends every thread.
CrashInv == main = "crashed" => io = "ended" /\ sender = "ended"

\* The requests that went out: those the sender has marked, and the one it is about to.
Marked == {j \in Jobs : j < next /\ status[j] # "SENT_FAIL"}
Out == IF sender = "sent" THEN Marked \cup {next} ELSE Marked

CountInv ==
  /\ sender = "sent" => next \in Jobs
  /\ expected = Cardinality(Marked)
  /\ io \in {"count", "set"} => msg \in Out
  /\ main # "crashed" => wire \subseteq Out /\ numDone + Cardinality(wire) = Cardinality(Out)

Unstarted == {"start", "connect", "create", "gaveUp"}
Early == Unstarted \cup {"store", "waitSent", "waitDone", "stop"}

LinkInv ==
  /\ flags = "connecting" => main \in {"connect", "crashed"} /\ link = "down"
  /\ flags = "open" => link \in {"up", "lost"}
  /\ link = "up" /\ main # "crashed" =>
       /\ flags = "open" /\ io \in {"loop", "count", "set", "check"}
       /\ main \notin {"joinIo", "process", "ended"}
  /\ main \in {"create", "store", "waitSent", "waitDone", "stop", "join", "disconnect"} =>
       link \in {"up", "lost"}

UpInv ==
  /\ main \in Unstarted => sender = "none"
  /\ main \in Unstarted \cup {"store"} => ~ptr /\ ~stopping
  /\ sender = "none" =>
       /\ main \in Unstarted /\ ~allSent /\ ~allDone
       /\ next = 1 /\ wire = {} /\ io \notin {"count", "set", "check"}
  /\ io \in {"join", "done"} => ptr
  /\ allSent => sender \in {"check", "ended"}
  /\ main \in Early /\ link = "up" =>
       /\ ~stopping
       /\ allDone => allSent /\ numDone >= expected
       /\ sender \in {"notify", "check", "ended"} => next > NumJobs
  /\ main = "stop" /\ spurious = 0 => allDone

AnswerInv ==
  main \in Early /\ link = "up" =>
    \A j \in Out : j \in wire \/ response[j] \/ (io \in {"count", "set"} /\ msg = j)

IInv == TypeOK /\ CrashInv /\ CountInv /\ LinkInv /\ UpInv /\ AnswerInv

-----------------------------------------------------------------------------
LEMMA JobsFinite == IsFiniteSet(Jobs) /\ Cardinality(Jobs) = NumJobs
<1>1. IsFiniteSet(1..NumJobs) /\ Cardinality(1..NumJobs) = NumJobs
  BY BoundsType, FS_Interval
<1>2. QED
  BY <1>1 DEF Jobs

LEMMA SetOfJobs ==
  ASSUME NEW S \in SUBSET Jobs
  PROVE  IsFiniteSet(S) /\ Cardinality(S) \in 0..NumJobs
<1>1. IsFiniteSet(S) /\ Cardinality(S) <= NumJobs
  BY JobsFinite, FS_Subset
<1>2. QED
  BY <1>1, BoundsType, FS_CardinalityType

LEMMA OutIsJobs ==
  ASSUME CountInv
  PROVE  Marked \in SUBSET Jobs /\ Out \in SUBSET Jobs
BY DEF Marked, Out, CountInv

LEMMA InitIInv == Init => IInv
<1> SUFFICES ASSUME Init PROVE IInv
  OBVIOUS
<1> USE BoundsType DEF Init
<1>1. Cardinality({}) = 0
  BY FS_EmptySet
<1>2. TypeOK
  <2>1. /\ status \in [Jobs -> {"INITIALIZED", "SENT_GOOD", "SENT_FAIL", "RECEIVED"}]
        /\ response \in [Jobs -> BOOLEAN]
    OBVIOUS
  <2>2. numDone + Cardinality(wire) <= NumJobs
    BY <1>1
  <2>3. /\ attempt \in 0..MaxAttempts /\ spurious \in 0..MaxSpurious
        /\ next \in 1..NumJobs + 1 /\ msg \in 0..NumJobs
        /\ numDone \in 0..NumJobs /\ expected \in 0..NumJobs
    OBVIOUS
  <2>4. QED
    BY <2>1, <2>2, <2>3 DEF TypeOK
<1>3. Marked = {} /\ Out = {}
  BY DEF Marked, Out, Jobs
<1>4. CountInv
  BY <1>1, <1>3 DEF CountInv
<1>5. CrashInv /\ LinkInv /\ UpInv /\ AnswerInv
  BY <1>3 DEF CrashInv, LinkInv, UpInv, AnswerInv, Unstarted, Early
<1>6. QED
  BY <1>2, <1>4, <1>5 DEF IInv

-----------------------------------------------------------------------------
(* The invariants, one by one                                                *)

LEMMA CrashStep ==
  ASSUME CrashInv, [Next]_vars
  PROVE  CrashInv'
<1> USE DEF connVars, joinVars, doneVars, jobVars, CrashInv
<1>1. CASE MainStep
  BY <1>1 DEF MainStep, Connect, Connected, CreateSender, StorePointer, WaitEnds, Stop, StopJoins,
     Disconnect, JoinIo, ProcessResults
<1>2. CASE SenderStep
  BY <1>2 DEF SenderStep, SendRequest, MarkSent, SendEnds, NotifyJobsSent, SenderChecks
<1>3. CASE IoStep
  BY <1>3 DEF IoStep, OnOpen, OnFail, TestStopping, SetJobResponse, IoChecks, OnClose,
     NotifyConnClosed, IoJoins, NotifyJobsDone
<1>4. CASE ServerStep
  BY <1>4 DEF ServerStep, OnMessage
<1>5. CASE SpuriousWakeup \/ DoubleJoin \/ ConnectionLost \/ UNCHANGED vars
  BY <1>5 DEF SpuriousWakeup, DoubleJoin, ConnectionLost, vars
<1>6. QED
  BY <1>1, <1>2, <1>3, <1>4, <1>5 DEF Next

LEMMA LinkStep ==
  ASSUME TypeOK, CrashInv, LinkInv, UpInv, [Next]_vars
  PROVE  LinkInv'
<1> USE BoundsType DEF connVars, joinVars, doneVars, jobVars,
           TypeOK, LinkInv, CrashInv, UpInv, Unstarted
<1>1. CASE Connect
  BY <1>1 DEF Connect
<1>2. CASE Connected
  BY <1>2 DEF Connected
<1>3. CASE CreateSender
  BY <1>3 DEF CreateSender
<1>4. CASE StorePointer
  BY <1>4 DEF StorePointer
<1>5. CASE WaitEnds
  BY <1>5 DEF WaitEnds
<1>6. CASE Stop
  BY <1>6 DEF Stop
<1>7. CASE StopJoins
  BY <1>7 DEF StopJoins
<1>8. CASE Disconnect
  BY <1>8 DEF Disconnect
<1>9. CASE JoinIo
  BY <1>9 DEF JoinIo
<1>10. CASE ProcessResults
  BY <1>10 DEF ProcessResults
<1>11. CASE SendRequest
  BY <1>11 DEF SendRequest
<1>12. CASE MarkSent
  BY <1>12 DEF MarkSent
<1>13. CASE SendEnds
  BY <1>13 DEF SendEnds
<1>14. CASE NotifyJobsSent
  BY <1>14 DEF NotifyJobsSent
<1>15. CASE SenderChecks
  BY <1>15 DEF SenderChecks
<1>16. CASE OnOpen
  BY <1>16 DEF OnOpen
<1>17. CASE OnFail
  BY <1>17 DEF OnFail
<1>18. CASE TestStopping
  BY <1>18 DEF TestStopping
<1>19. CASE SetJobResponse
  BY <1>19 DEF SetJobResponse
<1>20. CASE IoChecks
  BY <1>20 DEF IoChecks
<1>21. CASE OnClose
  BY <1>21 DEF OnClose
<1>22. CASE NotifyConnClosed
  BY <1>22 DEF NotifyConnClosed
<1>23. CASE IoJoins
  BY <1>23 DEF IoJoins
<1>24. CASE NotifyJobsDone
  BY <1>24 DEF NotifyJobsDone
<1>25. CASE SpuriousWakeup
  BY <1>25 DEF SpuriousWakeup
<1>26. CASE DoubleJoin
  BY <1>26 DEF DoubleJoin
<1>27. CASE ConnectionLost
  BY <1>27 DEF ConnectionLost
<1>28. ASSUME NEW j \in Jobs, OnMessage(j) PROVE LinkInv'
  BY <1>28 DEF OnMessage
<1>29. CASE UNCHANGED vars
  BY <1>29 DEF vars
<1>30. QED
  BY <1>1, <1>2, <1>3, <1>4, <1>5, <1>6, <1>7, <1>8, <1>9, <1>10, <1>11, <1>12, <1>13, <1>14,
     <1>15, <1>16, <1>17, <1>18, <1>19, <1>20, <1>21, <1>22, <1>23, <1>24, <1>25, <1>26, <1>27,
     <1>28, <1>29 DEF Next, MainStep, SenderStep, IoStep, ServerStep

LEMMA UpStep ==
  ASSUME TypeOK, CrashInv, LinkInv, UpInv, [Next]_vars
  PROVE  UpInv'
<1> USE BoundsType DEF connVars, joinVars, doneVars, jobVars,
           TypeOK, LinkInv, CrashInv, UpInv, Unstarted, Early
<1>1. CASE Connect
  BY <1>1 DEF Connect
<1>2. CASE Connected
  BY <1>2 DEF Connected
<1>3. CASE CreateSender
  BY <1>3 DEF CreateSender
<1>4. CASE StorePointer
  BY <1>4 DEF StorePointer
<1>5. CASE WaitEnds
  BY <1>5 DEF WaitEnds
<1>6. CASE Stop
  BY <1>6 DEF Stop
<1>7. CASE StopJoins
  BY <1>7 DEF StopJoins, BeginJoin, EndJoin
<1>8. CASE Disconnect
  BY <1>8 DEF Disconnect
<1>9. CASE JoinIo
  BY <1>9 DEF JoinIo
<1>10. CASE ProcessResults
  BY <1>10 DEF ProcessResults
<1>11. CASE SendRequest
  BY <1>11 DEF SendRequest
<1>12. CASE MarkSent
  BY <1>12 DEF MarkSent
<1>13. CASE SendEnds
  BY <1>13 DEF SendEnds
<1>14. CASE NotifyJobsSent
  BY <1>14 DEF NotifyJobsSent
<1>15. CASE SenderChecks
  BY <1>15 DEF SenderChecks, Done
<1>16. CASE OnOpen
  BY <1>16 DEF OnOpen
<1>17. CASE OnFail
  BY <1>17 DEF OnFail
<1>18. CASE TestStopping
  BY <1>18 DEF TestStopping
<1>19. CASE SetJobResponse
  BY <1>19 DEF SetJobResponse
<1>20. CASE IoChecks
  BY <1>20 DEF IoChecks, Done
<1>21. CASE OnClose
  BY <1>21 DEF OnClose
<1>22. CASE NotifyConnClosed
  BY <1>22 DEF NotifyConnClosed
<1>23. CASE IoJoins
  BY <1>23 DEF IoJoins, BeginJoin, EndJoin
<1>24. CASE NotifyJobsDone
  BY <1>24 DEF NotifyJobsDone
<1>25. CASE SpuriousWakeup
  BY <1>25 DEF SpuriousWakeup
<1>26. CASE DoubleJoin
  BY <1>26 DEF DoubleJoin
<1>27. CASE ConnectionLost
  BY <1>27 DEF ConnectionLost
<1>28. ASSUME NEW j \in Jobs, OnMessage(j) PROVE UpInv'
  BY <1>28 DEF OnMessage
<1>29. CASE UNCHANGED vars
  BY <1>29 DEF vars
<1>30. QED
  BY <1>1, <1>2, <1>3, <1>4, <1>5, <1>6, <1>7, <1>8, <1>9, <1>10, <1>11, <1>12, <1>13, <1>14,
     <1>15, <1>16, <1>17, <1>18, <1>19, <1>20, <1>21, <1>22, <1>23, <1>24, <1>25, <1>26, <1>27,
     <1>28, <1>29 DEF Next, MainStep, SenderStep, IoStep, ServerStep

\* What a step that sends, marks and receives nothing leaves as it is.
Uncounted == <<next, sender, expected, wire, numDone, status>>

LEMMA CountSame ==
  ASSUME CountInv, UNCHANGED Uncounted,
         main' # "crashed" => main # "crashed",
         io' \in {"count", "set"} => io \in {"count", "set"} /\ msg' = msg
  PROVE  CountInv'
<1>1. Marked' = Marked /\ Out' = Out
  BY DEF Marked, Out, Uncounted
<1>2. QED
  BY <1>1 DEF CountInv, Uncounted

LEMMA MainLeaves ==
  ASSUME MainStep
  PROVE  /\ UNCHANGED <<next, expected, wire, numDone, status, response, msg, allSent, allDone>>
         /\ main # "crashed" /\ main' # "crashed"
         /\ io' # io => io' \in {"loop", "ended"}
         /\ sender' # sender => main = "create" /\ sender' = "loop"
BY DEF MainStep, Connect, Connected, CreateSender, StorePointer, WaitEnds, Stop, StopJoins,
   Disconnect, JoinIo, ProcessResults, BeginJoin, EndJoin, connVars, joinVars, doneVars, jobVars

LEMMA CountStep ==
  ASSUME TypeOK, CrashInv, CountInv, UpInv, [Next]_vars
  PROVE  CountInv'
<1> USE BoundsType DEF connVars, joinVars, doneVars, jobVars
<1>1. CASE MainStep
  <2>1. UNCHANGED <<next, expected, wire, numDone, status, msg>> /\ main # "crashed"
    BY <1>1, MainLeaves
  <2>2. (sender # "sent" /\ sender' # "sent") \/ UNCHANGED sender
    BY <1>1, MainLeaves DEF UpInv, Unstarted
  <2>3. Marked' = Marked /\ Out' = Out
    BY <2>1, <2>2 DEF Marked, Out
  <2>4. io' \in {"count", "set"} => io \in {"count", "set"}
    BY <1>1, MainLeaves
  <2>5. QED
    BY <2>1, <2>2, <2>3, <2>4 DEF CountInv
<1>2. CASE SendRequest /\ link = "up"
  <2>1. /\ next \in Jobs /\ sender = "loop" /\ sender' = "sent" /\ wire' = wire \cup {next}
        /\ main # "crashed" /\ UNCHANGED <<main, io, msg, next, status, expected, numDone>>
    BY <1>2 DEF SendRequest, TypeOK, Jobs, CrashInv
  <2>2. Marked' = Marked /\ Out = Marked /\ Out' = Marked \cup {next} /\ next \notin Marked
    BY <2>1 DEF Marked, Out, TypeOK
  <2>3. next \notin wire /\ wire \in SUBSET Jobs /\ Out \in SUBSET Jobs /\ wire \subseteq Out
    BY <2>1, <2>2, OutIsJobs DEF CountInv, TypeOK
  <2>4. IsFiniteSet(wire) /\ IsFiniteSet(Out)
    BY <2>3, SetOfJobs
  <2>5. /\ Cardinality(wire') = Cardinality(wire) + 1
        /\ Cardinality(Out') = Cardinality(Out) + 1
    BY <2>1, <2>2, <2>3, <2>4, FS_AddElement
  <2>6. Cardinality(wire) \in Nat /\ Cardinality(Out) \in Nat /\ numDone \in Nat
    BY <2>3, SetOfJobs DEF TypeOK
  <2>7. numDone' + Cardinality(wire') = Cardinality(Out')
    BY <2>1, <2>5, <2>6 DEF CountInv
  <2>8. QED
    BY <2>1, <2>2, <2>3, <2>7 DEF CountInv
<1>3. CASE SendRequest /\ link # "up"
  <2>1. /\ next \in Jobs /\ sender = "loop" /\ next' = next + 1
        /\ status' = [status EXCEPT ![next] = "SENT_FAIL"]
        /\ UNCHANGED <<main, io, msg, sender, wire, expected, numDone>>
    BY <1>3 DEF SendRequest, TypeOK, Jobs
  <2>2. Marked' = Marked
    BY <2>1 DEF Marked, TypeOK, Jobs
  <2>3. QED
    BY <2>1, <2>2 DEF CountInv, Out
<1>4. CASE MarkSent
  <2>1. /\ next \in Jobs /\ sender = "sent" /\ sender' = "loop" /\ next' = next + 1
        /\ status' = [status EXCEPT ![next] = "SENT_GOOD"] /\ expected' = expected + 1
        /\ UNCHANGED <<main, io, msg, wire, numDone>>
    BY <1>4 DEF MarkSent, CountInv
  <2>2. Marked' = Marked \cup {next} /\ next \notin Marked /\ Out' = Out
    BY <2>1 DEF Marked, Out, TypeOK, Jobs
  <2>3. IsFiniteSet(Marked)
    BY OutIsJobs, SetOfJobs
  <2>4. Cardinality(Marked') = Cardinality(Marked) + 1
    BY <2>2, <2>3, FS_AddElement
  <2>5. QED
    BY <2>1, <2>2, <2>4 DEF CountInv
<1>5. CASE SendEnds \/ NotifyJobsSent \/ SenderChecks
  <2>1. /\ sender # "sent" /\ sender' # "sent"
        /\ UNCHANGED <<next, expected, wire, numDone, status, main, io, msg>>
    BY <1>5 DEF SendEnds, NotifyJobsSent, SenderChecks
  <2>2. Marked' = Marked /\ Out' = Out
    BY <2>1 DEF Marked, Out
  <2>3. QED
    BY <2>1, <2>2 DEF CountInv
<1>6. CASE SetJobResponse
  <2>1. /\ io = "set" /\ io' = "check" /\ status' = [status EXCEPT ![msg] = "RECEIVED"]
        /\ UNCHANGED <<next, sender, expected, wire, numDone, main>>
    BY <1>6 DEF SetJobResponse
  <2>2. msg \in Out
    BY <2>1 DEF CountInv
  <2>3. Marked' = Marked
    <3>1. CASE msg \in Marked
      BY <2>1, <3>1 DEF Marked, TypeOK
    <3>2. CASE msg = next /\ msg \in Jobs
      BY <2>1, <3>2 DEF Marked, TypeOK, Jobs
    <3>3. QED
      BY <2>2, <3>1, <3>2 DEF Out, CountInv
  <2>4. QED
    BY <2>1, <2>3 DEF CountInv, Out
<1>7. CASE IoStep /\ ~SetJobResponse
  <2>1. UNCHANGED <<next, sender, expected, wire, numDone, status, main, msg>>
    BY <1>7 DEF IoStep, OnOpen, OnFail, TestStopping, IoChecks, OnClose, NotifyConnClosed, IoJoins,
       NotifyJobsDone
  <2>2. io' \in {"count", "set"} => io \in {"count", "set"}
    BY <1>7 DEF IoStep, OnOpen, OnFail, TestStopping, IoChecks, OnClose, NotifyConnClosed, IoJoins,
       NotifyJobsDone
  <2>3. QED
    BY <2>1, <2>2, CountSame DEF Uncounted
<1>8. ASSUME NEW j \in Jobs, OnMessage(j) PROVE CountInv'
  <2>1. /\ j \in wire /\ wire' = wire \ {j} /\ numDone' = numDone + 1 /\ msg' = j
        /\ main # "crashed" /\ UNCHANGED <<next, sender, expected, status, main>>
    BY <1>8 DEF OnMessage, CrashInv
  <2>2. Marked' = Marked /\ Out' = Out
    BY <2>1 DEF Marked, Out
  <2>3. /\ IsFiniteSet(wire) /\ Cardinality(wire) \in Nat /\ Cardinality(Out) \in Nat
        /\ numDone \in Nat
    BY OutIsJobs, SetOfJobs DEF TypeOK
  <2>4. Cardinality(wire') = Cardinality(wire) - 1
    BY <2>1, <2>3, FS_RemoveElement
  <2>5. numDone' + Cardinality(wire') = Cardinality(Out')
    BY <2>1, <2>2, <2>3, <2>4 DEF CountInv
  <2>6. QED
    BY <2>1, <2>2, <2>5 DEF CountInv
<1>9. CASE SpuriousWakeup \/ ConnectionLost
  BY <1>9, CountSame DEF SpuriousWakeup, ConnectionLost, Uncounted
<1>10. CASE DoubleJoin
  <2>1. /\ main' = "crashed" /\ sender' = "ended" /\ io' = "ended"
        /\ UNCHANGED <<next, expected, status>>
    BY <1>10 DEF DoubleJoin
  <2>2. Marked' = Marked
    BY <2>1 DEF Marked
  <2>3. QED
    BY <2>1, <2>2 DEF CountInv
<1>11. CASE UNCHANGED vars
  BY <1>11, CountSame DEF vars, Uncounted
<1>12. QED
  BY <1>1, <1>2, <1>3, <1>4, <1>5, <1>6, <1>7, <1>8, <1>9, <1>10, <1>11
     DEF Next, SenderStep, ServerStep

-----------------------------------------------------------------------------
(* Types: the counters stay in bounds because of CountInv                    *)

LEMMA TypeStep ==
  ASSUME TypeOK, CrashInv, CountInv, CrashInv', CountInv', [Next]_vars
  PROVE  TypeOK'
<1> USE BoundsType
<1>1. Marked' \in SUBSET Jobs' /\ Out' \in SUBSET Jobs' /\ Jobs' = Jobs
  BY DEF Marked, Out, CountInv, Jobs
<1>2. Cardinality(Marked') \in 0..NumJobs /\ Cardinality(Out') \in 0..NumJobs
  BY <1>1, SetOfJobs
<1>3. expected' \in 0..NumJobs
  BY <1>2 DEF CountInv
<1> DEFINE Rest == /\ wire' \subseteq 1..next' /\ wire' \subseteq Jobs
                   /\ next' \in 1..NumJobs + 1 /\ msg' \in 0..NumJobs /\ numDone' \in Nat
                   /\ status' \in [Jobs -> {"INITIALIZED", "SENT_GOOD", "SENT_FAIL", "RECEIVED"}]
                   /\ response' \in [Jobs -> BOOLEAN]
<1>4. Rest
  <2>0. /\ wire \subseteq 1..next /\ wire \subseteq Jobs
        /\ next \in 1..NumJobs + 1 /\ msg \in 0..NumJobs /\ numDone \in Nat
        /\ status \in [Jobs -> {"INITIALIZED", "SENT_GOOD", "SENT_FAIL", "RECEIVED"}]
        /\ response \in [Jobs -> BOOLEAN]
    BY DEF TypeOK
  <2>1. CASE MainStep
    <3>1. UNCHANGED <<wire, next, msg, numDone, status, response>>
      BY <2>1, MainLeaves
    <3>2. QED
      BY <2>0, <3>1
  <2>2. CASE SendRequest /\ link = "up"
    <3>1. /\ next \in Jobs /\ wire' = wire \cup {next}
          /\ UNCHANGED <<next, msg, numDone, status, response>>
      BY <2>0, <2>2 DEF SendRequest, Jobs, connVars, joinVars, doneVars, jobVars
    <3>2. QED
      BY <2>0, <3>1
  <2>3. CASE SendRequest /\ link # "up"
    <3>1. /\ next \in Jobs /\ next' = next + 1 /\ status' = [status EXCEPT ![next] = "SENT_FAIL"]
          /\ UNCHANGED <<wire, msg, numDone, response>>
      BY <2>0, <2>3 DEF SendRequest, Jobs, connVars, joinVars, doneVars, jobVars
    <3>2. wire' \subseteq 1..next' /\ next' \in 1..NumJobs + 1
      BY <2>0, <3>1 DEF Jobs
    <3>3. QED
      BY <2>0, <3>1, <3>2
  <2>4. CASE MarkSent
    <3>1. /\ next \in Jobs /\ next' = next + 1 /\ status' = [status EXCEPT ![next] = "SENT_GOOD"]
          /\ UNCHANGED <<wire, msg, numDone, response>>
      BY <2>0, <2>4 DEF MarkSent, CountInv, connVars, joinVars, doneVars, jobVars
    <3>2. wire' \subseteq 1..next' /\ next' \in 1..NumJobs + 1
      BY <2>0, <3>1 DEF Jobs
    <3>3. QED
      BY <2>0, <3>1, <3>2
  <2>5. CASE SendEnds \/ NotifyJobsSent \/ SenderChecks
    <3>1. UNCHANGED <<wire, next, msg, numDone, status, response>>
      BY <2>5 DEF SendEnds, NotifyJobsSent, SenderChecks, connVars, joinVars, jobVars, doneVars
    <3>2. QED
      BY <2>0, <3>1
  <2>6. CASE SetJobResponse
    <3>1. /\ status' = [status EXCEPT ![msg] = "RECEIVED"]
          /\ response' = [response EXCEPT ![msg] = TRUE]
          /\ UNCHANGED <<wire, next, msg, numDone>>
      BY <2>6 DEF SetJobResponse, connVars, joinVars, doneVars, jobVars
    <3>2. QED
      BY <2>0, <3>1
  <2>7. CASE IoStep /\ ~SetJobResponse
    <3>1. UNCHANGED <<wire, next, msg, numDone, status, response>>
      BY <2>7 DEF IoStep, OnOpen, OnFail, TestStopping, IoChecks, OnClose, NotifyConnClosed,
             IoJoins, NotifyJobsDone, connVars, joinVars, doneVars, jobVars
    <3>2. QED
      BY <2>0, <3>1
  <2>8. ASSUME NEW j \in Jobs, OnMessage(j) PROVE Rest
    <3>1. /\ wire' = wire \ {j} /\ msg' = j /\ numDone' = numDone + 1
          /\ UNCHANGED <<next, status, response>>
      BY <2>8 DEF OnMessage, connVars, joinVars, doneVars, jobVars
    <3>2. QED
      BY <2>0, <3>1 DEF Jobs
  <2>9. CASE SpuriousWakeup \/ DoubleJoin \/ ConnectionLost \/ UNCHANGED vars
    <3>1. UNCHANGED <<wire, next, msg, numDone, status, response>>
      BY <2>9 DEF SpuriousWakeup, DoubleJoin, ConnectionLost, vars, connVars, joinVars, doneVars,
             jobVars
    <3>2. QED
      BY <2>0, <3>1
  <2>10. QED
    BY <2>1, <2>2, <2>3, <2>4, <2>5, <2>6, <2>7, <2>8, <2>9 DEF Next, SenderStep, ServerStep
<1>5. numDone' \in 0..NumJobs /\ numDone' + Cardinality(wire') <= NumJobs
  <2>1. Cardinality(wire') \in Nat
    BY <1>4, SetOfJobs
  <2>2. CASE main' # "crashed"
    BY <1>2, <1>4, <2>1, <2>2 DEF CountInv
  <2>3. CASE main' = "crashed"
    <3>1. UNCHANGED <<numDone, wire>>
      BY <2>3 DEF CrashInv, Next, MainStep, SenderStep, IoStep, ServerStep, vars, Connect, Connected,
         CreateSender, StorePointer, WaitEnds, Stop, StopJoins, Disconnect, JoinIo, ProcessResults,
         SendRequest, MarkSent, SendEnds, NotifyJobsSent, SenderChecks, OnOpen, OnFail, TestStopping,
         SetJobResponse, IoChecks, OnClose, NotifyConnClosed, IoJoins, NotifyJobsDone, OnMessage,
         SpuriousWakeup, DoubleJoin, ConnectionLost, connVars, joinVars, doneVars, jobVars
    <3>2. QED
      BY <3>1 DEF TypeOK
  <2>4. QED
    BY <2>2, <2>3
<1> DEFINE Control ==
      /\ main \in {"start", "connect", "create", "store", "waitSent", "waitDone", "stop", "join",
                   "disconnect", "joinIo", "process", "ended", "gaveUp", "crashed"}
      /\ sender \in {"none", "loop", "sent", "notify", "check", "ended"}
      /\ io \in {"none", "loop", "count", "set", "check", "closed", "join", "done", "ended"}
      /\ attempt \in 0..MaxAttempts /\ flags \in {"connecting", "open", "closed"}
      /\ link \in {"down", "up", "lost", "cut"}
      /\ joining \subseteq {"main", "io"} /\ written \subseteq Jobs
      /\ spurious \in 0..MaxSpurious
<1> DEFINE Flags == {ptr, joined, stopping, allSent, allDone} \subseteq BOOLEAN
<1>6. Control'
  <2>0. Control
    BY DEF TypeOK
  <2> USE DEF connVars, joinVars, doneVars, jobVars, BeginJoin, EndJoin
  <2>1. CASE Connect
    BY <2>0, <2>1 DEF Connect
  <2>2. CASE Connected
    BY <2>0, <2>2 DEF Connected
  <2>3. CASE CreateSender
    BY <2>0, <2>3 DEF CreateSender
  <2>4. CASE StorePointer
    BY <2>0, <2>4 DEF StorePointer
  <2>5. CASE WaitEnds
    BY <2>0, <2>5 DEF WaitEnds
  <2>6. CASE Stop
    BY <2>0, <2>6 DEF Stop
  <2>7. CASE StopJoins
    BY <2>0, <2>7, ZenonT(60) DEF StopJoins
  <2>8. CASE Disconnect
    BY <2>0, <2>8 DEF Disconnect
  <2>9. CASE JoinIo
    BY <2>0, <2>9 DEF JoinIo
  <2>10. CASE ProcessResults
    BY <2>0, <2>10 DEF ProcessResults
  <2>11. CASE SendRequest
    BY <2>0, <2>11 DEF SendRequest
  <2>12. CASE MarkSent
    BY <2>0, <2>12 DEF MarkSent
  <2>13. CASE SendEnds
    BY <2>0, <2>13 DEF SendEnds
  <2>14. CASE NotifyJobsSent
    BY <2>0, <2>14 DEF NotifyJobsSent
  <2>15. CASE SenderChecks
    BY <2>0, <2>15 DEF SenderChecks
  <2>16. CASE OnOpen
    BY <2>0, <2>16 DEF OnOpen
  <2>17. CASE OnFail
    BY <2>0, <2>17 DEF OnFail
  <2>18. CASE TestStopping
    BY <2>0, <2>18 DEF TestStopping
  <2>19. CASE SetJobResponse
    BY <2>0, <2>19 DEF SetJobResponse
  <2>20. CASE IoChecks
    BY <2>0, <2>20 DEF IoChecks
  <2>21. CASE OnClose
    BY <2>0, <2>21 DEF OnClose
  <2>22. CASE NotifyConnClosed
    BY <2>0, <2>22 DEF NotifyConnClosed
  <2>23. CASE IoJoins
    BY <2>0, <2>23, ZenonT(60) DEF IoJoins
  <2>24. CASE NotifyJobsDone
    BY <2>0, <2>24 DEF NotifyJobsDone
  <2>25. CASE SpuriousWakeup
    BY <2>0, <2>25 DEF SpuriousWakeup
  <2>26. CASE DoubleJoin
    BY <2>0, <2>26 DEF DoubleJoin
  <2>27. CASE ConnectionLost
    BY <2>0, <2>27 DEF ConnectionLost
  <2>28. CASE ServerStep
    BY <2>0, <2>28 DEF ServerStep, OnMessage
  <2>29. CASE UNCHANGED vars
    BY <2>0, <2>29 DEF vars
  <2>30. QED
    BY <2>1, <2>2, <2>3, <2>4, <2>5, <2>6, <2>7, <2>8, <2>9, <2>10, <2>11, <2>12, <2>13, <2>14,
       <2>15, <2>16, <2>17, <2>18, <2>19, <2>20, <2>21, <2>22, <2>23, <2>24, <2>25, <2>26,
       <2>27, <2>28, <2>29 DEF Next, MainStep, SenderStep, IoStep
<1>7. Flags'
  <2>0. Flags
    BY DEF TypeOK
  <2> USE DEF connVars, joinVars, doneVars, jobVars, BeginJoin, EndJoin, Done
  <2>1. CASE Connect
    BY <2>0, <2>1 DEF Connect
  <2>2. CASE Connected
    BY <2>0, <2>2 DEF Connected
  <2>3. CASE CreateSender
    BY <2>0, <2>3 DEF CreateSender
  <2>4. CASE StorePointer
    BY <2>0, <2>4 DEF StorePointer
  <2>5. CASE WaitEnds
    BY <2>0, <2>5 DEF WaitEnds
  <2>6. CASE Stop
    BY <2>0, <2>6 DEF Stop
  <2>7. CASE StopJoins
    BY <2>0, <2>7 DEF StopJoins
  <2>8. CASE Disconnect
    BY <2>0, <2>8 DEF Disconnect
  <2>9. CASE JoinIo
    BY <2>0, <2>9 DEF JoinIo
  <2>10. CASE ProcessResults
    BY <2>0, <2>10 DEF ProcessResults
  <2>11. CASE SendRequest
    BY <2>0, <2>11 DEF SendRequest
  <2>12. CASE MarkSent
    BY <2>0, <2>12 DEF MarkSent
  <2>13. CASE SendEnds
    BY <2>0, <2>13 DEF SendEnds
  <2>14. CASE NotifyJobsSent
    BY <2>0, <2>14 DEF NotifyJobsSent
  <2>15. CASE SenderChecks
    BY <2>0, <2>15 DEF SenderChecks
  <2>16. CASE OnOpen
    BY <2>0, <2>16 DEF OnOpen
  <2>17. CASE OnFail
    BY <2>0, <2>17 DEF OnFail
  <2>18. CASE TestStopping
    BY <2>0, <2>18 DEF TestStopping
  <2>19. CASE SetJobResponse
    BY <2>0, <2>19 DEF SetJobResponse
  <2>20. CASE IoChecks
    BY <2>0, <2>20 DEF IoChecks
  <2>21. CASE OnClose
    BY <2>0, <2>21 DEF OnClose
  <2>22. CASE NotifyConnClosed
    BY <2>0, <2>22 DEF NotifyConnClosed
  <2>23. CASE IoJoins
    BY <2>0, <2>23 DEF IoJoins
  <2>24. CASE NotifyJobsDone
    BY <2>0, <2>24 DEF NotifyJobsDone
  <2>25. CASE SpuriousWakeup
    BY <2>0, <2>25 DEF SpuriousWakeup
  <2>26. CASE DoubleJoin
    BY <2>0, <2>26 DEF DoubleJoin
  <2>27. CASE ConnectionLost
    BY <2>0, <2>27 DEF ConnectionLost
  <2>28. CASE ServerStep
    BY <2>0, <2>28 DEF ServerStep, OnMessage
  <2>29. CASE UNCHANGED vars
    BY <2>0, <2>29 DEF vars
  <2>30. QED
    BY <2>1, <2>2, <2>3, <2>4, <2>5, <2>6, <2>7, <2>8, <2>9, <2>10, <2>11, <2>12, <2>13, <2>14,
       <2>15, <2>16, <2>17, <2>18, <2>19, <2>20, <2>21, <2>22, <2>23, <2>24, <2>25, <2>26,
       <2>27, <2>28, <2>29 DEF Next, MainStep, SenderStep, IoStep
<1>8. QED
  BY <1>3, <1>4, <1>5, <1>6, <1>7 DEF TypeOK, Jobs

-----------------------------------------------------------------------------
(* What went out is answered                                                 *)

LEMMA AnswerStep ==
  ASSUME TypeOK, CrashInv, CountInv, LinkInv, UpInv, AnswerInv, [Next]_vars
  PROVE  AnswerInv'
<1> SUFFICES ASSUME main' \in Early, link' = "up", NEW k \in Out'
             PROVE  \/ k \in wire' \/ response'[k]
                    \/ io' \in {"count", "set"} /\ msg' = k
  BY DEF AnswerInv
<1> DEFINE Answered == k \in wire \/ response[k] \/ (io \in {"count", "set"} /\ msg = k)
<1> USE DEF connVars, joinVars, doneVars, jobVars
<1>1. CASE OnOpen
  <2>1. main \in Unstarted /\ UNCHANGED <<next, sender>>
    BY <1>1 DEF OnOpen, LinkInv, CrashInv, Unstarted
  <2>2. sender = "none" /\ next = 1
    BY <2>1 DEF UpInv
  <2>3. QED
    BY <2>1, <2>2 DEF Out, Marked, Jobs
<1>2. ASSUME ~OnOpen PROVE main \in Early /\ link = "up"
  BY <1>2 DEF Next, MainStep, SenderStep, IoStep, ServerStep, vars, Connect, Connected,
     CreateSender, StorePointer, WaitEnds, Stop, StopJoins, Disconnect, JoinIo, ProcessResults,
     SendRequest, MarkSent, SendEnds, NotifyJobsSent, SenderChecks, OnFail, TestStopping,
     SetJobResponse, IoChecks, OnClose, NotifyConnClosed, IoJoins, NotifyJobsDone, OnMessage,
     SpuriousWakeup, DoubleJoin, ConnectionLost, Early, Unstarted
<1>3. ASSUME k \in Out, ~OnOpen PROVE Answered
  BY <1>2, <1>3 DEF AnswerInv
<1>4. CASE MainStep
  <2>1. UNCHANGED <<next, status, wire, response, msg>> /\ (io' # io => io' \in {"loop", "ended"})
    BY <1>4, MainLeaves
  <2>2. ~OnOpen
    BY <1>4 DEF MainStep, Connect, Connected, CreateSender, StorePointer, WaitEnds, Stop, StopJoins,
       Disconnect, JoinIo, ProcessResults, OnOpen
  <2>3. (sender # "sent" /\ sender' # "sent") \/ UNCHANGED sender
    BY <1>4, MainLeaves DEF UpInv, Unstarted
  <2>4. k \in Out /\ Answered
    BY <1>3, <2>1, <2>2, <2>3 DEF Out, Marked
  <2>5. io \in {"count", "set"} => io' = io
    BY <1>4, <2>2, <1>2 DEF MainStep, Connect, Connected, CreateSender, StorePointer, WaitEnds, Stop,
       StopJoins, Disconnect, JoinIo, ProcessResults, Early, Unstarted, UpInv
  <2>6. QED
    BY <2>1, <2>4, <2>5
<1>5. CASE SendRequest
  <2>1. /\ link = "up" /\ sender = "loop" /\ sender' = "sent" /\ wire' = wire \cup {next}
        /\ UNCHANGED <<io, msg, next, status, response>> /\ ~OnOpen
    BY <1>5 DEF SendRequest, OnOpen
  <2>2. k \in Out \/ k = next
    BY <2>1 DEF Out, Marked
  <2>3. QED
    BY <1>3, <2>1, <2>2
<1>6. CASE MarkSent
  <2>1. /\ sender = "sent" /\ sender' = "loop" /\ next' = next + 1
        /\ status' = [status EXCEPT ![next] = "SENT_GOOD"]
        /\ UNCHANGED <<io, msg, wire, response>> /\ ~OnOpen
    BY <1>6 DEF MarkSent, OnOpen
  <2>2. k \in Out
    BY <2>1 DEF Out, Marked, TypeOK, Jobs
  <2>3. QED
    BY <1>3, <2>1, <2>2
<1>7. CASE SendEnds \/ NotifyJobsSent \/ SenderChecks
  <2>1. /\ sender # "sent" /\ sender' # "sent" /\ ~OnOpen
        /\ UNCHANGED <<next, wire, status, response, io, msg>>
    BY <1>7 DEF SendEnds, NotifyJobsSent, SenderChecks, OnOpen
  <2>2. k \in Out
    BY <2>1 DEF Marked, Out
  <2>3. QED
    BY <1>3, <2>1, <2>2
<1>8. CASE TestStopping
  <2>1. ~OnOpen /\ UNCHANGED <<next, sender, wire, status, response, msg, stopping>>
    BY <1>8 DEF TestStopping, OnOpen
  <2>2. io' = "set"
    BY <1>2, <1>8, <2>1 DEF TestStopping, UpInv
  <2>3. k \in Out
    BY <2>1 DEF Marked, Out
  <2>4. QED
    BY <1>3, <2>1, <2>2, <2>3
<1>9. CASE SetJobResponse
  <2>1. /\ ~OnOpen /\ io = "set" /\ status' = [status EXCEPT ![msg] = "RECEIVED"]
        /\ response' = [response EXCEPT ![msg] = TRUE] /\ UNCHANGED <<next, sender, wire, msg>>
    BY <1>9 DEF SetJobResponse, OnOpen
  <2>2. msg \in Out /\ Out \in SUBSET Jobs
    BY <2>1, OutIsJobs DEF CountInv
  <2>3. k \in Out \/ k = msg
    BY <2>1 DEF Marked, Out, TypeOK
  <2>4. k \in Out /\ k \in Jobs
    BY <2>2, <2>3
  <2>5. Answered
    BY <1>3, <2>1, <2>4
  <2>6. QED
    BY <2>1, <2>2, <2>4, <2>5 DEF TypeOK
<1>10. CASE IoChecks \/ OnFail \/ OnClose \/ NotifyConnClosed \/ IoJoins \/ NotifyJobsDone
  <2>1. ~OnOpen /\ io \notin {"count", "set"} /\ UNCHANGED <<next, sender, wire, status, response>>
    BY <1>10, <1>2 DEF IoChecks, OnFail, OnClose, NotifyConnClosed, IoJoins, NotifyJobsDone, OnOpen,
       LinkInv
  <2>2. k \in Out
    BY <2>1 DEF Marked, Out
  <2>3. QED
    BY <1>3, <2>1, <2>2
<1>11. ASSUME NEW j \in Jobs, OnMessage(j)
       PROVE  k \in wire' \/ response'[k] \/ (io' \in {"count", "set"} /\ msg' = k)
  <2>1. /\ ~OnOpen /\ io = "loop" /\ io' = "count" /\ wire' = wire \ {j} /\ msg' = j
        /\ UNCHANGED <<next, sender, status, response>>
    BY <1>11 DEF OnMessage, OnOpen
  <2>2. k \in Out
    BY <2>1 DEF Marked, Out
  <2>3. k \in wire \/ response[k]
    BY <1>3, <2>1, <2>2
  <2>4. CASE k = j
    BY <2>1, <2>4
  <2>5. CASE k # j
    <3>1. k \in wire => k \in wire'
      BY <2>1, <2>5
    <3>2. response[k] => response'[k]
      BY <2>1
    <3>3. QED
      BY <2>3, <3>1, <3>2
  <2>6. QED
    BY <2>4, <2>5
<1>12. CASE SpuriousWakeup \/ ConnectionLost \/ UNCHANGED vars
  <2>1. ~OnOpen /\ UNCHANGED <<io, msg, next, sender, wire, status, response>>
    BY <1>12, <1>2 DEF SpuriousWakeup, ConnectionLost, vars, OnOpen
  <2>2. k \in Out
    BY <2>1 DEF Marked, Out
  <2>3. QED
    BY <1>3, <2>1, <2>2
<1>13. CASE DoubleJoin
  BY <1>13 DEF DoubleJoin, Early, Unstarted
<1>14. QED
  BY <1>1, <1>4, <1>5, <1>6, <1>7, <1>8, <1>9, <1>10, <1>11, <1>12, <1>13
     DEF Next, SenderStep, IoStep, ServerStep

-----------------------------------------------------------------------------
(* The theorems                                                              *)

LEMMA Inductive == IInv /\ [Next]_vars => IInv'
<1> SUFFICES ASSUME IInv, [Next]_vars PROVE IInv'
  OBVIOUS
<1>1. CrashInv'
  BY CrashStep DEF IInv
<1>2. CountInv'
  BY CountStep DEF IInv
<1>3. TypeOK'
  BY <1>1, <1>2, TypeStep DEF IInv
<1>4. LinkInv' /\ UpInv' /\ AnswerInv'
  BY LinkStep, UpStep, AnswerStep DEF IInv
<1>5. QED
  BY <1>1, <1>2, <1>3, <1>4 DEF IInv

THEOREM Invariance == Spec => []IInv
<1>1. QED
  BY InitIInv, Inductive, PTL DEF Spec

\* The variables keep to their types: no more responses are counted than jobs
\* were sent, whatever the order in which sender and asio thread count.
THEOREM TypeAlways == Spec => []TypeOK
<1>1. IInv => TypeOK
  BY DEF IInv
<1>2. QED
  BY <1>1, Invariance, PTL

LEMMA StopCounted == IInv => WaitEndsCounted
<1> SUFFICES ASSUME IInv, main = "stop", Regular, NEW j \in Jobs
             PROVE  Accepted(j) \/ (io \in {"count", "set"} /\ msg = j)
  BY DEF WaitEndsCounted
<1>1. link = "up" /\ main \in Early /\ main # "crashed"
  BY DEF IInv, LinkInv, Regular, Early
<1>2. allSent /\ numDone >= expected /\ sender \in {"check", "ended"} /\ next > NumJobs
  BY <1>1 DEF IInv, UpInv, Regular
<1>3. Out = Marked
  BY <1>2 DEF Out
<1>4. numDone + Cardinality(wire) = expected
  BY <1>1, <1>3 DEF IInv, CountInv
<1>5. IsFiniteSet(wire) /\ Cardinality(wire) \in Nat
  BY SetOfJobs DEF IInv, TypeOK
<1>6. numDone \in Nat /\ expected \in Nat
  BY BoundsType DEF IInv, TypeOK
<1>7. Cardinality(wire) = 0
  BY <1>2, <1>4, <1>5, <1>6
<1>8. wire = {}
  BY <1>5, <1>7, FS_EmptySet
<1>9. CASE status[j] = "SENT_FAIL"
  BY <1>9 DEF Accepted
<1>10. CASE status[j] # "SENT_FAIL"
  <2>1. j \in Out
    BY <1>2, <1>3, <1>10, BoundsType DEF Marked, Jobs, IInv, TypeOK
  <2>2. QED
    BY <1>1, <1>8, <2>1 DEF IInv, AnswerInv, Accepted
<1>11. QED
  BY <1>9, <1>10

\* wait() returns only when the response to every request that went out has been
\* accepted or is being handled, unless the connection was lost or a spurious
\* wakeup ended it: the sender counting what it sent after sending it, and the
\* asio thread counting what came, never make it return early.
THEOREM WaitEndsCountedAlways == Spec => []WaitEndsCounted
<1>1. QED
  BY StopCounted, Invariance, PTL
-----------------------------------------------------------------------------
(* The output                                                                *)

\* An accepted response keeps its status, because the sender has gone on to the
\* next request; the output is written when Io has ended.
WrittenInv ==
  /\ \A j \in Jobs : response[j] => j < next /\ status[j] = "RECEIVED"
  /\ main \in {"process", "ended"} => io = "ended"
  /\ main = "ended" => \A j \in Jobs : response[j] => j \in written

LEMMA WrittenStep ==
  ASSUME IInv, WrittenInv, ~Overtakes, [Next]_vars
  PROVE  WrittenInv'
<1> USE DEF connVars, joinVars, doneVars, jobVars, WrittenInv
<1>t. /\ Jobs = 1..NumJobs /\ NumJobs \in Nat /\ next \in 1..NumJobs + 1
      /\ status \in [Jobs -> {"INITIALIZED", "SENT_GOOD", "SENT_FAIL", "RECEIVED"}]
      /\ response \in [Jobs -> BOOLEAN]
  BY BoundsType DEF Jobs, IInv, TypeOK
<1>1. CASE MainStep
  <2>1. CASE ProcessResults
    BY <2>1 DEF ProcessResults
  <2>2. CASE Connect \/ Connected \/ CreateSender \/ StorePointer \/ WaitEnds \/ Stop
             \/ StopJoins \/ Disconnect \/ JoinIo
    BY <2>2 DEF Connect, Connected, CreateSender, StorePointer, WaitEnds, Stop, StopJoins,
       Disconnect, JoinIo
  <2>3. QED
    BY <1>1, <2>1, <2>2 DEF MainStep
<1>2. CASE SenderStep
  <2>1. CASE SendRequest \/ MarkSent
    <3>1. /\ UNCHANGED <<main, io, response, written>>
          /\ \/ UNCHANGED <<next, status>>
             \/ next' = next + 1 /\ \E v : status' = [status EXCEPT ![next] = v]
      BY <2>1 DEF SendRequest, MarkSent
    <3>2. ASSUME NEW j \in Jobs, response[j]
          PROVE  j < next' /\ status'[j] = "RECEIVED"
      <4>1. j < next /\ status[j] = "RECEIVED" /\ j # next
        BY <1>t, <3>2
      <4>2. CASE UNCHANGED <<next, status>>
        BY <4>1, <4>2
      <4>3. CASE next' = next + 1 /\ \E v : status' = [status EXCEPT ![next] = v]
        BY <1>t, <4>1, <4>3
      <4>4. QED
        BY <3>1, <4>2, <4>3
    <3>3. Jobs' = Jobs
      BY DEF Jobs
    <3>4. QED
      BY <3>1, <3>2, <3>3
  <2>2. CASE SendEnds \/ NotifyJobsSent \/ SenderChecks
    BY <2>2 DEF SendEnds, NotifyJobsSent, SenderChecks
  <2>3. QED
    BY <1>2, <2>1, <2>2 DEF SenderStep
<1>3. CASE IoStep
  <2>1. CASE SetJobResponse
    <3>1. msg \in Out /\ msg \in Jobs
      BY <2>1, OutIsJobs DEF SetJobResponse, IInv, CountInv
    <3>2. ~(sender = "sent" /\ msg = next)
      BY <2>1 DEF Overtakes, SetJobResponse
    <3>3. msg < next
      BY <3>1, <3>2 DEF Out, Marked
    <3>4. QED
      BY <1>t, <2>1, <3>1, <3>3 DEF SetJobResponse
  <2>2. CASE OnOpen \/ OnFail \/ TestStopping \/ IoChecks \/ OnClose
             \/ NotifyConnClosed \/ IoJoins \/ NotifyJobsDone
    BY <2>2 DEF OnOpen, OnFail, TestStopping, IoChecks, OnClose, NotifyConnClosed, IoJoins,
       NotifyJobsDone
  <2>3. QED
    BY <1>3, <2>1, <2>2 DEF IoStep
<1>4. CASE ServerStep
  BY <1>4 DEF ServerStep, OnMessage
<1>5. CASE SpuriousWakeup \/ DoubleJoin \/ ConnectionLost \/ UNCHANGED vars
  BY <1>5 DEF SpuriousWakeup, DoubleJoin, ConnectionLost, vars
<1>6. QED
  BY <1>1, <1>2, <1>3, <1>4, <1>5 DEF Next

\* Unless a response overtakes the sender between sending the request and noting
\* that it was sent, a response the client has accepted is in the output, also
\* when the client stops early or loses its connection.
THEOREM FinishedJobsWrittenAlways == Spec => FinishedJobsWritten
<1>1. Init => WrittenInv
  BY DEF Init, WrittenInv, Jobs
<1>2. IInv /\ WrittenInv /\ ~Overtakes /\ [Next]_vars => WrittenInv'
  BY WrittenStep
<1>3. WrittenInv => (main = "ended" => \A j \in Jobs : response[j] => j \in written)
  BY DEF WrittenInv
<1>4. QED
  BY <1>1, <1>2, <1>3, Invariance, PTL DEF Spec, FinishedJobsWritten
=============================================================================
