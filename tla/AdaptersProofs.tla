--------------------------- MODULE AdaptersProofs ---------------------------
(***************************************************************************)
(* Theorems about the balancer's adapters, for every set of servers and    *)
(* every assignment of language pairs to them.                             *)
(*                                                                         *)
(* That a list never holds an adapter twice rests on the order in which a  *)
(* connection does things: it is asked for its languages once, after it    *)
(* opened, and until its answer is handled the adapter is registered for   *)
(* nothing (ConnInv).  That the re-connection never takes the client from  *)
(* a listed adapter rests on the adapter's lock: what Recon finds under it *)
(* stays true until it releases it (LoopInv, ReconInv).                    *)
(***************************************************************************)
EXTENDS Adapters, SequenceTheorems, TLAPS

Removing == {"close", "stop", "join"}

\* Where the loops are, and what they have locked; Recon has ended before an
\* adapter is disabled, so that it only ever meets enabled ones.
LoopInv ==
  /\ pc[Admin] \in {"init", "enable", "serving", "joinRecon", "disable"} \cup Removing
  /\ pc[Recon] \in {"init", "sleep", "visit", "ended"} \cup Removing
  /\ pc[Admin] \in {"disable"} \cup Removing => pc[Recon] = "ended"
  /\ \A t \in Loops : pc[t] \in Removing =>
       cur[t] \in Adapters /\ lockCon[cur[t]] = t /\ (enabled[cur[t]] <=> t = Recon)
  /\ \A a \in Adapters : io[a] = "failing" => lockCon[a] = a

\* The adapters are as Init leaves them until they are enabled.
FreshInv ==
  \A a \in Adapters : pc[Admin] = "init" \/ (pc[Admin] = "enable" /\ a \in toVisit[Admin]) =>
    client[a] = "null" /\ registrations[a] = {} /\ ~asked[a]

\* The stages of a connection.
ConnInv ==
  \A a \in Adapters :
    /\ client[a] = "fresh" => io[a] \in {"loop", "ended"} /\ ~asked[a] /\ registrations[a] = {}
    /\ io[a] \in {"opened", "message"} =>
         client[a] \in {"open", "closing"} /\ ~asked[a] /\ registrations[a] = {}
    /\ io[a] = "message" => connected[a]
    /\ asked[a] => registrations[a] = {}
    /\ asked[a] /\ client[a] \in {"open", "closing"} => connected[a]
    /\ registrations[a] # {} => connected[a]
    /\ io[a] \in {"lost", "failing"} => client[a] = "closed"
    /\ client[a] = "closed" /\ io[a] # "lost" => registrations[a] = {}
    /\ registrations[a] # {} /\ enabled[a] => client[a] \in {"open", "closed"}
    /\ client[a] = "closing" /\ enabled[a] => lockCon[a] = Recon

\* While Recon removes a client, the adapter is in no list, or Io waits for the
\* lock to take it out.
ReconInv ==
  pc[Recon] \in Removing =>
    LET a == cur[Recon] IN registrations[a] = {} \/ (client[a] = "closed" /\ io[a] = "lost")

\* The lists agree with what the adapters have registered for.
ListInv ==
  /\ \A p \in Pairs : IsInjective(adaptersOf[p])
  /\ \A p \in Pairs, a \in Adapters : a \in Range(adaptersOf[p]) <=> p \in registrations[a]
  /\ suppLang = Offered(adaptersOf)

IInv == TypeOK /\ LoopInv /\ FreshInv /\ ConnInv /\ ReconInv /\ ListInv

-----------------------------------------------------------------------------
(* Lists                                                                     *)

LEMMA AppendOnce ==
  ASSUME NEW S, NEW s \in Seq(S), NEW x \in S, x \notin Range(s), IsInjective(s)
  PROVE  /\ Append(s, x) \in Seq(S) /\ IsInjective(Append(s, x))
         /\ Range(Append(s, x)) = Range(s) \cup {x}
<1> DEFINE r == Append(s, x)
<1>1. /\ r \in Seq(S) /\ Len(r) = Len(s) + 1 /\ Len(s) \in Nat
      /\ r[Len(s) + 1] = x /\ \A i \in 1..Len(s) : r[i] = s[i]
      /\ DOMAIN s = 1..Len(s) /\ DOMAIN r = 1..Len(s) + 1
  OBVIOUS
<1>2. Range(r) = Range(s) \cup {x}
  BY <1>1 DEF Range
<1>3. IsInjective(r)
  BY <1>1 DEF IsInjective, Range
<1>4. QED
  BY <1>1, <1>2, <1>3

LEMMA RemoveOnce ==
  ASSUME NEW S, NEW s \in Seq(S), NEW x, IsInjective(s)
  PROVE  /\ RemoveFirst(s, x) \in Seq(S) /\ IsInjective(RemoveFirst(s, x))
         /\ Range(RemoveFirst(s, x)) = Range(s) \ {x}
<1>1. CASE \A i \in 1..Len(s) : s[i] # x
  <2>1. RemoveFirst(s, x) = s
    BY <1>1 DEF RemoveFirst
  <2>2. x \notin Range(s)
    BY <1>1 DEF Range
  <2>3. QED
    BY <2>1, <2>2
<1>2. ASSUME NEW i \in 1..Len(s), s[i] = x
      PROVE  /\ RemoveFirst(s, x) \in Seq(S) /\ IsInjective(RemoveFirst(s, x))
             /\ Range(RemoveFirst(s, x)) = Range(s) \ {x}
  <2>1. SelectInSeq(s, LAMBDA v : v = x) = i
    <3>1. {k \in 1..Len(s) : s[k] = x} = {i}
      BY <1>2 DEF IsInjective
    <3>2. QED
      BY <3>1 DEF SelectInSeq, Min
  <2> DEFINE r == RemoveAt(s, i)
  <2>2. RemoveFirst(s, x) = r
    BY <1>2, <2>1 DEF RemoveFirst
  <2>3. Len(s) \in Nat /\ DOMAIN s = 1..Len(s) /\ \A k \in 1..Len(s) : s[k] \in S
    OBVIOUS
  <2>0. Len(s) \in Nat /\ i \in Nat /\ 1 <= i /\ i <= Len(s)
    OBVIOUS
  <2> DEFINE front == SubSeq(s, 1, i - 1)
             back == SubSeq(s, i + 1, Len(s))
  <2>4. /\ front \in Seq(S) /\ Len(front) = i - 1
        /\ \A k \in 1..i - 1 : front[k] = s[k]
    BY <2>3, SubSeqProperties
  <2>5. /\ back \in Seq(S) /\ Len(back) = Len(s) - i
        /\ \A k \in 1..Len(s) - i : back[k] = s[k + i]
    <3>1. \A k \in i + 1..Len(s) : s[k] \in S
      BY <2>3
    <3>2. /\ back \in Seq(S) /\ Len(back) = IF i + 1 <= Len(s) THEN Len(s) - (i + 1) + 1 ELSE 0
          /\ \A k \in 1..Len(s) - (i + 1) + 1 : back[k] = s[i + 1 + k - 1]
      BY <2>3, <3>1, SubSeqProperties
    <3> HIDE DEF back
    <3>3. ASSUME NEW k \in 1..Len(s) - i PROVE back[k] = s[k + i]
      <4>1. k \in 1..Len(s) - (i + 1) + 1 /\ i + 1 + k - 1 = k + i
        BY <2>3
      <4>2. QED
        BY <3>2, <4>1
    <3>4. Len(back) = Len(s) - i
      BY <2>0, <3>2
    <3>5. QED
      BY <3>2, <3>3, <3>4
  <2>6. /\ r \in Seq(S) /\ Len(r) = Len(s) - 1
        /\ \A k \in 1..Len(s) - 1 : r[k] = IF k < i THEN s[k] ELSE s[k + 1]
    <3>1. r = front \o back
      BY DEF RemoveAt
    <3> HIDE DEF front, back, r
    <3>2. r \in Seq(S) /\ Len(r) = Len(s) - 1
      BY <2>0, <2>4, <2>5, <3>1
    <3>3. ASSUME NEW k \in 1..Len(s) - 1 PROVE r[k] = IF k < i THEN s[k] ELSE s[k + 1]
      <4>1. CASE k < i
        <5>1. k \in 1..Len(front)
          BY <2>3, <2>4, <4>1
        <5>2. r[k] = front[k]
          BY <2>4, <2>5, <3>1, <5>1
        <5>3. QED
          BY <2>4, <4>1, <5>1, <5>2
      <4>2. CASE k >= i
        <5>1. k - (i - 1) \in 1..Len(back) /\ k \in Len(front) + 1..Len(front) + Len(back)
          BY <2>3, <2>4, <2>5, <4>2
        <5>2. r[k] = back[k - (i - 1)]
          BY <2>4, <2>5, <3>1, <5>1, SMTT(30)
        <5>3. k - (i - 1) \in 1..Len(s) - i /\ k - (i - 1) + i = k + 1
          BY <2>0, <2>5, <5>1
        <5>4. back[k - (i - 1)] = s[k + 1]
          BY <2>5, <5>3
        <5>5. QED
          BY <4>2, <5>2, <5>4
      <4>3. QED
        BY <2>3, <4>1, <4>2
    <3>4. QED
      BY <3>2, <3>3
  <2> HIDE DEF r
  <2>7. DOMAIN r = 1..Len(s) - 1
    BY <2>6
  <2>8. IsInjective(r)
    <3> SUFFICES ASSUME NEW k \in 1..Len(s) - 1, NEW m \in 1..Len(s) - 1, r[k] = r[m]
                 PROVE  k = m
      BY <2>7 DEF IsInjective
    <3> DEFINE at(n) == IF n < i THEN n ELSE n + 1
    <3>1. at(k) \in 1..Len(s) /\ at(m) \in 1..Len(s) /\ (at(k) = at(m) => k = m)
      BY <2>3
    <3>2. r[k] = s[at(k)] /\ r[m] = s[at(m)]
      BY <2>6
    <3>3. QED
      BY <2>3, <3>1, <3>2 DEF IsInjective
  <2>9. ASSUME NEW y \in Range(r) PROVE y \in Range(s) \ {x}
    <3>1. PICK k \in 1..Len(s) - 1 : y = r[k]
      BY <2>7 DEF Range
    <3>2. PICK m \in 1..Len(s) : y = s[m] /\ m # i
      BY <2>3, <2>6, <3>1
    <3>3. QED
      BY <1>2, <2>3, <3>2 DEF Range, IsInjective
  <2>10. ASSUME NEW y \in Range(s) \ {x} PROVE y \in Range(r)
    <3>1. PICK m \in 1..Len(s) : y = s[m] /\ m # i
      BY <1>2, <2>3 DEF Range
    <3>2. PICK k \in 1..Len(s) - 1 : y = r[k]
      <4>1. CASE m < i
        BY <2>3, <2>6, <3>1, <4>1
      <4>2. CASE m > i
        <5>1. m - 1 \in 1..Len(s) - 1 /\ ~(m - 1 < i) /\ m - 1 + 1 = m
          BY <2>3, <3>1, <4>2
        <5>2. r[m - 1] = s[m]
          BY <2>6, <5>1
        <5>3. QED
          BY <3>1, <5>1, <5>2
      <4>3. QED
        BY <2>3, <3>1, <4>1, <4>2
    <3>3. QED
      BY <2>7, <3>2 DEF Range
  <2>11. Range(r) = Range(s) \ {x}
    BY <2>9, <2>10
  <2>12. QED
    BY <2>2, <2>6, <2>8, <2>11
<1>3. QED
  BY <1>1, <1>2

-----------------------------------------------------------------------------
(* The initial states                                                        *)

LEMMA InitIInv == Init => IInv
<1> SUFFICES ASSUME Init PROVE IInv
  OBVIOUS
<1> USE PairsType, NamesDistinct DEF Init, Loops
<1>1. TypeOK
  BY DEF TypeOK, PCs
<1>2. LoopInv /\ FreshInv /\ ConnInv /\ ReconInv
  BY DEF LoopInv, FreshInv, ConnInv, ReconInv, Removing
<1>3. ListInv
  BY DEF ListInv, IsInjective, Range, Offered
<1>4. QED
  BY <1>1, <1>2, <1>3 DEF IInv

-----------------------------------------------------------------------------
(* The invariants, one by one                                                *)

LEMMA LoopStep ==
  ASSUME TypeOK, LoopInv, [Next]_vars
  PROVE  LoopInv'
<1> USE PairsType, NamesDistinct DEF conVars, clientVars, loopVars, regVars, Loops, TypeOK,
        LoopInv, Removing
<1>1. ASSUME NEW a \in Adapters, OnOpen(a) PROVE LoopInv'
  BY <1>1 DEF OnOpen, IoGoto
<1>2. ASSUME NEW a \in Adapters, NotifyConnOpened(a) PROVE LoopInv'
  BY <1>2 DEF NotifyConnOpened, IoGoto, Free
<1>3. ASSUME NEW a \in Adapters, OnMessage(a) PROVE LoopInv'
  BY <1>3 DEF OnMessage, IoGoto
<1>4. ASSUME NEW a \in Adapters, NotifyAdapterReady(a) PROVE LoopInv'
  BY <1>4 DEF NotifyAdapterReady, IoGoto, Free
<1>5. ASSUME NEW a \in Adapters, OnClosed(a) PROVE LoopInv'
  BY <1>5 DEF OnClosed, IoGoto
<1>6. ASSUME NEW a \in Adapters, NotifyConnClosed(a) PROVE LoopInv'
  BY <1>6 DEF NotifyConnClosed, IoGoto, Free
<1>7. ASSUME NEW a \in Adapters, JobsFailed(a) PROVE LoopInv'
  BY <1>7 DEF JobsFailed, IoGoto, Unlock
<1>8. ASSUME NEW a \in Adapters, IoEnds(a) PROVE LoopInv'
  BY <1>8 DEF IoEnds, IoGoto
<1>9. ASSUME NEW a \in Adapters, Reconnect(a) PROVE LoopInv'
  BY <1>9 DEF Reconnect, Goto, Free
<1>10. ASSUME NEW a \in Adapters, Enable(a) PROVE LoopInv'
  BY <1>10 DEF Enable, CreateClient, IoGoto, Free
<1>11. ASSUME NEW a \in Adapters, Disable(a) PROVE LoopInv'
  BY <1>11 DEF Disable, Goto, Free
<1>12. ASSUME NEW t \in Loops, Close(t) PROVE LoopInv'
  BY <1>12 DEF Close, Goto
<1>13. ASSUME NEW t \in Loops, StopIo(t) PROVE LoopInv'
  BY <1>13 DEF StopIo, Goto
<1>14. ASSUME NEW t \in Loops, JoinIo(t) PROVE LoopInv'
  BY <1>14 DEF JoinIo, Goto, Unlock, CreateClient, IoGoto
<1>15. CASE ReconWake
  BY <1>15 DEF ReconWake, Goto
<1>16. CASE ReconSleep
  BY <1>16 DEF ReconSleep, Goto
<1>17. CASE EnableBegin
  BY <1>17 DEF EnableBegin
<1>18. CASE EnableEnd
  BY <1>18 DEF EnableEnd, Goto
<1>19. CASE FinishReConnection
  BY <1>19 DEF FinishReConnection, Goto
<1>20. CASE JoinRecon
  BY <1>20 DEF JoinRecon, Goto
<1>21. CASE UNCHANGED vars
  BY <1>21 DEF vars
<1>22. QED
  BY <1>1, <1>2, <1>3, <1>4, <1>5, <1>6, <1>7, <1>8, <1>9, <1>10, <1>11, <1>12, <1>13, <1>14,
     <1>15, <1>16, <1>17, <1>18, <1>19, <1>20, <1>21 DEF Next, IoStep, ServerStep, ReconStep,
     AdminStep, RemoveStep

LEMMA FreshStep ==
  ASSUME TypeOK, LoopInv, FreshInv, [Next]_vars
  PROVE  FreshInv'
<1> USE PairsType, NamesDistinct DEF conVars, clientVars, loopVars, regVars, Loops, TypeOK,
        FreshInv
<1>1. ASSUME NEW a \in Adapters, OnOpen(a) PROVE FreshInv'
  BY <1>1 DEF OnOpen, IoGoto
<1>2. ASSUME NEW a \in Adapters, NotifyConnOpened(a) PROVE FreshInv'
  BY <1>2 DEF NotifyConnOpened, IoGoto, Free
<1>3. ASSUME NEW a \in Adapters, OnMessage(a) PROVE FreshInv'
  BY <1>3 DEF OnMessage, IoGoto
<1>4. ASSUME NEW a \in Adapters, NotifyAdapterReady(a) PROVE FreshInv'
  BY <1>4 DEF NotifyAdapterReady, IoGoto, Free
<1>5. ASSUME NEW a \in Adapters, OnClosed(a) PROVE FreshInv'
  BY <1>5 DEF OnClosed, IoGoto
<1>6. ASSUME NEW a \in Adapters, NotifyConnClosed(a) PROVE FreshInv'
  BY <1>6 DEF NotifyConnClosed, IoGoto, Free
<1>7. ASSUME NEW a \in Adapters, JobsFailed(a) PROVE FreshInv'
  BY <1>7 DEF JobsFailed, IoGoto, Unlock
<1>8. ASSUME NEW a \in Adapters, IoEnds(a) PROVE FreshInv'
  BY <1>8 DEF IoEnds, IoGoto
<1>9. ASSUME NEW a \in Adapters, Reconnect(a) PROVE FreshInv'
  BY <1>9 DEF Reconnect, Goto, Free
<1>10. ASSUME NEW a \in Adapters, Enable(a) PROVE FreshInv'
  BY <1>10 DEF Enable, CreateClient, IoGoto, Free
<1>11. ASSUME NEW a \in Adapters, Disable(a) PROVE FreshInv'
  BY <1>11 DEF Disable, Goto, Free
<1>12. ASSUME NEW t \in Loops, Close(t) PROVE FreshInv'
  BY <1>12 DEF Close, Goto
<1>13. ASSUME NEW t \in Loops, StopIo(t) PROVE FreshInv'
  BY <1>13 DEF StopIo, Goto
<1>14. ASSUME NEW t \in Loops, JoinIo(t) PROVE FreshInv'
  BY <1>14 DEF JoinIo, Goto, Unlock, CreateClient, IoGoto
<1>15. CASE ReconWake
  BY <1>15 DEF ReconWake, Goto
<1>16. CASE ReconSleep
  BY <1>16 DEF ReconSleep, Goto
<1>17. CASE EnableBegin
  BY <1>17 DEF EnableBegin
<1>18. CASE EnableEnd
  BY <1>18 DEF EnableEnd, Goto
<1>19. CASE FinishReConnection
  BY <1>19 DEF FinishReConnection, Goto
<1>20. CASE JoinRecon
  BY <1>20 DEF JoinRecon, Goto
<1>21. CASE UNCHANGED vars
  BY <1>21 DEF vars
<1>22. QED
  BY <1>1, <1>2, <1>3, <1>4, <1>5, <1>6, <1>7, <1>8, <1>9, <1>10, <1>11, <1>12, <1>13, <1>14,
     <1>15, <1>16, <1>17, <1>18, <1>19, <1>20, <1>21 DEF Next, IoStep, ServerStep, ReconStep,
     AdminStep, RemoveStep

LEMMA ConnStep ==
  ASSUME TypeOK, LoopInv, FreshInv, ConnInv, ReconInv, [Next]_vars
  PROVE  ConnInv'
<1> USE PairsType, NamesDistinct DEF conVars, clientVars, loopVars, regVars, Loops, TypeOK,
        ConnInv
<1>1. ASSUME NEW a \in Adapters, OnOpen(a) PROVE ConnInv'
  BY <1>1 DEF OnOpen, IoGoto
<1>2. ASSUME NEW a \in Adapters, NotifyConnOpened(a) PROVE ConnInv'
  BY <1>2 DEF NotifyConnOpened, IoGoto, Free
<1>3. ASSUME NEW a \in Adapters, OnMessage(a) PROVE ConnInv'
  BY <1>3 DEF OnMessage, IoGoto
<1>4. ASSUME NEW a \in Adapters, NotifyAdapterReady(a) PROVE ConnInv'
  BY <1>4 DEF NotifyAdapterReady, IoGoto, Free
<1>5. ASSUME NEW a \in Adapters, OnClosed(a) PROVE ConnInv'
  BY <1>5 DEF OnClosed, IoGoto
<1>6. ASSUME NEW a \in Adapters, NotifyConnClosed(a) PROVE ConnInv'
  BY <1>6 DEF NotifyConnClosed, IoGoto, Free
<1>7. ASSUME NEW a \in Adapters, JobsFailed(a) PROVE ConnInv'
  BY <1>7 DEF JobsFailed, IoGoto, Unlock
<1>8. ASSUME NEW a \in Adapters, IoEnds(a) PROVE ConnInv'
  BY <1>8 DEF IoEnds, IoGoto
<1>9. ASSUME NEW a \in Adapters, Reconnect(a) PROVE ConnInv'
  BY <1>9 DEF Reconnect, Goto, Free
<1>10. ASSUME NEW a \in Adapters, Enable(a) PROVE ConnInv'
  BY <1>10 DEF Enable, CreateClient, IoGoto, Free, FreshInv
<1>11. ASSUME NEW a \in Adapters, Disable(a) PROVE ConnInv'
  BY <1>11 DEF Disable, Goto, Free
<1>12. ASSUME NEW t \in Loops, Close(t) PROVE ConnInv'
  BY <1>12 DEF Close, Goto, LoopInv, ReconInv, Removing
<1>13. ASSUME NEW t \in Loops, StopIo(t) PROVE ConnInv'
  BY <1>13 DEF StopIo, Goto
<1>14. ASSUME NEW t \in Loops, JoinIo(t) PROVE ConnInv'
  BY <1>14 DEF JoinIo, Goto, Unlock, CreateClient, IoGoto, LoopInv, ReconInv, Removing
<1>15. CASE ReconWake
  BY <1>15 DEF ReconWake, Goto
<1>16. CASE ReconSleep
  BY <1>16 DEF ReconSleep, Goto
<1>17. CASE EnableBegin
  BY <1>17 DEF EnableBegin
<1>18. CASE EnableEnd
  BY <1>18 DEF EnableEnd, Goto
<1>19. CASE FinishReConnection
  BY <1>19 DEF FinishReConnection, Goto
<1>20. CASE JoinRecon
  BY <1>20 DEF JoinRecon, Goto
<1>21. CASE UNCHANGED vars
  BY <1>21 DEF vars
<1>22. QED
  BY <1>1, <1>2, <1>3, <1>4, <1>5, <1>6, <1>7, <1>8, <1>9, <1>10, <1>11, <1>12, <1>13, <1>14,
     <1>15, <1>16, <1>17, <1>18, <1>19, <1>20, <1>21 DEF Next, IoStep, ServerStep, ReconStep,
     AdminStep, RemoveStep

LEMMA ReconStepInv ==
  ASSUME TypeOK, LoopInv, ConnInv, ReconInv, [Next]_vars
  PROVE  ReconInv'
<1> USE PairsType, NamesDistinct DEF conVars, clientVars, loopVars, regVars, Loops, TypeOK,
        ReconInv, Removing
<1>1. ASSUME NEW a \in Adapters, OnOpen(a) PROVE ReconInv'
  BY <1>1 DEF OnOpen, IoGoto
<1>2. ASSUME NEW a \in Adapters, NotifyConnOpened(a) PROVE ReconInv'
  BY <1>2 DEF NotifyConnOpened, IoGoto, Free
<1>3. ASSUME NEW a \in Adapters, OnMessage(a) PROVE ReconInv'
  BY <1>3 DEF OnMessage, IoGoto
<1>4. ASSUME NEW a \in Adapters, NotifyAdapterReady(a) PROVE ReconInv'
  BY <1>4 DEF NotifyAdapterReady, IoGoto, Free, LoopInv
<1>5. ASSUME NEW a \in Adapters, OnClosed(a) PROVE ReconInv'
  BY <1>5 DEF OnClosed, IoGoto
<1>6. ASSUME NEW a \in Adapters, NotifyConnClosed(a) PROVE ReconInv'
  <2>1. UNCHANGED <<client, pc, cur>>
    BY <1>6 DEF NotifyConnClosed
  <2>2. pc[Recon] \in Removing => cur[Recon] \in Adapters /\ cur[Recon] # a
    BY <1>6 DEF NotifyConnClosed, Free, LoopInv
  <2>3. \A b \in Adapters \ {a} : registrations'[b] = registrations[b] /\ io'[b] = io[b]
    BY <1>6 DEF NotifyConnClosed, IoGoto
  <2>4. QED
    BY <2>1, <2>2, <2>3
<1>7. ASSUME NEW a \in Adapters, JobsFailed(a) PROVE ReconInv'
  BY <1>7 DEF JobsFailed, IoGoto, Unlock
<1>8. ASSUME NEW a \in Adapters, IoEnds(a) PROVE ReconInv'
  BY <1>8 DEF IoEnds, IoGoto
<1>9. ASSUME NEW a \in Adapters, Reconnect(a) PROVE ReconInv'
  BY <1>9 DEF Reconnect, Goto, Free, IsDisconnected, ConnInv
<1>10. ASSUME NEW a \in Adapters, Enable(a) PROVE ReconInv'
  BY <1>10 DEF Enable, CreateClient, IoGoto, Free, LoopInv
<1>11. ASSUME NEW a \in Adapters, Disable(a) PROVE ReconInv'
  BY <1>11 DEF Disable, Goto, Free
<1>12. ASSUME NEW t \in Loops, Close(t) PROVE ReconInv'
  BY <1>12 DEF Close, Goto
<1>13. ASSUME NEW t \in Loops, StopIo(t) PROVE ReconInv'
  BY <1>13 DEF StopIo, Goto
<1>14. ASSUME NEW t \in Loops, JoinIo(t) PROVE ReconInv'
  BY <1>14 DEF JoinIo, Goto, Unlock, CreateClient, IoGoto, LoopInv, ConnInv
<1>15. CASE ReconWake
  BY <1>15 DEF ReconWake, Goto
<1>16. CASE ReconSleep
  BY <1>16 DEF ReconSleep, Goto
<1>17. CASE EnableBegin
  BY <1>17 DEF EnableBegin
<1>18. CASE EnableEnd
  BY <1>18 DEF EnableEnd, Goto
<1>19. CASE FinishReConnection
  BY <1>19 DEF FinishReConnection, Goto
<1>20. CASE JoinRecon
  BY <1>20 DEF JoinRecon, Goto
<1>21. CASE UNCHANGED vars
  BY <1>21 DEF vars
<1>22. QED
  BY <1>1, <1>2, <1>3, <1>4, <1>5, <1>6, <1>7, <1>8, <1>9, <1>10, <1>11, <1>12, <1>13, <1>14,
     <1>15, <1>16, <1>17, <1>18, <1>19, <1>20, <1>21 DEF Next, IoStep, ServerStep, ReconStep,
     AdminStep, RemoveStep

-----------------------------------------------------------------------------
(* The lists                                                                 *)

LEMMA ReadyLists ==
  ASSUME TypeOK, ConnInv, ListInv, NEW a \in Adapters, NotifyAdapterReady(a)
  PROVE  \A p \in Pairs :
           /\ adaptersOf'[p] \in Seq(Adapters) /\ IsInjective(adaptersOf'[p])
           /\ \A b \in Adapters : b \in Range(adaptersOf'[p]) <=> p \in registrations'[b]
<1> SUFFICES ASSUME NEW p \in Pairs
             PROVE  /\ adaptersOf'[p] \in Seq(Adapters) /\ IsInjective(adaptersOf'[p])
                    /\ \A b \in Adapters : b \in Range(adaptersOf'[p]) <=> p \in registrations'[b]
  OBVIOUS
<1>1. /\ adaptersOf[p] \in Seq(Adapters) /\ IsInjective(adaptersOf[p])
      /\ \A b \in Adapters : b \in Range(adaptersOf[p]) <=> p \in registrations[b]
  BY DEF TypeOK, ListInv
<1>2. a \notin Range(adaptersOf[p])
  BY <1>1 DEF ConnInv, NotifyAdapterReady
<1>3. /\ adaptersOf'[p] = IF p \in PairsOf[a] THEN Append(adaptersOf[p], a) ELSE adaptersOf[p]
      /\ \A b \in Adapters : registrations'[b] =
             IF b = a THEN registrations[b] \cup PairsOf[a] ELSE registrations[b]
  BY DEF NotifyAdapterReady, TypeOK
<1>4. CASE p \in PairsOf[a]
  <2>1. /\ adaptersOf'[p] \in Seq(Adapters) /\ IsInjective(adaptersOf'[p])
        /\ Range(adaptersOf'[p]) = Range(adaptersOf[p]) \cup {a}
    BY <1>1, <1>2, <1>3, <1>4, AppendOnce
  <2>2. QED
    BY <1>1, <1>3, <1>4, <2>1
<1>5. CASE p \notin PairsOf[a]
  BY <1>1, <1>3, <1>5
<1>6. QED
  BY <1>4, <1>5

LEMMA ClosedLists ==
  ASSUME TypeOK, ListInv, NEW a \in Adapters, NotifyConnClosed(a), connected[a]
  PROVE  \A p \in Pairs :
           /\ adaptersOf'[p] \in Seq(Adapters) /\ IsInjective(adaptersOf'[p])
           /\ \A b \in Adapters : b \in Range(adaptersOf'[p]) <=> p \in registrations'[b]
<1> SUFFICES ASSUME NEW p \in Pairs
             PROVE  /\ adaptersOf'[p] \in Seq(Adapters) /\ IsInjective(adaptersOf'[p])
                    /\ \A b \in Adapters : b \in Range(adaptersOf'[p]) <=> p \in registrations'[b]
  OBVIOUS
<1>1. /\ adaptersOf[p] \in Seq(Adapters) /\ IsInjective(adaptersOf[p])
      /\ \A b \in Adapters : b \in Range(adaptersOf[p]) <=> p \in registrations[b]
  BY DEF TypeOK, ListInv
<1>2. /\ adaptersOf'[p] = IF p \in registrations[a] THEN RemoveFirst(adaptersOf[p], a)
                                                   ELSE adaptersOf[p]
      /\ \A b \in Adapters : registrations'[b] = IF b = a THEN {} ELSE registrations[b]
  BY DEF NotifyConnClosed, TypeOK
<1>3. CASE p \in registrations[a]
  <2>1. /\ adaptersOf'[p] \in Seq(Adapters) /\ IsInjective(adaptersOf'[p])
        /\ Range(adaptersOf'[p]) = Range(adaptersOf[p]) \ {a}
    BY <1>1, <1>2, <1>3, RemoveOnce
  <2>2. QED
    BY <1>1, <1>2, <2>1
<1>4. CASE p \notin registrations[a]
  BY <1>1, <1>2, <1>4
<1>5. QED
  BY <1>3, <1>4

\* The steps that leave the lists alone.
LEMMA ListsChange ==
  ASSUME [Next]_vars
  PROVE  \/ UNCHANGED regVars
         \/ \E a \in Adapters : NotifyAdapterReady(a)
         \/ \E a \in Adapters : NotifyConnClosed(a) /\ connected[a]
BY DEF Next, IoStep, ServerStep, ReconStep, AdminStep, RemoveStep, vars, OnOpen, NotifyConnOpened,
   OnMessage, OnClosed, NotifyConnClosed, JobsFailed, IoEnds, Reconnect, Enable, Disable, Close,
   StopIo, JoinIo, ReconWake, ReconSleep, EnableBegin, EnableEnd, FinishReConnection, JoinRecon,
   regVars

LEMMA ListStep ==
  ASSUME TypeOK, ConnInv, ListInv, [Next]_vars
  PROVE  ListInv' /\ adaptersOf' \in [Pairs -> Seq(Adapters)] /\ suppLang' \subseteq Pairs
<1>1. CASE UNCHANGED regVars
  BY <1>1 DEF TypeOK, ListInv, regVars, Offered
<1>2. ASSUME NEW a \in Adapters, NotifyAdapterReady(a)
      PROVE  ListInv' /\ adaptersOf' \in [Pairs -> Seq(Adapters)] /\ suppLang' \subseteq Pairs
  <2>1. /\ adaptersOf' = [p \in Pairs |-> IF p \in PairsOf[a] THEN Append(adaptersOf[p], a)
                                                              ELSE adaptersOf[p]]
        /\ suppLang' = {p \in Pairs : adaptersOf'[p] # <<>>}
    BY <1>2 DEF NotifyAdapterReady, Offered
  <2>2. adaptersOf' \in [Pairs -> Seq(Adapters)]
    BY <1>2, <2>1, ReadyLists
  <2>3. QED
    BY <1>2, <2>1, <2>2, ReadyLists DEF ListInv, Offered
<1>3. ASSUME NEW a \in Adapters, NotifyConnClosed(a), connected[a]
      PROVE  ListInv' /\ adaptersOf' \in [Pairs -> Seq(Adapters)] /\ suppLang' \subseteq Pairs
  <2>1. /\ adaptersOf' = [p \in Pairs |-> IF p \in registrations[a]
                                         THEN RemoveFirst(adaptersOf[p], a) ELSE adaptersOf[p]]
        /\ suppLang' = {p \in Pairs : adaptersOf'[p] # <<>>}
    BY <1>3 DEF NotifyConnClosed, Offered
  <2>2. adaptersOf' \in [Pairs -> Seq(Adapters)]
    BY <1>3, <2>1, ClosedLists
  <2>3. QED
    BY <1>3, <2>1, <2>2, ClosedLists DEF ListInv, Offered
<1>4. QED
  BY <1>1, <1>2, <1>3, ListsChange

-----------------------------------------------------------------------------
(* Types                                                                     *)

\* All of TypeOK but the lists.
ConnType ==
  /\ lockCon \in [Adapters -> Adapters \cup {Admin, Recon, NoThread}]
  /\ \A a \in Adapters : lockCon[a] \in {a, Admin, Recon, NoThread}
  /\ enabled \in [Adapters -> BOOLEAN] /\ connected \in [Adapters -> BOOLEAN]
  /\ client \in [Adapters -> {"null", "fresh", "open", "closed", "closing"}]
  /\ asked \in [Adapters -> BOOLEAN] /\ stopped \in [Adapters -> BOOLEAN]
  /\ io \in [Adapters -> {"none", "loop", "opened", "message", "lost", "failing", "ended"}]
  /\ reconRun \in BOOLEAN /\ pc \in [Loops -> PCs]
  /\ cur \in [Loops -> Adapters \cup {NoThread}]
  /\ toVisit \in [Loops -> SUBSET Adapters]
  /\ registrations \in [Adapters -> SUBSET Pairs]
  /\ \A a \in Adapters : client[a] = "null" <=> io[a] = "none"

LEMMA TypeStep ==
  ASSUME ConnType, LoopInv, FreshInv, [Next]_vars
  PROVE  ConnType'
<1> USE PairsType, NamesDistinct DEF conVars, clientVars, loopVars, regVars, Loops, ConnType,
        PCs
<1>1. ASSUME NEW a \in Adapters, OnOpen(a) PROVE ConnType'
  BY <1>1 DEF OnOpen, IoGoto
<1>2. ASSUME NEW a \in Adapters, NotifyConnOpened(a) PROVE ConnType'
  BY <1>2 DEF NotifyConnOpened, IoGoto, Free
<1>3. ASSUME NEW a \in Adapters, OnMessage(a) PROVE ConnType'
  BY <1>3 DEF OnMessage, IoGoto
<1>4. ASSUME NEW a \in Adapters, NotifyAdapterReady(a) PROVE ConnType'
  BY <1>4 DEF NotifyAdapterReady, IoGoto, Free
<1>5. ASSUME NEW a \in Adapters, OnClosed(a) PROVE ConnType'
  BY <1>5 DEF OnClosed, IoGoto
<1>6. ASSUME NEW a \in Adapters, NotifyConnClosed(a) PROVE ConnType'
  BY <1>6, SMTT(30) DEF NotifyConnClosed, IoGoto, Free
<1>7. ASSUME NEW a \in Adapters, JobsFailed(a) PROVE ConnType'
  BY <1>7 DEF JobsFailed, IoGoto, Unlock
<1>8. ASSUME NEW a \in Adapters, IoEnds(a) PROVE ConnType'
  BY <1>8 DEF IoEnds, IoGoto
<1>9. ASSUME NEW a \in Adapters, Reconnect(a) PROVE ConnType'
  BY <1>9 DEF Reconnect, Goto, Free
<1>10. ASSUME NEW a \in Adapters, Enable(a) PROVE ConnType'
  BY <1>10 DEF Enable, CreateClient, IoGoto, Free, FreshInv
<1>11. ASSUME NEW a \in Adapters, Disable(a) PROVE ConnType'
  BY <1>11 DEF Disable, Goto, Free
<1>12. ASSUME NEW t \in Loops, Close(t) PROVE ConnType'
  BY <1>12 DEF Close, Goto, LoopInv, Removing
<1>13. ASSUME NEW t \in Loops, StopIo(t) PROVE ConnType'
  BY <1>13 DEF StopIo, Goto, LoopInv, Removing
<1>14. ASSUME NEW t \in Loops, JoinIo(t) PROVE ConnType'
  <2>1. /\ cur[t] \in Adapters /\ io[cur[t]] = "ended"
        /\ lockCon' = [lockCon EXCEPT ![cur[t]] = NoThread]
        /\ pc' = [pc EXCEPT ![t] = IF t = Recon THEN "visit" ELSE "disable"]
        /\ UNCHANGED <<enabled, connected, reconRun, cur, toVisit, registrations>>
    BY <1>14 DEF JoinIo, Goto, Unlock, LoopInv, Removing
  <2>2. CASE t = Recon
    <3>1. /\ client' = [client EXCEPT ![cur[t]] = "fresh"] /\ io' = [io EXCEPT ![cur[t]] = "loop"]
          /\ asked' = [asked EXCEPT ![cur[t]] = FALSE]
          /\ stopped' = [stopped EXCEPT ![cur[t]] = FALSE]
      BY <1>14, <2>2 DEF JoinIo, CreateClient, IoGoto
    <3>2. \A a \in Adapters : client'[a] = "null" <=> io'[a] = "none"
      BY <2>1, <3>1
    <3>3. QED
      BY <2>1, <3>1, <3>2
  <2>3. CASE t # Recon
    BY <1>14, <2>1, <2>3 DEF JoinIo
  <2>4. QED
    BY <2>2, <2>3
<1>15. CASE ReconWake
  BY <1>15 DEF ReconWake, Goto
<1>16. CASE ReconSleep
  BY <1>16 DEF ReconSleep, Goto
<1>17. CASE EnableBegin
  BY <1>17 DEF EnableBegin
<1>18. CASE EnableEnd
  BY <1>18 DEF EnableEnd, Goto
<1>19. CASE FinishReConnection
  BY <1>19 DEF FinishReConnection, Goto
<1>20. CASE JoinRecon
  BY <1>20 DEF JoinRecon, Goto
<1>21. CASE UNCHANGED vars
  BY <1>21 DEF vars
<1>22. QED
  BY <1>1, <1>2, <1>3, <1>4, <1>5, <1>6, <1>7, <1>8, <1>9, <1>10, <1>11, <1>12, <1>13, <1>14,
     <1>15, <1>16, <1>17, <1>18, <1>19, <1>20, <1>21 DEF Next, IoStep, ServerStep, ReconStep,
     AdminStep, RemoveStep

-----------------------------------------------------------------------------
(* The theorems                                                              *)

LEMMA Inductive == IInv /\ [Next]_vars => IInv'
<1> SUFFICES ASSUME IInv, [Next]_vars PROVE IInv'
  OBVIOUS
<1>1. LoopInv' /\ FreshInv' /\ ConnInv' /\ ReconInv'
  BY LoopStep, FreshStep, ConnStep, ReconStepInv DEF IInv
<1>2. ConnType
  BY DEF ConnType, IInv, TypeOK
<1>3. ConnType'
  BY <1>2, TypeStep DEF IInv
<1>4. ListInv' /\ adaptersOf' \in [Pairs -> Seq(Adapters)] /\ suppLang' \subseteq Pairs
  BY ListStep DEF IInv
<1>5. TypeOK'
  BY <1>3, <1>4 DEF TypeOK, ConnType
<1>6. QED
  BY <1>1, <1>4, <1>5 DEF IInv

THEOREM Invariance == Spec => []IInv
<1>1. QED
  BY InitIInv, Inductive, PTL DEF Spec

\* The variables keep to their types, and a client exists exactly as long as
\* its asio thread.
THEOREM TypeAlways == Spec => []TypeOK
<1>1. IInv => TypeOK
  BY DEF IInv
<1>2. QED
  BY <1>1, Invariance, PTL

LEMMA ListedRegistered ==
  ASSUME TypeOK, ListInv, NEW a \in Adapters
  PROVE  Listed(a) <=> registrations[a] # {}
BY DEF TypeOK, ListInv, Listed

\* Through losses and re-connections an adapter is listed once for each pair it
\* has registered for and nowhere else, the languages offered are those of the
\* lists, and the re-connection thread takes no client from a listed adapter.
THEOREM ListedOnceWithClientAlways == Spec => []ListedOnceWithClient
<1>1. ASSUME IInv PROVE ListedOnceWithClient
  <2>1. ASSUME NEW a \in Adapters, Listed(a), enabled[a]
        PROVE  connected[a] /\ (client[a] = "open" \/ (client[a] = "closed" /\ io[a] = "lost"))
    <3>1. registrations[a] # {}
      BY <1>1, <2>1, ListedRegistered DEF IInv
    <3>2. QED
      BY <1>1, <2>1, <3>1 DEF IInv, ConnInv
  <2>2. QED
    BY <1>1, <2>1 DEF IInv, ListInv, ListedOnceWithClient
<1>2. QED
  BY <1>1, Invariance, PTL

-----------------------------------------------------------------------------
(* The adapters keep to AdapterProtocol                                      *)

LEMMA StageOf ==
  ASSUME TypeOK, ListInv
  PROVE  Stage = [a \in Adapters |-> IF io[a] = "failing" THEN "failing"
                                    ELSE IF registrations[a] # {} THEN "online" ELSE "offline"]
BY ListedRegistered DEF Stage

LEMMA StageOfNext ==
  ASSUME TypeOK', ListInv'
  PROVE  Stage' = [a \in Adapters |-> IF io'[a] = "failing" THEN "failing"
                                     ELSE IF registrations'[a] # {} THEN "online" ELSE "offline"]
<1>1. \A a \in Adapters : Listed(a)' <=> registrations'[a] # {}
  BY DEF TypeOK, ListInv, Listed
<1>2. QED
  BY <1>1 DEF Stage

LEMMA StageInit ==
  ASSUME Init
  PROVE  Protocol!PInit
<1>1. Stage = [a \in Adapters |-> "offline"]
  BY InitIInv, StageOf DEF Init, IInv
<1>2. QED
  BY <1>1 DEF Protocol!PInit

\* The steps that move no adapter to another stage.
StagesStay ==
  /\ UNCHANGED registrations
  /\ \A b \in Adapters : io'[b] = "failing" <=> io[b] = "failing"

LEMMA StageMoves ==
  ASSUME TypeOK, LoopInv, FreshInv, [Next]_vars
  PROVE  \/ StagesStay
         \/ \E a \in Adapters : \/ NotifyAdapterReady(a) \/ JobsFailed(a)
                             \/ (NotifyConnClosed(a) /\ connected[a])
<1> USE NamesDistinct DEF StagesStay, TypeOK, Loops, regVars, clientVars, loopVars
<1>1. ASSUME NEW a \in Adapters, OnOpen(a) \/ NotifyConnOpened(a) \/ OnMessage(a) PROVE StagesStay
  BY <1>1 DEF OnOpen, NotifyConnOpened, OnMessage, IoGoto
<1>2. ASSUME NEW a \in Adapters, OnClosed(a) \/ IoEnds(a) PROVE StagesStay
  BY <1>2 DEF OnClosed, IoEnds, IoGoto
<1>3. ASSUME NEW a \in Adapters, NotifyConnClosed(a), ~connected[a] PROVE StagesStay
  BY <1>3 DEF NotifyConnClosed, IoGoto
<1>4. ASSUME NEW a \in Adapters, Reconnect(a) \/ Disable(a) PROVE StagesStay
  BY <1>4 DEF Reconnect, Disable
<1>5. ASSUME NEW a \in Adapters, Enable(a) PROVE StagesStay
  BY <1>5 DEF Enable, CreateClient, IoGoto, FreshInv
<1>6. ASSUME NEW t \in Loops, Close(t) \/ StopIo(t) PROVE StagesStay
  BY <1>6 DEF Close, StopIo
<1>7. ASSUME NEW t \in Loops, JoinIo(t) PROVE StagesStay
  <2>1. cur[t] \in Adapters /\ io[cur[t]] = "ended" /\ UNCHANGED registrations
    BY <1>7 DEF JoinIo, LoopInv, Removing
  <2>2. io' = [io EXCEPT ![cur[t]] = "loop"] \/ io' = [io EXCEPT ![cur[t]] = "none"]
    BY <1>7 DEF JoinIo, CreateClient, IoGoto
  <2>3. QED
    BY <2>1, <2>2
<1>8. CASE ReconWake \/ ReconSleep \/ EnableBegin \/ EnableEnd \/ FinishReConnection \/ JoinRecon
  BY <1>8 DEF ReconWake, ReconSleep, EnableBegin, EnableEnd, FinishReConnection, JoinRecon
<1>9. CASE UNCHANGED vars
  BY <1>9 DEF vars
<1>10. QED
  BY <1>1, <1>2, <1>3, <1>4, <1>5, <1>6, <1>7, <1>8, <1>9
     DEF Next, IoStep, ServerStep, ReconStep, AdminStep, RemoveStep

LEMMA StageStep ==
  ASSUME IInv, IInv', [Next]_vars
  PROVE  Protocol!PNext \/ UNCHANGED Stage
<1>1. /\ Stage = [a \in Adapters |-> IF io[a] = "failing" THEN "failing"
                                    ELSE IF registrations[a] # {} THEN "online" ELSE "offline"]
      /\ Stage' = [a \in Adapters |-> IF io'[a] = "failing" THEN "failing"
                                     ELSE IF registrations'[a] # {} THEN "online" ELSE "offline"]
  BY StageOf, StageOfNext DEF IInv
<1>2. CASE StagesStay
  BY <1>1, <1>2 DEF StagesStay
<1>3. ASSUME NEW a \in Adapters, NotifyAdapterReady(a) PROVE Protocol!PNext \/ UNCHANGED Stage
  <2>1. /\ io[a] = "message" /\ registrations[a] = {} /\ io' = [io EXCEPT ![a] = "loop"]
        /\ registrations' = [registrations EXCEPT ![a] = @ \cup PairsOf[a]]
    BY <1>3 DEF NotifyAdapterReady, IoGoto, IInv, ConnInv
  <2>2. CASE PairsOf[a] = {}
    BY <1>1, <2>1, <2>2 DEF IInv, TypeOK
  <2>3. CASE PairsOf[a] # {}
    <3>1. Stage[a] = "offline"
      BY <1>1, <2>1
    <3>2. \A b \in Adapters \ {a} : io'[b] = io[b] /\ registrations'[b] = registrations[b]
      BY <2>1
    <3>3. io'[a] # "failing" /\ registrations'[a] # {}
      BY <2>1, <2>3 DEF IInv, TypeOK
    <3>4. Stage' = [Stage EXCEPT ![a] = "online"]
      BY <1>1, <3>2, <3>3
    <3>5. QED
      BY <3>1, <3>4 DEF Protocol!PNext, Protocol!Ready, Protocol!Step
  <2>4. QED
    BY <2>2, <2>3
<1>4. ASSUME NEW a \in Adapters, NotifyConnClosed(a), connected[a] PROVE Protocol!PNext
  <2>1. /\ io[a] = "lost" /\ io' = [io EXCEPT ![a] = "failing"]
        /\ registrations' = [registrations EXCEPT ![a] = {}]
    BY <1>4 DEF NotifyConnClosed, IoGoto
  <2>2. Stage[a] \in {"offline", "online"}
    BY <1>1, <2>1
  <2>3. Stage' = [Stage EXCEPT ![a] = "failing"]
    <3>1. \A b \in Adapters \ {a} : io'[b] = io[b] /\ registrations'[b] = registrations[b]
      BY <2>1
    <3>2. io'[a] = "failing"
      BY <2>1 DEF IInv, TypeOK
    <3>3. QED
      BY <1>1, <3>1, <3>2
  <2>4. QED
    BY <2>2, <2>3 DEF Protocol!PNext, Protocol!Withdraw, Protocol!Step
<1>5. ASSUME NEW a \in Adapters, JobsFailed(a) PROVE Protocol!PNext
  <2>1. /\ io[a] = "failing" /\ io' = [io EXCEPT ![a] = "loop"]
        /\ registrations' = registrations /\ registrations[a] = {}
    BY <1>5 DEF JobsFailed, IoGoto, IInv, ConnInv, regVars
  <2>2. Stage[a] = "failing"
    BY <1>1, <2>1
  <2>3. Stage' = [Stage EXCEPT ![a] = "offline"]
    <3>1. \A b \in Adapters \ {a} : io'[b] = io[b] /\ registrations'[b] = registrations[b]
      BY <2>1
    <3>2. io'[a] # "failing" /\ registrations'[a] = {}
      BY <2>1 DEF IInv, TypeOK
    <3>3. QED
      BY <1>1, <3>1, <3>2
  <2>4. QED
    BY <2>2, <2>3 DEF Protocol!PNext, Protocol!JobsFailed, Protocol!Step
<1>6. QED
  BY <1>2, <1>3, <1>4, <1>5, StageMoves DEF IInv

\* What the balancer's jobs rely on: an adapter is offered only between becoming
\* ready and losing its connection, and when it is lost it is withdrawn first and
\* its jobs are failed, once, before it can become ready again.
THEOREM AdaptersImplementProtocol == Spec => ImplementsAdapterProtocol
<1>1. Init => Protocol!PInit
  BY StageInit
<1>2. IInv /\ IInv' /\ [Next]_vars => [Protocol!PNext]_Stage
  BY StageStep
<1>3. QED
  BY <1>1, <1>2, Invariance, PTL DEF Spec, ImplementsAdapterProtocol, Protocol!PSpec
=============================================================================
