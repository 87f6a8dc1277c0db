------------------------------ MODULE Adapters ------------------------------
(***************************************************************************)
(* The balancer's connections to its translation servers: the adapters of  *)
(* inc/balancer/translator_adapter.hpp, the websocket client each of them  *)
(* owns, inc/client/generic_client.hpp, and their manager,                 *)
(* inc/balancer/adapters_manager.hpp.                                      *)
(*                                                                         *)
(* Threads: Admin enables the adapters when the balancer starts and        *)
(* disables them when it stops; Recon is the re-connection thread; every   *)
(* client has an asio thread, named after its adapter, that runs the       *)
(* connection's callbacks.                                                 *)
(*                                                                         *)
(* The adapter's recursive m_lock_con is explicit.  The client's own mutex *)
(* and those of the language maps only guard sections that take no lock    *)
(* held elsewhere across a wait, so that these sections are single steps.  *)
(* m_is_connecting is only reported, and left out.                         *)
(***************************************************************************)
EXTENDS Naturals, Sequences, FiniteSets, SequencesExt

CONSTANTS
  Adapters,  \* one per translation server of the configuration
  Pairs,     \* the language pairs
  PairsOf,   \* the pairs each server reports as supported
  Admin, Recon, NoThread

ASSUME PairsType == PairsOf \in [Adapters -> SUBSET Pairs]
ASSUME NamesDistinct ==
  /\ {Admin, Recon, NoThread} \cap Adapters = {}
  /\ Admin # Recon /\ Admin # NoThread /\ Recon # NoThread

VARIABLES
  lockCon,      \* owner of m_lock_con of each adapter
  enabled,      \* m_is_enabled
  connected,    \* m_is_connected
  client,       \* m_client: "null", or its flags: "fresh" neither opened nor
                \* closed, "open", "closed" by the server, "closing" by disconnect()
  asked,        \* has the server to answer a supported languages request?
  io,           \* where the client's asio thread is
  stopped,      \* was the client's io service stopped?
  reconRun,     \* m_is_reconnect_run
  pc,           \* where Admin and Recon are
  cur,          \* the adapter each of them deals with
  toVisit,      \* the adapters each has still to visit in its loop
  adaptersOf,   \* m_adapters of each pair's target entry
  registrations, \* m_registrations of each adapter
  suppLang      \* m_supp_lan_resp_str, as the set of pairs it offers

conVars == <<enabled, connected>>
clientVars == <<client, asked, io, stopped>>
loopVars == <<reconRun, pc, cur, toVisit>>
regVars == <<adaptersOf, registrations, suppLang>>
vars == <<lockCon, conVars, clientVars, loopVars, regVars>>

Loops == {Admin, Recon}
PCs == {"init", "enable", "serving", "joinRecon", "disable", "sleep", "visit",
        "close", "stop", "join", "ended"}

\* The values the variables may have; a client exists exactly as long as its
\* asio thread.
TypeOK ==
  /\ lockCon \in [Adapters -> Adapters \cup {Admin, Recon, NoThread}]
  /\ \A a \in Adapters : lockCon[a] \in {a, Admin, Recon, NoThread}
  /\ enabled \in [Adapters -> BOOLEAN] /\ connected \in [Adapters -> BOOLEAN]
  /\ client \in [Adapters -> {"null", "fresh", "open", "closed", "closing"}]
  /\ asked \in [Adapters -> BOOLEAN] /\ stopped \in [Adapters -> BOOLEAN]
  /\ io \in [Adapters -> {"none", "loop", "opened", "message", "lost", "failing", "ended"}]
  /\ reconRun \in BOOLEAN /\ pc \in [Loops -> PCs]
  /\ cur \in [Loops -> Adapters \cup {NoThread}]
  /\ toVisit \in [Loops -> SUBSET Adapters]
  /\ adaptersOf \in [Pairs -> Seq(Adapters)] /\ suppLang \subseteq Pairs
  /\ registrations \in [Adapters -> SUBSET Pairs]
  /\ \A a \in Adapters : client[a] = "null" <=> io[a] = "none"

Init ==
  /\ lockCon = [a \in Adapters |-> NoThread]
  /\ enabled = [a \in Adapters |-> FALSE] /\ connected = [a \in Adapters |-> FALSE]
  /\ client = [a \in Adapters |-> "null"] /\ asked = [a \in Adapters |-> FALSE]
  /\ io = [a \in Adapters |-> "none"] /\ stopped = [a \in Adapters |-> FALSE]
  /\ reconRun = TRUE
  /\ pc = [t \in Loops |-> "init"]
  /\ cur = [t \in Loops |-> NoThread] /\ toVisit = [t \in Loops |-> {}]
  /\ adaptersOf = [p \in Pairs |-> <<>>] /\ suppLang = {}
  /\ registrations = [a \in Adapters |-> {}]

Free(a) == lockCon[a] = NoThread
Goto(t, l) == pc' = [pc EXCEPT ![t] = l]
IoGoto(a, l) == io' = [io EXCEPT ![a] = l]
Unlock(a) == lockCon' = [lockCon EXCEPT ![a] = NoThread]

\* is_disconnected: no client, or not (opened and not closed)
IsDisconnected(a) == client[a] # "open"

\* create_connection_client_connect
CreateClient(a) ==
  /\ client' = [client EXCEPT ![a] = "fresh"]
  /\ asked' = [asked EXCEPT ![a] = FALSE]
  /\ IoGoto(a, "loop")
  /\ stopped' = [stopped EXCEPT ![a] = FALSE]

-----------------------------------------------------------------------------
(* Callbacks on the client's asio thread *)
\* on_open: the client's flag first ...
OnOpen(a) ==
  /\ io[a] = "loop" /\ client[a] = "fresh" /\ ~stopped[a]
  /\ client' = [client EXCEPT ![a] = "open"]
  /\ IoGoto(a, "opened")
  /\ UNCHANGED <<lockCon, conVars, asked, stopped, loopVars, regVars>>

\* ... then notify_conn_opened, which needs the adapter's lock.
NotifyConnOpened(a) ==
  /\ io[a] = "opened" /\ Free(a)
  /\ asked' = [asked EXCEPT ![a] = enabled[a] /\ client[a] = "open"]
  /\ connected' = [connected EXCEPT ![a] = TRUE]
  /\ IoGoto(a, "loop")
  /\ UNCHANGED <<lockCon, enabled, client, stopped, loopVars, regVars>>

\* on_message, of the supported languages response
OnMessage(a) ==
  /\ io[a] = "loop" /\ asked[a] /\ client[a] \in {"open", "closing"} /\ ~stopped[a]
  /\ asked' = [asked EXCEPT ![a] = FALSE]
  /\ IoGoto(a, "message")
  /\ UNCHANGED <<lockCon, conVars, client, stopped, loopVars, regVars>>

\* update_supp_lang_resp
Offered(lists) == {p \in Pairs : lists[p] # <<>>}

\* set_server_message and adapters_manager::notify_adapter_ready
NotifyAdapterReady(a) ==
  /\ io[a] = "message" /\ Free(a)
  /\ adaptersOf' = [p \in Pairs |-> IF p \in PairsOf[a] THEN Append(adaptersOf[p], a)
                                                        ELSE adaptersOf[p]]
  /\ registrations' = [registrations EXCEPT ![a] = @ \cup PairsOf[a]]
  /\ suppLang' = Offered(adaptersOf')
  /\ IoGoto(a, "loop")
  /\ UNCHANGED <<lockCon, conVars, client, asked, stopped, loopVars>>

\* on_close or on_fail: the client's flags first ...
OnClosed(a) ==
  /\ io[a] = "loop" /\ client[a] \in {"fresh", "open", "closing"} /\ ~stopped[a]
  /\ client' = [client EXCEPT ![a] = "closed"]
  /\ IoGoto(a, "lost")
  /\ UNCHANGED <<lockCon, conVars, asked, stopped, loopVars, regVars>>

\* Mutant: the adapter is not taken out of the lists.
ClosedStillListed(a) ==
  /\ io[a] = "lost" /\ Free(a)
  /\ IF connected[a]
     THEN lockCon' = [lockCon EXCEPT ![a] = a] /\ IoGoto(a, "failing")
     ELSE IoGoto(a, "loop") /\ UNCHANGED lockCon
  /\ UNCHANGED <<conVars, client, asked, stopped, loopVars, regVars>>

\* ... then notify_conn_closed.  If the connection was once open, the adapter
\* is taken out of the lists (adapters_manager::notify_disconnected) ...
NotifyConnClosed(a) ==
  /\ io[a] = "lost" /\ Free(a)
  /\ IF connected[a]
     THEN /\ lockCon' = [lockCon EXCEPT ![a] = a]
          /\ adaptersOf' = [p \in Pairs |-> IF p \in registrations[a]
                                            THEN RemoveFirst(adaptersOf[p], a)
                                            ELSE adaptersOf[p]]
          /\ registrations' = [registrations EXCEPT ![a] = {}]
          /\ suppLang' = Offered(adaptersOf')
          /\ IoGoto(a, "failing")
     ELSE IoGoto(a, "loop") /\ UNCHANGED <<lockCon, regVars>>
  /\ UNCHANGED <<conVars, client, asked, stopped, loopVars>>

\* ... and then, still with the lock, its jobs are failed (module Balancer:
\* NotifyAdapterDisconnect to FailEnd).
JobsFailed(a) ==
  /\ io[a] = "failing"
  /\ connected' = [connected EXCEPT ![a] = FALSE]
  /\ Unlock(a)
  /\ IoGoto(a, "loop")
  /\ UNCHANGED <<enabled, client, asked, stopped, loopVars, regVars>>

\* The event loop ends when the service is stopped or has nothing left to do.
IoEnds(a) ==
  /\ io[a] = "loop" /\ (stopped[a] \/ client[a] = "closed")
  /\ IoGoto(a, "ended")
  /\ UNCHANGED <<lockCon, conVars, client, asked, stopped, loopVars, regVars>>

-----------------------------------------------------------------------------
(* remove_connection_client with generic_client::disconnect, by Admin or    *)
(* Recon, which holds the adapter's lock from before to after it.           *)
Close(t) ==
  /\ pc[t] = "close"
  /\ client' = [client EXCEPT ![cur[t]] = IF @ = "open" THEN "closing" ELSE @]
  /\ Goto(t, "stop")
  /\ UNCHANGED <<lockCon, conVars, asked, io, stopped, reconRun, cur, toVisit, regVars>>

StopIo(t) ==
  /\ pc[t] = "stop"
  /\ stopped' = [stopped EXCEPT ![cur[t]] = TRUE]
  /\ Goto(t, "join")
  /\ UNCHANGED <<lockCon, conVars, client, asked, io, reconRun, cur, toVisit, regVars>>

\* Mutant: m_client is not set back to NULL.
JoinKeepsPointer(t) ==
  /\ pc[t] = "join" /\ io[cur[t]] = "ended"
  /\ IF t = Recon
     THEN CreateClient(cur[t])
     ELSE io' = [io EXCEPT ![cur[t]] = "none"] /\ UNCHANGED <<client, asked, stopped>>
  /\ Unlock(cur[t])
  /\ Goto(t, IF t = Recon THEN "visit" ELSE "disable")
  /\ UNCHANGED <<conVars, reconRun, cur, toVisit, regVars>>

\* m_asio_thread.join(), then the client is deleted; Recon makes a new one.
JoinIo(t) ==
  /\ pc[t] = "join" /\ io[cur[t]] = "ended"
  /\ IF t = Recon
     THEN CreateClient(cur[t])
     ELSE /\ client' = [client EXCEPT ![cur[t]] = "null"]
          /\ io' = [io EXCEPT ![cur[t]] = "none"]
          /\ UNCHANGED <<asked, stopped>>
  /\ Unlock(cur[t])
  /\ Goto(t, IF t = Recon THEN "visit" ELSE "disable")
  /\ UNCHANGED <<conVars, reconRun, cur, toVisit, regVars>>

-----------------------------------------------------------------------------
(* re_connect_servers *)
\* The wait ends by its time out, or because stop notifies it.
ReconWake ==
  /\ pc[Recon] = "sleep"
  /\ IF reconRun
     THEN Goto(Recon, "visit") /\ toVisit' = [toVisit EXCEPT ![Recon] = Adapters]
     ELSE Goto(Recon, "ended") /\ UNCHANGED toVisit
  /\ UNCHANGED <<lockCon, conVars, clientVars, reconRun, cur, regVars>>

\* Mutant: a connected adapter is re-connected, too.
ReconnectAlways(a) ==
  /\ pc[Recon] = "visit" /\ a \in toVisit[Recon] /\ Free(a)
  /\ toVisit' = [toVisit EXCEPT ![Recon] = @ \ {a}]
  /\ IF enabled[a]
     THEN /\ lockCon' = [lockCon EXCEPT ![a] = Recon]
          /\ cur' = [cur EXCEPT ![Recon] = a]
          /\ Goto(Recon, "close")
     ELSE UNCHANGED <<lockCon, cur, pc>>
  /\ UNCHANGED <<conVars, clientVars, reconRun, regVars>>

\* translator_adapter::reconnect, which also takes a client that is still
\* connecting for disconnected
Reconnect(a) ==
  /\ pc[Recon] = "visit" /\ a \in toVisit[Recon] /\ Free(a)
  /\ toVisit' = [toVisit EXCEPT ![Recon] = @ \ {a}]
  /\ IF enabled[a] /\ IsDisconnected(a)
     THEN /\ lockCon' = [lockCon EXCEPT ![a] = Recon]
          /\ cur' = [cur EXCEPT ![Recon] = a]
          /\ Goto(Recon, "close")
     ELSE UNCHANGED <<lockCon, cur, pc>>
  /\ UNCHANGED <<conVars, clientVars, reconRun, regVars>>

ReconSleep ==
  /\ pc[Recon] = "visit" /\ toVisit[Recon] = {}
  /\ Goto(Recon, "sleep")
  /\ UNCHANGED <<lockCon, conVars, clientVars, reconRun, cur, toVisit, regVars>>

-----------------------------------------------------------------------------
(* adapters_manager::enable, which starts the re-connection thread first, *)
(* and disable                                                            *)
EnableBegin ==
  /\ pc[Admin] = "init"
  /\ pc' = [pc EXCEPT ![Admin] = "enable", ![Recon] = "sleep"]
  /\ toVisit' = [toVisit EXCEPT ![Admin] = Adapters]
  /\ UNCHANGED <<lockCon, conVars, clientVars, reconRun, cur, regVars>>

Enable(a) ==
  /\ pc[Admin] = "enable" /\ a \in toVisit[Admin] /\ Free(a)
  /\ toVisit' = [toVisit EXCEPT ![Admin] = @ \ {a}]
  /\ enabled' = [enabled EXCEPT ![a] = TRUE]
  /\ CreateClient(a)
  /\ UNCHANGED <<lockCon, connected, reconRun, pc, cur, regVars>>

EnableEnd ==
  /\ pc[Admin] = "enable" /\ toVisit[Admin] = {}
  /\ Goto(Admin, "serving")
  /\ UNCHANGED <<lockCon, conVars, clientVars, reconRun, cur, toVisit, regVars>>

\* finish_re_connection_thread
FinishReConnection ==
  /\ pc[Admin] = "serving"
  /\ reconRun' = FALSE
  /\ Goto(Admin, "joinRecon")
  /\ UNCHANGED <<lockCon, conVars, clientVars, cur, toVisit, regVars>>

JoinRecon ==
  /\ pc[Admin] = "joinRecon" /\ pc[Recon] = "ended"
  /\ Goto(Admin, "disable")
  /\ toVisit' = [toVisit EXCEPT ![Admin] = Adapters]
  /\ UNCHANGED <<lockCon, conVars, clientVars, reconRun, cur, regVars>>

Disable(a) ==
  /\ pc[Admin] = "disable" /\ a \in toVisit[Admin] /\ Free(a)
  /\ toVisit' = [toVisit EXCEPT ![Admin] = @ \ {a}]
  /\ enabled' = [enabled EXCEPT ![a] = FALSE]
  /\ lockCon' = [lockCon EXCEPT ![a] = Admin]
  /\ cur' = [cur EXCEPT ![Admin] = a]
  /\ Goto(Admin, "close")
  /\ UNCHANGED <<connected, clientVars, reconRun, regVars>>

-----------------------------------------------------------------------------
IoStep(a) ==
  \/ NotifyConnOpened(a) \/ NotifyAdapterReady(a) \/ NotifyConnClosed(a)
  \/ JobsFailed(a) \/ IoEnds(a)
ServerStep(a) == OnOpen(a) \/ OnMessage(a) \/ OnClosed(a)
RemoveStep(t) == Close(t) \/ StopIo(t) \/ JoinIo(t)
ReconStep == ReconWake \/ ReconSleep \/ RemoveStep(Recon) \/ \E a \in Adapters : Reconnect(a)
AdminStep ==
  \/ EnableBegin \/ EnableEnd \/ JoinRecon \/ RemoveStep(Admin)
  \/ \E a \in Adapters : Enable(a) \/ Disable(a)

Next ==
  \/ \E a \in Adapters : IoStep(a) \/ ServerStep(a)
  \/ ReconStep \/ AdminStep \/ FinishReConnection

Spec == Init /\ [][Next]_vars

-----------------------------------------------------------------------------
(* Properties *)

Listed(a) == \E p \in Pairs : a \in Range(adaptersOf[p])

\* The adapters keep to the protocol the balancer's jobs rely on, through
\* connection losses, failed attempts and re-connections.
Stage ==
  [a \in Adapters |->
     CASE io[a] = "failing" -> "failing"
       [] io[a] # "failing" /\ Listed(a) -> "online"
       [] OTHER -> "offline"]
Protocol == INSTANCE AdapterProtocol WITH stage <- Stage
ImplementsAdapterProtocol == Protocol!PSpec

\* However often a server is lost and comes back, each adapter is in the list
\* of each of its registered pairs once and in no other list, and the languages
\* offered to the clients are exactly those some adapter is listed for.  A
\* listed adapter that was not disabled has a client to send with, connected
\* until the asio thread has seen it lost: re-connecting never takes the client
\* away from a listed adapter.
ListedOnceWithClient ==
  /\ \A a \in Adapters : Listed(a) /\ enabled[a] =>
       connected[a] /\ (client[a] = "open" \/ (client[a] = "closed" /\ io[a] = "lost"))
  /\ \A p \in Pairs : IsInjective(adaptersOf[p])
  /\ \A p \in Pairs, a \in Adapters : a \in Range(adaptersOf[p]) <=> p \in registrations[a]
  /\ suppLang = Offered(adaptersOf)
=============================================================================
