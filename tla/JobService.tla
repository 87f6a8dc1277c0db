----------------------------- MODULE JobService -----------------------------
(***************************************************************************)
(* What a job manager of this system promises its clients, whatever its    *)
(* threads and locks: every request is either refused or accepted; an      *)
(* accepted job is answered exactly once and only then retired; once the   *)
(* service is told to stop it accepts nothing more; and it halts only when *)
(* no accepted job is left unanswered or unretired.                        *)
(*                                                                         *)
(* The session job pool (module JobPool) and the balancer's jobs (module   *)
(* Balancer) are both shown to implement this specification.               *)
(***************************************************************************)
CONSTANT Jobs

VARIABLES
  status,     \* what became of each request
  accepting,  \* are new jobs accepted?
  halted      \* has the service ended?

svars == <<status, accepting, halted>>

SInit ==
  /\ status = [j \in Jobs |-> "new"]
  /\ accepting = TRUE /\ halted = FALSE

Move(j, from, to) ==
  /\ status[j] = from
  /\ status' = [status EXCEPT ![j] = to]
  /\ UNCHANGED <<accepting, halted>>

Accept(j) == accepting /\ Move(j, "new", "active")
Refuse(j) == Move(j, "new", "refused")
Answer(j) == Move(j, "active", "answered")
Retire(j) == Move(j, "answered", "retired")

Stop == accepting /\ accepting' = FALSE /\ UNCHANGED <<status, halted>>

Halt ==
  /\ ~accepting /\ ~halted
  /\ \A j \in Jobs : status[j] \in {"new", "refused", "retired"}
  /\ halted' = TRUE
  /\ UNCHANGED <<status, accepting>>

SNext ==
  \/ \E j \in Jobs : Accept(j) \/ Refuse(j) \/ Answer(j) \/ Retire(j)
  \/ Stop \/ Halt

SSpec == SInit /\ [][SNext]_svars
=============================================================================
