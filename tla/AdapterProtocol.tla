-------------------------- MODULE AdapterProtocol --------------------------
(***************************************************************************)
(* What the balancer's jobs rely on about an adapter: it is offered for    *)
(* translation only between becoming ready and losing its connection; when *)
(* it is lost it is first withdrawn, and then the jobs that await it are   *)
(* failed, once, before it can become ready again.                         *)
(***************************************************************************)
CONSTANT Adapters

VARIABLE stage   \* of each adapter: "offline", "online" or "failing"

PInit == stage = [a \in Adapters |-> "offline"]

Step(a, from, to) == stage[a] \in from /\ stage' = [stage EXCEPT ![a] = to]

Ready(a) == Step(a, {"offline"}, "online")
Withdraw(a) == Step(a, {"offline", "online"}, "failing")
JobsFailed(a) == Step(a, {"failing"}, "offline")

PNext == \E a \in Adapters : Ready(a) \/ Withdraw(a) \/ JobsFailed(a)

PSpec == PInit /\ [][PNext]_stage
=============================================================================
