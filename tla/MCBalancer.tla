----------------------------- MODULE MCBalancer -----------------------------
(***************************************************************************)
(* Balancer on small instances: two jobs of one session; one translation   *)
(* server, or two of which only one does the second job's languages.       *)
(***************************************************************************)
EXTENDS Balancer, TLC

CONSTANTS j1, j2, s1, a1, a2

MCSessionOf == [j \in Jobs |-> s1]
MCJobIdOf == [j \in Jobs |-> IF j = j1 THEN 1 ELSE 2]

\* The second server, if there is one, does the languages of the first job only,
\* and its connection is never lost.
MCServes == [j \in Jobs |-> IF j = j1 THEN Adapters ELSE {a1}]
MCDisconnects == [a \in Adapters |-> IF a = a1 THEN 1 ELSE 0]

\* With one server the two jobs' keys differ, and nothing else distinguishes them.
JobSymmetry == Permutations(Jobs)

\* No client leaves and nobody calls stop(): the only events are requests,
\* responses and lost connections.
QuietSpec ==
  BInit /\ [][BNext /\ UNCHANGED <<closed, isStopping>>]_bvars /\ BFairness
=============================================================================
