---------------------------- MODULE MCProcessor ----------------------------
(***************************************************************************)
(* Processor on a small instance: two sessions, with a job each.           *)
(***************************************************************************)
EXTENDS Processor

CONSTANTS j1, j2, s1, s2

MCSessionOf == [j \in {j1, j2} |-> IF j = j1 THEN s1 ELSE s2]
=============================================================================
