----------------------------- MODULE MCJobPool -----------------------------
(***************************************************************************)
(* JobPool on a small instance: three jobs of one session, of which j1 and *)
(* j2 carry the same job id (a client may reuse an id).                    *)
(***************************************************************************)
EXTENDS JobPool

CONSTANTS j1, j2, j3, s1

MCJobs == {j1, j2, j3}
MCSessionOf == [j \in MCJobs |-> s1]
MCJobIdOf == [j \in MCJobs |-> IF j = j3 THEN 2 ELSE 1]
=============================================================================
