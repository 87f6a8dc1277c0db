----------------------------- MODULE MCTaskPool -----------------------------
(***************************************************************************)
(* TaskPool on small instances: three tasks, two of equal priority; two    *)
(* workers to begin with and a third for growing.                          *)
(***************************************************************************)
EXTENDS TaskPool

CONSTANTS t1, t2, t3, w1, w2, w3

MCPriority == [t \in Tasks |-> IF t = t3 THEN 1 ELSE 0]
MCFirstWorkers == <<w1, w2>>
=============================================================================
