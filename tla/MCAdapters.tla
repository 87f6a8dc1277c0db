----------------------------- MODULE MCAdapters -----------------------------
(***************************************************************************)
(* Adapters on a small instance: two servers that share one language pair; *)
(* only the first supports the second pair.                                *)
(***************************************************************************)
EXTENDS Adapters

CONSTANTS a1, a2, p1, p2

MCPairsOf == [a \in Adapters |-> IF a = a1 THEN {p1, p2} ELSE {p1}]
=============================================================================
