----------------------------- MODULE MCTransJob -----------------------------
(***************************************************************************)
(* TransJob on a small instance: three interchangeable sentences.          *)
(***************************************************************************)
EXTENDS TransJob, TLC

CONSTANTS t1, t2, t3

TaskSymmetry == Permutations(Tasks)
=============================================================================
