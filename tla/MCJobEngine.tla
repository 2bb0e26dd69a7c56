----------------------------- MODULE MCJobEngine -----------------------------
(* TLC instances of JobEngine. *)
EXTENDS JobEngine, TLC

JobSymmetry == Permutations(Jobs)
=============================================================================
