------------------------------ MODULE MCJobLog ------------------------------
(* TLC instances of JobLog. *)
EXTENDS JobLog, TLC

LogSymmetry == Permutations(Source) \union Permutations(Client)
=============================================================================
