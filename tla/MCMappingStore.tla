--------------------------- MODULE MCMappingStore ---------------------------
(* TLC instances of MappingStore. *)
EXTENDS MappingStore, TLC

StoreSymmetry == Permutations(Caller)
=============================================================================
