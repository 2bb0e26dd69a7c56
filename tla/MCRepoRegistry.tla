--------------------------- MODULE MCRepoRegistry ---------------------------
(* TLC instances of RepoRegistry. *)
EXTENDS RepoRegistry, TLC

RegistrySymmetry == Permutations(Path) \union Permutations(Scanner)
=============================================================================
