----------------------------- MODULE MCListGate -----------------------------
(* The instances of ListGate that TLC checks.                              *)
EXTENDS ListGate, TLC

CONSTANTS h1, h2, h3

\* The requests are interchangeable.
AnyOrder == Permutations({h1, h2, h3})
=============================================================================
