----------------------------- MODULE MCDirSizes -----------------------------
(* The instances of DirSizes that TLC checks.                              *)
EXTENDS DirSizes

CONSTANTS r, q, a, b, c

\* r holds a and b, and a holds c.
Nested == [d \in {r, a, b, c} |-> CASE d = r -> "none" [] d = c -> a [] OTHER -> r]
OneRoot == <<r>>

\* r holds a and b; q is a second root.
TwoTrees == [d \in {r, a, b, q} |-> IF d \in {r, q} THEN "none" ELSE r]
TwoRoots == <<q, r>>

\* r holds a and b, side by side.
Flat == [d \in {r, a, b} |-> IF d = r THEN "none" ELSE r]

OneEach == [d \in Dirs |-> 1]
Uneven == [d \in Dirs |-> IF d = b THEN 3 ELSE 1]

\* To begin with there is a file in every directory.
StartFull == Init /\ files = OneEach
FullSpec == StartFull /\ [][Next]_vars
FullFairSpec == FullSpec /\ WF_vars(Gather)
=============================================================================
