----------------------------- MODULE DurableMap -----------------------------
(***************************************************************************)
(* What a map kept in a file promises: MappingStore implements it.  The    *)
(* entry of a path is the number of its last write, so that "later" can be *)
(* said.  A write changes the memory; a save moves the file forward,       *)
(* never past the memory, and may acknowledge what it saved; a restart     *)
(* reads the file and so forgets only what was not acknowledged.           *)
(***************************************************************************)
EXTENDS Naturals

CONSTANT Path

VARIABLES
    byID,    \* the map in memory
    file,    \* the map in the file
    acked    \* the last write of a path whose caller was told it is saved

vars == <<byID, file, acked>>

Map == [Path -> Nat]

Init ==
    /\ byID = [p \in Path |-> 0]
    /\ file = byID
    /\ acked = byID

Write(p) ==
    /\ byID' = [byID EXCEPT ![p] = @ + 1]
    /\ UNCHANGED <<file, acked>>

Save ==
    /\ file' \in Map
    /\ acked' \in Map
    /\ \A p \in Path :
          /\ file[p] <= file'[p] /\ file'[p] <= byID[p]
          /\ acked[p] <= acked'[p] /\ acked'[p] <= file'[p]
    /\ UNCHANGED byID

Restart ==
    /\ byID' = file
    /\ UNCHANGED <<file, acked>>

Next == (\E p \in Path : Write(p)) \/ Save \/ Restart

Spec == Init /\ [][Next]_vars
=============================================================================
