---------------------------- MODULE MCFilesCache ----------------------------
(* The instances of FilesCache that TLC checks.                            *)
EXTENDS FilesCache, TLC

CONSTANTS A, B

\* The repos are interchangeable.
Swap == Permutations({A, B})

\* One repo.
OneRepo == {<<A, "default">>}

\* Two repos on the shared default pool.
OnDefault == {<<A, "default">>, <<B, "default">>}

\* The older revisions are the larger ones.
Shrinking == [r \in 1..Revs |-> IF r = 1 THEN 2 ELSE 1]
Growing == [r \in 1..Revs |-> r]
Even == [r \in 1..Revs |-> 1]

\* The behaviours in which nothing is pruned, no repo is removed, and requests
\* begin and end within a sweep.
Busy ==
    /\ repos' = repos
    /\ \A g \in Groups : live[g] \subseteq live'[g]
    /\ (W.pc = "idle") # (W'.pc = "idle") =>
          \A h \in Handlers : proc[h].pc \in {"idle", "answered"}
    /\ W.pc = "idle" => \A h \in Handlers : proc'[h] = proc[h]
BusySpec == Init /\ [][Next /\ Busy]_vars

\* The behaviours in which the storages change only between sweeps, by new
\* revisions and by prunes, and no repo is removed.
StorageChanges ==
    \E g \in Groups : revisionAdded(g) \/ \E r \in live[g] : revisionPruned(g, r)

ThinningNext ==
    \/ W.pc = "idle" /\ StorageChanges
    \/ \E h \in Handlers, t \in Targets, k \in LiveKeys : request(h, t, k)
    \/ \E p \in Writers : Store(p)
    \/ Sweep
    \/ crash

ThinningSpec ==
    /\ Init /\ [][ThinningNext]_vars
    /\ WF_vars(Sweep) /\ \A p \in Writers : WF_vars(Store(p))
=============================================================================
