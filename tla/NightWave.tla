------------------------------ MODULE NightWave ------------------------------
(***************************************************************************)
(* A night on one host: the schedules (src/schedules.go), the after-wave   *)
(* chain (src/chain.go), the hooks that drive it and the statistics        *)
(* (src/app.go), the request handlers of src/jobs.go beside them, and the  *)
(* table of src/snapshot_stats.go.  Backups and copies are fired by the    *)
(* clock.  When the last one known to be active is over the chain fires    *)
(* the prunes, and when the last prune is over the checks.  A check lists  *)
(* the revisions of its storage and prints a table of them; its rows are   *)
(* written by a goroutine after it completed.                              *)
(*                                                                         *)
(* A job of this module is what JobLife makes of one: pending, running,    *)
(* cancelled and dying, over.  The clock, the retries and the chain's own  *)
(* bookkeeping (each stage at most once a night, one completion at a time) *)
(* are the library's, as this code configures and describes them.          *)
(***************************************************************************)
EXTENDS Naturals, FiniteSets, FiniteSetsExt

CONSTANTS
    Jobs,
    action, storage, \* [Jobs -> what it does], [Jobs -> where]
    Manual,         \* the jobs that an operator asks for
    Storages,
    Source,         \* the storage that backups go to and copies come from
    MaxConcurrentCopies, MaxConcurrentMaint,
    TailsKeepUp,    \* the tails read all of a check's table, and only stdout
    MaxTroubles,    \* bound on cancels and on fires, spawns, children and writes that fail
    MaxRequests     \* bound on an operator's requests

ASSUME NightAssumption ==
    /\ MaxConcurrentCopies \in Nat \ {0} /\ MaxConcurrentMaint \in Nat \ {0}
    /\ IsFiniteSet(Jobs) /\ storage \in [Jobs -> Storages] /\ Source \in Storages
    /\ action \in [Jobs -> {"backup", "copy", "prune", "preview", "check"}]

VARIABLES
    clock,     \* 0 evening, 1 from 02:00, 2 from 02:15
    due,       \* the schedules of the clock that are to be fired
    st,        \* [Jobs -> state of the job]
    hooks,     \* jobs whose terminal event the chain has not handled
    fired,     \* the stages of tonight's marker
    queue,     \* what FireMatching has still to start
    revs,      \* [Storages -> the revisions retained]
    listed,    \* [Jobs -> the revisions a check or copy found]
    flushing,  \* completed checks whose rows are on their way
    flushed,   \* checks whose rows were written
    table,     \* [Storages -> the revisions with a row in snapshot_stats]
    troubles, requests

vars == <<clock, due, st, hooks, fired, queue, revs, listed, flushing, flushed,
          table, troubles, requests>>

Acts(actions) == {j \in Jobs : action[j] \in actions}
Scheduled(act) == {j \in Acts({act}) : j \notin Manual}

\* A preview is a prune that removes nothing.
Prunes == {"prune", "preview"}

Init ==
    /\ clock = 0
    /\ due = {} /\ hooks = {} /\ fired = {} /\ queue = {}
    /\ flushing = {} /\ flushed = {}
    /\ st = [j \in Jobs |-> "idle"]
    /\ revs = [s \in Storages |-> {1, 2}]
    /\ listed = [j \in Jobs |-> {}]
    /\ table = [s \in Storages |-> {}]
    /\ troubles = 0 /\ requests = 0

-----------------------------------------------------------------------------
\* Mutant: jobs that wait for a slot do not count.
countActive_running(actions) == Cardinality({j \in Acts(actions) : st[j] = "running"})

\* Running or pending; a job that was cancelled does not count while its child
\* exits.
countActive(actions) == Cardinality({j \in Acts(actions) : st[j] \in {"pending", "running"}})

\* Mutant: a prune runs at once.
semFor_noPrune(act) == CASE act = "copy" -> "copySem" [] act = "check" -> "maintSem"
                            [] OTHER -> "none"

semFor(act) == CASE act = "copy" -> "copySem"
                    [] act \in {"check"} \union Prunes -> "maintSem"
                    [] OTHER -> "none"

Cap(sem) == IF sem = "copySem" THEN MaxConcurrentCopies ELSE MaxConcurrentMaint

\* A slot is held until the child is gone.
HasSlot(j) ==
    LET sem == semFor(action[j])
    IN  \/ sem = "none"
        \/ Cardinality({k \in Jobs : semFor(action[k]) = sem /\ st[k] \in {"running", "dying"}}) < Cap(sem)

\* jobs.start: registered as pending; an ungated job's spawn is the next step.
Started(j) == st' = [st EXCEPT ![j] = "pending"]

\* The clock: backups at 02:00, copies at 02:15.
tick ==
    /\ clock < 2
    /\ clock' = clock + 1
    /\ due' = due \union Scheduled(IF clock = 0 THEN "backup" ELSE "copy")
    /\ UNCHANGED <<st, hooks, fired, queue, revs, listed, flushing, flushed, table, troubles, requests>>

\* makeDuplicacyFire after the jitter.
fireDue(j) ==
    /\ j \in due
    /\ Started(j)
    /\ due' = due \ {j}
    /\ UNCHANGED <<clock, hooks, fired, queue, revs, listed, flushing, flushed, table, troubles, requests>>

\* makeDuplicacyFire for the chain, without jitter.
fireStage(j) ==
    /\ j \in queue
    /\ Started(j)
    /\ queue' = queue \ {j}
    /\ UNCHANGED <<clock, due, hooks, fired, revs, listed, flushing, flushed, table, troubles, requests>>

\* The repo is not there or the secrets are not vended: a schedule of the clock
\* is tried again (no step here), one of the chain is not.
fireStageFails(j) ==
    /\ j \in queue /\ troubles < MaxTroubles
    /\ queue' = queue \ {j}
    /\ troubles' = troubles + 1
    /\ UNCHANGED <<clock, due, st, hooks, fired, revs, listed, flushing, flushed, table, requests>>

\* handleBackup, handleCopy, handleCheck, handlePrune, handlePrunePreview.
request(j) ==
    /\ j \in Manual /\ st[j] = "idle" /\ requests < MaxRequests
    /\ Started(j)
    /\ requests' = requests + 1
    /\ UNCHANGED <<clock, due, hooks, fired, queue, revs, listed, flushing, flushed, table, troubles>>

\* Mutant: the chain listens to jobs that completed only.
Notified_completed(j, evt) == IF evt = "completed" THEN hooks \union {j} ELSE hooks

\* The terminal events that the chain's hook passes on.
Notified(j, evt) == IF evt \in {"completed", "failed", "cancelled"} THEN hooks \union {j} ELSE hooks

\* spawn, once there is a slot.  What duplicacy works on is what it finds now.
spawn(j) ==
    /\ st[j] = "pending" /\ HasSlot(j)
    /\ st' = [st EXCEPT ![j] = "running"]
    /\ listed' = [listed EXCEPT ![j] = CASE action[j] = "check" -> revs[storage[j]]
                                         [] action[j] = "copy" -> revs[Source]
                                         [] OTHER -> {}]
    /\ UNCHANGED <<clock, due, hooks, fired, queue, revs, flushing, flushed, table, troubles, requests>>

\* spawn fails: the job is over and its failure is an event.
spawnFails(j) ==
    /\ st[j] = "pending" /\ HasSlot(j) /\ troubles < MaxTroubles
    /\ st' = [st EXCEPT ![j] = "over"]
    /\ hooks' = Notified(j, "failed")
    /\ troubles' = troubles + 1
    /\ UNCHANGED <<clock, due, fired, queue, revs, listed, flushing, flushed, table, requests>>

\* A pending job is over at once, a running one when its child is.
cancel(j) ==
    /\ troubles < MaxTroubles
    /\ troubles' = troubles + 1
    /\ \/ /\ st[j] = "pending"
          /\ st' = [st EXCEPT ![j] = "over"]
          /\ hooks' = Notified(j, "cancelled")
       \/ /\ st[j] = "running"
          /\ st' = [st EXCEPT ![j] = "dying"]
          /\ UNCHANGED hooks
    /\ UNCHANGED <<clock, due, fired, queue, revs, listed, flushing, flushed, table, requests>>

-----------------------------------------------------------------------------
\* External: what a duplicacy that completes leaves behind.  A prune keeps at
\* least the newest revision.
Effect(j) ==
    CASE action[j] = "backup" -> [revs EXCEPT ![storage[j]] = @ \union {Max(@) + 1}]
      [] action[j] = "copy" -> [revs EXCEPT ![storage[j]] = @ \union listed[j]]
      [] action[j] = "prune" -> [revs EXCEPT ![storage[j]] = {Max(@)}]
      [] OTHER -> revs

\* The child exits with 0; the hook of a check starts the flush of its rows.
complete(j) ==
    /\ st[j] \in {"running", "dying"}
    /\ st' = [st EXCEPT ![j] = "over"]
    /\ hooks' = Notified(j, "completed")
    /\ revs' = Effect(j)
    /\ flushing' = IF action[j] = "check" THEN flushing \union {j} ELSE flushing
    /\ UNCHANGED <<clock, due, fired, queue, listed, flushed, table, troubles, requests>>

\* The child fails or was killed: nothing of it is flushed.
fail(j) ==
    /\ \/ st[j] = "running" /\ troubles < MaxTroubles /\ troubles' = troubles + 1
       \/ st[j] = "dying" /\ UNCHANGED troubles
    /\ st' = [st EXCEPT ![j] = "over"]
    /\ hooks' = Notified(j, IF st[j] = "dying" THEN "cancelled" ELSE "failed")
    /\ UNCHANGED <<clock, due, fired, queue, revs, listed, flushing, flushed, table, requests>>

IsWaveJob(j) == action[j] \in {"backup", "copy"}
WaveComplete == countActive({"backup", "copy"}) = 0

\* The stage that the end of j leads to: a wave job's end with no other active
\* to the prunes, a prune's end with no other active to the checks.
StageAfter(j) ==
    CASE IsWaveJob(j) /\ WaveComplete /\ "prune" \notin fired -> "prune"
      [] /\ action[j] \in Prunes /\ countActive(Prunes) = 0
         /\ "prune" \in fired /\ "check" \notin fired -> "check"
      [] OTHER -> "none"

\* The library's chain, one completion at a time: the marker of a stage first,
\* then its schedules, one after the other.
OnJobComplete(j) ==
    /\ j \in hooks /\ queue = {}
    /\ hooks' = hooks \ {j}
    /\ fired' = fired \union ({StageAfter(j)} \ {"none"})
    /\ queue' = Scheduled(StageAfter(j))
    /\ UNCHANGED <<clock, due, st, revs, listed, flushing, flushed, table, troubles, requests>>

-----------------------------------------------------------------------------
\* The rows the parser has collected when they are taken.  A line that is not
\* of the table ends it, a line of stderr too, and rows that a tail reads later
\* are lost: rows are printed in the order of revisions.
Collected(found) ==
    IF TailsKeepUp THEN {found}
    ELSE {{r \in found : r < n} : n \in found \union {Max(found) + 1}}

\* Mutant: the rows of a check replace those of the storage.
upsertCheckRun_replaces(s, rows) == [table EXCEPT ![s] = rows]

\* One transaction of upserts keyed by revision and storage.
upsertCheckRun(s, rows) == [table EXCEPT ![s] = @ \union rows]

flushSnapshotStats(j) ==
    /\ j \in flushing
    /\ flushing' = flushing \ {j}
    /\ \E rows \in Collected(listed[j]) :
          /\ table' = upsertCheckRun(storage[j], rows)
          /\ flushed' = IF rows = listed[j] THEN flushed \union {j} ELSE flushed
    /\ UNCHANGED <<clock, due, st, hooks, fired, queue, revs, listed, troubles, requests>>

\* The repo is gone, has no such storage, or the transaction fails.
flushFails(j) ==
    /\ j \in flushing /\ troubles < MaxTroubles
    /\ flushing' = flushing \ {j}
    /\ troubles' = troubles + 1
    /\ UNCHANGED <<clock, due, st, hooks, fired, queue, revs, listed, flushed, table, requests>>

-----------------------------------------------------------------------------
Goes ==
    \E j \in Jobs :
        \/ fireDue(j) \/ fireStage(j) \/ spawn(j) \/ complete(j) \/ fail(j)
        \/ OnJobComplete(j) \/ flushSnapshotStats(j)

Next ==
    \/ tick
    \/ \E j \in Jobs : request(j) \/ cancel(j)
    \/ \E j \in Jobs : spawnFails(j) \/ fireStageFails(j) \/ flushFails(j)
    \/ Goes

\* Goroutines run and children end: while one can go on, some one does.  No
\* step of a night is undone, so that asking it of each would say no more.
Fairness == WF_vars(Goes)

Spec == Init /\ [][Next]_vars /\ Fairness

-----------------------------------------------------------------------------
TypeOK ==
    /\ clock \in 0..2 /\ due \subseteq Jobs /\ hooks \subseteq Jobs /\ queue \subseteq Jobs
    /\ st \in [Jobs -> {"idle", "pending", "running", "dying", "over"}]
    /\ fired \subseteq {"prune", "check"}
    /\ flushing \subseteq Acts({"check"}) /\ flushed \subseteq Acts({"check"})
    /\ \A s \in Storages : IsFiniteSet(revs[s]) /\ revs[s] # {}
    /\ troubles \in 0..MaxTroubles /\ requests \in 0..MaxRequests

\* What a running check lists is there until it is done: no prune of its
\* storage, the chain's or an operator's, cancelled or not, removes a revision
\* under it (semFor, the slot that is held until the child is gone).
CheckSeesRetained ==
    \A j \in Acts({"check"}) : st[j] \in {"running", "dying"} => listed[j] \subseteq revs[storage[j]]

\* No check of the chain has a child before every prune of the chain is over,
\* though countActive forgets a prune that was cancelled and still exits and
\* every prune but one waits for its slot when the first completes.
CheckAfterPrune ==
    \A c \in Scheduled("check"), p \in Scheduled("prune") :
        listed[c] # {} => st[p] \in {"idle", "over"} /\ p \notin queue

\* The row the rollup shows for a storage, the highest revision, is the newest
\* one once some check that saw it has been written, in whatever order the
\* rows of overlapping checks arrive (upsertCheckRun, queryDestinations).
latest(s) == Max(table[s])

RollupCurrent ==
    \A s \in Storages :
        (\E c \in flushed : storage[c] = s /\ Max(revs[s]) \in listed[c])
            => latest(s) = Max(revs[s])

\* Every job is over, its event handled and its rows written.
Quiet == hooks = {} /\ queue = {} /\ flushing = {} /\ \A j \in Jobs : st[j] \in {"idle", "over"}

\* A night in which some backup or copy ended comes to its checks and to
\* rest, whichever job fails, is cancelled or does not start (the hook of app.go, newDuplicacyChain).
NightReachesCheck ==
    \A j \in Acts({"backup", "copy"}) :
        st[j] = "over" ~> "check" \in fired /\ Quiet
=============================================================================
