---------------------------- MODULE RepoRegistry ----------------------------
(***************************************************************************)
(* Which repos this node has, and who may remove them: POST /repos/init,   *)
(* /repos/bind and /repos/delete (src/init_handler.go,                     *)
(* src/delete_handler.go), the reconcile loop and the refresh at boot      *)
(* (src/reconcile.go), and the index of repos (src/repos.go) that jobs are *)
(* started from.  They share the .duplicacy directories, the mapping       *)
(* (repos.json; MappingStore models how it is written) and the index, with *)
(* no lock across their steps.  Bounds: a path has one init or bind at a   *)
(* time, one delete at a time, and one job in all.                         *)
(*                                                                         *)
(* The controller registers a repo under a new UUID and calls init or      *)
(* bind; it drops the row, leaves a tombstone, and calls delete once, which *)
(* may not arrive.  A tombstone goes when the repo is registered again.    *)
(***************************************************************************)
EXTENDS Naturals, FiniteSets

CONSTANTS
    Path,        \* repo paths, each the home of one snapshot id
    MaxUUID,     \* bound on the registrations of a path
    Scanner,     \* bound: scans at a time
    OtherRepos   \* the controller knows other repos of this node

ASSUME RegistryBounds == MaxUUID \in Nat \ {0} /\ OtherRepos \in BOOLEAN

VARIABLES
    central,    \* the controller's row of a path: its UUID, 0: none
    last,       \* the UUID last given to a path
    tombs,      \* the controller's tombstones
    deleting,   \* a delete call is on its way
    disk,       \* .duplicacy: "none", "primary" (init done), "full"
    uuid,       \* the mapping of a path: its UUID, 0: none
    routed,     \* the mapping has the storages, and so the credentials
    index,      \* repoIndex.repos
    scan,       \* per scanner: "idle", "read"
    found,      \* per scanner: the repos it read
    job,        \* the job of a path: "none", "pending", "running", "dying", "over"
    reg,        \* init or bind of a path: "idle", "init", "add", "upsert",
                \* "bind"
    regUUID,    \* repo_uuid of that request
    del,        \* delete of a path: "idle", "wipe", "unmap"
    rec,        \* reconcileOrphans: "idle", "fetched", "sweep", "tombs",
                \* "tombpub", "list", "tombsweep", "rescan", "publish"
    keep,       \* its set of <<path, UUID>> the controller knows
    todo,       \* the paths it still has to look at
    cur,        \* the path it is removing, {}: none
    wiped,      \* it removed something
    recUnmap,   \* it has wiped cur and not yet dropped its mapping
    recFound,   \* the repos a scan of its own has read
    ref,        \* refreshMappingFromController: "todo", "adding", "done"
    refTodo,    \* <<path, UUID>> of the controller it has to look at
    refCur,     \* the one it found missing, {}: none
    steady      \* history: registered and mapped alike since this tick began

ctlVars == <<central, last, tombs, deleting>>
mapVars == <<uuid, routed>>
scanVars == <<scan, found>>
regVars == <<reg, regUUID>>
recVars == <<rec, keep, todo, cur, wiped, recUnmap, recFound>>
refVars == <<ref, refTodo, refCur>>
vars == <<ctlVars, disk, mapVars, index, scanVars, job, regVars, del, recVars,
          refVars, steady>>

\* The agent boots without a repos.json: first boot, or the file was lost.
Init ==
    /\ central \in [Path -> {0, 1}]
    /\ last = central
    /\ tombs = {}
    /\ deleting = [p \in Path |-> FALSE]
    /\ disk \in {d \in [Path -> {"none", "full"}] :
                  \A p \in Path : central[p] = 0 => d[p] = "none"}
    /\ uuid = [p \in Path |-> 0]
    /\ routed = [p \in Path |-> FALSE]
    /\ index = {}
    /\ scan = [s \in Scanner |-> "idle"]
    /\ found = [s \in Scanner |-> {}]
    /\ job = [p \in Path |-> "none"]
    /\ reg = [p \in Path |-> "idle"]
    /\ regUUID = [p \in Path |-> 0]
    /\ del = [p \in Path |-> "idle"]
    /\ rec = "idle"
    /\ keep = {}
    /\ todo = {}
    /\ cur = {}
    /\ wiped = FALSE
    /\ recUnmap = FALSE
    /\ recFound = {}
    /\ ref = "todo"
    /\ refTodo = {}
    /\ refCur = {}
    /\ steady = {}

\* fetchCentralRepos: the rows the controller has for this node.
Rows == {<<p, central[p]>> : p \in {q \in Path : central[q] # 0}}

\* The row of another repo of this node.
Others == IF OtherRepos THEN {<<"other", 1>>} ELSE {}

\* repoMappingStore.upsert and .delete.
upsert(p, u, r) ==
    /\ uuid' = [uuid EXCEPT ![p] = u]
    /\ routed' = [routed EXCEPT ![p] = r]
    /\ steady' = steady \ {p}

drop(p) == upsert(p, 0, FALSE)

\* os.RemoveAll of the .duplicacy directory.
removeAll(p) == disk' = [disk EXCEPT ![p] = "none"]

\* What scanLocked finds, from the mapping and the preferences on disk.
Findable == {p \in Path : uuid[p] # 0 /\ disk[p] # "none"}

-----------------------------------------------------------------------------
\* External: the controller registers a repo, or deletes it.
registered(p) ==
    /\ central[p] = 0
    /\ last[p] < MaxUUID
    /\ last' = [last EXCEPT ![p] = @ + 1]
    /\ central' = [central EXCEPT ![p] = last[p] + 1]
    /\ tombs' = tombs \ {p}
    /\ steady' = steady \ {p}
    /\ UNCHANGED <<deleting, disk, mapVars, index, scanVars, job, regVars,
                   del, recVars, refVars>>

unregistered(p) ==
    /\ central[p] # 0
    /\ central' = [central EXCEPT ![p] = 0]
    /\ tombs' = tombs \union {p}
    /\ steady' = steady \ {p}
    /\ deleting' = [deleting EXCEPT ![p] = TRUE]
    /\ UNCHANGED <<last, disk, mapVars, index, scanVars, job, regVars, del,
                   recVars, refVars>>

\* External: the delete call is lost.
deleteLost(p) ==
    /\ deleting[p]
    /\ deleting' = [deleting EXCEPT ![p] = FALSE]
    /\ UNCHANGED <<central, last, tombs, disk, mapVars, index, scanVars, job,
                   regVars, del, recVars, refVars, steady>>

-----------------------------------------------------------------------------
\* The request is answered.
regEnds(p) ==
    /\ reg' = [reg EXCEPT ![p] = "idle"]
    /\ regUUID' = [regUUID EXCEPT ![p] = 0]

\* handleInitRepoNew, up to duplicacy init.
handleInitRepoNew(p) ==
    /\ central[p] # 0
    /\ reg[p] = "idle"
    /\ reg' = [reg EXCEPT ![p] = "init"]
    /\ regUUID' = [regUUID EXCEPT ![p] = central[p]]
    /\ UNCHANGED <<ctlVars, disk, mapVars, index, scanVars, job, del, recVars,
                   refVars, steady>>

\* handleBindRepo: only what is on disk already, with every storage asked for.
handleBindRepo(p) ==
    /\ central[p] # 0
    /\ reg[p] = "idle"
    /\ disk[p] = "full"
    /\ reg' = [reg EXCEPT ![p] = "bind"]
    /\ regUUID' = [regUUID EXCEPT ![p] = central[p]]
    /\ UNCHANGED <<ctlVars, disk, mapVars, index, scanVars, job, del, recVars,
                   refVars, steady>>

\* duplicacy init of the primary; a repo that is there is adopted.  It may
\* fail, or the repo there may have another primary: the handler returns.
initPrimary(p) ==
    /\ reg[p] = "init"
    /\ \/ /\ disk' = [disk EXCEPT ![p] = IF @ = "none" THEN "primary" ELSE @]
          /\ reg' = [reg EXCEPT ![p] = "add"] /\ UNCHANGED regUUID
       \/ regEnds(p) /\ UNCHANGED disk
    /\ UNCHANGED <<ctlVars, mapVars, index, scanVars, job, del,
                   recVars, refVars, steady>>

\* duplicacy add of the secondaries that are missing; it needs the primary.
addSecondaries(p) ==
    /\ reg[p] = "add"
    /\ \/ /\ disk[p] # "none"
          /\ disk' = [disk EXCEPT ![p] = "full"]
          /\ reg' = [reg EXCEPT ![p] = "upsert"] /\ UNCHANGED regUUID
       \/ regEnds(p) /\ UNCHANGED disk
    /\ UNCHANGED <<ctlVars, mapVars, index, scanVars, job, del,
                   recVars, refVars, steady>>

\* init and bind: the mapping is written.  The rescan they start, as delete
\* does, is a scan (scanLocked) that may begin at any time; a bind that cannot
\* write repos.json answers 500 without one.
mapRepo(p) ==
    /\ reg[p] \in {"upsert", "bind"}
    /\ upsert(p, regUUID[p], TRUE)
    /\ regEnds(p)
    /\ UNCHANGED <<ctlVars, disk, index, scanVars, job, del, recVars, refVars>>

-----------------------------------------------------------------------------
\* Mutant: the guard does not look at the state of the job.
Guarded_anyState(p) == job[p] # "none"

\* The active-job guard of delete and reconcile.
Guarded(p) == job[p] = "running"

\* handleDeleteRepo: 409 while a job is Running.  There is something to wipe
\* if the directory is there, or the index still has the repo.
handleDeleteRepo(p) ==
    /\ deleting[p]
    /\ del[p] = "idle"
    /\ deleting' = [deleting EXCEPT ![p] = FALSE]
    /\ del' = [del EXCEPT ![p] = 
                    CASE Guarded(p) -> "idle"
                      [] ~Guarded(p) /\ (disk[p] # "none" \/ p \in index) -> "wipe"
                      [] OTHER -> "unmap"]
    /\ UNCHANGED <<central, last, tombs, disk, mapVars, index, scanVars, job,
                   regVars, recVars, refVars, steady>>

\* RemoveAll; when it fails the handler answers 500.
deleteWipe(p) ==
    /\ del[p] = "wipe"
    /\ \/ removeAll(p) /\ del' = [del EXCEPT ![p] = "unmap"]
       \/ del' = [del EXCEPT ![p] = "idle"] /\ UNCHANGED disk
    /\ UNCHANGED <<ctlVars, mapVars, index, scanVars, job, regVars, recVars,
                   refVars, steady>>

deleteUnmap(p) ==
    /\ del[p] = "unmap"
    /\ drop(p)
    /\ del' = [del EXCEPT ![p] = "idle"]
    /\ UNCHANGED <<ctlVars, disk, index, scanVars, job, regVars, recVars, refVars>>

-----------------------------------------------------------------------------
(* reconcileOrphans.  The controller's answer is its rows, an error, or,   *)
(* when it is new or broken, no rows at all.                               *)

\* Mutant: an empty answer is believed.
Believed_always(answer) == TRUE

\* An empty answer ends the tick.
Believed(answer) == answer # {}

fetchCentralRepos ==
    /\ rec = "idle"
    /\ \E answer \in {Rows \union Others, {}} : Believed(answer) /\ keep' = answer
    /\ steady' = {p \in Path : central[p] # 0 /\ uuid[p] = central[p]}
    /\ rec' = "fetched"
    /\ UNCHANGED <<ctlVars, disk, mapVars, index, scanVars, job, regVars, del,
                   wiped, todo, cur, recUnmap, recFound, refVars>>

\* The range over mapping.list(): entries whose UUID the answer lacks.
listMapping ==
    /\ rec = "fetched"
    /\ rec' = "sweep"
    /\ todo' = {p \in Path : uuid[p] # 0 /\ <<p, uuid[p]>> \notin keep}
    /\ keep' = {}
    /\ UNCHANGED <<ctlVars, disk, mapVars, index, scanVars, job, regVars, del,
                   cur, wiped, recUnmap, recFound, refVars, steady>>

\* One candidate: left for the next tick while a job is Running.
recGuard(p) ==
    /\ rec \in {"sweep", "tombsweep"}
    /\ cur = {}
    /\ p \in todo
    /\ todo' = todo \ {p}
    /\ cur' = IF Guarded(p) THEN {} ELSE {p}
    /\ UNCHANGED <<ctlVars, disk, mapVars, index, scanVars, job, regVars, del,
                   rec, keep, wiped, recUnmap, recFound, refVars, steady>>

\* RemoveAll; when it fails the loop goes on with the next candidate.
recWipe(p) ==
    /\ p \in cur
    /\ ~recUnmap
    /\ \/ removeAll(p) /\ recUnmap' = TRUE /\ UNCHANGED cur
       \/ cur' = {} /\ UNCHANGED <<disk, recUnmap>>
    /\ UNCHANGED <<ctlVars, mapVars, index, scanVars, job, regVars, del, rec,
                   keep, todo, wiped, recFound, refVars, steady>>

\* The mapping goes.  In the first pass a repos.json that cannot be written
\* keeps the repo from being counted.
recDrop(p) ==
    /\ p \in cur
    /\ recUnmap
    /\ drop(p)
    /\ cur' = {}
    /\ recUnmap' = FALSE
    /\ wiped' \in IF rec = "sweep" THEN {TRUE, wiped} ELSE {TRUE}
    /\ UNCHANGED <<ctlVars, disk, index, scanVars, job, regVars, del, rec,
                   keep, todo, recFound, refVars>>

\* reconcileTombstones, after the first pass: the tombstones are fetched.  An
\* error, or none, ends it.
fetchTombstones ==
    /\ rec = "sweep"
    /\ todo = {} /\ cur = {}
    /\ \/ tombs # {} /\ rec' = "tombs" /\ todo' = tombs
       \/ rec' = "tombsweep" /\ UNCHANGED todo
    /\ UNCHANGED <<ctlVars, disk, mapVars, index, scanVars, job, regVars, del,
                   keep, cur, wiped, recUnmap, recFound, refVars, steady>>

\* The tick scans: before it looks for tombstoned repos, if the index is older
\* than its TTL, and at its end, if it removed anything.
recScan ==
    /\ rec \in {"tombs", "rescan"}
    /\ rec' = IF rec = "tombs" THEN "tombpub" ELSE "publish"
    /\ recFound' = Findable
    /\ UNCHANGED <<ctlVars, disk, mapVars, index, scanVars, job, regVars, del,
                   keep, todo, cur, wiped, recUnmap, refVars, steady>>

recPublish ==
    /\ rec \in {"tombpub", "publish"}
    /\ rec' = IF rec = "tombpub" THEN "list" ELSE "idle"
    /\ index' = recFound
    /\ recFound' = {}
    /\ UNCHANGED <<ctlVars, disk, mapVars, scanVars, job, regVars, del, keep,
                   todo, cur, wiped, recUnmap, refVars, steady>>

\* The tombstoned repos of the index.
reconcileTombstones ==
    /\ rec \in {"tombs", "list"}
    /\ rec' = "tombsweep"
    /\ todo' = todo \intersect index
    /\ UNCHANGED <<ctlVars, disk, mapVars, index, scanVars, job, regVars, del,
                   keep, cur, wiped, recUnmap, recFound, refVars, steady>>

\* The end of the tick: a rescan if anything was removed.
recEnds ==
    /\ rec = "tombsweep"
    /\ todo = {} /\ cur = {}
    /\ rec' = IF wiped THEN "rescan" ELSE "idle"
    /\ wiped' = FALSE
    /\ steady' = {}
    /\ UNCHANGED <<ctlVars, disk, mapVars, index, scanVars, job, regVars, del,
                   keep, todo, cur, recUnmap, recFound, refVars>>

-----------------------------------------------------------------------------
(* refreshMappingFromController, once at boot; an error ends it.           *)

refFetch ==
    /\ ref = "todo"
    /\ \/ ref' = "adding" /\ refTodo' = Rows
       \/ ref' = "done" /\ UNCHANGED refTodo
    /\ UNCHANGED <<ctlVars, disk, mapVars, index, scanVars, job, regVars, del,
                   recVars, refCur, steady>>

\* One row of the answer: is it missing from the mapping?
refCheck(row) ==
    /\ ref = "adding"
    /\ refCur = {}
    /\ row \in refTodo
    /\ refTodo' = refTodo \ {row}
    /\ refCur' = IF uuid[row[1]] = 0 THEN {row} ELSE {}
    /\ UNCHANGED <<ctlVars, disk, mapVars, index, scanVars, job, regVars, del,
                   recVars, ref, steady>>

\* It was: it is added, without storages.
refAdd(row) ==
    /\ row \in refCur
    /\ upsert(row[1], row[2], FALSE)
    /\ refCur' = {}
    /\ UNCHANGED <<ctlVars, disk, index, scanVars, job, regVars, del, recVars,
                   ref, refTodo>>

refEnds ==
    /\ ref = "adding"
    /\ refTodo = {} /\ refCur = {}
    /\ ref' = "done"
    /\ UNCHANGED <<ctlVars, disk, mapVars, index, scanVars, job, regVars, del,
                   recVars, refTodo, refCur, steady>>

-----------------------------------------------------------------------------
\* scanLocked, in a goroutine rescanAsync started or for a request that finds
\* the index older than its TTL, and so at any time, reads the mapping and the preferences ...
scanLocked(s) ==
    /\ scan[s] = "idle"
    /\ scan' = [scan EXCEPT ![s] = "read"]
    /\ found' = [found EXCEPT ![s] = Findable]
    /\ UNCHANGED <<ctlVars, disk, mapVars, index, job, regVars, del, recVars,
                   refVars, steady>>

\* ... and publishes what it read.
scanPublish(s) ==
    /\ scan[s] = "read"
    /\ index' = found[s]
    /\ scan' = [scan EXCEPT ![s] = "idle"]
    /\ found' = [found EXCEPT ![s] = {}]
    /\ UNCHANGED <<ctlVars, disk, mapVars, job, regVars, del, recVars,
                   refVars, steady>>

-----------------------------------------------------------------------------
\* A job of an indexed repo with credentials, one per path: JobEngine has the
\* details.  A cancelled job is dying until its child has exited.
jobStarts(p) ==
    /\ job[p] = "none"
    /\ p \in index
    /\ routed[p]
    /\ job' = [job EXCEPT ![p] = "pending"]
    /\ UNCHANGED <<ctlVars, disk, mapVars, index, scanVars, regVars, del,
                   recVars, refVars, steady>>

jobMoves(p) ==
    /\ \/ job[p] = "pending" /\ job' = [job EXCEPT ![p] = "running"]
       \/ job[p] = "running" /\ job' = [job EXCEPT ![p] = "dying"]
    /\ UNCHANGED <<ctlVars, disk, mapVars, index, scanVars, regVars, del,
                   recVars, refVars, steady>>

jobEnds(p) ==
    /\ job[p] \in {"pending", "running", "dying"}
    /\ job' = [job EXCEPT ![p] = "over"]
    /\ UNCHANGED <<ctlVars, disk, mapVars, index, scanVars, regVars, del,
                   recVars, refVars, steady>>

-----------------------------------------------------------------------------
Register(p) == initPrimary(p) \/ addSecondaries(p) \/ mapRepo(p)
Delete(p) == handleDeleteRepo(p) \/ deleteWipe(p) \/ deleteUnmap(p)

Reconcile ==
    \/ fetchCentralRepos
    \/ listMapping
    \/ \E p \in Path : recGuard(p) \/ recWipe(p) \/ recDrop(p)
    \/ fetchTombstones
    \/ recScan
    \/ recPublish
    \/ reconcileTombstones
    \/ recEnds

Refresh ==
    \/ refFetch
    \/ \E row \in refTodo : refCheck(row)
    \/ \E row \in refCur : refAdd(row)
    \/ refEnds

Scan(s) == scanLocked(s) \/ scanPublish(s)

Next ==
    \/ \E p \in Path :
          \/ registered(p) \/ unregistered(p) \/ deleteLost(p)
          \/ handleInitRepoNew(p) \/ handleBindRepo(p) \/ Register(p)
          \/ Delete(p)
          \/ jobStarts(p) \/ jobMoves(p) \/ jobEnds(p)
    \/ Reconcile
    \/ Refresh
    \/ \E s \in Scanner : Scan(s)

Spec == Init /\ [][Next]_vars

(***************************************************************************)
(* Handlers and goroutines run, the reconcile ticker ticks, a fetch or a   *)
(* RemoveAll that is tried again and again succeeds, and jobs end.  Nobody *)
(* has to call the agent.                                                  *)
(***************************************************************************)
FairSpec ==
    /\ Spec
    /\ WF_vars(Reconcile)
    /\ SF_vars(fetchTombstones /\ rec' = "tombs")
    /\ WF_vars(Refresh)
    /\ \A s \in Scanner : WF_vars(scanPublish(s))
    /\ \A p \in Path :
          /\ WF_vars(Register(p))
          /\ WF_vars(deleteWipe(p) \/ deleteUnmap(p))
          /\ SF_vars(recGuard(p) /\ ~Guarded(p))
          /\ SF_vars(recWipe(p) /\ recUnmap')
          /\ WF_vars(jobEnds(p))

-----------------------------------------------------------------------------
TypeOK ==
    /\ central \in [Path -> 0..MaxUUID]
    /\ last \in [Path -> 0..MaxUUID]
    /\ tombs \in SUBSET Path
    /\ deleting \in [Path -> BOOLEAN]
    /\ disk \in [Path -> {"none", "primary", "full"}]
    /\ uuid \in [Path -> 0..MaxUUID]
    /\ routed \in [Path -> BOOLEAN]
    /\ index \in SUBSET Path
    /\ scan \in [Scanner -> {"idle", "read"}]
    /\ found \in [Scanner -> SUBSET Path]
    /\ job \in [Path -> {"none", "pending", "running", "dying", "over"}]
    /\ reg \in [Path -> {"idle", "init", "add", "upsert", "bind"}]
    /\ regUUID \in [Path -> 0..MaxUUID]
    /\ del \in [Path -> {"idle", "wipe", "unmap"}]
    /\ rec \in {"idle", "fetched", "sweep", "tombs", "tombpub", "list",
               "tombsweep", "rescan", "publish"}
    /\ keep \subseteq (Path \X (1..MaxUUID)) \union Others
    /\ todo \in SUBSET Path
    /\ cur \in SUBSET Path
    /\ wiped \in BOOLEAN
    /\ recUnmap \in BOOLEAN
    /\ recFound \in SUBSET Path
    /\ ref \in {"todo", "adding", "done"}
    /\ refTodo \subseteq Path \X (1..MaxUUID)
    /\ refCur \subseteq Path \X (1..MaxUUID)
    /\ steady \in SUBSET Path

\* A step of reconcileOrphans removes a repo.
ReconcileWipes(p) == recWipe(p) /\ recUnmap' /\ disk[p] # "none"

(***************************************************************************)
(* The tick removes what the controller dropped and nothing else: a repo   *)
(* that is registered, and mapped under its UUID, from before the fetch    *)
(* until now is not wiped, although the controller may answer with nothing *)
(* and mappings change under the loop.                                     *)
(***************************************************************************)
RegisteredIsKept == [][\A p \in Path : ReconcileWipes(p) => p \notin steady]_vars

(***************************************************************************)
(* A lost delete call is made good: the mapped repo of a path that the     *)
(* controller dropped is in the end neither on disk nor mapped, although   *)
(* jobs run, removals fail and the refresh adds mappings meanwhile; no     *)
(* init or delete is under way, the tick is not between its two steps, and *)
(* the node has other repos.                                               *)
(***************************************************************************)
OrphanCleared ==
    \A p \in Path :
        central[p] = 0 /\ uuid[p] # 0 /\ reg[p] = "idle" /\ del[p] = "idle"
            /\ ~recUnmap ~>
            central[p] # 0 \/ (uuid[p] = 0 /\ disk[p] = "none")

(***************************************************************************)
(* delete_handler.go:5: the call is refused "if a job is currently running *)
(* against this repo (operator must cancel first)": the directory is not   *)
(* removed under a duplicacy process, reconcile.go:12 says the same of the *)
(* tick.                                                                   *)
(***************************************************************************)
NoWipeUnderJob ==
    [][\A p \in Path : disk[p] # "none" /\ disk'[p] = "none" =>
          job[p] \notin {"running", "dying"}]_vars

(***************************************************************************)
(* reconcile.go:8: the tick asks for "the set of repos it still has        *)
(* registered for THIS node" and wipes what is absent from it: it does not *)
(* wipe a repo the controller has registered.                              *)
(***************************************************************************)
NeverWipesRegistered ==
    [][\A p \in Path : ReconcileWipes(p) => central[p] = 0]_vars

(***************************************************************************)
(* reconcile.go:84: the refresh "only ADDS path mappings that are missing  *)
(* locally".                                                               *)
(***************************************************************************)
RefreshOnlyAdds ==
    [][\A row \in refCur : refAdd(row) => uuid[row[1]] = 0]_vars

(***************************************************************************)
(* reconcile.go:196: the tombstone pass is "independent of mapping state"  *)
(* and "catches orphans the mapping pass can't see": a tombstoned repo     *)
(* that is on disk and not mapped is removed.                              *)
(***************************************************************************)
UnmappedOrphanCleared ==
    \A p \in Path :
        p \in tombs /\ disk[p] # "none" /\ uuid[p] = 0 ~>
            p \notin tombs \/ disk[p] = "none"

(***************************************************************************)
(* README.md:79: "Every 5 min: fetch this node's repos from the            *)
(* controller, ... and repopulate the local registry".                     *)
(***************************************************************************)
RegistryRepopulated ==
    \A p \in Path : central[p] # 0 ~> central[p] = 0 \/ uuid[p] # 0
=============================================================================
