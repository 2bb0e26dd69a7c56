------------------------------ MODULE EventPath ------------------------------
(***************************************************************************)
(* How the outcome of a job reaches the controller (src/events.go,         *)
(* src/orphan_sweep.go, src/main.go, src/app.go).  emit starts one         *)
(* goroutine per event; it copies the job, upserts the row of the local    *)
(* jobs table and enqueues the event in the durable outbox, three steps    *)
(* that interleave with those of the job's other events.  The table and    *)
(* the outbox survive a crash of the agent, the registry and the hooks do  *)
(* not.  At boot the sweep marks the rows left non-terminal and enqueues a *)
(* synthetic event for each before the listener opens; from then on the    *)
(* outbox is drained and the reconcile loop posts the table every 5 min.   *)
(*                                                                         *)
(* The outbox, the sweep's UPDATE, the reconcile query and the controller  *)
(* belong to agent-kit-go and to the controller: they are modelled by what *)
(* this code relies on.                                                    *)
(***************************************************************************)
EXTENDS Naturals, FiniteSets

CONSTANTS
    Jobs,         \* job ids, never reused
    MaxCrashes,   \* bound on the crashes of the agent
    MaxErrors     \* bound on the failures of SQLite

ASSUME EventBounds == MaxCrashes \in Nat /\ MaxErrors \in Nat

VARIABLES
    mem,        \* State of the job in the registry, "gone": lost in a crash
    phase,      \* of the job: "open", "final" (State will not change any
                \* more), "told" (its terminal event has been emitted)
    hook,       \* the goroutine of an event: "idle", "spawned", "snapped",
                \* "upserted", "done"
    snap,       \* the copy of the job the goroutine took
    db,         \* the jobs table; "orphan": failed by the boot sweep
    outbox,     \* the queued events
    sweep,      \* sweepOrphanJobs: "todo", "marked", "done"
    toSweep,    \* recovered ids whose synthetic event is not enqueued yet
    listening,  \* the HTTP listener and the background workers run
    report,     \* the rows of the reconcile POST under way
    posting,    \* a reconcile POST is under way
    ctl,        \* the controller's rows
    crashes, errors,   \* how many there were
    queued      \* history: every event that was ever enqueued

jobVars == <<mem, phase>>
hookVars == <<hook, snap>>
sweepVars == <<sweep, toSweep, listening>>
postVars == <<report, posting>>
countVars == <<crashes, errors>>
vars == <<jobVars, hookVars, db, outbox, sweepVars, postVars, ctl, countVars, queued>>

Verdict == {"completed", "failed", "cancelled"}
JobEvent == {"started"} \union Verdict
Row == {"none", "running", "orphan"} \union Verdict

Message == [job : Jobs, event : JobEvent, state : {"running"} \union Verdict]

Init ==
    /\ mem = [j \in Jobs |-> "none"]
    /\ phase = [j \in Jobs |-> "open"]
    /\ hook = [j \in Jobs |-> [e \in JobEvent |-> "idle"]]
    /\ snap = [j \in Jobs |-> [e \in JobEvent |-> "none"]]
    /\ db = [j \in Jobs |-> "none"]
    /\ outbox = {}
    /\ sweep = "todo"
    /\ toSweep = {}
    /\ listening = FALSE
    /\ report = [j \in Jobs |-> "none"]
    /\ posting = FALSE
    /\ ctl = [j \in Jobs |-> "none"]
    /\ crashes = 0
    /\ errors = 0
    /\ queued = {}

sqliteFails == errors < MaxErrors /\ errors' = errors + 1

-----------------------------------------------------------------------------
(* The registry, as far as events go: JobEngine is the detailed model.     *)

emit(j, e) == hook' = [hook EXCEPT ![j][e] = "spawned"]

SpawnState == "running"

\* spawn: State is Running, "started" is emitted.
started(j) ==
    /\ listening
    /\ mem[j] = "none" /\ phase[j] = "open"
    /\ mem' = [mem EXCEPT ![j] = SpawnState]
    /\ emit(j, "started")
    /\ UNCHANGED <<phase, snap, db, outbox, sweepVars, postVars, ctl,
                   countVars, queued>>

\* cancel: State is Cancelled, the child still has to exit.
cancel(j) ==
    /\ mem[j] = "running"
    /\ phase[j] = "open"
    /\ mem' = [mem EXCEPT ![j] = "cancelled"]
    /\ UNCHANGED <<phase, hookVars, db, outbox, sweepVars, postVars, ctl,
                   countVars, queued>>

\* The verdict is published: by the wait goroutine, which leaves a cancelled
\* job cancelled unless its child succeeded, or, for a job that never ran, by
\* a failed start or a cancel in the queue.
publishVerdict(j, v) ==
    /\ listening
    /\ phase[j] = "open"
    /\ \/ mem[j] = "running" /\ v \in {"completed", "failed"}
       \/ mem[j] = "cancelled" /\ v \in {"completed", "cancelled"}
       \/ mem[j] = "none" /\ v \in {"failed", "cancelled"}
    /\ mem' = [mem EXCEPT ![j] = v]
    /\ phase' = [phase EXCEPT ![j] = "final"]
    /\ UNCHANGED <<hookVars, db, outbox, sweepVars, postVars, ctl, countVars,
                   queued>>

\* Mutant: a switch without the case for cancelled jobs.
EventOf_noCancelled(s) == IF s = "cancelled" THEN "failed" ELSE s

\* The event that announces a state.
EventOf(s) == s

\* The goroutine that published the verdict emits its event, later.
emitTerminal(j) ==
    /\ phase[j] = "final"
    /\ phase' = [phase EXCEPT ![j] = "told"]
    /\ emit(j, EventOf(mem[j]))
    /\ UNCHANGED <<mem, snap, db, outbox, sweepVars, postVars, ctl, countVars,
                   queued>>

-----------------------------------------------------------------------------
(* handleJobEvent, in the goroutine of one event.                          *)

enqueue(m) ==
    /\ outbox' = outbox \union {m}
    /\ queued' = queued \union {m}

snapshot(j, e) ==
    /\ hook[j][e] = "spawned"
    /\ snap' = [snap EXCEPT ![j][e] = mem[j]]
    /\ hook' = [hook EXCEPT ![j][e] = "snapped"]
    /\ UNCHANGED <<jobVars, db, outbox, sweepVars, postVars, ctl, countVars,
                   queued>>

\* upsertJob: the row is overwritten, whatever it held; an error is logged.
upsertJob(j, e) ==
    /\ hook[j][e] = "snapped"
    /\ \/ db' = [db EXCEPT ![j] = snap[j][e]] /\ UNCHANGED errors
       \/ sqliteFails /\ UNCHANGED db
    /\ hook' = [hook EXCEPT ![j][e] = "upserted"]
    /\ UNCHANGED <<jobVars, snap, outbox, sweepVars, postVars, ctl, crashes,
                   queued>>

\* outbox.Enqueue.
enqueueEvent(j, e) ==
    /\ hook[j][e] = "upserted"
    /\ enqueue([job |-> j, event |-> e, state |-> snap[j][e]])
    /\ hook' = [hook EXCEPT ![j][e] = "done"]
    /\ UNCHANGED <<jobVars, snap, db, sweepVars, postVars, ctl, countVars>>

-----------------------------------------------------------------------------
(* Crash and boot.                                                         *)

\* The agent dies: children, registry and hook goroutines are gone.
crash ==
    /\ crashes < MaxCrashes
    /\ crashes' = crashes + 1
    /\ mem' = [j \in Jobs |-> IF mem[j] = "none" THEN "none" ELSE "gone"]
    /\ phase' = [j \in Jobs |-> "open"]
    /\ hook' = [j \in Jobs |-> [e \in JobEvent |-> "idle"]]
    /\ snap' = [j \in Jobs |-> [e \in JobEvent |-> "none"]]
    /\ sweep' = "todo"
    /\ toSweep' = {}
    /\ listening' = FALSE
    /\ posting' = FALSE
    /\ report' = [j \in Jobs |-> "none"]
    /\ UNCHANGED <<db, outbox, ctl, errors, queued>>

\* Mutant: the sweep looks for pending rows only.
NonTerminal_pendingOnly(r) == r = "pending"

\* A row the sweep recovers and the reconcile always reports.
NonTerminal(r) == r = "running"

\* sweepOrphanJobs: MarkOrphanedFailed marks every non-terminal row in one
\* UPDATE; when it fails nothing is swept.
sweepMark ==
    /\ sweep = "todo"
    /\ \/ /\ toSweep' = {j \in Jobs : NonTerminal(db[j])}
          /\ db' = [j \in Jobs |-> IF NonTerminal(db[j]) THEN "orphan" ELSE db[j]]
          /\ sweep' = "marked"
          /\ UNCHANGED errors
       \/ sqliteFails /\ sweep' = "done" /\ UNCHANGED <<toSweep, db>>
    /\ UNCHANGED <<jobVars, hookVars, outbox, listening, postVars, ctl,
                   crashes, queued>>

\* sweepOrphanJobs: the synthetic event of one recovered job; a row that
\* cannot be read is skipped.
sweepEnqueue(j) ==
    /\ sweep = "marked"
    /\ j \in toSweep
    /\ toSweep' = toSweep \ {j}
    /\ \/ /\ enqueue([job |-> j, event |-> "failed", state |-> "failed"])
          /\ UNCHANGED errors
       \/ sqliteFails /\ UNCHANGED <<outbox, queued>>
    /\ UNCHANGED <<jobVars, hookVars, db, sweep, listening, postVars, ctl,
                   crashes>>

sweepReturns ==
    /\ sweep = "marked"
    /\ toSweep = {}
    /\ sweep' = "done"
    /\ UNCHANGED <<jobVars, hookVars, db, outbox, toSweep, listening,
                   postVars, ctl, countVars, queued>>

\* Mutant: the listener does not wait for the sweep.
listen_early ==
    /\ ~listening
    /\ listening' = TRUE
    /\ UNCHANGED <<jobVars, hookVars, db, outbox, sweep, toSweep, postVars,
                   ctl, countVars, queued>>

\* main: after the sweep the listener opens and the workers start.
listen ==
    /\ ~listening
    /\ sweep = "done"
    /\ listening' = TRUE
    /\ UNCHANGED <<jobVars, hookVars, db, outbox, sweep, toSweep, postVars,
                   ctl, countVars, queued>>

-----------------------------------------------------------------------------
(* External: the outbox delivers in any order and at least once; the       *)
(* controller takes the state of the last event it got.                    *)
deliver(m, acknowledged) ==
    /\ listening
    /\ m \in outbox
    /\ ctl' = [ctl EXCEPT ![m.job] = m.state]
    /\ outbox' = IF acknowledged THEN outbox \ {m} ELSE outbox
    /\ UNCHANGED <<jobVars, hookVars, db, sweepVars, postVars, countVars,
                   queued>>

\* Mutant: the terminal rows are left out.
Reported_nonTerminal(r) == NonTerminal(r)

\* The rows startJobStateReconcile asks for: non-terminal, or completed in
\* the last 24 hours.  The sweep leaves completed_at_ns zero.
Reported(r) == NonTerminal(r) \/ r \in Verdict

reconcileSnapshot ==
    /\ listening
    /\ ~posting
    /\ posting' = TRUE
    /\ report' = [j \in Jobs |-> IF Reported(db[j]) THEN db[j] ELSE "none"]
    /\ UNCHANGED <<jobVars, hookVars, db, outbox, sweepVars, ctl, countVars,
                   queued>>

\* The POST arrives and the controller's rows follow it, or it fails.
reconcilePost(arrives) ==
    /\ posting
    /\ ctl' = IF arrives
              THEN [j \in Jobs |-> IF report[j] = "none" THEN ctl[j] ELSE report[j]]
              ELSE ctl
    /\ posting' = FALSE
    /\ report' = [j \in Jobs |-> "none"]
    /\ UNCHANGED <<jobVars, hookVars, db, outbox, sweepVars, countVars,
                   queued>>

-----------------------------------------------------------------------------
HookStep(j, e) == snapshot(j, e) \/ upsertJob(j, e) \/ enqueueEvent(j, e)

Boot ==
    \/ sweepMark
    \/ \E j \in Jobs : sweepEnqueue(j)
    \/ sweepReturns
    \/ listen

Next ==
    \/ \E j \in Jobs :
          \/ started(j)
          \/ cancel(j)
          \/ \E v \in Verdict : publishVerdict(j, v)
          \/ emitTerminal(j)
          \/ \E e \in JobEvent : HookStep(j, e)
    \/ crash
    \/ Boot
    \/ \E m \in outbox, acknowledged \in BOOLEAN : deliver(m, acknowledged)
    \/ reconcileSnapshot
    \/ \E arrives \in BOOLEAN : reconcilePost(arrives)

Spec == Init /\ [][Next]_vars

(***************************************************************************)
(* Fairness: goroutines run, the boot sequence goes on, the reconcile loop *)
(* ticks, and a controller that is tried again and again answers.  The     *)
(* hooks of a job and the messages of the outbox are finitely many, so one *)
(* condition for all of them serves each.  Jobs need not start or end.     *)
(***************************************************************************)
FairSpec ==
    /\ Spec
    /\ WF_vars(Boot)
    /\ \A j \in Jobs :
          /\ WF_vars(emitTerminal(j))
          /\ WF_vars(\E e \in JobEvent : HookStep(j, e))
    /\ SF_vars(\E m \in outbox : deliver(m, TRUE))
    /\ WF_vars(reconcileSnapshot)
    /\ SF_vars(reconcilePost(TRUE))

-----------------------------------------------------------------------------
TypeOK ==
    /\ mem \in [Jobs -> {"none", "running", "gone"} \union Verdict]
    /\ phase \in [Jobs -> {"open", "final", "told"}]
    /\ hook \in [Jobs -> [JobEvent ->
                    {"idle", "spawned", "snapped", "upserted", "done"}]]
    /\ snap \in [Jobs -> [JobEvent -> {"none", "running"} \union Verdict]]
    /\ db \in [Jobs -> Row]
    /\ outbox \in SUBSET Message
    /\ sweep \in {"todo", "marked", "done"}
    /\ toSweep \in SUBSET Jobs
    /\ listening \in BOOLEAN
    /\ report \in [Jobs -> {"none", "running"} \union Verdict]
    /\ posting \in BOOLEAN
    /\ ctl \in [Jobs -> {"none", "running"} \union Verdict]
    /\ crashes \in 0..MaxCrashes
    /\ errors \in 0..MaxErrors
    /\ queued \in SUBSET Message

(***************************************************************************)
(* Boot recovery (sweepOrphanJobs): once the agent listens, a row that     *)
(* says running belongs to a job of this process, not to one that died     *)
(* with an earlier one, whenever the crashes struck; unless SQLite failed. *)
(***************************************************************************)
RunningRowsAreOurs ==
    listening /\ errors = 0 =>
        \A j \in Jobs : db[j] = "running" => mem[j] \notin {"none", "gone"}

(***************************************************************************)
(* The sweep only speaks for the dead: while a job of this process is      *)
(* alive, or ended otherwise, nothing in the table, the outbox or the      *)
(* controller says that it failed.                                         *)
(***************************************************************************)
LivingNotDeclaredFailed ==
    \A j \in Jobs : mem[j] \in {"running", "completed", "cancelled"} =>
        /\ db[j] \notin {"orphan", "failed"}
        /\ ctl[j] # "failed"
        /\ \A m \in outbox : m.job = j => m.state # "failed"

(***************************************************************************)
(* A terminal event carries the state it announces, although the copy of   *)
(* the job is taken in another goroutine, after the emit; a started event  *)
(* may carry a later state, never an earlier one.                          *)
(***************************************************************************)
EventsTellState ==
    \A m \in queued : m.event \in Verdict => m.state = m.event

(***************************************************************************)
(* The safety net (startJobStateReconcile): once things settle, the        *)
(* controller agrees with the jobs table on every row the loop reports,    *)
(* however events were reordered, repeated or lost in crashes.             *)
(***************************************************************************)
ControllerConverges ==
    <>[](\A j \in Jobs : db[j] \in {"running"} \union Verdict => ctl[j] = db[j])

(***************************************************************************)
(* orphan_sweep.go:27: a swept job is failed because the "previous job did *)
(* not emit a terminal event".                                             *)
(***************************************************************************)
SweptNeverAnnounced ==
    \A j \in Jobs : db[j] = "orphan" =>
        \A m \in queued : m.job = j /\ m.event \in Verdict => m.event = "failed"

(***************************************************************************)
(* orphan_sweep.go:13: the sweep "enqueues a synthetic terminal event per  *)
(* recovered job": once the agent listens, every swept row has had one.    *)
(***************************************************************************)
SweptIsAnnounced ==
    listening /\ errors = 0 =>
        \A j \in Jobs : db[j] = "orphan" =>
            \E m \in queued : m.job = j /\ m.state = "failed"

(***************************************************************************)
(* app.go:295: the reconcile posts the "full authoritative job set" as the *)
(* "safety net" for a "lost or out-of-order terminal event": a swept job   *)
(* does not stay running at the controller.                                *)
(***************************************************************************)
SweptConverges ==
    \A j \in Jobs : db[j] = "orphan" ~> db[j] # "orphan" \/ ctl[j] # "running"
=============================================================================
