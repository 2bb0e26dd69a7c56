------------------------------ MODULE JobEngine ------------------------------
(***************************************************************************)
(* The job registry of src/jobs.go: every duplicacy process the agent runs *)
(* as a job.  A job is registered Pending, waits for a slot of its action's *)
(* semaphore (copy, check, prune) or is spawned at once (backup, restore), *)
(* runs as a child process, and is wound up by exactly one goroutine, which *)
(* publishes the verdict, runs the cleanup that unlinks the credential     *)
(* files, enters the job in the ring of recent jobs, emits the terminal    *)
(* event and gives the slot back, in that order.                           *)
(*                                                                         *)
(* An action ends where the code unlocks, blocks, or calls out, so that    *)
(* every interleaving of the goroutines with POST /jobs/:id/cancel, with   *)
(* the exit of the child process, with the shutdown of the agent and with  *)
(* the list-cache warmer, which shares the maintenance semaphore, is a     *)
(* behaviour of the model.                                                 *)
(***************************************************************************)
EXTENDS Integers, Sequences, FiniteSets

CONSTANTS
    Jobs,                 \* the job ids (uuid.NewString: never reused)
    Actions,              \* the job actions requests may ask for
    MaxConcurrentCopies,  \* capacity of copySem, 0: unbounded
    MaxConcurrentMaint,   \* capacity of maintSem, 0: unbounded
    RecentJobsRetained    \* length of the ring of terminal jobs

ASSUME JobsFinite == IsFiniteSet(Jobs)
ASSUME ActionsKnown ==
    Actions \subseteq {"backup", "restore", "copy", "check", "prune"}
ASSUME CapsNatural ==
    /\ MaxConcurrentCopies \in Nat
    /\ MaxConcurrentMaint \in Nat
    /\ RecentJobsRetained \in Nat

VARIABLES
    jobs,       \* r.jobs: the registered jobs
    terminal,   \* r.terminal: terminal jobs, oldest first
    state,      \* j.State ("none": not registered yet)
    action,     \* j.Action
    pc,         \* where the goroutine that owns the job stands
    ctxDone,    \* jobCtx is done: cancelled, or its parent is
    detached,   \* the parent of jobCtx is context.Background()
    proc,       \* the child process
    verdict,    \* the outcome the winding-up goroutine captured for its event
    sem,        \* tokens in the channels copySem and maintSem
    slot,       \* the job's release closure still owes its token
    cleanup,    \* j.cleanup # nil
    stopping,   \* the agent's root context is cancelled
    warm,       \* the warmer holds a maintenance slot
    cancelling, \* r.cancel has set State and not yet called cancel()
    cleaned,    \* history: how often the cleanup closure has run
    cancelled,  \* history: a cancel request was accepted (200)
    emitted     \* history: the events emitted for the job, in order

regVars == <<jobs, terminal>>
jobVars == <<state, action, pc, ctxDone, detached, proc, verdict>>
semVars == <<sem, slot, warm>>
credVars == <<cleanup, cleaned>>
cancelVars == <<cancelling, cancelled>>
vars == <<regVars, jobVars, semVars, credVars, cancelVars, stopping, emitted>>

-----------------------------------------------------------------------------
JobState == {"pending", "running", "completed", "failed", "cancelled"}
Verdict == {"completed", "failed", "cancelled"}
Event == {"started"} \union Verdict
Pool == {"copy", "maint"}
PC == {"new", "queued", "spawn", "startFailed", "started", "running",
       "unwind", "wound", "marked", "emitted", "done", "aborted"}
Proc == {"none", "alive", "exit0", "exitErr"}

\* The semaphore that gates an action, "none" when it runs ungated.
semFor(a) ==
    IF a = "copy" /\ MaxConcurrentCopies > 0 THEN "copy"
    ELSE IF a \in {"check", "prune"} /\ MaxConcurrentMaint > 0 THEN "maint"
    ELSE "none"

Capacity(p) == IF p = "copy" THEN MaxConcurrentCopies ELSE MaxConcurrentMaint

\* Mutants: the pending jobs are forgotten; State is not looked at.
Active_runningOnly(j) == j \in jobs /\ state[j] = "running"

\* A job countActive counts: registered, Running or Pending.
Active(j) == j \in jobs /\ state[j] \in {"running", "pending"}

\* Mutant: one slot too many.
HasRoom_offByOne(p) == sem[p] <= Capacity(p)

\* A send on the semaphore's buffered channel does not block.
HasRoom(p) == sem[p] < Capacity(p)

newJobRegistry ==
    /\ jobs = {}
    /\ terminal = <<>>
    /\ sem = [p \in Pool |-> 0]

Init ==
    /\ newJobRegistry
    /\ state = [j \in Jobs |-> "none"]
    /\ action = [j \in Jobs |-> "none"]
    /\ pc = [j \in Jobs |-> "new"]
    /\ ctxDone = [j \in Jobs |-> FALSE]
    /\ detached = [j \in Jobs |-> FALSE]
    /\ proc = [j \in Jobs |-> "none"]
    /\ verdict = [j \in Jobs |-> "none"]
    /\ slot = [j \in Jobs |-> FALSE]
    /\ warm = FALSE
    /\ cleanup = [j \in Jobs |-> FALSE]
    /\ cleaned = [j \in Jobs |-> 0]
    /\ cancelling = [j \in Jobs |-> FALSE]
    /\ cancelled = [j \in Jobs |-> FALSE]
    /\ stopping = FALSE
    /\ emitted = [j \in Jobs |-> <<>>]

-----------------------------------------------------------------------------
(* start: register the job Pending, then queue it for a slot or spawn it.  *)
(* d: the caller passes context.Background() (the HTTP handlers, the       *)
(* chain) and not the scheduler's context.                                 *)
start(j, a, d) ==
    /\ pc[j] = "new"
    /\ jobs' = jobs \union {j}
    /\ state' = [state EXCEPT ![j] = "pending"]
    /\ action' = [action EXCEPT ![j] = a]
    /\ detached' = [detached EXCEPT ![j] = d]
    /\ ctxDone' = [ctxDone EXCEPT ![j] = stopping /\ ~d]
    /\ cleanup' = [cleanup EXCEPT ![j] = TRUE]
    /\ pc' = [pc EXCEPT ![j] = IF semFor(a) = "none" THEN "spawn" ELSE "queued"]
    /\ UNCHANGED <<terminal, proc, verdict, semVars, cleaned, cancelVars,
                   stopping, emitted>>

\* spawnGated, the slot case: select picks either ready case, so a slot may
\* be taken although the context is done.
acquireSlot(j) ==
    LET p == semFor(action[j]) IN
    /\ pc[j] = "queued"
    /\ HasRoom(p)
    /\ sem' = [sem EXCEPT ![p] = @ + 1]
    /\ slot' = [slot EXCEPT ![j] = TRUE]
    /\ pc' = [pc EXCEPT ![j] = "spawn"]
    /\ UNCHANGED <<regVars, state, action, ctxDone, detached, proc, verdict,
                   warm, credVars, cancelVars, stopping, emitted>>

\* spawnGated, the jobCtx.Done() case, and the locked part of
\* finalizeUnstarted.
finalizeUnstarted(j) ==
    /\ pc[j] = "queued"
    /\ ctxDone[j]
    /\ state' = [state EXCEPT ![j] = "cancelled"]
    /\ verdict' = [verdict EXCEPT ![j] = "cancelled"]
    /\ pc' = [pc EXCEPT ![j] = "unwind"]
    /\ UNCHANGED <<regVars, action, ctxDone, detached, proc, semVars,
                   credVars, cancelVars, stopping, emitted>>

-----------------------------------------------------------------------------
\* Mutant: the released flag is not set.
GiveSlotBack_notOnce(j) ==
    IF slot[j]
    THEN /\ UNCHANGED slot
         /\ sem' = [sem EXCEPT ![semFor(action[j])] = @ - 1]
    ELSE UNCHANGED <<sem, slot>>

\* The release closure: gives the token back, once.
GiveSlotBack(j) ==
    IF slot[j]
    THEN /\ sem' = [sem EXCEPT ![semFor(action[j])] = @ - 1]
         /\ slot' = [slot EXCEPT ![j] = FALSE]
    ELSE UNCHANGED <<sem, slot>>

\* spawn: StdoutPipe or StderrPipe fails (no file descriptor left).
pipeFails(j) ==
    /\ pc[j] = "spawn"
    /\ ctxDone' = [ctxDone EXCEPT ![j] = TRUE]
    /\ GiveSlotBack(j)
    /\ pc' = [pc EXCEPT ![j] = "aborted"]
    /\ UNCHANGED <<regVars, state, action, detached, proc, verdict, warm,
                   credVars, cancelVars, stopping, emitted>>

\* Mutant: a gated job whose start fails gives its slot back and queues again.
startFails_requeues(j) ==
    /\ pc[j] = "spawn"
    /\ GiveSlotBack(j)
    /\ pc' = [pc EXCEPT ![j] = IF slot[j] THEN "queued" ELSE "startFailed"]
    /\ UNCHANGED <<regVars, state, action, ctxDone, detached, proc, verdict,
                   warm, credVars, cancelVars, stopping, emitted>>

\* spawn: cmd.Start fails; it always does when the context is already done.
\* The cleanup closure runs and stays set.
startFails(j) ==
    /\ pc[j] = "spawn"
    /\ ctxDone' = [ctxDone EXCEPT ![j] = TRUE]
    /\ cleaned' = [cleaned EXCEPT ![j] = IF cleanup[j] THEN @ + 1 ELSE @]
    /\ pc' = [pc EXCEPT ![j] = "startFailed"]
    /\ UNCHANGED <<regVars, state, action, detached, proc, verdict, semVars,
                   cleanup, cancelVars, stopping, emitted>>

\* Mutant: the failed start is wound up like a job that ran, so the cleanup
\* closure, which is still set, runs again.
publishStartFailure_unwinds(j) ==
    /\ pc[j] = "startFailed"
    /\ state' = [state EXCEPT ![j] = "failed"]
    /\ verdict' = [verdict EXCEPT ![j] = "failed"]
    /\ pc' = [pc EXCEPT ![j] = "unwind"]
    /\ UNCHANGED <<regVars, action, ctxDone, detached, proc, semVars,
                   credVars, cancelVars, stopping, emitted>>

\* spawn: the failed start is published.
publishStartFailure(j) ==
    /\ pc[j] = "startFailed"
    /\ state' = [state EXCEPT ![j] = "failed"]
    /\ verdict' = [verdict EXCEPT ![j] = "failed"]
    /\ pc' = [pc EXCEPT ![j] = "wound"]
    /\ UNCHANGED <<regVars, action, ctxDone, detached, proc, semVars,
                   credVars, cancelVars, stopping, emitted>>

\* spawn: cmd.Start succeeds.
startSucceeds(j) ==
    /\ pc[j] = "spawn"
    /\ ~ctxDone[j]
    /\ proc' = [proc EXCEPT ![j] = "alive"]
    /\ pc' = [pc EXCEPT ![j] = "started"]
    /\ UNCHANGED <<regVars, state, action, ctxDone, detached, verdict,
                   semVars, credVars, cancelVars, stopping, emitted>>

\* spawn: State becomes Running, whatever it was, and "started" is emitted.
publishRunning(j) ==
    /\ pc[j] = "started"
    /\ state' = [state EXCEPT ![j] = "running"]
    /\ emitted' = [emitted EXCEPT ![j] = Append(@, "started")]
    /\ pc' = [pc EXCEPT ![j] = "running"]
    /\ UNCHANGED <<regVars, action, ctxDone, detached, proc, verdict, semVars,
                   credVars, cancelVars, stopping>>

-----------------------------------------------------------------------------
\* External: the child process exits by itself, with a status.
procExits(j, status) ==
    /\ proc[j] = "alive"
    /\ proc' = [proc EXCEPT ![j] = status]
    /\ UNCHANGED <<regVars, state, action, pc, ctxDone, detached, verdict,
                   semVars, credVars, cancelVars, stopping, emitted>>

\* External: os/exec kills the child of a context that is done.
procKilled(j) == ctxDone[j] /\ procExits(j, "exitErr")

\* The errors cmd.Wait may return.  A child that exited 0 while its context
\* was being cancelled is reported either way, depending on which goroutine
\* of os/exec reaps it first.
WaitErrs(j) ==
    IF proc[j] = "exitErr" THEN {TRUE}
    ELSE IF ctxDone[j] THEN BOOLEAN ELSE {FALSE}

\* cmd.Wait has something to return.
childExited(j) == proc[j] \in {"exit0", "exitErr"}

\* The state the wait goroutine publishes: a cancelled job stays cancelled
\* when cmd.Wait reports an error.
WaitState(s, err) ==
    IF ~err THEN "completed" ELSE IF s = "cancelled" THEN s ELSE "failed"

\* The wait goroutine: cmd.Wait returns and the verdict is published.
waitReturns(j) ==
    /\ pc[j] = "running"
    /\ childExited(j)
    /\ \E err \in WaitErrs(j) :
          state' = [state EXCEPT ![j] = WaitState(@, err)]
    /\ verdict' = [verdict EXCEPT ![j] = state'[j]]
    /\ pc' = [pc EXCEPT ![j] = "unwind"]
    /\ UNCHANGED <<regVars, action, ctxDone, detached, proc, semVars,
                   credVars, cancelVars, stopping, emitted>>

\* The wait goroutine and finalizeUnstarted: the cleanup closure, taken out
\* of the job under its lock, runs.
runCleanup(j) ==
    /\ pc[j] = "unwind"
    /\ cleaned' = [cleaned EXCEPT ![j] = IF cleanup[j] THEN @ + 1 ELSE @]
    /\ cleanup' = [cleanup EXCEPT ![j] = FALSE]
    /\ pc' = [pc EXCEPT ![j] = "wound"]
    /\ UNCHANGED <<regVars, state, action, ctxDone, detached, proc, verdict,
                   semVars, cancelVars, stopping, emitted>>

\* markTerminated: append to the ring; the ids that fall out of it leave the
\* registry.
Overflow == LET n == Len(terminal) + 1 - RecentJobsRetained
            IN  IF n > 0 THEN n ELSE 0

markTerminated(j) ==
    LET t == Append(terminal, j) IN
    /\ pc[j] = "wound"
    /\ terminal' = SubSeq(t, Overflow + 1, Len(t))
    /\ jobs' = jobs \ {t[i] : i \in 1..Overflow}
    /\ pc' = [pc EXCEPT ![j] = "marked"]
    /\ UNCHANGED <<state, action, ctxDone, detached, proc, verdict, semVars,
                   credVars, cancelVars, stopping, emitted>>

\* emit: the terminal event for the verdict that was published.  A job that
\* holds a slot still has its deferred release to run.
emitTerminal(j) ==
    /\ pc[j] = "marked"
    /\ emitted' = [emitted EXCEPT ![j] = Append(@, verdict[j])]
    /\ pc' = [pc EXCEPT ![j] = IF slot[j] THEN "emitted" ELSE "done"]
    /\ UNCHANGED <<regVars, state, action, ctxDone, detached, proc, verdict,
                   semVars, credVars, cancelVars, stopping>>

release(j) ==
    /\ pc[j] = "emitted"
    /\ GiveSlotBack(j)
    /\ pc' = [pc EXCEPT ![j] = "done"]
    /\ UNCHANGED <<regVars, state, action, ctxDone, detached, proc, verdict,
                   warm, credVars, cancelVars, stopping, emitted>>

-----------------------------------------------------------------------------
\* cancel, under the job's lock: accepted only for a Running or Pending job
\* that is still registered; answers 200.
cancel(j) ==
    /\ Active(j)
    /\ state' = [state EXCEPT ![j] = "cancelled"]
    /\ cancelling' = [cancelling EXCEPT ![j] = TRUE]
    /\ cancelled' = [cancelled EXCEPT ![j] = TRUE]
    /\ UNCHANGED <<regVars, action, pc, ctxDone, detached, proc, verdict,
                   semVars, credVars, stopping, emitted>>

\* Mutant: the CancelFunc is not called.
cancelContext_lost(j) ==
    /\ cancelling[j]
    /\ cancelling' = [cancelling EXCEPT ![j] = FALSE]
    /\ UNCHANGED <<regVars, state, action, pc, ctxDone, detached, proc,
                   verdict, semVars, credVars, cancelled, stopping, emitted>>

\* cancel, after the unlock: the job's CancelFunc.
cancelContext(j) ==
    /\ cancelling[j]
    /\ ctxDone' = [ctxDone EXCEPT ![j] = TRUE]
    /\ cancelling' = [cancelling EXCEPT ![j] = FALSE]
    /\ UNCHANGED <<regVars, state, action, pc, detached, proc, verdict,
                   semVars, credVars, cancelled, stopping, emitted>>

\* main: SIGTERM cancels the root context, and with it every job context
\* that is not detached.
shutdown ==
    /\ ~stopping
    /\ stopping' = TRUE
    /\ ctxDone' = [j \in Jobs |-> ctxDone[j] \/ (pc[j] # "new" /\ ~detached[j])]
    /\ UNCHANGED <<regVars, state, action, pc, detached, proc, verdict,
                   semVars, credVars, cancelVars, emitted>>

\* acquireMaint, called by the list-cache warmer, and its release.
acquireMaint ==
    /\ ~warm
    /\ warm' = TRUE
    /\ IF MaxConcurrentMaint > 0
       THEN /\ HasRoom("maint")
            /\ sem' = [sem EXCEPT !["maint"] = @ + 1]
       ELSE UNCHANGED sem
    /\ UNCHANGED <<regVars, jobVars, slot, credVars, cancelVars, stopping,
                   emitted>>

releaseMaint ==
    /\ warm
    /\ warm' = FALSE
    /\ IF MaxConcurrentMaint > 0
       THEN sem' = [sem EXCEPT !["maint"] = @ - 1]
       ELSE UNCHANGED sem
    /\ UNCHANGED <<regVars, jobVars, slot, credVars, cancelVars, stopping,
                   emitted>>

-----------------------------------------------------------------------------
\* The steps of the goroutine that owns job j.
Goroutine(j) ==
    \/ acquireSlot(j) \/ finalizeUnstarted(j)
    \/ pipeFails(j) \/ startFails(j) \/ publishStartFailure(j)
    \/ startSucceeds(j) \/ publishRunning(j)
    \/ waitReturns(j) \/ runCleanup(j)
    \/ markTerminated(j) \/ emitTerminal(j) \/ release(j)

Child(j) ==
    \/ \E status \in {"exit0", "exitErr"} : procExits(j, status)
    \/ procKilled(j)

Next ==
    \/ \E j \in Jobs :
          \/ \E a \in Actions, d \in BOOLEAN : start(j, a, d)
          \/ Goroutine(j)
          \/ Child(j)
          \/ cancel(j)
          \/ cancelContext(j)
    \/ shutdown
    \/ acquireMaint
    \/ releaseMaint

Spec == Init /\ [][Next]_vars

(***************************************************************************)
(* Fairness.  The Go scheduler runs every runnable goroutine, and os/exec  *)
(* kills the child of a context that is done.  Senders blocked on a        *)
(* channel are queued first in, first out, so a slot that is given back    *)
(* again and again is not withheld from one of them for ever (SF).  Nobody *)
(* has to send a request, and the agent need not shut down.                *)
(***************************************************************************)
SchedulerFairness ==
    /\ \A j \in Jobs :
          /\ WF_vars(Goroutine(j))
          /\ SF_vars(acquireSlot(j))
          /\ WF_vars(procKilled(j))
          /\ WF_vars(cancelContext(j))

\* A child may run for ever unless it is killed.
FairSpec == Spec /\ SchedulerFairness

\* Every child and every listing of the warmer ends.
ChildrenEnd ==
    /\ \A j \in Jobs : WF_vars(Child(j))
    /\ WF_vars(releaseMaint)

-----------------------------------------------------------------------------
TypeOK ==
    /\ jobs \in SUBSET Jobs
    /\ terminal \in Seq(Jobs)
    /\ state \in [Jobs -> JobState \union {"none"}]
    /\ action \in [Jobs -> Actions \union {"none"}]
    /\ pc \in [Jobs -> PC]
    /\ ctxDone \in [Jobs -> BOOLEAN]
    /\ detached \in [Jobs -> BOOLEAN]
    /\ proc \in [Jobs -> Proc]
    /\ verdict \in [Jobs -> Verdict \union {"none"}]
    /\ sem \in [Pool -> Nat]
    /\ slot \in [Jobs -> BOOLEAN]
    /\ warm \in BOOLEAN
    /\ cleanup \in [Jobs -> BOOLEAN]
    /\ cleaned \in [Jobs -> Nat]
    /\ cancelling \in [Jobs -> BOOLEAN]
    /\ cancelled \in [Jobs -> BOOLEAN]
    /\ stopping \in BOOLEAN
    /\ emitted \in [Jobs -> Seq(Event)]

\* The jobs of a pool with a child process, and the jobs that owe it a token.
Running(p) == {j \in Jobs : semFor(action[j]) = p /\ proc[j] = "alive"}
Holders(p) == {j \in Jobs : semFor(action[j]) = p /\ slot[j]}
Warming(p) == IF p = "maint" /\ warm /\ MaxConcurrentMaint > 0 THEN 1 ELSE 0

(***************************************************************************)
(* The per-host cap (copySem, maintSem): at no moment are more children of *)
(* a gated pool alive than the cap, the warmer's listing included, also    *)
(* while cancelled jobs are dying and failed starts unwind.                *)
(***************************************************************************)
ChildrenWithinCap ==
    \A p \in Pool : Capacity(p) > 0 =>
        Cardinality(Running(p)) + Warming(p) <= Capacity(p)

(***************************************************************************)
(* The tokens in a channel are exactly the ones jobs and the warmer still  *)
(* owe: no path of spawn loses a token or gives one back twice.            *)
(***************************************************************************)
TokensAccounted ==
    \A p \in Pool : sem[p] = Cardinality(Holders(p)) + Warming(p)

(***************************************************************************)
(* The cleanup closure unlinks the SSH keys and service-account files the  *)
(* child reads.  It runs at most once, and never while the child may still *)
(* need them: the child is gone, or was never started and never will be.   *)
(***************************************************************************)
CredentialsOutliveChild ==
    \A j \in Jobs :
        /\ cleaned[j] <= 1
        /\ cleaned[j] = 1 => /\ proc[j] # "alive"
                             /\ pc[j] \notin {"queued", "spawn", "started"}

(***************************************************************************)
(* What the after-wave chain relies on: a child that nobody asked to       *)
(* cancel is counted by countActive as long as it lives, also before its   *)
(* State says Running, and is never dropped from the registry.             *)
(***************************************************************************)
LiveChildIsCounted ==
    \A j \in Jobs : proc[j] = "alive" /\ ~cancelled[j] => Active(j)

(***************************************************************************)
(* One verdict: a job emits at most one terminal event, after "started" if *)
(* it ever ran, and from then on its State is and stays what the event     *)
(* said, whatever cancel requests arrive.                                  *)
(***************************************************************************)
OneVerdict ==
    \A j \in Jobs :
        /\ \A i \in 1..Len(emitted[j]) :
              emitted[j][i] \in Verdict =>
                  i = Len(emitted[j]) /\ emitted[j][i] = state[j]
        /\ pc[j] \in {"emitted", "done"} =>
              emitted[j] # <<>> /\ emitted[j][Len(emitted[j])] = state[j]

(***************************************************************************)
(* The life of a job as JobLife tells it.  A job whose pipes failed is     *)
(* still waiting: it is listed as pending, and nothing moves it any more.  *)
(***************************************************************************)
PhaseOf(j) ==
    IF pc[j] = "new" THEN "unborn"
    ELSE IF pc[j] \in {"queued", "spawn", "startFailed", "aborted"} THEN "waiting"
    ELSE IF pc[j] \in {"started", "running"} THEN "spawned"
    ELSE "over"

Life == INSTANCE JobLife WITH
    phase <- [j \in Jobs |-> PhaseOf(j)],
    child <- {j \in Jobs : proc[j] = "alive"},
    unlinked <- cleaned,
    shown <- state,
    news <- emitted

(***************************************************************************)
(* The engine keeps what JobLife promises to the handlers, the events, the *)
(* chain and the credential files: one child at most, credentials from     *)
(* before its start to after its end and unlinked once, one verdict, told  *)
(* once and after the cleanup, and a State that no late cancel changes.    *)
(***************************************************************************)
ImplementsLife == Life!Spec

(***************************************************************************)
(* The ring of recent jobs: no longer than its cap, without duplicates, of *)
(* registered jobs; a job that has left the registry was wound up before.  *)
(***************************************************************************)
RingSound ==
    /\ Len(terminal) <= RecentJobsRetained
    /\ \A i, k \in 1..Len(terminal) : terminal[i] = terminal[k] => i = k
    /\ \A i \in 1..Len(terminal) : terminal[i] \in jobs
    /\ \A j \in Jobs : j \notin jobs =>
          pc[j] \in {"new", "marked", "emitted", "done"}

(***************************************************************************)
(* If children end, a job that waits for a slot is wound up in the end: no *)
(* path of spawn keeps a token, so the queue behind the semaphore always   *)
(* moves.                                                                  *)
(***************************************************************************)
QueueMoves ==
    ChildrenEnd =>
        \A j \in Jobs : pc[j] = "queued" ~> pc[j] \in {"done", "aborted"}

(***************************************************************************)
(* An accepted cancel ends the job although no child ever exits by itself, *)
(* also when the job is queued behind one that runs for ever: in the end   *)
(* the job is over and has no child.                                       *)
(***************************************************************************)
CancelTakesEffect ==
    \A j \in Jobs :
        cancelled[j] ~> /\ pc[j] \in {"done", "aborted"}
                        /\ proc[j] # "alive"
                        /\ ~cancelling[j]

(***************************************************************************)
(* jobs.go:1040: cancel sets State first "so the terminal-handler          *)
(* preserves JobCancelled instead of overwriting with JobFailed": a job    *)
(* whose cancel was accepted and whose child was started does not fail.    *)
(***************************************************************************)
CancelledNeverFails ==
    \A j \in Jobs : cancelled[j] /\ proc[j] # "none" => verdict[j] # "failed"

(***************************************************************************)
(* jobs.go:712: cleanup "is invoked exactly once"; README.md: the cleanup  *)
(* closure unlinks the temp files "including on the never-started path".   *)
(***************************************************************************)
OverMeansCleaned ==
    \A j \in Jobs : pc[j] \in {"done", "aborted"} => cleaned[j] = 1
=============================================================================
