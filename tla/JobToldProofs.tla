---------------------------- MODULE JobToldProofs ----------------------------
(***************************************************************************)
(* Proofs about EventPath and JobLog, of which MCJobTold consists.         *)
(*                                                                         *)
(* EventPath: for any jobs and any number of crashes and of failing        *)
(* statements.                                                             *)
(*                                                                         *)
(* JobLog: for any pipes and clients, any number of lines and any sizes of *)
(* the ring and of the channels.                                           *)
(***************************************************************************)
EXTENDS MCJobTold, SequenceTheorems, TLAPS

-----------------------------------------------------------------------------
(* EventPath: the events of jobs and the jobs table.                       *)

\* Jobs of this process.
Ours(j) == mem[j] \notin {"none", "gone"}

\* Jobs of this process that have not failed.
Living(j) == mem[j] \in {"running", "completed", "cancelled"}

\* Jobs belong to a process that listens, and it listens after the sweep.
BootInv ==
    /\ \A j \in Jobs : Ours(j) => listening
    /\ listening => sweep = "done"
    /\ \A j \in Jobs : phase[j] # "open" => mem[j] \in Verdict

\* Hooks belong to a job of this process; those of a terminal event run after
\* the verdict, which is final, and so have it in their copy.
HookInv ==
    \A j \in Jobs : \A e \in JobEvent :
        /\ hook[j][e] # "idle" => Ours(j)
        /\ hook[j][e] # "idle" /\ e \in Verdict => phase[j] = "told" /\ mem[j] = e
        /\ hook[j][e] \in {"snapped", "upserted"} =>
              /\ snap[j][e] # "none"
              /\ e \in Verdict => snap[j][e] = e
              /\ Living(j) => snap[j][e] # "failed"

\* Nobody has heard of a job that has not started.
FreshInv ==
    \A j \in Jobs : mem[j] = "none" =>
        /\ db[j] = "none" /\ ctl[j] = "none" /\ report[j] = "none"
        /\ \A m \in outbox : m.job # j

\* The sweep speaks for jobs of an earlier process.
SweepInv == \A j \in toSweep : mem[j] = "gone"

\* Once the sweep has marked the rows, the running ones are ours.
RowsInv ==
    sweep # "todo" /\ errors = 0 => \A j \in Jobs : db[j] = "running" => Ours(j)

\* A living job is not said to have failed, nor about to be.
LivingInv ==
    \A j \in Jobs : Living(j) =>
        /\ db[j] \notin {"orphan", "failed"}
        /\ ctl[j] # "failed"
        /\ report[j] # "failed"
        /\ \A m \in outbox : m.job = j => m.state # "failed"

\* The inductive invariant.
PathInv ==
    /\ TypeOK
    /\ BootInv
    /\ HookInv
    /\ FreshInv
    /\ SweepInv
    /\ RowsInv
    /\ LivingInv
    /\ EventsTellState

\* The initial states have it.
LEMMA PathInvInit == Init => PathInv
<1> USE DEF Verdict, JobEvent, Row, Message, Ours, Living
<1> SUFFICES ASSUME Init
             PROVE  PathInv
    OBVIOUS
<1>1. hook \in [Jobs -> [JobEvent ->
                   {"idle", "spawned", "snapped", "upserted", "done"}]]
  BY DEF Init
<1>2. snap \in [Jobs -> [JobEvent -> {"none", "running"} \union Verdict]]
  BY DEF Init
<1>3. crashes \in 0..MaxCrashes /\ errors \in 0..MaxErrors
  BY EventBounds DEF Init
<1>4. TypeOK
  BY <1>1, <1>2, <1>3 DEF Init, TypeOK
<1>5. BootInv /\ HookInv /\ FreshInv /\ SweepInv /\ RowsInv
  BY DEF Init, BootInv, HookInv, FreshInv, SweepInv, RowsInv
<1>6. LivingInv /\ EventsTellState
  BY DEF Init, LivingInv, EventsTellState
<1> QED
  BY <1>4, <1>5, <1>6 DEF PathInv

\* Every step keeps it.
LEMMA PathInvNext == PathInv /\ [Next]_vars => PathInv'
<1> USE EventBounds
    DEF Verdict, JobEvent, Row, Message, Ours, Living, jobVars, hookVars,
        sweepVars, postVars, countVars
<1> SUFFICES ASSUME PathInv, [Next]_vars
             PROVE  PathInv'
    OBVIOUS
<1>0. /\ TypeOK /\ BootInv /\ HookInv /\ FreshInv /\ SweepInv /\ RowsInv
      /\ LivingInv /\ EventsTellState
  BY DEF PathInv
<1>1. ASSUME NEW j \in Jobs, started(j)
      PROVE  PathInv'
  <2>1. TypeOK'
    BY <1>0, <1>1 DEF TypeOK, HookInv, SweepInv, started, emit, SpawnState
  <2>2. BootInv'
    BY <1>0, <1>1 DEF TypeOK, BootInv, started, emit, SpawnState
  <2>3. HookInv'
    BY <1>0, <1>1 DEF TypeOK, BootInv, HookInv, started, emit, SpawnState
  <2>4. FreshInv'
    BY <1>0, <1>1 DEF TypeOK, BootInv, HookInv, FreshInv, SweepInv, started,
         emit, SpawnState
  <2>5. SweepInv'
    BY <1>0, <1>1 DEF TypeOK, BootInv, FreshInv, HookInv, SweepInv, started,
         emit, SpawnState
  <2>6. RowsInv'
    BY <1>0, <1>1 DEF TypeOK, BootInv, HookInv, RowsInv, started, emit,
         SpawnState
  <2>7. LivingInv'
    BY <1>0, <1>1 DEF TypeOK, BootInv, HookInv, FreshInv, SweepInv, LivingInv,
         started, emit, SpawnState
  <2>8. EventsTellState'
    BY <1>0, <1>1 DEF EventsTellState, started, emit, SpawnState
  <2> QED
    BY <2>1, <2>2, <2>3, <2>4, <2>5, <2>6, <2>7, <2>8 DEF PathInv
<1>2. ASSUME NEW j \in Jobs, cancel(j)
      PROVE  PathInv'
  <2>1. TypeOK'
    BY <1>0, <1>2 DEF TypeOK, HookInv, SweepInv, cancel
  <2>2. BootInv'
    BY <1>0, <1>2 DEF TypeOK, BootInv, cancel
  <2>3. HookInv'
    BY <1>0, <1>2 DEF TypeOK, BootInv, HookInv, cancel
  <2>4. FreshInv'
    BY <1>0, <1>2 DEF TypeOK, BootInv, HookInv, FreshInv, SweepInv, cancel
  <2>5. SweepInv'
    BY <1>0, <1>2 DEF TypeOK, BootInv, FreshInv, HookInv, SweepInv, cancel
  <2>6. RowsInv'
    BY <1>0, <1>2 DEF TypeOK, BootInv, HookInv, RowsInv, cancel
  <2>7. LivingInv'
    BY <1>0, <1>2 DEF TypeOK, BootInv, HookInv, FreshInv, SweepInv, LivingInv,
         cancel
  <2>8. EventsTellState'
    BY <1>0, <1>2 DEF EventsTellState, cancel
  <2> QED
    BY <2>1, <2>2, <2>3, <2>4, <2>5, <2>6, <2>7, <2>8 DEF PathInv
<1>3. ASSUME NEW j \in Jobs, NEW v \in Verdict, publishVerdict(j, v)
      PROVE  PathInv'
  <2>1. TypeOK'
    BY <1>0, <1>3 DEF TypeOK, HookInv, SweepInv, publishVerdict
  <2>2. BootInv'
    BY <1>0, <1>3 DEF TypeOK, BootInv, publishVerdict
  <2>3. HookInv'
    BY <1>0, <1>3 DEF TypeOK, BootInv, HookInv, publishVerdict
  <2>4. FreshInv'
    BY <1>0, <1>3 DEF TypeOK, BootInv, HookInv, FreshInv, SweepInv,
         publishVerdict
  <2>5. SweepInv'
    BY <1>0, <1>3 DEF TypeOK, BootInv, FreshInv, HookInv, SweepInv,
         publishVerdict
  <2>6. RowsInv'
    BY <1>0, <1>3 DEF TypeOK, BootInv, HookInv, RowsInv, publishVerdict
  <2>7. LivingInv'
    BY <1>0, <1>3 DEF TypeOK, BootInv, HookInv, FreshInv, SweepInv, LivingInv,
         publishVerdict
  <2>8. EventsTellState'
    BY <1>0, <1>3 DEF EventsTellState, publishVerdict
  <2> QED
    BY <2>1, <2>2, <2>3, <2>4, <2>5, <2>6, <2>7, <2>8 DEF PathInv
<1>4. ASSUME NEW j \in Jobs, emitTerminal(j)
      PROVE  PathInv'
  <2>1. TypeOK'
    BY <1>0, <1>4 DEF TypeOK, HookInv, SweepInv, emitTerminal, emit, EventOf
  <2>2. BootInv'
    BY <1>0, <1>4 DEF TypeOK, BootInv, emitTerminal, emit, EventOf
  <2>3. HookInv'
    BY <1>0, <1>4 DEF TypeOK, BootInv, HookInv, emitTerminal, emit, EventOf
  <2>4. FreshInv' /\ SweepInv' /\ RowsInv' /\ LivingInv' /\
       EventsTellState'
    BY <1>0, <1>4 DEF FreshInv, SweepInv, RowsInv, LivingInv, EventsTellState,
         emitTerminal, emit, EventOf
  <2> QED
    BY <2>1, <2>2, <2>3, <2>4 DEF PathInv
<1>5. ASSUME NEW j \in Jobs, NEW e \in JobEvent, snapshot(j, e)
      PROVE  PathInv'
  <2>1. TypeOK'
    BY <1>0, <1>5 DEF TypeOK, HookInv, SweepInv, snapshot
  <2>2. HookInv'
    BY <1>0, <1>5 DEF TypeOK, BootInv, HookInv, snapshot
  <2>3. BootInv' /\ FreshInv' /\ SweepInv' /\ RowsInv' /\ LivingInv' /\
       EventsTellState'
    BY <1>0, <1>5 DEF BootInv, FreshInv, SweepInv, RowsInv, LivingInv,
         EventsTellState, snapshot
  <2> QED
    BY <2>1, <2>2, <2>3 DEF PathInv
<1>6. ASSUME NEW j \in Jobs, NEW e \in JobEvent, upsertJob(j, e)
      PROVE  PathInv'
  <2>1. TypeOK'
    <3>1. errors' \in 0..MaxErrors
      BY <1>0, <1>6 DEF TypeOK, upsertJob, sqliteFails
    <3>2. db' \in [Jobs -> Row]
      BY <1>0, <1>6 DEF TypeOK, upsertJob
    <3> QED
      BY <1>0, <1>6, <3>1, <3>2 DEF TypeOK, upsertJob
  <2>2. HookInv'
    BY <1>0, <1>6 DEF TypeOK, BootInv, HookInv, upsertJob, sqliteFails
  <2>3. FreshInv'
    BY <1>0, <1>6 DEF TypeOK, BootInv, HookInv, FreshInv, SweepInv, upsertJob,
         sqliteFails
  <2>4. RowsInv'
    BY <1>0, <1>6 DEF TypeOK, BootInv, HookInv, RowsInv, upsertJob,
         sqliteFails
  <2>5. LivingInv'
    BY SMTT(20), <1>0, <1>6 DEF TypeOK, BootInv, HookInv, FreshInv, SweepInv, LivingInv,
         upsertJob, sqliteFails
  <2>6. BootInv' /\ SweepInv' /\ EventsTellState'
    BY <1>0, <1>6 DEF BootInv, SweepInv, EventsTellState, upsertJob,
         sqliteFails
  <2> QED
    BY <2>1, <2>2, <2>3, <2>4, <2>5, <2>6 DEF PathInv
<1>7. ASSUME NEW j \in Jobs, NEW e \in JobEvent, enqueueEvent(j, e)
      PROVE  PathInv'
  <2>1. TypeOK'
    BY <1>0, <1>7 DEF TypeOK, HookInv, SweepInv, enqueueEvent, enqueue
  <2>2. HookInv'
    BY <1>0, <1>7 DEF TypeOK, BootInv, HookInv, enqueueEvent, enqueue
  <2>3. FreshInv'
    BY <1>0, <1>7 DEF TypeOK, BootInv, HookInv, FreshInv, SweepInv,
         enqueueEvent, enqueue
  <2>4. LivingInv'
    BY <1>0, <1>7 DEF TypeOK, BootInv, HookInv, FreshInv, SweepInv, LivingInv,
         enqueueEvent, enqueue
  <2>5. EventsTellState'
    BY <1>0, <1>7 DEF TypeOK, HookInv, EventsTellState, enqueueEvent, enqueue
  <2>6. BootInv' /\ SweepInv' /\ RowsInv'
    BY <1>0, <1>7 DEF BootInv, SweepInv, RowsInv, enqueueEvent, enqueue
  <2> QED
    BY <2>1, <2>2, <2>3, <2>4, <2>5, <2>6 DEF PathInv
<1>8. ASSUME crash
      PROVE  PathInv'
  <2>1. TypeOK'
    <3>1. crashes' \in 0..MaxCrashes
      BY <1>0, <1>8 DEF TypeOK, crash
    <3>2. mem' \in [Jobs -> {"none", "running", "gone"} \union Verdict]
      BY <1>8 DEF crash
    <3>3. hook' \in [Jobs -> [JobEvent ->
                       {"idle", "spawned", "snapped", "upserted", "done"}]]
      BY <1>8 DEF crash
    <3>4. snap' \in [Jobs -> [JobEvent -> {"none", "running"} \union Verdict]]
      BY <1>8 DEF crash
    <3> QED
      BY <1>0, <1>8, <3>1, <3>2, <3>3, <3>4 DEF TypeOK, crash
  <2>2. BootInv'
    BY <1>0, <1>8 DEF TypeOK, BootInv, crash
  <2>3. HookInv'
    BY <1>0, <1>8 DEF TypeOK, BootInv, HookInv, crash
  <2>4. FreshInv'
    BY <1>0, <1>8 DEF TypeOK, BootInv, HookInv, FreshInv, SweepInv, crash
  <2>5. SweepInv'
    BY <1>0, <1>8 DEF TypeOK, BootInv, FreshInv, HookInv, SweepInv, crash
  <2>6. RowsInv'
    BY <1>0, <1>8 DEF TypeOK, BootInv, HookInv, RowsInv, crash
  <2>7. LivingInv'
    BY <1>0, <1>8 DEF TypeOK, BootInv, HookInv, FreshInv, SweepInv, LivingInv,
         crash
  <2>8. EventsTellState'
    BY <1>0, <1>8 DEF EventsTellState, crash
  <2> QED
    BY <2>1, <2>2, <2>3, <2>4, <2>5, <2>6, <2>7, <2>8 DEF PathInv
<1>9. ASSUME sweepMark
      PROVE  PathInv'
  <2>1. TypeOK'
    BY <1>0, <1>9 DEF TypeOK, HookInv, SweepInv, sweepMark, sqliteFails,
         NonTerminal
  <2>2. BootInv'
    BY <1>0, <1>9 DEF TypeOK, BootInv, sweepMark, sqliteFails, NonTerminal
  <2>3. FreshInv'
    BY <1>0, <1>9 DEF TypeOK, BootInv, HookInv, FreshInv, SweepInv, sweepMark,
         sqliteFails, NonTerminal
  <2>4. SweepInv'
    BY <1>0, <1>9 DEF TypeOK, BootInv, FreshInv, HookInv, SweepInv, sweepMark,
         sqliteFails, NonTerminal
  <2>5. RowsInv'
    BY <1>0, <1>9 DEF TypeOK, BootInv, HookInv, RowsInv, sweepMark,
         sqliteFails, NonTerminal
  <2>6. LivingInv'
    BY <1>0, <1>9 DEF TypeOK, BootInv, HookInv, FreshInv, SweepInv, LivingInv,
         sweepMark, sqliteFails, NonTerminal
  <2>7. HookInv' /\ EventsTellState'
    BY <1>0, <1>9 DEF HookInv, EventsTellState, sweepMark, sqliteFails,
         NonTerminal
  <2> QED
    BY <2>1, <2>2, <2>3, <2>4, <2>5, <2>6, <2>7 DEF PathInv
<1>10. ASSUME NEW j \in Jobs, sweepEnqueue(j)
      PROVE  PathInv'
  <2>1. TypeOK'
    BY <1>0, <1>10 DEF TypeOK, HookInv, SweepInv, sweepEnqueue, enqueue,
         sqliteFails
  <2>2. FreshInv'
    BY <1>0, <1>10 DEF TypeOK, BootInv, HookInv, FreshInv, SweepInv,
         sweepEnqueue, enqueue, sqliteFails
  <2>3. SweepInv'
    BY <1>0, <1>10 DEF TypeOK, BootInv, FreshInv, HookInv, SweepInv,
         sweepEnqueue, enqueue, sqliteFails
  <2>4. RowsInv'
    BY <1>0, <1>10 DEF TypeOK, BootInv, HookInv, RowsInv, sweepEnqueue,
         enqueue, sqliteFails
  <2>5. LivingInv'
    BY <1>0, <1>10 DEF TypeOK, BootInv, HookInv, FreshInv, SweepInv,
         LivingInv, sweepEnqueue, enqueue, sqliteFails
  <2>6. EventsTellState'
    BY <1>0, <1>10 DEF TypeOK, HookInv, EventsTellState, sweepEnqueue,
         enqueue, sqliteFails
  <2>7. BootInv' /\ HookInv'
    BY <1>0, <1>10 DEF BootInv, HookInv, sweepEnqueue, enqueue, sqliteFails
  <2> QED
    BY <2>1, <2>2, <2>3, <2>4, <2>5, <2>6, <2>7 DEF PathInv
<1>11. ASSUME sweepReturns
      PROVE  PathInv'
  <2>1. TypeOK'
    BY <1>0, <1>11 DEF TypeOK, HookInv, SweepInv, sweepReturns
  <2>2. BootInv'
    BY <1>0, <1>11 DEF TypeOK, BootInv, sweepReturns
  <2>3. RowsInv'
    BY <1>0, <1>11 DEF TypeOK, BootInv, HookInv, RowsInv, sweepReturns
  <2>4. HookInv' /\ FreshInv' /\ SweepInv' /\ LivingInv' /\
       EventsTellState'
    BY <1>0, <1>11 DEF HookInv, FreshInv, SweepInv, LivingInv,
         EventsTellState, sweepReturns
  <2> QED
    BY <2>1, <2>2, <2>3, <2>4 DEF PathInv
<1>12. ASSUME listen
      PROVE  PathInv'
  <2>1. TypeOK'
    BY <1>0, <1>12 DEF TypeOK, HookInv, SweepInv, listen
  <2>2. BootInv'
    BY <1>0, <1>12 DEF TypeOK, BootInv, listen
  <2>3. HookInv' /\ FreshInv' /\ SweepInv' /\ RowsInv' /\ LivingInv' /\
       EventsTellState'
    BY <1>0, <1>12 DEF HookInv, FreshInv, SweepInv, RowsInv, LivingInv,
         EventsTellState, listen
  <2> QED
    BY <2>1, <2>2, <2>3 DEF PathInv
<1>13. ASSUME NEW m \in outbox, NEW a \in BOOLEAN, deliver(m, a)
      PROVE  PathInv'
  <2>1. TypeOK'
    BY <1>0, <1>13 DEF TypeOK, HookInv, SweepInv, deliver
  <2>2. FreshInv'
    BY <1>0, <1>13 DEF TypeOK, BootInv, HookInv, FreshInv, SweepInv, deliver
  <2>3. LivingInv'
    BY <1>0, <1>13 DEF TypeOK, BootInv, HookInv, FreshInv, SweepInv,
         LivingInv, deliver
  <2>4. BootInv' /\ HookInv' /\ SweepInv' /\ RowsInv' /\ EventsTellState'
    BY <1>0, <1>13 DEF BootInv, HookInv, SweepInv, RowsInv, EventsTellState,
         deliver
  <2> QED
    BY <2>1, <2>2, <2>3, <2>4 DEF PathInv
<1>14. ASSUME reconcileSnapshot
      PROVE  PathInv'
  <2>1. TypeOK'
    BY <1>0, <1>14 DEF TypeOK, HookInv, SweepInv, reconcileSnapshot, Reported,
         NonTerminal
  <2>2. FreshInv'
    BY <1>0, <1>14 DEF TypeOK, BootInv, HookInv, FreshInv, SweepInv,
         reconcileSnapshot, Reported, NonTerminal
  <2>3. LivingInv'
    BY <1>0, <1>14 DEF TypeOK, BootInv, HookInv, FreshInv, SweepInv,
         LivingInv, reconcileSnapshot, Reported, NonTerminal
  <2>4. BootInv' /\ HookInv' /\ SweepInv' /\ RowsInv' /\ EventsTellState'
    BY <1>0, <1>14 DEF BootInv, HookInv, SweepInv, RowsInv, EventsTellState,
         reconcileSnapshot, Reported, NonTerminal
  <2> QED
    BY <2>1, <2>2, <2>3, <2>4 DEF PathInv
<1>15. ASSUME NEW a \in BOOLEAN, reconcilePost(a)
      PROVE  PathInv'
  <2>1. TypeOK'
    BY <1>0, <1>15 DEF TypeOK, HookInv, SweepInv, reconcilePost
  <2>2. FreshInv'
    BY <1>0, <1>15 DEF TypeOK, BootInv, HookInv, FreshInv, SweepInv,
         reconcilePost
  <2>3. LivingInv'
    BY <1>0, <1>15 DEF TypeOK, BootInv, HookInv, FreshInv, SweepInv,
         LivingInv, reconcilePost
  <2>4. BootInv' /\ HookInv' /\ SweepInv' /\ RowsInv' /\ EventsTellState'
    BY <1>0, <1>15 DEF BootInv, HookInv, SweepInv, RowsInv, EventsTellState,
         reconcilePost
  <2> QED
    BY <2>1, <2>2, <2>3, <2>4 DEF PathInv
<1>16. ASSUME UNCHANGED vars
      PROVE  PathInv'
  BY <1>0, <1>16 DEF PathInv, TypeOK, BootInv, HookInv, FreshInv, SweepInv,
       RowsInv, LivingInv, EventsTellState, vars
<1> QED
  BY <1>1, <1>2, <1>3, <1>4, <1>5, <1>6, <1>7, <1>8, <1>9, <1>10,
     <1>11, <1>12, <1>13, <1>14, <1>15, <1>16
     DEF Next, Boot, HookStep

\* The variables keep their types.
THEOREM PathTypes == Spec => []TypeOK
<1>1. PathInv => TypeOK
  BY DEF PathInv
<1> QED
  BY <1>1, PathInvInit, PathInvNext, PTL DEF Spec

\* After the boot sweep a running row is a job of this process.
THEOREM RunningRowsOurs == Spec => []RunningRowsAreOurs
<1>1. PathInv => RunningRowsAreOurs
  BY DEF PathInv, BootInv, RowsInv, Ours, RunningRowsAreOurs
<1> QED
  BY <1>1, PathInvInit, PathInvNext, PTL DEF Spec

\* No job of this process is declared failed while it is alive or after it
\* ended otherwise.
THEOREM LivingSpared == Spec => []LivingNotDeclaredFailed
<1>1. PathInv => LivingNotDeclaredFailed
  BY DEF PathInv, LivingInv, Living, LivingNotDeclaredFailed
<1> QED
  BY <1>1, PathInvInit, PathInvNext, PTL DEF Spec

\* Terminal events carry the state they announce.
THEOREM TerminalEventsTrue == Spec => []EventsTellState
<1>1. PathInv => EventsTellState
  BY DEF PathInv
<1> QED
  BY <1>1, PathInvInit, PathInvNext, PTL DEF Spec

-----------------------------------------------------------------------------
(* JobLog: the lines of a job.                                             *)

\* The lines of a sequence are written; those of one pipe come in the order
\* in which they were.  f is the pipe of each line.
Written(f, q) == \A i \in 1..Len(q) : q[i] \in 1..Len(f)
Rising(f, q) == \A i, k \in 1..Len(q) : i < k /\ f[q[i]] = f[q[k]] => q[i] < q[k]

\* Of each pipe, the lines of q come before those of r; the lines of pipe s in
\* q come before line n.
Before(f, q, r) == \A i \in 1..Len(q), k \in 1..Len(r) : f[q[i]] = f[r[k]] => q[i] < r[k]
Below(f, q, s, n) == \A i \in 1..Len(q) : f[q[i]] = s => q[i] < n

\* What is in a pipe was written to it and comes after the line in hand.
PipeInv ==
    \A s \in Source :
        /\ Written(src, pipe[s]) /\ Rising(src, pipe[s])
        /\ \A i \in 1..Len(pipe[s]) : src[pipe[s][i]] = s /\ line[s] < pipe[s][i]
        /\ line[s] # 0 => line[s] \in 1..Len(src) /\ src[line[s]] = s

\* What is in the ring comes before what is still in the pipes.
RingInv ==
    /\ Written(src, ring) /\ Rising(src, ring)
    /\ \A s \in Source : \A i \in 1..Len(pipe[s]) : Below(src, ring, s, pipe[s][i])

\* So does what a client was sent, and what waits for it, in this order.
StreamInv ==
    \A c \in Client :
        /\ Written(src, seen[c]) /\ Written(src, chan[c])
        /\ Rising(src, seen[c]) /\ Rising(src, chan[c]) /\ Before(src, seen[c], chan[c])
        /\ \A s \in Source : \A i \in 1..Len(pipe[s]) :
              Below(src, seen[c], s, pipe[s][i]) /\ Below(src, chan[c], s, pipe[s][i])

\* A tail sends the line in hand to clients that have no later one of its pipe.
SendInv ==
    \A s \in Source :
        /\ \A c \in pending[s] :
              /\ line[s] # 0 /\ ws[c] # "idle"
              /\ Below(src, seen[c], s, line[s]) /\ Below(src, chan[c], s, line[s])
        /\ draining[s] \subseteq pending[s] /\ retry[s] \subseteq pending[s]
        /\ draining[s] = {} \/ retry[s] = {}

\* Nothing waits for a client that has not subscribed.
IdleInv ==
    \A c \in Client : ws[c] = "idle" => seen[c] = <<>> /\ chan[c] = <<>> /\ c \notin subs

\* Every line of the ring was sent, waits, is owed or was dropped.
Has(q, n) == \E k \in 1..Len(q) : q[k] = n
Explained(c, n) ==
    \/ Has(seen[c], n) \/ Has(chan[c], n)
    \/ \E s \in Source : c \in pending[s] /\ line[s] = n
    \/ n \in dropped[c]
GapInv == \A c \in subs : \A i \in 1..Len(ring) : Explained(c, ring[i])

\* The inductive invariant of the log.
LogInv ==
    /\ Log!TypeOK
    /\ PipeInv /\ RingInv /\ StreamInv /\ SendInv /\ IdleInv /\ GapInv

-----------------------------------------------------------------------------
(* Lemmas about sequences of lines.                                        *)

\* r is a contiguous part of q.
Part(r, q) ==
    \E d \in Nat : Len(r) + d <= Len(q) /\ \A i \in 1..Len(r) : r[i] = q[i + d]

\* A part keeps the order.
LEMMA PartKeeps ==
    ASSUME NEW S \in SUBSET Nat, NEW q \in Seq(S), NEW r \in Seq(S), Part(r, q), NEW f
    PROVE  /\ Written(f, q) => Written(f, r)
           /\ Rising(f, q) => Rising(f, r)
           /\ \A s, n : Below(f, q, s, n) => Below(f, r, s, n)
           /\ \A p \in Seq(S) : Before(f, p, q) => Before(f, p, r)
           /\ \A n : Has(r, n) => Has(q, n)
  <1>1. PICK d \in Nat : Len(r) + d <= Len(q) /\ \A i \in 1..Len(r) : r[i] = q[i + d]
    BY DEF Part
  <1>2. Len(r) \in Nat /\ Len(q) \in Nat
    OBVIOUS
  <1>3. \A i \in 1..Len(r) : i + d \in 1..Len(q) /\ r[i] = q[i + d]
    BY <1>1, <1>2
  <1>4. Written(f, q) => Written(f, r)
    BY <1>3 DEF Written
  <1>5. ASSUME Rising(f, q) PROVE Rising(f, r)
    <2> SUFFICES ASSUME NEW i \in 1..Len(r), NEW k \in 1..Len(r), i < k, f[r[i]] = f[r[k]]
                 PROVE  r[i] < r[k]
      BY DEF Rising
    <2>1. i + d < k + d /\ i + d \in 1..Len(q) /\ k + d \in 1..Len(q)
      BY <1>2, <1>3
    <2>2. r[i] = q[i + d] /\ r[k] = q[k + d]
      BY <1>3
    <2> QED BY <1>5, <2>1, <2>2 DEF Rising
  <1>6. \A s, n : Below(f, q, s, n) => Below(f, r, s, n)
    BY <1>3 DEF Below
  <1>7. \A p \in Seq(S) : Before(f, p, q) => Before(f, p, r)
    BY <1>3 DEF Before
  <1>8. \A n : Has(r, n) => Has(q, n)
    BY <1>3 DEF Has
  <1> QED BY <1>4, <1>5, <1>6, <1>7, <1>8

\* The tail of a sequence, a beginning of it, and its last elements are parts.
LEMMA Parts ==
    ASSUME NEW S, NEW q \in Seq(S)
    PROVE  /\ q # <<>> => Tail(q) \in Seq(S) /\ Part(Tail(q), q)
           /\ \A n \in 0..Len(q) : SubSeq(q, 1, n) \in Seq(S) /\ Part(SubSeq(q, 1, n), q)
           /\ \A n \in Nat : /\ Log!LastN(q, n) \in Seq(S) /\ Part(Log!LastN(q, n), q)
                             /\ Len(Log!LastN(q, n)) <= n
  <1>1. Len(q) \in Nat
    OBVIOUS
  <1>2. ASSUME q # <<>> PROVE Tail(q) \in Seq(S) /\ Part(Tail(q), q)
    <2>1. /\ Tail(q) \in Seq(S) /\ Len(Tail(q)) = Len(q) - 1
          /\ \A i \in 1..Len(Tail(q)) : Tail(q)[i] = q[i + 1]
      BY <1>2, HeadTailProperties
    <2>2. 1 \in Nat /\ Len(Tail(q)) + 1 <= Len(q)
      BY <1>1, <2>1
    <2> QED BY <2>1, <2>2 DEF Part
  <1>3. ASSUME NEW n \in 0..Len(q) PROVE SubSeq(q, 1, n) \in Seq(S) /\ Part(SubSeq(q, 1, n), q)
    <2>1. \A i \in 1..n : q[i] \in S
      BY <1>1
    <2>2. /\ SubSeq(q, 1, n) \in Seq(S) /\ Len(SubSeq(q, 1, n)) = n
          /\ \A i \in 1..n : SubSeq(q, 1, n)[i] = q[i]
      BY <1>1, <2>1, SubSeqProperties
    <2>3. 0 \in Nat /\ Len(SubSeq(q, 1, n)) + 0 <= Len(q) /\ \A i \in 1..n : i + 0 = i
      BY <1>1, <2>2
    <2> QED BY <2>2, <2>3 DEF Part
  <1>4. ASSUME NEW n \in Nat
        PROVE  Log!LastN(q, n) \in Seq(S) /\ Part(Log!LastN(q, n), q) /\ Len(Log!LastN(q, n)) <= n
    <2>1. CASE Len(q) > n
      <3> DEFINE a == Len(q) - n + 1
                 r == SubSeq(q, a, Len(q))
      <3>1. a \in 1..Len(q) + 1 /\ Len(q) - a + 1 = n
        BY <1>1, <2>1
      <3>2. \A i \in a..Len(q) : q[i] \in S
        BY <1>1, <3>1
      <3>3. r \in Seq(S) /\ Len(r) = n /\ \A i \in 1..n : r[i] = q[a + i - 1]
        BY <1>1, <2>1, <3>1, <3>2, SubSeqProperties
      <3>4. a - 1 \in Nat /\ n + (a - 1) <= Len(q) /\ \A i \in 1..n : a + i - 1 = i + (a - 1)
        BY <1>1, <2>1
      <3>5. Part(r, q)
        <4> HIDE DEF r, a
        <4> QED BY <3>3, <3>4 DEF Part
      <3> QED BY <2>1, <3>3, <3>5 DEF Log!LastN
    <2>2. CASE ~(Len(q) > n)
      <3>1. 0 \in Nat /\ Len(q) + 0 <= Len(q) /\ \A i \in 1..Len(q) : i + 0 = i
        BY <1>1
      <3>2. Part(q, q)
        BY <3>1 DEF Part
      <3> QED BY <1>1, <2>2, <3>2 DEF Log!LastN
    <2> QED BY <2>1, <2>2
  <1> QED BY <1>2, <1>3, <1>4

\* A line at the end of a sequence, after the lines of its pipe.
LEMMA AppendKeeps ==
    ASSUME NEW S \in SUBSET Nat, NEW q \in Seq(S), NEW n \in S, NEW f
    PROVE  /\ Append(q, n) \in Seq(S) /\ Len(Append(q, n)) = Len(q) + 1
           /\ Written(f, q) /\ n \in 1..Len(f) => Written(f, Append(q, n))
           /\ Rising(f, q) /\ Below(f, q, f[n], n) => Rising(f, Append(q, n))
           /\ \A s, m : Below(f, q, s, m) /\ (f[n] = s => n < m) => Below(f, Append(q, n), s, m)
           /\ \A p \in Seq(S) : Before(f, p, q) /\ Below(f, p, f[n], n) => Before(f, p, Append(q, n))
           /\ \A p \in Seq(S) :
                 Before(f, q, p) /\ (\A k \in 1..Len(p) : f[p[k]] = f[n] => n < p[k])
                    => Before(f, Append(q, n), p)
           /\ \A m : Has(Append(q, n), m) <=> Has(q, m) \/ m = n
  <1> DEFINE r == Append(q, n)
  <1>1. Len(q) \in Nat /\ r \in Seq(S) /\ Len(r) = Len(q) + 1
    OBVIOUS
  <1>2. /\ \A i \in 1..Len(r) : i \in 1..Len(q) \/ i = Len(q) + 1
        /\ \A i \in 1..Len(q) : i \in 1..Len(r) /\ r[i] = q[i] /\ i # Len(q) + 1
        /\ r[Len(q) + 1] = n /\ Len(q) + 1 \in 1..Len(r)
    BY <1>1
  <1> HIDE DEF r
  <1>3. Written(f, q) /\ n \in 1..Len(f) => Written(f, r)
    BY <1>2 DEF Written
  <1>4. ASSUME Rising(f, q), Below(f, q, f[n], n) PROVE Rising(f, r)
    <2> SUFFICES ASSUME NEW i \in 1..Len(r), NEW k \in 1..Len(r), i < k, f[r[i]] = f[r[k]]
                 PROVE  r[i] < r[k]
      BY DEF Rising
    <2>1. i \in 1..Len(q)
      BY <1>1
    <2>2. CASE k \in 1..Len(q)
      BY <1>2, <1>4, <2>1, <2>2 DEF Rising
    <2>3. CASE k = Len(q) + 1
      BY <1>2, <1>4, <2>1, <2>3 DEF Below
    <2> QED BY <1>2, <2>2, <2>3
  <1>5. \A s, m : Below(f, q, s, m) /\ (f[n] = s => n < m) => Below(f, r, s, m)
    BY <1>2 DEF Below
  <1>6. \A p \in Seq(S) : Before(f, p, q) /\ Below(f, p, f[n], n) => Before(f, p, r)
    BY <1>2 DEF Before, Below
  <1>7. \A p \in Seq(S) :
           Before(f, q, p) /\ (\A k \in 1..Len(p) : f[p[k]] = f[n] => n < p[k]) => Before(f, r, p)
    BY <1>2 DEF Before
  <1>8. \A m : Has(r, m) <=> Has(q, m) \/ m = n
    BY <1>2 DEF Has
  <1> QED BY <1>1, <1>3, <1>4, <1>5, <1>6, <1>7, <1>8 DEF r

\* The first element of a sequence comes before the others.
LEMMA HeadFirst ==
    ASSUME NEW S \in SUBSET Nat, NEW q \in Seq(S), q # <<>>, NEW f
    PROVE  /\ Head(q) \in S
           /\ Written(f, q) => Head(q) \in 1..Len(f)
           /\ Rising(f, q) => \A k \in 1..Len(Tail(q)) :
                                 f[Tail(q)[k]] = f[Head(q)] => Head(q) < Tail(q)[k]
           /\ \A s, n : Below(f, q, s, n) /\ f[Head(q)] = s => Head(q) < n
           /\ \A p \in Seq(S) : Before(f, p, q) => Below(f, p, f[Head(q)], Head(q))
           /\ \A m : Has(q, m) <=> Has(Tail(q), m) \/ m = Head(q)
  <1>1. /\ Len(q) \in Nat /\ 1 \in 1..Len(q) /\ Head(q) = q[1] /\ Head(q) \in S
        /\ Len(Tail(q)) = Len(q) - 1 /\ Tail(q) \in Seq(S)
    BY HeadTailProperties
  <1>2. \A k \in 1..Len(Tail(q)) : Tail(q)[k] = q[k + 1] /\ k + 1 \in 1..Len(q) /\ 1 < k + 1
    BY <1>1, HeadTailProperties
  <1>3. \A i \in 1..Len(q) : i # 1 => i - 1 \in 1..Len(Tail(q)) /\ Tail(q)[i - 1] = q[i]
    <2> SUFFICES ASSUME NEW i \in 1..Len(q), i # 1
                 PROVE  i - 1 \in 1..Len(Tail(q)) /\ Tail(q)[i - 1] = q[i]
      OBVIOUS
    <2>1. i - 1 \in 1..Len(Tail(q)) /\ (i - 1) + 1 = i
      BY <1>1
    <2> QED BY <1>2, <2>1
  <1>4. Rising(f, q) => \A k \in 1..Len(Tail(q)) :
                           f[Tail(q)[k]] = f[Head(q)] => Head(q) < Tail(q)[k]
    BY <1>1, <1>2 DEF Rising
  <1>5. \A m : Has(q, m) <=> Has(Tail(q), m) \/ m = Head(q)
    BY <1>1, <1>2, <1>3 DEF Has
  <1> QED BY <1>1, <1>4, <1>5 DEF Written, Below, Before

\* A longer history of lines changes nothing for those that were written.
LEMMA GrownKeeps ==
    ASSUME NEW f \in Seq(Source), NEW s \in Source, NEW S \in SUBSET Nat, NEW q \in Seq(S),
           Written(f, q)
    PROVE  /\ Written(Append(f, s), q)
           /\ Rising(f, q) => Rising(Append(f, s), q)
           /\ \A t, n : Below(f, q, t, n) => Below(Append(f, s), q, t, n)
           /\ \A p \in Seq(S) :
                 Before(f, p, q) /\ Written(f, p) => Before(Append(f, s), p, q)
  <1> DEFINE g == Append(f, s)
  <1>1. Len(f) \in Nat /\ Len(g) = Len(f) + 1
    OBVIOUS
  <1>2. \A n \in 1..Len(f) : n \in 1..Len(g) /\ g[n] = f[n]
    BY <1>1
  <1> HIDE DEF g
  <1>3. /\ Written(g, q)
        /\ Rising(f, q) => Rising(g, q)
        /\ \A t, n : Below(f, q, t, n) => Below(g, q, t, n)
        /\ \A p \in Seq(S) : Before(f, p, q) /\ Written(f, p) => Before(g, p, q)
    BY <1>2 DEF Written, Rising, Below, Before
  <1> QED BY <1>3 DEF g

-----------------------------------------------------------------------------
(* One lemma for each kind of step of the log.                             *)

\* The lines are numbers.
LEMMA LinesAreNumbers == Log!Line \in SUBSET Nat /\ Lines \in Nat /\ RingBufferSize \in Nat
                         /\ SubscriberBuffer \in Nat
  BY LogConstantsFit DEF Log!LogConstants, Log!Line

\* The child writes a line: it is the last of its pipe.
LEMMA WritesLineStep ==
    ASSUME LogInv, NEW s \in Source, Log!childWrites(s)
    PROVE  LogInv'
  <1>u. /\ child' = child /\ closed' = closed /\ line' = line /\ pending' = pending
        /\ draining' = draining /\ retry' = retry /\ ring' = ring /\ subs' = subs
        /\ chan' = chan /\ isOpen' = isOpen /\ wait' = wait /\ disk' = disk
        /\ ws' = ws /\ seen' = seen /\ dropped' = dropped /\ panicked' = panicked
    BY DEF Log!childWrites, Log!sendVars, Log!streamVars, Log!chanVars, Log!waitVars
  <1> DEFINE n == Len(src) + 1
  <1>a. /\ src \in Seq(Source) /\ src' = Append(src, s) /\ Len(src') = n /\ n \in Log!Line
        /\ src' \in Seq(Source) /\ src'[n] = s /\ pipe \in [Source -> Seq(Log!Line)]
        /\ pipe' = [pipe EXCEPT ![s] = Append(pipe[s], n)] /\ n <= Lines /\ n \in 1..Len(src')
    BY LinesAreNumbers DEF Log!childWrites, Log!Line, LogInv, Log!TypeOK
  <1>b. \A m \in 1..Len(src) : m \in 1..Len(src') /\ src'[m] = src[m] /\ m < n
    BY <1>a
  <1>c. /\ ring \in Seq(Log!Line) /\ \A c \in Client : seen[c] \in Seq(Log!Line) /\ chan[c] \in Seq(Log!Line)
        /\ \A t \in Source : pipe[t] \in Seq(Log!Line)
    BY DEF LogInv, Log!TypeOK
  <1>d. \A q \in Seq(Log!Line) : Written(src, q) =>
           /\ Written(src', q)
           /\ Rising(src, q) => Rising(src', q)
           /\ \A t, m : Below(src, q, t, m) => Below(src', q, t, m)
           /\ \A t : Below(src', q, t, n)
           /\ \A p \in Seq(Log!Line) : Before(src, p, q) /\ Written(src, p) => Before(src', p, q)
    <2> SUFFICES ASSUME NEW q \in Seq(Log!Line), Written(src, q)
                 PROVE  /\ Written(src', q)
                        /\ Rising(src, q) => Rising(src', q)
                        /\ \A t, m : Below(src, q, t, m) => Below(src', q, t, m)
                        /\ \A t : Below(src', q, t, n)
                        /\ \A p \in Seq(Log!Line) :
                              Before(src, p, q) /\ Written(src, p) => Before(src', p, q)
      OBVIOUS
    <2>1. \A t : Below(src', q, t, n)
      BY <1>b DEF Written, Below
    <2> QED BY <1>a, <2>1, LinesAreNumbers, GrownKeeps
  <1>e. \A t \in Source : line[t] # 0 => line[t] \in 1..Len(src') /\ src'[line[t]] = t /\ line[t] < n
    BY <1>b DEF LogInv, PipeInv
  <1> HIDE DEF n
  <1>f. \A t \in Source : t # s => pipe'[t] = pipe[t]
    BY <1>a
  <1>g. /\ pipe'[s] = Append(pipe[s], n) /\ Len(pipe'[s]) = Len(pipe[s]) + 1 /\ pipe'[s] \in Seq(Log!Line)
        /\ \A i \in 1..Len(pipe'[s]) : pipe'[s][i] = n \/ (i \in 1..Len(pipe[s]) /\ pipe'[s][i] = pipe[s][i])
    BY <1>a, <1>c
  <1>1. Log!TypeOK'
    BY <1>u, <1>a DEF LogInv, Log!TypeOK
  <1>2. PipeInv'
    <2> SUFFICES ASSUME NEW t \in Source
                 PROVE  /\ Written(src', pipe'[t]) /\ Rising(src', pipe'[t])
                        /\ \A i \in 1..Len(pipe'[t]) : src'[pipe'[t][i]] = t /\ line'[t] < pipe'[t][i]
                        /\ line'[t] # 0 => line'[t] \in 1..Len(src') /\ src'[line'[t]] = t
      BY DEF PipeInv
    <2>1. /\ Written(src, pipe[t]) /\ Rising(src, pipe[t])
          /\ \A i \in 1..Len(pipe[t]) : src[pipe[t][i]] = t /\ line[t] < pipe[t][i]
          /\ \A i \in 1..Len(pipe[t]) : pipe[t][i] \in 1..Len(src)
      BY DEF LogInv, PipeInv, Written
    <2>2. /\ Written(src', pipe[t]) /\ Rising(src', pipe[t]) /\ Below(src', pipe[t], t, n)
          /\ \A i \in 1..Len(pipe[t]) : src'[pipe[t][i]] = t /\ line[t] < pipe[t][i]
      BY <1>b, <1>c, <1>d, <2>1
    <2>3. line[t] < n /\ (line[t] # 0 => line[t] \in 1..Len(src') /\ src'[line[t]] = t)
      <3>1. line[t] \in 0..Lines /\ n \in Nat /\ n # 0
        BY <1>a, LinesAreNumbers DEF LogInv, Log!TypeOK, Log!Line
      <3> QED BY <1>e, <3>1
    <2>4. CASE t # s
      BY <1>u, <1>f, <2>2, <2>3, <2>4
    <2>5. CASE t = s
      <3>1. Written(src', pipe'[s]) /\ Rising(src', pipe'[s])
        <4>1. pipe[s] \in Seq(Log!Line) /\ n \in Log!Line /\ src'[n] = s /\ n \in 1..Len(src')
          BY <1>a, <1>c
        <4>2. Written(src', pipe[s]) /\ Rising(src', pipe[s]) /\ Below(src', pipe[s], src'[n], n)
          BY <2>2, <2>5, <4>1
        <4>3. /\ Written(src', pipe[s]) /\ n \in 1..Len(src') => Written(src', Append(pipe[s], n))
              /\ Rising(src', pipe[s]) /\ Below(src', pipe[s], src'[n], n)
                    => Rising(src', Append(pipe[s], n))
          <5>1. Log!Line \in SUBSET Nat
            BY LinesAreNumbers
          <5> QED BY ONLY <4>1, <5>1, AppendKeeps
        <4>4. pipe'[s] = Append(pipe[s], n)
          BY <1>g
        <4> QED BY ONLY <4>1, <4>2, <4>3, <4>4
      <3>2. \A i \in 1..Len(pipe'[s]) : src'[pipe'[s][i]] = s /\ line[s] < pipe'[s][i]
        <4>1. src'[n] = s /\ line[s] < n
          BY <1>a, <2>3, <2>5
        <4> QED BY <1>g, <2>2, <2>5, <4>1
      <3> QED BY <1>u, <2>3, <2>5, <3>1, <3>2
    <2> QED BY <2>4, <2>5
  <1>3. RingInv'
    BY <1>u, <1>c, <1>d, <1>f, <1>g DEF LogInv, RingInv
  <1>4. StreamInv'
    BY ZenonT(30), <1>u, <1>c, <1>d, <1>f, <1>g DEF LogInv, StreamInv
  <1>5. SendInv'
    <2>1. ASSUME NEW t \in Source, NEW c \in pending[t]
          PROVE  Below(src', seen[c], t, line[t]) /\ Below(src', chan[c], t, line[t])
      <3>1. /\ Below(src, seen[c], t, line[t]) /\ Below(src, chan[c], t, line[t]) /\ c \in Client
            /\ Written(src, seen[c]) /\ Written(src, chan[c])
        BY <2>1 DEF LogInv, SendInv, StreamInv, Log!TypeOK
      <3> QED BY <1>c, <1>d, <3>1
    <2> QED BY <1>u, <2>1 DEF LogInv, SendInv
  <1>6. IdleInv'
    BY <1>u DEF LogInv, IdleInv
  <1>7. GapInv'
    BY <1>u DEF LogInv, GapInv, Explained
  <1> QED BY <1>1, <1>2, <1>3, <1>4, <1>5, <1>6, <1>7 DEF LogInv

\* A tail takes the next line: it comes after the lines of its pipe that
\* anyone has seen, and is owed to every subscriber.
LEMMA AppendLineStep ==
    ASSUME LogInv, NEW s \in Source, Log!appendLine(s)
    PROVE  LogInv'
  <1>u. /\ src' = src /\ child' = child /\ closed' = closed /\ draining' = draining
        /\ retry' = retry /\ subs' = subs /\ chan' = chan /\ isOpen' = isOpen
        /\ wait' = wait /\ disk' = disk /\ ws' = ws /\ seen' = seen
        /\ dropped' = dropped /\ panicked' = panicked
    BY DEF Log!appendLine, Log!sendVars, Log!streamVars, Log!chanVars, Log!waitVars
  <1>c. /\ \A t \in Source : pipe[t] \in Seq(Log!Line)
        /\ ring \in Seq(Log!Line) /\ \A x \in Client : seen[x] \in Seq(Log!Line) /\ chan[x] \in Seq(Log!Line)
    BY DEF LogInv, Log!TypeOK
  <1> DEFINE h == Head(pipe[s])
  <1>a. /\ pipe[s] # <<>> /\ pipe' = [pipe EXCEPT ![s] = Tail(pipe[s])] /\ line' = [line EXCEPT ![s] = h]
        /\ line[s] = 0 /\ pending' = [pending EXCEPT ![s] = subs]
        /\ ring' = Log!LastN(Append(ring, h), RingBufferSize)
    BY DEF Log!appendLine, Log!ringAppend
  <1>b. /\ h \in Log!Line /\ h \in 1..Len(src) /\ src[h] = s /\ h # 0
        /\ \A k \in 1..Len(Tail(pipe[s])) : h < Tail(pipe[s])[k] /\ src[Tail(pipe[s])[k]] = s
        /\ Tail(pipe[s]) \in Seq(Log!Line) /\ Written(src, Tail(pipe[s])) /\ Rising(src, Tail(pipe[s]))
        /\ \A n : Has(Tail(pipe[s]), n) => Has(pipe[s], n)
    <2>1. /\ Written(src, pipe[s]) /\ Rising(src, pipe[s])
          /\ \A i \in 1..Len(pipe[s]) : src[pipe[s][i]] = s
      BY DEF LogInv, PipeInv
    <2>2. h = pipe[s][1] /\ 1 \in 1..Len(pipe[s])
      BY <1>a, <1>c, HeadTailProperties
    <2>3. /\ Tail(pipe[s]) \in Seq(Log!Line) /\ Written(src, Tail(pipe[s])) /\ Rising(src, Tail(pipe[s]))
          /\ \A n : Has(Tail(pipe[s]), n) => Has(pipe[s], n)
      BY <1>a, <1>c, <2>1, LinesAreNumbers, Parts, PartKeeps
    <2>4. \A k \in 1..Len(Tail(pipe[s])) : src[Tail(pipe[s])[k]] = s
      BY <2>1, <2>3 DEF Has
    <2>5. /\ h \in Log!Line /\ h \in 1..Len(src) /\ src[h] = s
      BY <1>a, <1>c, <2>1, <2>2, LinesAreNumbers, HeadFirst
    <2>6. \A k \in 1..Len(Tail(pipe[s])) : h < Tail(pipe[s])[k]
      BY <1>a, <1>c, <2>1, <2>4, <2>5, LinesAreNumbers, HeadFirst
    <2>7. h # 0
      BY <2>5 DEF Log!Line
    <2> QED BY <2>3, <2>4, <2>5, <2>6, <2>7
  <1>d. /\ Below(src, ring, s, h)
        /\ \A x \in Client : Below(src, seen[x], s, h) /\ Below(src, chan[x], s, h)
    <2>1. h = pipe[s][1] /\ 1 \in 1..Len(pipe[s])
      BY <1>a, <1>c, HeadTailProperties
    <2> QED BY <2>1 DEF LogInv, RingInv, StreamInv
  <1>e. pending[s] = {} /\ draining[s] = {} /\ retry[s] = {}
    BY <1>a DEF LogInv, SendInv
  <1>f. \A t \in Source : \A m \in 1..Len(pipe'[t]) : Has(pipe[t], pipe'[t][m])
    BY <1>a, <1>b, <1>c DEF Has
  <1> DEFINE r == Append(ring, h)
  <1>r. /\ r \in Seq(Log!Line) /\ Written(src, r) /\ Rising(src, r)
        /\ \A t, m : Below(src, ring, t, m) /\ (src[h] = t => h < m) => Below(src, r, t, m)
        /\ \A m : Has(r, m) <=> Has(ring, m) \/ m = h
    BY <1>b, <1>c, <1>d, LinesAreNumbers, AppendKeeps DEF LogInv, RingInv
  <1>s. ring' \in Seq(Log!Line) /\ Part(ring', r) /\ Len(ring') <= RingBufferSize
    <2> HIDE DEF r
    <2> QED BY <1>a, <1>r, LinesAreNumbers, Parts DEF r
  <1>t. /\ Written(src, ring') /\ Rising(src, ring')
        /\ \A t, m : Below(src, ring, t, m) /\ (src[h] = t => h < m) => Below(src, ring', t, m)
        /\ \A m : Has(ring', m) => Has(ring, m) \/ m = h
    <2> HIDE DEF r
    <2> QED BY <1>r, <1>s, LinesAreNumbers, PartKeeps
  <1> HIDE DEF r, h
  <1>1. Log!TypeOK'
    <2>1. h \in 0..Lines
      BY <1>b DEF Log!Line
    <2> QED BY <1>u, <1>a, <1>b, <1>s, <2>1 DEF LogInv, Log!TypeOK
  <1>2. PipeInv'
    <2>1. \A t \in Source : t # s => pipe'[t] = pipe[t] /\ line'[t] = line[t]
      BY <1>a DEF LogInv, Log!TypeOK
    <2>2. pipe'[s] = Tail(pipe[s]) /\ line'[s] = h
      BY <1>a DEF LogInv, Log!TypeOK
    <2> SUFFICES ASSUME NEW t \in Source
                 PROVE  /\ Written(src, pipe'[t]) /\ Rising(src, pipe'[t])
                        /\ \A i \in 1..Len(pipe'[t]) : src[pipe'[t][i]] = t /\ line'[t] < pipe'[t][i]
                        /\ line'[t] # 0 => line'[t] \in 1..Len(src) /\ src[line'[t]] = t
      BY <1>u DEF PipeInv
    <2>3. CASE t # s
      BY <2>1, <2>3 DEF LogInv, PipeInv
    <2>4. CASE t = s
      BY <1>b, <2>2, <2>4
    <2> QED BY <2>3, <2>4
  <1>3. RingInv'
    <2> SUFFICES ASSUME NEW t \in Source, NEW i \in 1..Len(pipe'[t]) PROVE Below(src, ring', t, pipe'[t][i])
      BY <1>u, <1>t DEF RingInv
    <2>1. Below(src, ring, t, pipe'[t][i])
      BY <1>f DEF Has, LogInv, RingInv
    <2>2. src[h] = t => h < pipe'[t][i]
      BY <1>a, <1>b DEF LogInv, Log!TypeOK
    <2> QED BY <1>t, <2>1, <2>2
  <1>4. StreamInv'
    <2>1. ASSUME NEW x \in Client, NEW t \in Source, NEW i \in 1..Len(pipe'[t])
          PROVE  Below(src, seen[x], t, pipe'[t][i]) /\ Below(src, chan[x], t, pipe'[t][i])
      BY <1>f DEF Has, LogInv, StreamInv
    <2> QED BY <1>u, <2>1 DEF LogInv, StreamInv
  <1>5. SendInv'
    <2>1. /\ pending'[s] = subs /\ line'[s] = h
          /\ \A t \in Source : t # s => pending'[t] = pending[t] /\ line'[t] = line[t]
      BY <1>a DEF LogInv, Log!TypeOK
    <2>2. \A c \in subs : c \in Client /\ ws[c] # "idle"
      BY DEF LogInv, IdleInv, Log!TypeOK
    <2> QED BY <1>u, <1>b, <1>d, <1>e, <2>1, <2>2 DEF LogInv, SendInv
  <1>6. IdleInv'
    BY <1>u DEF LogInv, IdleInv
  <1>7. GapInv'
    <2> SUFFICES ASSUME NEW c \in subs, NEW i \in 1..Len(ring')
                 PROVE  \/ Has(seen[c], ring'[i]) \/ Has(chan[c], ring'[i])
                        \/ \E t \in Source : c \in pending'[t] /\ line'[t] = ring'[i]
                        \/ ring'[i] \in dropped[c]
      BY <1>u DEF GapInv, Explained
    <2>1. /\ pending'[s] = subs /\ line'[s] = h
          /\ \A t \in Source : t # s => pending'[t] = pending[t] /\ line'[t] = line[t]
      BY <1>a DEF LogInv, Log!TypeOK
    <2>2. Has(ring, ring'[i]) \/ ring'[i] = h
      BY <1>t DEF Has
    <2>3. CASE ring'[i] = h
      BY <2>1, <2>3
    <2>4. CASE Has(ring, ring'[i])
      <3>1. Explained(c, ring'[i])
        BY <2>4 DEF Has, LogInv, GapInv
      <3> QED BY <1>e, <2>1, <3>1 DEF Explained
    <2> QED BY <2>2, <2>3, <2>4
  <1> QED BY <1>1, <1>2, <1>3, <1>4, <1>5, <1>6, <1>7 DEF LogInv

\* A line goes into a channel: its client has none of that pipe that is later.
LEMMA DeliverStep ==
    ASSUME LogInv, NEW s \in Source, NEW c \in Client, c \in pending[s], draining[s] = {},
           Len(chan[c]) < SubscriberBuffer, Log!deliver(s, c),
           UNCHANGED <<src, pipe, child, line, ring, subs, Log!waitVars, Log!streamVars>>
    PROVE  LogInv'
  <1>u. /\ src' = src /\ pipe' = pipe /\ child' = child /\ closed' = closed
        /\ line' = line /\ draining' = draining /\ ring' = ring /\ subs' = subs
        /\ isOpen' = isOpen /\ wait' = wait /\ disk' = disk /\ ws' = ws
        /\ seen' = seen /\ dropped' = dropped /\ panicked' = panicked
    BY DEF Log!deliver, Log!sendVars, Log!streamVars, Log!chanVars, Log!waitVars
  <1>c. /\ \A t \in Source : pipe[t] \in Seq(Log!Line)
        /\ ring \in Seq(Log!Line) /\ \A x \in Client : seen[x] \in Seq(Log!Line) /\ chan[x] \in Seq(Log!Line)
    BY DEF LogInv, Log!TypeOK
  <1>a. /\ chan' = [chan EXCEPT ![c] = Append(chan[c], line[s])]
        /\ pending' = [pending EXCEPT ![s] = pending[s] \ {c}]
        /\ retry' = [retry EXCEPT ![s] = {}]
    BY DEF Log!deliver
  <1>b. /\ line[s] # 0 /\ line[s] \in 1..Len(src) /\ src[line[s]] = s /\ line[s] \in Log!Line
        /\ Below(src, seen[c], s, line[s]) /\ Below(src, chan[c], s, line[s])
        /\ \A i \in 1..Len(pipe[s]) : line[s] < pipe[s][i]
        /\ Written(src, chan[c]) /\ Rising(src, chan[c]) /\ Before(src, seen[c], chan[c])
    BY DEF LogInv, PipeInv, SendInv, StreamInv, Log!TypeOK, Log!Line
  <1> DEFINE q == Append(chan[c], line[s])
  <1>q. /\ q \in Seq(Log!Line) /\ Len(q) = Len(chan[c]) + 1 /\ Written(src, q) /\ Rising(src, q)
        /\ Before(src, seen[c], q)
        /\ \A t, m : Below(src, chan[c], t, m) /\ (s = t => line[s] < m) => Below(src, q, t, m)
        /\ \A m : Has(q, m) <=> Has(chan[c], m) \/ m = line[s]
    BY <1>b, <1>c, LinesAreNumbers, AppendKeeps
  <1>d. /\ chan'[c] = q /\ \A x \in Client : x # c => chan'[x] = chan[x]
        /\ pending'[s] = pending[s] \ {c} /\ retry'[s] = {}
        /\ \A t \in Source : t # s => pending'[t] = pending[t] /\ retry'[t] = retry[t]
    BY <1>a DEF LogInv, Log!TypeOK
  <1> HIDE DEF q
  <1>1. Log!TypeOK'
    <2>1. Len(q) <= SubscriberBuffer
      BY <1>c, <1>q, LinesAreNumbers
    <2>2. \A x \in Client : chan'[x] \in Seq(Log!Line) /\ Len(chan'[x]) <= SubscriberBuffer
      BY <1>d, <1>q, <2>1 DEF LogInv, Log!TypeOK
    <2>3. chan' \in [Client -> Seq(Log!Line)]
      BY <1>a, <1>d, <2>2 DEF LogInv, Log!TypeOK
    <2> QED BY <1>u, <1>a, <2>2, <2>3 DEF LogInv, Log!TypeOK
  <1>2. PipeInv'
    BY <1>u DEF LogInv, PipeInv
  <1>3. RingInv'
    BY <1>u DEF LogInv, RingInv
  <1>4. StreamInv'
    <2>1. \A t \in Source : \A i \in 1..Len(pipe[t]) : Below(src, q, t, pipe[t][i])
      BY <1>b, <1>q DEF LogInv, StreamInv
    <2> QED BY <1>u, <1>d, <1>q, <2>1 DEF LogInv, StreamInv
  <1>5. SendInv'
    <2>1. ASSUME NEW t \in Source, NEW x \in pending'[t]
          PROVE  /\ line[t] # 0 /\ ws[x] # "idle"
                 /\ Below(src, seen[x], t, line[t]) /\ Below(src, chan'[x], t, line[t])
      <3>1. /\ x \in pending[t] /\ x \in Client
            /\ line[t] # 0 /\ ws[x] # "idle"
            /\ Below(src, seen[x], t, line[t]) /\ Below(src, chan[x], t, line[t])
            /\ t = s => x # c
        BY <1>d, <2>1 DEF LogInv, SendInv, Log!TypeOK
      <3> QED BY <1>d, <1>q, <3>1
    <2> QED BY <1>u, <1>d, <2>1 DEF LogInv, SendInv
  <1>6. IdleInv'
    <2>1. ws[c] # "idle"
      BY DEF LogInv, SendInv
    <2> QED BY <1>u, <1>d, <2>1 DEF LogInv, IdleInv
  <1>7. GapInv'
    <2> SUFFICES ASSUME NEW x \in subs, NEW i \in 1..Len(ring)
                 PROVE  \/ Has(seen[x], ring[i]) \/ Has(chan'[x], ring[i])
                        \/ \E t \in Source : x \in pending'[t] /\ line[t] = ring[i]
                        \/ ring[i] \in dropped[x]
      BY <1>u DEF GapInv, Explained
    <2>1. Explained(x, ring[i]) /\ x \in Client
      BY DEF LogInv, GapInv, Log!TypeOK
    <2> QED BY <1>d, <1>q, <2>1 DEF Explained
  <1> QED BY <1>1, <1>2, <1>3, <1>4, <1>5, <1>6, <1>7 DEF LogInv

\* The tail finds a channel full.
LEMMA FullStep ==
    ASSUME LogInv, NEW s \in Source, NEW c \in pending[s], draining[s] = {}, retry[s] = {},
           draining' = [draining EXCEPT ![s] = {c}],
           UNCHANGED <<src, pipe, child, line, pending, retry, ring, subs, Log!chanVars,
                       Log!waitVars, Log!streamVars>>
    PROVE  LogInv'
  <1>u. /\ src' = src /\ pipe' = pipe /\ child' = child /\ closed' = closed
        /\ line' = line /\ pending' = pending /\ retry' = retry /\ ring' = ring
        /\ subs' = subs /\ chan' = chan /\ isOpen' = isOpen /\ wait' = wait
        /\ disk' = disk /\ ws' = ws /\ seen' = seen /\ dropped' = dropped
        /\ panicked' = panicked
    BY DEF Log!chanVars, Log!sendVars, Log!streamVars, Log!chanVars, Log!waitVars
  <1>a. /\ draining'[s] = {c} /\ c \in Client
        /\ \A t \in Source : t # s => draining'[t] = draining[t]
    BY DEF LogInv, Log!TypeOK
  <1>1. Log!TypeOK'
    BY <1>u, <1>a DEF LogInv, Log!TypeOK
  <1>2. PipeInv'
    BY <1>u DEF LogInv, PipeInv
  <1>3. RingInv'
    BY <1>u DEF LogInv, RingInv
  <1>4. StreamInv'
    BY <1>u DEF LogInv, StreamInv
  <1>5. SendInv'
    BY <1>u, <1>a DEF LogInv, SendInv
  <1>6. IdleInv'
    BY <1>u DEF LogInv, IdleInv
  <1>7. GapInv'
    BY <1>u DEF LogInv, GapInv, Explained
  <1> QED BY <1>1, <1>2, <1>3, <1>4, <1>5, <1>6, <1>7 DEF LogInv

\* The full channel loses its oldest line, which is noted.
LEMMA DrainStep ==
    ASSUME LogInv, NEW s \in Source, NEW c \in Client, Log!drainOldest(s, c)
    PROVE  LogInv'
  <1>u. /\ src' = src /\ pipe' = pipe /\ child' = child /\ closed' = closed
        /\ line' = line /\ pending' = pending /\ ring' = ring /\ subs' = subs
        /\ isOpen' = isOpen /\ wait' = wait /\ disk' = disk /\ ws' = ws
        /\ seen' = seen /\ panicked' = panicked
    BY DEF Log!drainOldest, Log!sendVars, Log!streamVars, Log!chanVars, Log!waitVars
  <1>c. /\ \A t \in Source : pipe[t] \in Seq(Log!Line)
        /\ ring \in Seq(Log!Line) /\ \A x \in Client : seen[x] \in Seq(Log!Line) /\ chan[x] \in Seq(Log!Line)
    BY DEF LogInv, Log!TypeOK
  <1>a. /\ c \in draining[s] /\ draining' = [draining EXCEPT ![s] = {}] /\ retry' = [retry EXCEPT ![s] = {c}]
        /\ IF chan[c] = <<>>
           THEN chan' = chan /\ dropped' = dropped
           ELSE /\ chan' = [chan EXCEPT ![c] = Tail(chan[c])]
                /\ dropped' = [dropped EXCEPT ![c] = dropped[c] \union {Head(chan[c])}]
    BY DEF Log!drainOldest
  <1>b. /\ draining'[s] = {} /\ retry'[s] = {c}
        /\ \A t \in Source : t # s => draining'[t] = draining[t] /\ retry'[t] = retry[t]
    BY <1>a DEF LogInv, Log!TypeOK
  <1>d. /\ chan'[c] \in Seq(Log!Line) /\ Len(chan'[c]) <= Len(chan[c])
        /\ \A n : Has(chan[c], n) => Has(chan'[c], n) \/ n \in dropped'[c]
        /\ dropped[c] \subseteq dropped'[c] /\ dropped'[c] \subseteq Log!Line
        /\ Written(src, chan'[c]) /\ Rising(src, chan'[c]) /\ Before(src, seen[c], chan'[c])
        /\ \A t, n : Below(src, chan[c], t, n) => Below(src, chan'[c], t, n)
    <2>0. Written(src, chan[c]) /\ Rising(src, chan[c]) /\ Before(src, seen[c], chan[c])
      BY DEF LogInv, StreamInv
    <2>1. CASE chan[c] = <<>>
      BY <1>a, <1>c, <2>0, <2>1 DEF LogInv, Log!TypeOK
    <2>2. CASE chan[c] # <<>>
      <3>1. chan'[c] = Tail(chan[c]) /\ dropped'[c] = dropped[c] \union {Head(chan[c])}
        BY <1>a, <2>2 DEF LogInv, Log!TypeOK
      <3>2. /\ Tail(chan[c]) \in Seq(Log!Line) /\ Len(Tail(chan[c])) <= Len(chan[c])
            /\ Part(Tail(chan[c]), chan[c])
        BY <1>c, <2>2, HeadTailProperties, Parts
      <3>3. /\ Head(chan[c]) \in Log!Line
            /\ \A n : Has(chan[c], n) <=> Has(Tail(chan[c]), n) \/ n = Head(chan[c])
        BY <1>c, <2>2, LinesAreNumbers, HeadFirst
      <3>4. /\ Written(src, Tail(chan[c])) /\ Rising(src, Tail(chan[c]))
            /\ Before(src, seen[c], Tail(chan[c]))
            /\ \A t, n : Below(src, chan[c], t, n) => Below(src, Tail(chan[c]), t, n)
        BY <1>c, <2>0, <3>2, LinesAreNumbers, PartKeeps
      <3>5. dropped[c] \subseteq Log!Line
        BY DEF LogInv, Log!TypeOK
      <3> QED BY <3>1, <3>2, <3>3, <3>4, <3>5
    <2> QED BY <2>1, <2>2
  <1>e. /\ \A x \in Client : x # c => chan'[x] = chan[x] /\ dropped'[x] = dropped[x]
        /\ \A x \in Client : chan'[x] \in Seq(Log!Line) /\ Len(chan'[x]) <= SubscriberBuffer
        /\ chan' \in [Client -> Seq(Log!Line)] /\ dropped' \in [Client -> SUBSET Log!Line]
    <2>1. \A x \in Client : x # c => chan'[x] = chan[x] /\ dropped'[x] = dropped[x]
      BY <1>a DEF LogInv, Log!TypeOK
    <2>2. \A x \in Client : Len(chan[x]) \in Nat /\ Len(chan[x]) <= SubscriberBuffer
      BY <1>c DEF LogInv, Log!TypeOK
    <2>3. Len(chan'[c]) \in Nat
      BY <1>d
    <2>4. \A x \in Client : chan'[x] \in Seq(Log!Line) /\ Len(chan'[x]) <= SubscriberBuffer
      BY <1>c, <1>d, <2>1, <2>2, <2>3, LinesAreNumbers
    <2>5. /\ chan' = [chan EXCEPT ![c] = chan'[c]] /\ dropped' = [dropped EXCEPT ![c] = dropped'[c]]
      BY <1>a DEF LogInv, Log!TypeOK
    <2> QED BY <1>d, <2>1, <2>4, <2>5 DEF LogInv, Log!TypeOK
  <1>1. Log!TypeOK'
    BY <1>u, <1>a, <1>e DEF LogInv, Log!TypeOK
  <1>2. PipeInv'
    BY <1>u DEF LogInv, PipeInv
  <1>3. RingInv'
    BY <1>u DEF LogInv, RingInv
  <1>4. StreamInv'
    BY <1>u, <1>d, <1>e DEF LogInv, StreamInv
  <1>5. SendInv'
    <2>1. ASSUME NEW t \in Source, NEW x \in pending[t]
          PROVE  Below(src, chan'[x], t, line[t])
      <3>1. x \in Client /\ Below(src, chan[x], t, line[t])
        BY <2>1 DEF LogInv, SendInv, Log!TypeOK
      <3> QED BY <1>d, <1>e, <3>1
    <2> QED BY <1>u, <1>a, <1>b, <2>1 DEF LogInv, SendInv
  <1>6. IdleInv'
    <2>1. ws[c] # "idle"
      BY <1>a DEF LogInv, SendInv
    <2> QED BY <1>u, <1>e, <2>1 DEF LogInv, IdleInv
  <1>7. GapInv'
    <2> SUFFICES ASSUME NEW x \in subs, NEW i \in 1..Len(ring)
                 PROVE  \/ Has(seen[x], ring[i]) \/ Has(chan'[x], ring[i])
                        \/ \E t \in Source : x \in pending[t] /\ line[t] = ring[i]
                        \/ ring[i] \in dropped'[x]
      BY <1>u DEF GapInv, Explained
    <2>1. Explained(x, ring[i]) /\ x \in Client
      BY DEF LogInv, GapInv, Log!TypeOK
    <2> QED BY <1>d, <1>e, <2>1 DEF Explained
  <1> QED BY <1>1, <1>2, <1>3, <1>4, <1>5, <1>6, <1>7 DEF LogInv

\* The second attempt fails: the line itself is dropped, and noted.
LEMMA DropStep ==
    ASSUME LogInv, NEW s \in Source, NEW c \in Client, c \in retry[s],
           dropped' = [dropped EXCEPT ![c] = dropped[c] \union {line[s]}],
           pending' = [pending EXCEPT ![s] = pending[s] \ {c}],
           retry' = [retry EXCEPT ![s] = {}],
           UNCHANGED <<src, pipe, child, line, draining, ring, subs, chan, isOpen, panicked,
                       Log!waitVars, Log!streamVars>>
    PROVE  LogInv'
  <1>u. /\ src' = src /\ pipe' = pipe /\ child' = child /\ closed' = closed
        /\ line' = line /\ draining' = draining /\ ring' = ring /\ subs' = subs
        /\ chan' = chan /\ isOpen' = isOpen /\ wait' = wait /\ disk' = disk
        /\ ws' = ws /\ seen' = seen /\ panicked' = panicked
    BY DEF Log!waitVars, Log!sendVars, Log!streamVars, Log!chanVars, Log!waitVars
  <1>a. /\ dropped'[c] = dropped[c] \union {line[s]} /\ \A x \in Client : x # c => dropped'[x] = dropped[x]
        /\ pending'[s] = pending[s] \ {c} /\ retry'[s] = {} /\ draining[s] = {}
        /\ \A t \in Source : t # s => pending'[t] = pending[t] /\ retry'[t] = retry[t]
        /\ line[s] \in Log!Line
    <2>1. c \in pending[s] /\ draining[s] = {} /\ line[s] # 0
      BY DEF LogInv, SendInv
    <2>2. line[s] \in Log!Line
      BY <2>1, LinesAreNumbers DEF LogInv, Log!TypeOK, Log!Line
    <2> QED BY <2>1, <2>2 DEF LogInv, Log!TypeOK
  <1>1. Log!TypeOK'
    BY <1>u, <1>a DEF LogInv, Log!TypeOK
  <1>2. PipeInv'
    BY <1>u DEF LogInv, PipeInv
  <1>3. RingInv'
    BY <1>u DEF LogInv, RingInv
  <1>4. StreamInv'
    BY <1>u DEF LogInv, StreamInv
  <1>5. SendInv'
    BY <1>u, <1>a DEF LogInv, SendInv
  <1>6. IdleInv'
    BY <1>u DEF LogInv, IdleInv
  <1>7. GapInv'
    <2> SUFFICES ASSUME NEW x \in subs, NEW i \in 1..Len(ring)
                 PROVE  \/ Has(seen[x], ring[i]) \/ Has(chan[x], ring[i])
                        \/ \E t \in Source : x \in pending'[t] /\ line[t] = ring[i]
                        \/ ring[i] \in dropped'[x]
      BY <1>u DEF GapInv, Explained
    <2>1. Explained(x, ring[i]) /\ x \in Client
      BY DEF LogInv, GapInv, Log!TypeOK
    <2> QED BY <1>a, <2>1 DEF Explained
  <1> QED BY <1>1, <1>2, <1>3, <1>4, <1>5, <1>6, <1>7 DEF LogInv

\* The tail is done with its line.
LEMMA NextLineStep ==
    ASSUME LogInv, NEW s \in Source, Log!nextLine(s)
    PROVE  LogInv'
  <1>u. /\ src' = src /\ pipe' = pipe /\ child' = child /\ closed' = closed
        /\ pending' = pending /\ draining' = draining /\ retry' = retry /\ ring' = ring
        /\ subs' = subs /\ chan' = chan /\ isOpen' = isOpen /\ wait' = wait
        /\ disk' = disk /\ ws' = ws /\ seen' = seen /\ dropped' = dropped
        /\ panicked' = panicked
    BY DEF Log!nextLine, Log!sendVars, Log!streamVars, Log!chanVars, Log!waitVars
  <1>a. /\ pending[s] = {} /\ line'[s] = 0 /\ \A t \in Source : t # s => line'[t] = line[t]
        /\ line' \in [Source -> 0..Lines]
    BY LinesAreNumbers DEF Log!nextLine, LogInv, Log!TypeOK
  <1>b. \A i \in 1..Len(pipe[s]) : 0 < pipe[s][i]
    <2>1. pipe[s] \in Seq(1..Lines)
      BY DEF LogInv, Log!TypeOK, Log!Line
    <2> QED BY <2>1, LinesAreNumbers
  <1>1. Log!TypeOK'
    BY <1>u, <1>a DEF LogInv, Log!TypeOK
  <1>2. PipeInv'
    BY <1>u, <1>a, <1>b DEF LogInv, PipeInv
  <1>3. RingInv'
    BY <1>u DEF LogInv, RingInv
  <1>4. StreamInv'
    BY <1>u DEF LogInv, StreamInv
  <1>5. SendInv'
    BY <1>u, <1>a DEF LogInv, SendInv
  <1>6. IdleInv'
    BY <1>u DEF LogInv, IdleInv
  <1>7. GapInv'
    <2> SUFFICES ASSUME NEW x \in subs, NEW i \in 1..Len(ring)
                 PROVE  \/ Has(seen[x], ring[i]) \/ Has(chan[x], ring[i])
                        \/ \E t \in Source : x \in pending[t] /\ line'[t] = ring[i]
                        \/ ring[i] \in dropped[x]
      BY <1>u DEF GapInv, Explained
    <2>1. Explained(x, ring[i])
      BY DEF LogInv, GapInv
    <2> QED BY <1>a, <2>1 DEF Explained
  <1> QED BY <1>1, <1>2, <1>3, <1>4, <1>5, <1>6, <1>7 DEF LogInv

\* The agent dies of a send on a closed channel.
LEMMA PanicStep ==
    ASSUME LogInv, Log!panic,
           UNCHANGED <<src, pipe, child, line, ring, subs, Log!waitVars, Log!streamVars>>
    PROVE  LogInv'
  <1>u. /\ src' = src /\ pipe' = pipe /\ child' = child /\ closed' = closed
        /\ line' = line /\ pending' = pending /\ draining' = draining /\ retry' = retry
        /\ ring' = ring /\ subs' = subs /\ chan' = chan /\ isOpen' = isOpen
        /\ wait' = wait /\ disk' = disk /\ ws' = ws /\ seen' = seen
        /\ dropped' = dropped
    BY DEF Log!panic, Log!sendVars, Log!streamVars, Log!chanVars, Log!waitVars
  <1>a. panicked' \in BOOLEAN
    BY DEF Log!panic
  <1>1. Log!TypeOK'
    BY <1>u, <1>a DEF LogInv, Log!TypeOK
  <1>2. PipeInv'
    BY <1>u DEF LogInv, PipeInv
  <1>3. RingInv'
    BY <1>u DEF LogInv, RingInv
  <1>4. StreamInv'
    BY <1>u DEF LogInv, StreamInv
  <1>5. SendInv'
    BY <1>u DEF LogInv, SendInv
  <1>6. IdleInv'
    BY <1>u DEF LogInv, IdleInv
  <1>7. GapInv'
    BY <1>u DEF LogInv, GapInv, Explained
  <1> QED BY <1>1, <1>2, <1>3, <1>4, <1>5, <1>6, <1>7 DEF LogInv

\* The child exits.
LEMMA ChildExitsStep ==
    ASSUME LogInv, Log!childExits
    PROVE  LogInv'
  <1>u. /\ src' = src /\ pipe' = pipe /\ closed' = closed /\ line' = line
        /\ pending' = pending /\ draining' = draining /\ retry' = retry /\ ring' = ring
        /\ subs' = subs /\ chan' = chan /\ isOpen' = isOpen /\ wait' = wait
        /\ disk' = disk /\ ws' = ws /\ seen' = seen /\ dropped' = dropped
        /\ panicked' = panicked
    BY DEF Log!childExits, Log!sendVars, Log!streamVars, Log!chanVars, Log!waitVars
  <1>a. child' \in {"alive", "exited"}
    BY DEF Log!childExits
  <1>1. Log!TypeOK'
    BY <1>u, <1>a DEF LogInv, Log!TypeOK
  <1>2. PipeInv'
    BY <1>u DEF LogInv, PipeInv
  <1>3. RingInv'
    BY <1>u DEF LogInv, RingInv
  <1>4. StreamInv'
    BY <1>u DEF LogInv, StreamInv
  <1>5. SendInv'
    BY <1>u DEF LogInv, SendInv
  <1>6. IdleInv'
    BY <1>u DEF LogInv, IdleInv
  <1>7. GapInv'
    BY <1>u DEF LogInv, GapInv, Explained
  <1> QED BY <1>1, <1>2, <1>3, <1>4, <1>5, <1>6, <1>7 DEF LogInv

\* The pipes are closed: each tail is left a beginning of what was in its pipe.
LEMMA WaitClosesStep ==
    ASSUME LogInv, Log!waitCloses
    PROVE  LogInv'
  <1>u. /\ src' = src /\ child' = child /\ line' = line /\ pending' = pending
        /\ draining' = draining /\ retry' = retry /\ ring' = ring /\ subs' = subs
        /\ chan' = chan /\ isOpen' = isOpen /\ wait' = wait /\ disk' = disk
        /\ ws' = ws /\ seen' = seen /\ dropped' = dropped /\ panicked' = panicked
    BY DEF Log!waitCloses, Log!sendVars, Log!streamVars, Log!chanVars, Log!waitVars
  <1>c. /\ \A t \in Source : pipe[t] \in Seq(Log!Line)
        /\ ring \in Seq(Log!Line) /\ \A x \in Client : seen[x] \in Seq(Log!Line) /\ chan[x] \in Seq(Log!Line)
    BY DEF LogInv, Log!TypeOK
  <1>a. /\ closed' = TRUE
        /\ \E keep \in [Source -> 0..Lines] :
              /\ \A s \in Source : keep[s] <= Len(pipe[s])
              /\ pipe' = [s \in Source |-> SubSeq(pipe[s], 1, keep[s])]
    BY DEF Log!waitCloses
  <1>b. ASSUME NEW s \in Source
        PROVE  pipe'[s] \in Seq(Log!Line) /\ Part(pipe'[s], pipe[s])
    <2>1. PICK keep \in [Source -> 0..Lines] :
              /\ \A t \in Source : keep[t] <= Len(pipe[t])
              /\ pipe' = [t \in Source |-> SubSeq(pipe[t], 1, keep[t])]
      BY <1>a
    <2>2. keep[s] \in 0..Len(pipe[s])
      BY <2>1, LinesAreNumbers
    <2> QED BY <1>c, <2>1, <2>2, Parts
  <1>d. \A s \in Source : \A i \in 1..Len(pipe'[s]) : Has(pipe[s], pipe'[s][i])
    <2>1. \A s \in Source : \A n : Has(pipe'[s], n) => Has(pipe[s], n)
      BY <1>b, <1>c, LinesAreNumbers, PartKeeps
    <2> QED BY <2>1 DEF Has
  <1>e. pipe' \in [Source -> Seq(Log!Line)]
    BY <1>a, <1>b
  <1>f. \A s \in Source : Written(src, pipe'[s]) /\ Rising(src, pipe'[s])
    BY <1>b, <1>c, LinesAreNumbers, PartKeeps DEF LogInv, PipeInv
  <1>1. Log!TypeOK'
    BY <1>u, <1>a, <1>e DEF LogInv, Log!TypeOK
  <1>2. PipeInv'
    <2>1. \A s \in Source : \A i \in 1..Len(pipe'[s]) : src[pipe'[s][i]] = s /\ line[s] < pipe'[s][i]
      BY <1>d DEF Has, LogInv, PipeInv
    <2> QED BY <1>u, <1>f, <2>1 DEF LogInv, PipeInv
  <1>3. RingInv'
    <2>1. \A s \in Source : \A i \in 1..Len(pipe'[s]) : Below(src, ring, s, pipe'[s][i])
      BY <1>d DEF Has, LogInv, RingInv
    <2> QED BY <1>u, <2>1 DEF LogInv, RingInv
  <1>4. StreamInv'
    <2>1. ASSUME NEW x \in Client, NEW t \in Source, NEW i \in 1..Len(pipe'[t])
          PROVE  Below(src, seen[x], t, pipe'[t][i]) /\ Below(src, chan[x], t, pipe'[t][i])
      BY <1>d DEF Has, LogInv, StreamInv
    <2> QED BY <1>u, <2>1 DEF LogInv, StreamInv
  <1>5. SendInv'
    BY <1>u DEF LogInv, SendInv
  <1>6. IdleInv'
    BY <1>u DEF LogInv, IdleInv
  <1>7. GapInv'
    BY <1>u DEF LogInv, GapInv, Explained
  <1> QED BY <1>1, <1>2, <1>3, <1>4, <1>5, <1>6, <1>7 DEF LogInv

\* The verdict: the channels are closed and nobody is a subscriber any more.
LEMMA PublishStep ==
    ASSUME LogInv, Log!publishVerdict
    PROVE  LogInv'
  <1>u. /\ src' = src /\ pipe' = pipe /\ child' = child /\ closed' = closed
        /\ line' = line /\ pending' = pending /\ draining' = draining /\ retry' = retry
        /\ ring' = ring /\ chan' = chan /\ disk' = disk /\ ws' = ws
        /\ seen' = seen /\ dropped' = dropped /\ panicked' = panicked
    BY DEF Log!publishVerdict, Log!sendVars, Log!streamVars, Log!chanVars, Log!waitVars
  <1>a. /\ wait' = "published" /\ subs' = {} /\ isOpen' \in [Client -> BOOLEAN]
    BY DEF Log!publishVerdict, Log!closeChannels, LogInv, Log!TypeOK
  <1>1. Log!TypeOK'
    BY <1>u, <1>a DEF LogInv, Log!TypeOK
  <1>2. PipeInv'
    BY <1>u DEF LogInv, PipeInv
  <1>3. RingInv'
    BY <1>u DEF LogInv, RingInv
  <1>4. StreamInv'
    BY <1>u DEF LogInv, StreamInv
  <1>5. SendInv'
    BY <1>u DEF LogInv, SendInv
  <1>6. IdleInv'
    BY <1>u, <1>a DEF LogInv, IdleInv
  <1>7. GapInv'
    BY <1>u, <1>a DEF LogInv, GapInv, Explained
  <1> QED BY <1>1, <1>2, <1>3, <1>4, <1>5, <1>6, <1>7 DEF LogInv

\* The ring goes to disk.
LEMMA FlushStep ==
    ASSUME LogInv, Log!flushJobLog
    PROVE  LogInv'
  <1>u. /\ src' = src /\ pipe' = pipe /\ child' = child /\ closed' = closed
        /\ line' = line /\ pending' = pending /\ draining' = draining /\ retry' = retry
        /\ ring' = ring /\ subs' = subs /\ chan' = chan /\ isOpen' = isOpen
        /\ ws' = ws /\ seen' = seen /\ dropped' = dropped /\ panicked' = panicked
    BY DEF Log!flushJobLog, Log!sendVars, Log!streamVars, Log!chanVars, Log!waitVars
  <1>a. wait' = "flushed" /\ disk' \in Seq(0..Lines)
    <2>1. ring \in Seq(1..Lines) /\ 1..Lines \subseteq 0..Lines /\ 0 \in 0..Lines
      BY LinesAreNumbers DEF LogInv, Log!TypeOK, Log!Line
    <2>2. ring \in Seq(0..Lines)
      BY <2>1, SeqMonotonic
    <2>3. <<0>> \in Seq(0..Lines)
      BY <2>1
    <2> QED BY <2>2, <2>3 DEF Log!flushJobLog, Log!NoFile
  <1>1. Log!TypeOK'
    BY <1>u, <1>a DEF LogInv, Log!TypeOK
  <1>2. PipeInv'
    BY <1>u DEF LogInv, PipeInv
  <1>3. RingInv'
    BY <1>u DEF LogInv, RingInv
  <1>4. StreamInv'
    BY <1>u DEF LogInv, StreamInv
  <1>5. SendInv'
    BY <1>u DEF LogInv, SendInv
  <1>6. IdleInv'
    BY <1>u DEF LogInv, IdleInv
  <1>7. GapInv'
    BY <1>u DEF LogInv, GapInv, Explained
  <1> QED BY <1>1, <1>2, <1>3, <1>4, <1>5, <1>6, <1>7 DEF LogInv

\* A client subscribes: it is sent the ring, and nothing waits for it.
LEMMA SubscribeStep ==
    ASSUME LogInv, NEW c \in Client, Log!subscribe(c)
    PROVE  LogInv'
  <1>u. /\ src' = src /\ pipe' = pipe /\ child' = child /\ closed' = closed
        /\ line' = line /\ pending' = pending /\ draining' = draining /\ retry' = retry
        /\ ring' = ring /\ chan' = chan /\ isOpen' = isOpen /\ wait' = wait
        /\ disk' = disk /\ dropped' = dropped /\ panicked' = panicked
    BY DEF Log!subscribe, Log!sendVars, Log!streamVars, Log!chanVars, Log!waitVars
  <1>c. /\ \A t \in Source : pipe[t] \in Seq(Log!Line)
        /\ ring \in Seq(Log!Line) /\ \A x \in Client : seen[x] \in Seq(Log!Line) /\ chan[x] \in Seq(Log!Line)
    BY DEF LogInv, Log!TypeOK
  <1>a. /\ ws[c] = "idle" /\ chan[c] = <<>>
        /\ ws'[c] = "streaming" /\ seen'[c] = ring /\ subs' = subs \union {c}
        /\ \A x \in Client : x # c => ws'[x] = ws[x] /\ seen'[x] = seen[x]
        /\ ws' \in [Client -> {"idle", "streaming", "ended", "gone"}]
        /\ seen' \in [Client -> Seq(Log!Line)]
    BY <1>c DEF Log!subscribe, Log!history, LogInv, Log!TypeOK, IdleInv
  <1>b. \A t \in Source : \A x \in pending[t] : x \in Client /\ x # c
    BY <1>a DEF LogInv, SendInv, Log!TypeOK
  <1>1. Log!TypeOK'
    BY <1>u, <1>a DEF LogInv, Log!TypeOK
  <1>2. PipeInv'
    BY <1>u DEF LogInv, PipeInv
  <1>3. RingInv'
    BY <1>u DEF LogInv, RingInv
  <1>4. StreamInv'
    <2>1. /\ Written(src, ring) /\ Rising(src, ring) /\ Before(src, ring, chan[c])
          /\ \A s \in Source : \A i \in 1..Len(pipe[s]) : Below(src, ring, s, pipe[s][i])
      BY <1>a DEF LogInv, RingInv, Before
    <2>2. ASSUME NEW x \in Client
          PROVE  /\ Written(src, seen'[x]) /\ Rising(src, seen'[x]) /\ Before(src, seen'[x], chan[x])
                 /\ \A s \in Source : \A i \in 1..Len(pipe[s]) : Below(src, seen'[x], s, pipe[s][i])
      <3>1. CASE x = c
        BY <1>a, <2>1, <3>1
      <3>2. CASE x # c
        BY <1>a, <3>2 DEF LogInv, StreamInv
      <3> QED BY <3>1, <3>2
    <2> QED BY <1>u, <2>2 DEF LogInv, StreamInv
  <1>5. SendInv'
    <2>1. \A t \in Source : \A x \in pending[t] : ws'[x] = ws[x] /\ seen'[x] = seen[x]
      BY <1>a, <1>b
    <2> QED BY <1>u, <2>1 DEF LogInv, SendInv
  <1>6. IdleInv'
    BY <1>u, <1>a DEF LogInv, IdleInv
  <1>7. GapInv'
    <2> SUFFICES ASSUME NEW x \in subs \union {c}, NEW i \in 1..Len(ring)
                 PROVE  \/ Has(seen'[x], ring[i]) \/ Has(chan[x], ring[i])
                        \/ \E t \in Source : x \in pending[t] /\ line[t] = ring[i]
                        \/ ring[i] \in dropped[x]
      BY <1>u, <1>a DEF GapInv, Explained
    <2>1. CASE x = c
      BY <1>a, <2>1 DEF Has
    <2>2. CASE x # c
      <3>1. Explained(x, ring[i]) /\ x \in Client
        BY <2>2 DEF LogInv, GapInv, Log!TypeOK
      <3> QED BY <1>a, <2>2, <3>1 DEF Explained
    <2> QED BY <2>1, <2>2
  <1> QED BY <1>1, <1>2, <1>3, <1>4, <1>5, <1>6, <1>7 DEF LogInv

\* A client receives the first line of its channel.
LEMMA ReceiveStep ==
    ASSUME LogInv, NEW c \in Client, Log!receive(c)
    PROVE  LogInv'
  <1>u. /\ src' = src /\ pipe' = pipe /\ child' = child /\ closed' = closed
        /\ line' = line /\ pending' = pending /\ draining' = draining /\ retry' = retry
        /\ ring' = ring /\ subs' = subs /\ isOpen' = isOpen /\ wait' = wait
        /\ disk' = disk /\ ws' = ws /\ dropped' = dropped /\ panicked' = panicked
    BY DEF Log!receive, Log!sendVars, Log!streamVars, Log!chanVars, Log!waitVars
  <1>c. /\ \A t \in Source : pipe[t] \in Seq(Log!Line)
        /\ ring \in Seq(Log!Line) /\ \A x \in Client : seen[x] \in Seq(Log!Line) /\ chan[x] \in Seq(Log!Line)
    BY DEF LogInv, Log!TypeOK
  <1> DEFINE h == Head(chan[c])
             r == Tail(chan[c])
             q == Append(seen[c], h)
  <1>a. /\ chan[c] # <<>> /\ ws[c] = "streaming"
        /\ chan' = [chan EXCEPT ![c] = r] /\ seen' = [seen EXCEPT ![c] = q]
    BY DEF Log!receive
  <1>b. /\ Written(src, seen[c]) /\ Written(src, chan[c]) /\ Rising(src, seen[c])
        /\ Rising(src, chan[c]) /\ Before(src, seen[c], chan[c])
    BY DEF LogInv, StreamInv
  <1>d. /\ h \in Log!Line /\ h \in 1..Len(src)
        /\ \A k \in 1..Len(r) : src[r[k]] = src[h] => h < r[k]
        /\ \A s, n : Below(src, chan[c], s, n) /\ src[h] = s => h < n
        /\ Below(src, seen[c], src[h], h)
        /\ \A n : Has(chan[c], n) <=> Has(r, n) \/ n = h
    BY <1>a, <1>b, <1>c, LinesAreNumbers, HeadFirst
  <1>e. r \in Seq(Log!Line) /\ Part(r, chan[c]) /\ Len(r) <= Len(chan[c])
    BY <1>a, <1>c, HeadTailProperties, Parts
  <1>r. /\ Written(src, r) /\ Rising(src, r) /\ Before(src, seen[c], r)
        /\ \A s, n : Below(src, chan[c], s, n) => Below(src, r, s, n)
    <2> HIDE DEF r
    <2> QED BY <1>b, <1>c, <1>e, LinesAreNumbers, PartKeeps
  <1>q. /\ q \in Seq(Log!Line) /\ Written(src, q) /\ Rising(src, q) /\ Before(src, q, r)
        /\ \A s, n : Below(src, seen[c], s, n) /\ (src[h] = s => h < n) => Below(src, q, s, n)
        /\ \A n : Has(q, n) <=> Has(seen[c], n) \/ n = h
    <2> HIDE DEF r, h
    <2> QED BY <1>b, <1>c, <1>d, <1>e, <1>r, LinesAreNumbers, AppendKeeps
  <1>x. \A s, n : Below(src, seen[c], s, n) /\ Below(src, chan[c], s, n) =>
                     Below(src, q, s, n) /\ Below(src, r, s, n)
    <2> HIDE DEF r, h, q
    <2> QED BY <1>d, <1>r, <1>q
  <1>f. /\ chan'[c] = r /\ seen'[c] = q
        /\ \A x \in Client : x # c => chan'[x] = chan[x] /\ seen'[x] = seen[x]
    BY <1>a DEF LogInv, Log!TypeOK
  <1> HIDE DEF r, h, q
  <1>1. Log!TypeOK'
    <2>1. Len(chan[c]) \in Nat /\ Len(r) \in Nat /\ Len(chan[c]) <= SubscriberBuffer
      BY <1>c, <1>e DEF LogInv, Log!TypeOK
    <2>2. Len(r) <= SubscriberBuffer
      BY <1>e, <2>1, LinesAreNumbers
    <2>3. \A x \in Client : Len(chan'[x]) <= SubscriberBuffer
      BY <1>f, <2>2 DEF LogInv, Log!TypeOK
    <2>4. chan' \in [Client -> Seq(Log!Line)] /\ seen' \in [Client -> Seq(Log!Line)]
      BY <1>a, <1>e, <1>q DEF LogInv, Log!TypeOK
    <2> QED BY <1>u, <2>3, <2>4 DEF LogInv, Log!TypeOK
  <1>2. PipeInv'
    BY <1>u DEF LogInv, PipeInv
  <1>3. RingInv'
    BY <1>u DEF LogInv, RingInv
  <1>4. StreamInv'
    <2>1. ASSUME NEW x \in Client
          PROVE  /\ Written(src, seen'[x]) /\ Written(src, chan'[x])
                 /\ Rising(src, seen'[x]) /\ Rising(src, chan'[x]) /\ Before(src, seen'[x], chan'[x])
                 /\ \A s \in Source : \A i \in 1..Len(pipe[s]) :
                       Below(src, seen'[x], s, pipe[s][i]) /\ Below(src, chan'[x], s, pipe[s][i])
      <3>1. CASE x = c
        <4>1. \A s \in Source : \A i \in 1..Len(pipe[s]) :
                 Below(src, q, s, pipe[s][i]) /\ Below(src, r, s, pipe[s][i])
          BY <1>x DEF LogInv, StreamInv
        <4> QED BY <1>f, <1>r, <1>q, <3>1, <4>1
      <3>2. CASE x # c
        BY <1>f, <3>2 DEF LogInv, StreamInv
      <3> QED BY <3>1, <3>2
    <2> QED BY <1>u, <2>1 DEF StreamInv
  <1>5. SendInv'
    <2>1. ASSUME NEW t \in Source, NEW x \in pending[t]
          PROVE  Below(src, seen'[x], t, line[t]) /\ Below(src, chan'[x], t, line[t])
      <3>1. x \in Client /\ Below(src, seen[x], t, line[t]) /\ Below(src, chan[x], t, line[t])
        BY DEF LogInv, SendInv, Log!TypeOK
      <3> QED BY <1>f, <1>x, <3>1
    <2> QED BY <1>u, <2>1 DEF LogInv, SendInv
  <1>6. IdleInv'
    BY <1>u, <1>a, <1>f DEF LogInv, IdleInv
  <1>7. GapInv'
    <2> SUFFICES ASSUME NEW x \in subs, NEW i \in 1..Len(ring)
                 PROVE  \/ Has(seen'[x], ring[i]) \/ Has(chan'[x], ring[i])
                        \/ \E t \in Source : x \in pending[t] /\ line[t] = ring[i]
                        \/ ring[i] \in dropped[x]
      BY <1>u DEF GapInv, Explained
    <2>1. Explained(x, ring[i]) /\ x \in Client
      BY DEF LogInv, GapInv, Log!TypeOK
    <2> QED BY <1>f, <1>d, <1>q, <2>1 DEF Explained
  <1> QED BY <1>1, <1>2, <1>3, <1>4, <1>5, <1>6, <1>7 DEF LogInv

\* A client finds its channel closed.
LEMMA ReceiveClosedStep ==
    ASSUME LogInv, NEW c \in Client, Log!receiveClosed(c)
    PROVE  LogInv'
  <1>u. /\ src' = src /\ pipe' = pipe /\ child' = child /\ closed' = closed
        /\ line' = line /\ pending' = pending /\ draining' = draining /\ retry' = retry
        /\ ring' = ring /\ subs' = subs /\ chan' = chan /\ isOpen' = isOpen
        /\ wait' = wait /\ disk' = disk /\ seen' = seen /\ dropped' = dropped
        /\ panicked' = panicked
    BY DEF Log!receiveClosed, Log!sendVars, Log!streamVars, Log!chanVars, Log!waitVars
  <1>a. /\ ws' \in [Client -> {"idle", "streaming", "ended", "gone"}]
        /\ \A x \in Client : ws'[x] = "idle" <=> ws[x] = "idle"
    BY DEF Log!receiveClosed, LogInv, Log!TypeOK
  <1>b. \A t \in Source : \A x \in pending[t] : x \in Client
    BY DEF LogInv, Log!TypeOK
  <1>1. Log!TypeOK'
    BY <1>u, <1>a DEF LogInv, Log!TypeOK
  <1>2. PipeInv'
    BY <1>u DEF LogInv, PipeInv
  <1>3. RingInv'
    BY <1>u DEF LogInv, RingInv
  <1>4. StreamInv'
    BY <1>u DEF LogInv, StreamInv
  <1>5. SendInv'
    BY <1>u, <1>a, <1>b DEF LogInv, SendInv
  <1>6. IdleInv'
    BY <1>u, <1>a DEF LogInv, IdleInv
  <1>7. GapInv'
    BY <1>u DEF LogInv, GapInv, Explained
  <1> QED BY <1>1, <1>2, <1>3, <1>4, <1>5, <1>6, <1>7 DEF LogInv

\* A client disconnects.
LEMMA DisconnectStep ==
    ASSUME LogInv, NEW c \in Client, Log!disconnect(c)
    PROVE  LogInv'
  <1>u. /\ src' = src /\ pipe' = pipe /\ child' = child /\ closed' = closed
        /\ line' = line /\ pending' = pending /\ draining' = draining /\ retry' = retry
        /\ ring' = ring /\ chan' = chan /\ isOpen' = isOpen /\ wait' = wait
        /\ disk' = disk /\ seen' = seen /\ dropped' = dropped /\ panicked' = panicked
    BY DEF Log!disconnect, Log!sendVars, Log!streamVars, Log!chanVars, Log!waitVars
  <1>a. /\ ws' \in [Client -> {"idle", "streaming", "ended", "gone"}]
        /\ \A x \in Client : ws'[x] = "idle" <=> ws[x] = "idle"
        /\ subs' = subs \ {c} /\ subs' \in SUBSET Client
    BY DEF Log!disconnect, LogInv, Log!TypeOK
  <1>b. \A t \in Source : \A x \in pending[t] : x \in Client
    BY DEF LogInv, Log!TypeOK
  <1>1. Log!TypeOK'
    BY <1>u, <1>a DEF LogInv, Log!TypeOK
  <1>2. PipeInv'
    BY <1>u DEF LogInv, PipeInv
  <1>3. RingInv'
    BY <1>u DEF LogInv, RingInv
  <1>4. StreamInv'
    BY <1>u DEF LogInv, StreamInv
  <1>5. SendInv'
    BY <1>u, <1>a, <1>b DEF LogInv, SendInv
  <1>6. IdleInv'
    BY <1>u, <1>a DEF LogInv, IdleInv
  <1>7. GapInv'
    BY <1>u, <1>a DEF LogInv, GapInv, Explained
  <1> QED BY <1>1, <1>2, <1>3, <1>4, <1>5, <1>6, <1>7 DEF LogInv

-----------------------------------------------------------------------------
\* The invariant holds in every state of the log: the ring and the channels
\* stay within their bounds, and a line is never in two of the places it
\* passes through, pipe, tail, channel and client, out of order.
THEOREM LogInvariant == Log!Spec => []LogInv
  <1>1. Log!Init => LogInv
    <2> SUFFICES ASSUME Log!Init PROVE LogInv
      OBVIOUS
    <2>1. /\ src = <<>> /\ pipe = [s \in Source |-> <<>>] /\ line = [s \in Source |-> 0]
          /\ pending = [s \in Source |-> {}] /\ draining = [s \in Source |-> {}]
          /\ retry = [s \in Source |-> {}] /\ ring = <<>> /\ subs = {}
          /\ chan = [c \in Client |-> <<>>] /\ seen = [c \in Client |-> <<>>]
          /\ dropped = [c \in Client |-> {}]
      BY DEF Log!Init
    <2>2. Log!TypeOK
      <3>1. disk \in Seq(0..Lines)
        BY LinesAreNumbers DEF Log!Init, Log!NoFile
      <3>2. \A c \in Client : Len(chan[c]) <= SubscriberBuffer
        BY <2>1, LinesAreNumbers
      <3>3. /\ src \in Seq(Source) /\ Len(src) <= Lines
            /\ ring \in Seq(Log!Line) /\ Len(ring) <= RingBufferSize
        BY <2>1, LinesAreNumbers
      <3>4. /\ <<>> \in Seq(Log!Line) /\ 0 \in 0..Lines
        BY LinesAreNumbers
      <3>5. /\ pipe \in [Source -> Seq(Log!Line)] /\ chan \in [Client -> Seq(Log!Line)]
            /\ seen \in [Client -> Seq(Log!Line)] /\ line \in [Source -> 0..Lines]
            /\ dropped \in [Client -> SUBSET Log!Line]
        BY <2>1, <3>4
      <3>6. /\ pending \in [Source -> SUBSET Client] /\ draining \in [Source -> SUBSET Client]
            /\ retry \in [Source -> SUBSET Client] /\ subs \in SUBSET Client
        BY <2>1
      <3> QED BY <3>1, <3>2, <3>3, <3>5, <3>6 DEF Log!Init, Log!TypeOK
    <2>3. PipeInv /\ RingInv /\ StreamInv
      BY <2>1 DEF PipeInv, RingInv, StreamInv, Written, Rising, Before, Below
    <2>4. SendInv /\ IdleInv /\ GapInv
      BY <2>1 DEF SendInv, IdleInv, GapInv
    <2> QED BY <2>2, <2>3, <2>4 DEF LogInv
  <1>2. LogInv /\ [Log!Next]_Log!vars => LogInv'
    <2> SUFFICES ASSUME LogInv, [Log!Next]_Log!vars PROVE LogInv'
      OBVIOUS
    <2>1. ASSUME NEW s \in Source, Log!childWrites(s) PROVE LogInv'
      BY <2>1, WritesLineStep
    <2>2. ASSUME NEW s \in Source, Log!appendLine(s) PROVE LogInv'
      BY <2>2, AppendLineStep
    <2>3. ASSUME NEW s \in Source, Log!nextLine(s) PROVE LogInv'
      BY <2>3, NextLineStep
    <2>4. ASSUME NEW s \in Source, NEW c \in Client, Log!sendLine(s, c) PROVE LogInv'
      <3>1. CASE ~isOpen[c] /\ Log!panic
        BY <2>4, <3>1, PanicStep DEF Log!sendLine
      <3>2. CASE isOpen[c] /\ Len(chan[c]) < SubscriberBuffer /\ Log!deliver(s, c)
        BY <2>4, <3>2, DeliverStep DEF Log!sendLine
      <3>3. CASE /\ draining' = [draining EXCEPT ![s] = {c}]
                 /\ UNCHANGED <<pending, retry, Log!chanVars>>
        BY <2>4, <3>3, FullStep DEF Log!sendLine
      <3> QED BY <2>4, <3>1, <3>2, <3>3 DEF Log!sendLine
    <2>5. ASSUME NEW s \in Source, NEW c \in Client, Log!drainOldest(s, c) PROVE LogInv'
      BY <2>5, DrainStep
    <2>6. ASSUME NEW s \in Source, NEW c \in Client, Log!sendAgain(s, c) PROVE LogInv'
      <3>0. c \in pending[s] /\ draining[s] = {}
        BY <2>6 DEF Log!sendAgain, LogInv, SendInv
      <3>1. CASE ~isOpen[c] /\ Log!panic
        BY <2>6, <3>1, PanicStep DEF Log!sendAgain
      <3>2. CASE isOpen[c] /\ Len(chan[c]) < SubscriberBuffer /\ Log!deliver(s, c)
        BY <2>6, <3>0, <3>2, DeliverStep DEF Log!sendAgain
      <3>3. CASE /\ dropped' = [dropped EXCEPT ![c] = dropped[c] \union {line[s]}]
                 /\ pending' = [pending EXCEPT ![s] = pending[s] \ {c}]
                 /\ retry' = [retry EXCEPT ![s] = {}]
                 /\ UNCHANGED <<draining, chan, isOpen, panicked>>
        BY <2>6, <3>3, DropStep DEF Log!sendAgain
      <3> QED BY <2>6, <3>1, <3>2, <3>3 DEF Log!sendAgain
    <2>7. CASE Log!childExits
      BY <2>7, ChildExitsStep
    <2>8. CASE Log!WaitStep
      BY <2>8, WaitClosesStep, PublishStep, FlushStep DEF Log!WaitStep
    <2>9. ASSUME NEW c \in Client,
                 Log!subscribe(c) \/ Log!ClientStep(c) \/ Log!disconnect(c)
          PROVE  LogInv'
      BY <2>9, SubscribeStep, ReceiveStep, ReceiveClosedStep, DisconnectStep DEF Log!ClientStep
    <2>10. CASE UNCHANGED Log!vars
      <3> SUFFICES ASSUME UNCHANGED Log!vars PROVE LogInv'
        BY <2>10
      <3>1. /\ src' = src /\ pipe' = pipe /\ child' = child /\ closed' = closed
            /\ line' = line /\ pending' = pending /\ draining' = draining /\ retry' = retry
            /\ ring' = ring /\ subs' = subs /\ chan' = chan /\ isOpen' = isOpen
            /\ wait' = wait /\ disk' = disk /\ ws' = ws /\ seen' = seen
            /\ dropped' = dropped /\ panicked' = panicked
        BY DEF Log!vars, Log!sendVars
      <3>2. Log!TypeOK' /\ PipeInv' /\ RingInv' /\ StreamInv'
        BY <3>1 DEF LogInv, Log!TypeOK, PipeInv, RingInv, StreamInv
      <3>3. SendInv' /\ IdleInv' /\ GapInv'
        BY <3>1 DEF LogInv, SendInv, IdleInv, GapInv, Explained
      <3> QED BY <3>2, <3>3 DEF LogInv
    <2> QED BY <2>1, <2>2, <2>3, <2>4, <2>5, <2>6, <2>7, <2>8, <2>9, <2>10
            DEF Log!Next, Log!TailStep
  <1> QED BY <1>1, <1>2, PTL DEF Log!Spec

\* Two rising sequences, one before the other, rise together.
LEMMA ConcatRises ==
    ASSUME NEW S \in SUBSET Nat, NEW p \in Seq(S), NEW q \in Seq(S), NEW f,
           Rising(f, p), Rising(f, q), Before(f, p, q)
    PROVE  Rising(f, p \o q)
  <1>1. /\ Len(p) \in Nat /\ Len(q) \in Nat /\ Len(p \o q) = Len(p) + Len(q)
        /\ \A i \in 1..Len(p) + Len(q) :
              (p \o q)[i] = IF i <= Len(p) THEN p[i] ELSE q[i - Len(p)]
    BY ConcatProperties
  <1> SUFFICES ASSUME NEW i \in 1..Len(p) + Len(q), NEW k \in 1..Len(p) + Len(q), i < k,
                      f[(p \o q)[i]] = f[(p \o q)[k]]
               PROVE  (p \o q)[i] < (p \o q)[k]
    BY <1>1 DEF Rising
  <1>2. CASE k <= Len(p)
    <2>1. i \in 1..Len(p) /\ k \in 1..Len(p) /\ (p \o q)[i] = p[i] /\ (p \o q)[k] = p[k]
      BY <1>1, <1>2
    <2> QED BY <2>1 DEF Rising
  <1>3. CASE i <= Len(p) /\ ~(k <= Len(p))
    <2>1. i \in 1..Len(p) /\ k - Len(p) \in 1..Len(q)
      BY <1>1, <1>3
    <2>2. (p \o q)[i] = p[i] /\ (p \o q)[k] = q[k - Len(p)]
      BY <1>1, <1>3
    <2> QED BY <2>1, <2>2 DEF Before
  <1>4. CASE ~(i <= Len(p)) /\ ~(k <= Len(p))
    <2>1. i - Len(p) \in 1..Len(q) /\ k - Len(p) \in 1..Len(q) /\ i - Len(p) < k - Len(p)
      BY <1>1, <1>4
    <2>2. (p \o q)[i] = q[i - Len(p)] /\ (p \o q)[k] = q[k - Len(p)]
      BY <1>1, <1>4
    <2> QED BY <2>1, <2>2 DEF Rising
  <1> QED BY <1>1, <1>2, <1>3, <1>4

\* What is in one of two sequences is in the two together.
LEMMA ConcatHas ==
    ASSUME NEW S, NEW p \in Seq(S), NEW q \in Seq(S)
    PROVE  \A n : Has(p, n) \/ Has(q, n) => Has(p \o q, n)
  <1>1. /\ Len(p) \in Nat /\ Len(q) \in Nat /\ Len(p \o q) = Len(p) + Len(q)
        /\ \A i \in 1..Len(p) + Len(q) :
              (p \o q)[i] = IF i <= Len(p) THEN p[i] ELSE q[i - Len(p)]
    BY ConcatProperties
  <1>2. ASSUME NEW n, Has(p, n) PROVE Has(p \o q, n)
    <2>1. PICK i \in 1..Len(p) : p[i] = n
      BY <1>2 DEF Has
    <2>2. i \in 1..Len(p) + Len(q) /\ (p \o q)[i] = n
      BY <1>1, <2>1
    <2> QED BY <1>1, <2>2 DEF Has
  <1>3. ASSUME NEW n, Has(q, n) PROVE Has(p \o q, n)
    <2>1. PICK i \in 1..Len(q) : q[i] = n
      BY <1>3 DEF Has
    <2>2. i + Len(p) \in 1..Len(p) + Len(q) /\ ~(i + Len(p) <= Len(p)) /\ (i + Len(p)) - Len(p) = i
      BY <1>1
    <2>3. (p \o q)[i + Len(p)] = n
      BY <1>1, <2>1, <2>2
    <2> QED BY <1>1, <2>2, <2>3 DEF Has
  <1> QED BY <1>2, <1>3

\* What a client is shown of a job is the job's output in order, each line at
\* most once, and whole but for the lines its full channel dropped, whatever
\* the number of lines, of clients and of pipes and the sizes of the buffers
\* (appendLine, subscribe, handleJobLogsWS).
THEOREM LogFaithful == Log!Spec => []StreamFaithful
  <1>1. LogInv => StreamFaithful
    <2> SUFFICES ASSUME LogInv PROVE StreamFaithful
      OBVIOUS
    <2>0. Log!Line \in SUBSET Nat /\ \A c \in Client : seen[c] \in Seq(Log!Line) /\ chan[c] \in Seq(Log!Line)
      BY LinesAreNumbers DEF LogInv, Log!TypeOK
    <2>1. Log!StreamInOrder
      <3>1. \A c \in Client : Rising(src, seen[c] \o chan[c])
        BY <2>0, ConcatRises DEF LogInv, StreamInv
      <3> QED BY <3>1 DEF Log!StreamInOrder, Log!Stream, Rising
    <2>2. Log!NoUnexplainedGap
      <3> SUFFICES ASSUME NEW c \in Client, c \in subs, NEW i \in 1..Len(ring)
                   PROVE  \/ \E k \in 1..Len(seen[c] \o chan[c]) : (seen[c] \o chan[c])[k] = ring[i]
                          \/ \E s \in Source : c \in pending[s] /\ line[s] = ring[i]
                          \/ ring[i] \in dropped[c]
        <4>1. ring \in Seq(Log!Line) /\ \A x \in Client : seen[x] \o chan[x] \in Seq(Log!Line)
          BY <2>0, ConcatProperties DEF LogInv, Log!TypeOK
        <4>2. DOMAIN ring = 1..Len(ring)
              /\ \A x \in Client : DOMAIN (seen[x] \o chan[x]) = 1..Len(seen[x] \o chan[x])
          BY <4>1
        <4> QED BY <4>2 DEF Log!NoUnexplainedGap, Log!Stream, Log!Owed, Log!ToSet
      <3>1. Explained(c, ring[i])
        BY DEF LogInv, GapInv
      <3>2. ASSUME Has(seen[c], ring[i]) \/ Has(chan[c], ring[i])
            PROVE  Has(seen[c] \o chan[c], ring[i])
        <4>1. seen[c] \in Seq(Log!Line) /\ chan[c] \in Seq(Log!Line)
          BY <2>0
        <4> QED BY <3>2, <4>1, ConcatHas
      <3> QED BY <3>1, <3>2 DEF Explained, Has
    <2> QED BY <2>1, <2>2 DEF LogInv, StreamFaithful, Log!StreamFaithful
  <1> QED BY <1>1, LogInvariant, PTL
=============================================================================
