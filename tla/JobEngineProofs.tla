--------------------------- MODULE JobEngineProofs ---------------------------
(***************************************************************************)
(* Proofs about JobEngine, for any finite set of jobs, any set of actions  *)
(* and any caps: its invariants, the ring of recent jobs, and that it      *)
(* implements JobLife.                                                     *)
(***************************************************************************)
EXTENDS JobEngine, FiniteSetTheorems, SequenceTheorems, TLAPS

(***************************************************************************)
(* Every step of Next is one of the actions; the proofs that a step        *)
(* preserves an invariant are by cases on them.                            *)
(***************************************************************************)
Step(j) ==
    \/ \E a \in Actions, d \in BOOLEAN : start(j, a, d)
    \/ acquireSlot(j)
    \/ finalizeUnstarted(j)
    \/ pipeFails(j)
    \/ startFails(j)
    \/ publishStartFailure(j)
    \/ startSucceeds(j)
    \/ publishRunning(j)
    \/ \E status \in {"exit0", "exitErr"} : procExits(j, status)
    \/ waitReturns(j)
    \/ runCleanup(j)
    \/ markTerminated(j)
    \/ emitTerminal(j)
    \/ release(j)
    \/ cancel(j)
    \/ cancelContext(j)

LEMMA NextSteps ==
    Next => (\E j \in Jobs : Step(j)) \/ shutdown \/ acquireMaint \/ releaseMaint
  BY DEF Next, Goroutine, Child, procKilled, Step

(***************************************************************************)
(* What semFor returns, and that an action it gates has a positive cap.    *)
(***************************************************************************)
LEMMA SemForPool ==
    ASSUME NEW a
    PROVE  /\ semFor(a) \in Pool \union {"none"}
           /\ semFor(a) \in Pool => Capacity(semFor(a)) > 0
  BY CapsNatural DEF semFor, Pool, Capacity

(***************************************************************************)
(* Where the goroutine of a job stands says which tokens it owes.  A job   *)
(* owes a token only if its action is gated; one that is queued or not yet *)
(* registered owes none; from the spawn to the exit of the child a gated   *)
(* job owes one.                                                           *)
(***************************************************************************)
SlotByPC ==
    \A j \in Jobs :
        /\ slot[j] => semFor(action[j]) # "none"
        /\ pc[j] \in {"new", "queued"} => ~slot[j]
        /\ pc[j] = "queued" => semFor(action[j]) # "none"
        /\ pc[j] \in {"spawn", "startFailed", "started", "running"}
              /\ semFor(action[j]) # "none" => slot[j]

\* A child is alive only between cmd.Start and the return of cmd.Wait.
ChildByPC ==
    \A j \in Jobs : proc[j] = "alive" => pc[j] \in {"started", "running"}

\* A semaphore's channel never holds more tokens than its capacity.
SemWithinCap == \A p \in Pool : Capacity(p) > 0 => sem[p] <= Capacity(p)

\* Once the verdict is captured, State agrees with it.
VerdictByPC ==
    \A j \in Jobs :
        pc[j] \in {"unwind", "wound", "marked", "emitted", "done"} =>
            verdict[j] \in Verdict /\ state[j] = verdict[j]

\* The inductive invariant of the semaphores.
IInv ==
    /\ TypeOK
    /\ SlotByPC
    /\ ChildByPC
    /\ SemWithinCap
    /\ VerdictByPC
    /\ TokensAccounted

-----------------------------------------------------------------------------
(***************************************************************************)
(* The tokens: taking one and giving one back keep the count exact.        *)
(***************************************************************************)
LEMMA HoldersFinite ==
    ASSUME NEW p
    PROVE  /\ IsFiniteSet(Holders(p))
           /\ Cardinality(Holders(p)) \in Nat
  <1>1. Holders(p) \subseteq Jobs
    BY DEF Holders
  <1> QED BY <1>1, JobsFinite, FS_Subset, FS_CardinalityType

LEMMA SameHolders ==
    ASSUME TokensAccounted, slot' = slot, sem' = sem, warm' = warm,
           \A j \in Jobs : slot[j] => action'[j] = action[j]
    PROVE  TokensAccounted'
  <1>1. ASSUME NEW p \in Pool
        PROVE  Holders(p)' = Holders(p) /\ Warming(p)' = Warming(p)
    BY DEF Holders, Warming
  <1> QED BY <1>1 DEF TokensAccounted

LEMMA TakeToken ==
    ASSUME TypeOK, TokensAccounted, SlotByPC, NEW j \in Jobs, acquireSlot(j)
    PROVE  TokensAccounted'
  <1> DEFINE p == semFor(action[j])
  <1>1. p \in Pool /\ ~slot[j]
    BY SemForPool DEF acquireSlot, SlotByPC
  <1>2. Holders(p)' = Holders(p) \union {j} /\ j \notin Holders(p)
    BY <1>1 DEF acquireSlot, Holders, TypeOK
  <1>3. Cardinality(Holders(p)') = Cardinality(Holders(p)) + 1
    BY <1>2, HoldersFinite, FS_AddElement
  <1>4. ASSUME NEW q \in Pool, q # p PROVE Holders(q)' = Holders(q)
    BY <1>1, <1>4 DEF acquireSlot, Holders, TypeOK
  <1>5. \A q \in Pool : Warming(q)' = Warming(q) /\ Warming(q) \in Nat
    BY DEF acquireSlot, Warming
  <1>6. sem'[p] = sem[p] + 1 /\ \A q \in Pool : q # p => sem'[q] = sem[q]
    BY <1>1 DEF acquireSlot, TypeOK
  <1>7. ASSUME NEW q \in Pool
        PROVE  sem'[q] = Cardinality(Holders(q)') + Warming(q)'
    <2>1. CASE q = p
      <3>1. Holders(q)' = Holders(p)'
        BY <2>1 DEF Holders, acquireSlot
      <3>2. Cardinality(Holders(q)') = Cardinality(Holders(q)) + 1
        BY <2>1, <3>1, <1>3
      <3> QED BY <2>1, <3>2, <1>5, <1>6, HoldersFinite DEF TokensAccounted
    <2>2. CASE q # p
      BY <2>2, <1>4, <1>5, <1>6 DEF TokensAccounted
    <2> QED BY <2>1, <2>2
  <1> QED BY <1>7 DEF TokensAccounted

LEMMA GiveToken ==
    ASSUME TypeOK, TokensAccounted, SlotByPC, NEW j \in Jobs,
           GiveSlotBack(j), action' = action, warm' = warm
    PROVE  /\ TokensAccounted'
           /\ sem' \in [Pool -> Nat]
           /\ \A q \in Pool : sem'[q] <= sem[q]
  <1> DEFINE p == semFor(action[j])
  <1>0. CASE ~slot[j]
    <2>1. slot' = slot /\ sem' = sem
      BY <1>0 DEF GiveSlotBack
    <2>2. TokensAccounted'
      BY <2>1, SameHolders
    <2> QED BY <2>1, <2>2 DEF TypeOK
  <1> SUFFICES ASSUME slot[j]
               PROVE  /\ TokensAccounted'
                      /\ sem' \in [Pool -> Nat]
                      /\ \A q \in Pool : sem'[q] <= sem[q]
    BY <1>0
  <1>1. p \in Pool
    BY SemForPool DEF SlotByPC
  <1>2. Holders(p)' = Holders(p) \ {j} /\ j \in Holders(p)
    BY <1>1 DEF GiveSlotBack, Holders, TypeOK
  <1>3. /\ Cardinality(Holders(p)') = Cardinality(Holders(p)) - 1
        /\ Cardinality(Holders(p)') \in Nat
    <2>1. IsFiniteSet(Holders(p) \ {j})
      BY HoldersFinite, FS_RemoveElement
    <2> QED BY <1>2, <2>1, HoldersFinite, FS_RemoveElement, FS_CardinalityType
  <1>4. ASSUME NEW q \in Pool, q # p PROVE Holders(q)' = Holders(q)
    BY <1>1, <1>4 DEF GiveSlotBack, Holders, TypeOK
  <1>5. \A q \in Pool : Warming(q)' = Warming(q) /\ Warming(q) \in Nat
    BY DEF Warming
  <1>6. sem'[p] = sem[p] - 1 /\ \A q \in Pool : q # p => sem'[q] = sem[q]
    BY <1>1 DEF GiveSlotBack, TypeOK
  <1>7. ASSUME NEW q \in Pool
        PROVE  sem'[q] = Cardinality(Holders(q)') + Warming(q)' /\ sem'[q] <= sem[q]
    <2>1. CASE q = p
      <3>1. Holders(q)' = Holders(p)'
        BY <2>1 DEF Holders
      <3>2. Cardinality(Holders(q)') = Cardinality(Holders(q)) - 1
        BY <2>1, <3>1, <1>3
      <3> QED BY <2>1, <3>2, <1>5, <1>6, HoldersFinite DEF TokensAccounted, TypeOK
    <2>2. CASE q # p
      BY <2>2, <1>4, <1>5, <1>6 DEF TokensAccounted, TypeOK
    <2> QED BY <2>1, <2>2
  <1>8. ASSUME NEW q \in Pool PROVE sem'[q] \in Nat
    <2>1. Cardinality(Holders(q)') \in Nat
      <3>1. CASE q = p
        <4>1. Holders(q)' = Holders(p)'
          BY <3>1 DEF Holders
        <4> QED BY <4>1, <1>3
      <3>2. CASE q # p
        BY <3>2, <1>4, HoldersFinite
      <3> QED BY <3>1, <3>2
    <2>2. Warming(q)' \in Nat
      BY <1>5
    <2> QED BY <1>7, <2>1, <2>2
  <1>9. sem' = [sem EXCEPT ![p] = @ - 1]
    BY DEF GiveSlotBack
  <1>10. sem' \in [Pool -> Nat]
    BY <1>8, <1>9 DEF TypeOK
  <1> QED BY <1>7, <1>10 DEF TokensAccounted

-----------------------------------------------------------------------------
LEMMA InitTypeOK == Init => TypeOK
  <1> SUFFICES ASSUME Init PROVE TypeOK
    OBVIOUS
  <1>1. /\ jobs \in SUBSET Jobs
        /\ terminal \in Seq(Jobs)
        /\ sem \in [Pool -> Nat]
    BY DEF Init, newJobRegistry
  <1>2. /\ state \in [Jobs -> JobState \union {"none"}]
        /\ action \in [Jobs -> Actions \union {"none"}]
        /\ pc \in [Jobs -> PC]
        /\ proc \in [Jobs -> Proc]
        /\ verdict \in [Jobs -> Verdict \union {"none"}]
        /\ cleaned \in [Jobs -> Nat]
        /\ emitted \in [Jobs -> Seq(Event)]
    BY DEF Init, PC, Proc
  <1>3. /\ ctxDone \in [Jobs -> BOOLEAN]
        /\ detached \in [Jobs -> BOOLEAN]
        /\ slot \in [Jobs -> BOOLEAN]
        /\ cleanup \in [Jobs -> BOOLEAN]
        /\ cancelling \in [Jobs -> BOOLEAN]
        /\ cancelled \in [Jobs -> BOOLEAN]
        /\ warm \in BOOLEAN
        /\ stopping \in BOOLEAN
    BY Zenon DEF Init
  <1> QED BY <1>1, <1>2, <1>3, Zenon DEF TypeOK

LEMMA StepTypeOK ==
    ASSUME IInv, NEW j \in Jobs, Step(j)
    PROVE  TypeOK'
  <1> USE DEF IInv
  <1>1. CASE \E a \in Actions, d \in BOOLEAN : start(j, a, d)
    BY <1>1 DEF start, TypeOK, JobState, PC, semVars, cancelVars
  <1>2. CASE acquireSlot(j)
    BY <1>2, SemForPool DEF acquireSlot, TypeOK, PC, regVars, credVars, cancelVars, SlotByPC
  <1>3. CASE finalizeUnstarted(j)
    BY <1>3 DEF finalizeUnstarted, TypeOK, PC, JobState, Verdict, regVars, semVars,
                credVars, cancelVars
  <1>4. CASE pipeFails(j)
    <2>1. sem' \in [Pool -> Nat]
      BY <1>4, GiveToken DEF pipeFails
    <2>2. slot' \in [Jobs -> BOOLEAN]
      BY <1>4 DEF pipeFails, GiveSlotBack, TypeOK
    <2> QED BY <1>4, <2>1, <2>2 DEF pipeFails, TypeOK, PC, regVars, credVars, cancelVars
  <1>5. CASE startFails(j)
    BY <1>5 DEF startFails, TypeOK, PC, regVars, semVars, cancelVars
  <1>6. CASE publishStartFailure(j)
    BY <1>6 DEF publishStartFailure, TypeOK, PC, JobState, Verdict, regVars, semVars,
                credVars, cancelVars
  <1>7. CASE startSucceeds(j)
    BY <1>7 DEF startSucceeds, TypeOK, PC, Proc, regVars, semVars, credVars, cancelVars
  <1>8. CASE publishRunning(j)
    BY <1>8 DEF publishRunning, TypeOK, PC, JobState, Event, regVars, semVars, credVars,
                cancelVars
  <1>9. CASE \E status \in {"exit0", "exitErr"} : procExits(j, status)
    BY <1>9 DEF procExits, TypeOK, Proc, regVars, semVars, credVars, cancelVars
  <1>10. CASE waitReturns(j)
    BY <1>10 DEF waitReturns, WaitState, TypeOK, PC, JobState, Verdict, regVars, semVars,
                 credVars, cancelVars
  <1>11. CASE runCleanup(j)
    BY <1>11 DEF runCleanup, TypeOK, PC, regVars, semVars, cancelVars
  <1>12. CASE markTerminated(j)
    <2> DEFINE t == Append(terminal, j)
    <2>1. t \in Seq(Jobs) /\ Len(t) \in Nat
      BY DEF TypeOK
    <2>2. Overflow + 1 \in 1..(Len(t) + 1) \/ Overflow + 1 > Len(t)
      BY <2>1, CapsNatural DEF Overflow, TypeOK
    <2>3. Overflow \in Nat
      BY CapsNatural DEF Overflow, TypeOK
    <2>4. SubSeq(t, Overflow + 1, Len(t)) \in Seq(Jobs)
      BY <2>1, <2>3
    <2>5. jobs' \in SUBSET Jobs /\ terminal' \in Seq(Jobs)
      BY <1>12, <2>4 DEF markTerminated, TypeOK
    <2> QED BY <1>12, <2>5 DEF markTerminated, TypeOK, PC, semVars, credVars, cancelVars
  <1>13. CASE emitTerminal(j)
    <2>1. verdict[j] \in Event
      BY <1>13 DEF emitTerminal, VerdictByPC, Event
    <2>2. emitted' \in [Jobs -> Seq(Event)]
      BY <1>13, <2>1 DEF emitTerminal, TypeOK
    <2> QED BY <1>13, <2>2 DEF emitTerminal, TypeOK, PC, regVars, semVars, credVars, cancelVars
  <1>14. CASE release(j)
    <2>1. sem' \in [Pool -> Nat]
      BY <1>14, GiveToken DEF release
    <2>2. slot' \in [Jobs -> BOOLEAN]
      BY <1>14 DEF release, GiveSlotBack, TypeOK
    <2> QED BY <1>14, <2>1, <2>2 DEF release, TypeOK, PC, regVars, credVars, cancelVars
  <1>15. CASE cancel(j)
    BY <1>15 DEF cancel, TypeOK, JobState, regVars, semVars, credVars
  <1>16. CASE cancelContext(j)
    BY <1>16 DEF cancelContext, TypeOK, regVars, semVars, credVars
  <1> QED
    BY <1>1, <1>2, <1>3, <1>4, <1>5, <1>6, <1>7, <1>8, <1>9, <1>10, <1>11, <1>12,
       <1>13, <1>14, <1>15, <1>16 DEF Step

LEMMA StepByPC ==
    ASSUME IInv, NEW j \in Jobs, Step(j)
    PROVE  SlotByPC' /\ ChildByPC' /\ VerdictByPC'
  <1> USE DEF IInv, SlotByPC, ChildByPC, VerdictByPC, TypeOK
  <1>1. CASE \E a \in Actions, d \in BOOLEAN : start(j, a, d)
    BY <1>1 DEF start, semVars
  <1>2. CASE acquireSlot(j)
    BY <1>2 DEF acquireSlot
  <1>3. CASE finalizeUnstarted(j)
    BY <1>3 DEF finalizeUnstarted, semVars, Verdict
  <1>4. CASE pipeFails(j)
    BY <1>4 DEF pipeFails, GiveSlotBack
  <1>5. CASE startFails(j)
    BY <1>5 DEF startFails, semVars
  <1>6. CASE publishStartFailure(j)
    BY <1>6 DEF publishStartFailure, semVars, Verdict
  <1>7. CASE startSucceeds(j)
    BY <1>7 DEF startSucceeds, semVars
  <1>8. CASE publishRunning(j)
    BY <1>8 DEF publishRunning, semVars
  <1>9. CASE \E status \in {"exit0", "exitErr"} : procExits(j, status)
    BY <1>9 DEF procExits, semVars
  <1>10. CASE waitReturns(j)
    BY <1>10 DEF waitReturns, childExited, WaitState, semVars, Verdict
  <1>11. CASE runCleanup(j)
    BY <1>11 DEF runCleanup, semVars
  <1>12. CASE markTerminated(j)
    BY <1>12 DEF markTerminated, semVars
  <1>13. CASE emitTerminal(j)
    BY <1>13 DEF emitTerminal, semVars
  <1>14. CASE release(j)
    BY <1>14 DEF release, GiveSlotBack
  <1>15. CASE cancel(j)
    BY <1>15 DEF cancel, Active, semVars, Verdict
  <1>16. CASE cancelContext(j)
    BY <1>16 DEF cancelContext, semVars
  <1> QED
    BY <1>1, <1>2, <1>3, <1>4, <1>5, <1>6, <1>7, <1>8, <1>9, <1>10, <1>11, <1>12,
       <1>13, <1>14, <1>15, <1>16 DEF Step

LEMMA StepTokens ==
    ASSUME IInv, NEW j \in Jobs, Step(j)
    PROVE  TokensAccounted' /\ SemWithinCap'
  <1> USE DEF IInv
  <1>1. CASE acquireSlot(j)
    <2>1. TokensAccounted'
      BY <1>1, TakeToken
    <2>2. SemWithinCap'
      BY <1>1, SemForPool, CapsNatural
         DEF acquireSlot, HasRoom, SemWithinCap, TypeOK, Capacity, Pool, SlotByPC
    <2> QED BY <2>1, <2>2
  <1>2. CASE pipeFails(j) \/ release(j)
    <2>1. GiveSlotBack(j) /\ action' = action /\ warm' = warm
      BY <1>2 DEF pipeFails, release
    <2>2. TokensAccounted' /\ sem' \in [Pool -> Nat] /\ \A q \in Pool : sem'[q] <= sem[q]
      BY <2>1, GiveToken
    <2>3. SemWithinCap'
      BY <2>2, CapsNatural DEF SemWithinCap, TypeOK, Capacity
    <2> QED BY <2>2, <2>3
  <1>3. CASE ~acquireSlot(j) /\ ~(pipeFails(j) \/ release(j))
    <2>1. sem' = sem /\ slot' = slot /\ warm' = warm
      BY <1>3 DEF Step, start, finalizeUnstarted, startFails, publishStartFailure,
                  startSucceeds, publishRunning, procExits, waitReturns, runCleanup,
                  markTerminated, emitTerminal, cancel, cancelContext, semVars
    <2>2. \A k \in Jobs : slot[k] => action'[k] = action[k]
      BY <1>3 DEF Step, start, finalizeUnstarted, startFails, publishStartFailure,
                  startSucceeds, publishRunning, procExits, waitReturns, runCleanup,
                  markTerminated, emitTerminal, cancel, cancelContext, TypeOK, SlotByPC
    <2>3. TokensAccounted'
      BY <2>1, <2>2, SameHolders
    <2> QED BY <2>1, <2>3 DEF SemWithinCap
  <1> QED BY <1>1, <1>2, <1>3

(***************************************************************************)
(* The steps that belong to no job: the agent's shutdown and the warmer.   *)
(***************************************************************************)
LEMMA ShutdownStep ==
    ASSUME IInv, shutdown
    PROVE  IInv'
  <1> USE DEF IInv, shutdown, regVars, semVars, credVars, cancelVars
  <1>1. TypeOK'
    <2>1. ctxDone' \in [Jobs -> BOOLEAN] /\ stopping' \in BOOLEAN
      BY DEF TypeOK
    <2> QED BY <2>1 DEF TypeOK
  <1>2. SlotByPC' /\ ChildByPC' /\ VerdictByPC' /\ SemWithinCap'
    BY DEF SlotByPC, ChildByPC, VerdictByPC, SemWithinCap
  <1>3. TokensAccounted'
    BY SameHolders
  <1> QED BY <1>1, <1>2, <1>3

LEMMA WarmerStep ==
    ASSUME IInv, acquireMaint \/ releaseMaint
    PROVE  IInv'
  <1> USE DEF IInv, regVars, jobVars, credVars, cancelVars
  <1>1. /\ slot' = slot /\ action' = action /\ pc' = pc /\ proc' = proc
        /\ verdict' = verdict /\ state' = state
    BY DEF acquireMaint, releaseMaint
  <1>2. SlotByPC' /\ ChildByPC' /\ VerdictByPC'
    BY <1>1 DEF SlotByPC, ChildByPC, VerdictByPC
  <1>3. ASSUME NEW p \in Pool PROVE Holders(p)' = Holders(p)
    BY <1>1 DEF Holders
  <1>4. /\ sem' \in [Pool -> Nat]
        /\ sem'["copy"] = sem["copy"]
        /\ sem'["maint"] - Warming("maint")' = sem["maint"] - Warming("maint")
        /\ warm' \in BOOLEAN
    <2>1. sem["maint"] = Cardinality(Holders("maint")) + Warming("maint")
      BY DEF TokensAccounted, Pool
    <2>2. sem["maint"] \in Nat /\ sem["copy"] \in Nat
      BY DEF TypeOK, Pool
    <2>3. CASE acquireMaint
      <3>1. ~warm /\ warm'
        BY <2>3 DEF acquireMaint
      <3>2. CASE MaxConcurrentMaint > 0
        <4>1. sem' = [sem EXCEPT !["maint"] = @ + 1]
          BY <2>3, <3>2 DEF acquireMaint
        <4>2. Warming("maint") = 0 /\ Warming("maint")' = 1
          BY <3>1, <3>2 DEF Warming
        <4>3. warm' \in BOOLEAN
          BY <2>3, Zenon DEF acquireMaint
        <4>4. sem["maint"] + 1 \in Nat
          BY <2>2
        <4>5. /\ sem' \in [Pool -> Nat]
              /\ sem'["maint"] = sem["maint"] + 1
              /\ sem'["copy"] = sem["copy"]
          BY <4>1, <4>4 DEF TypeOK, Pool
        <4> QED BY <2>2, <4>2, <4>3, <4>5
      <3>3. CASE ~(MaxConcurrentMaint > 0)
        <4>1. sem' = sem
          BY <2>3, <3>3 DEF acquireMaint
        <4>2. Warming("maint") = 0 /\ Warming("maint")' = 0
          BY <3>3 DEF Warming
        <4>3. warm' \in BOOLEAN
          BY <2>3, Zenon DEF acquireMaint
        <4> QED BY <2>2, <4>1, <4>2, <4>3 DEF TypeOK
      <3> QED BY <3>2, <3>3
    <2>4. CASE releaseMaint
      <3>1. warm /\ ~warm'
        BY <2>4 DEF releaseMaint
      <3>2. CASE MaxConcurrentMaint > 0
        <4>1. sem' = [sem EXCEPT !["maint"] = @ - 1]
          BY <2>4, <3>2 DEF releaseMaint
        <4>2. Warming("maint") = 1 /\ Warming("maint")' = 0
          BY <3>1, <3>2 DEF Warming
        <4>3. warm' \in BOOLEAN
          BY <2>4, Zenon DEF releaseMaint
        <4>4. sem["maint"] - 1 \in Nat
          BY <2>1, <2>2, <4>2, HoldersFinite
        <4> QED BY <2>2, <4>1, <4>2, <4>3, <4>4 DEF TypeOK, Pool
      <3>3. CASE ~(MaxConcurrentMaint > 0)
        <4>1. sem' = sem
          BY <2>4, <3>3 DEF releaseMaint
        <4>2. Warming("maint") = 0 /\ Warming("maint")' = 0
          BY <3>3 DEF Warming
        <4>3. warm' \in BOOLEAN
          BY <2>4, Zenon DEF releaseMaint
        <4> QED BY <2>2, <4>1, <4>2, <4>3 DEF TypeOK
      <3> QED BY <3>2, <3>3
    <2> QED BY <2>3, <2>4
  <1>5. TypeOK'
    BY <1>4 DEF acquireMaint, releaseMaint, TypeOK
  <1>6. TokensAccounted'
    <2>1. sem'["copy"] = Cardinality(Holders("copy")') + Warming("copy")'
      BY <1>3, <1>4 DEF TokensAccounted, Warming, Pool
    <2>2. sem'["maint"] = Cardinality(Holders("maint")') + Warming("maint")'
      <3>1. /\ sem["maint"] = Cardinality(Holders("maint")) + Warming("maint")
            /\ Cardinality(Holders("maint")) = Cardinality(Holders("maint")')
            /\ sem["maint"] \in Nat /\ sem'["maint"] \in Nat
            /\ Warming("maint") \in Nat /\ Warming("maint")' \in Nat
        BY <1>3, <1>4 DEF TokensAccounted, Pool, TypeOK, Warming
      <3> QED BY <3>1, <1>4, HoldersFinite
    <2> QED BY <2>1, <2>2 DEF TokensAccounted, Pool
  <1>7. SemWithinCap'
    BY <1>4, CapsNatural
       DEF acquireMaint, releaseMaint, HasRoom, SemWithinCap, Capacity, Pool, TypeOK
  <1> QED BY <1>2, <1>5, <1>6, <1>7

-----------------------------------------------------------------------------
LEMMA InitIInv == Init => IInv
  <1> SUFFICES ASSUME Init PROVE IInv
    OBVIOUS
  <1>1. TypeOK
    BY InitTypeOK
  <1>2. SlotByPC /\ ChildByPC /\ VerdictByPC
    BY DEF Init, SlotByPC, ChildByPC, VerdictByPC
  <1>3. SemWithinCap
    BY CapsNatural DEF Init, newJobRegistry, SemWithinCap, Capacity
  <1>4. ASSUME NEW p \in Pool PROVE sem[p] = Cardinality(Holders(p)) + Warming(p)
    <2>1. Holders(p) = {}
      BY DEF Init, Holders
    <2>2. Warming(p) = 0
      BY DEF Init, Warming
    <2> QED BY <2>1, <2>2, FS_EmptySet DEF Init, newJobRegistry
  <1> QED BY <1>1, <1>2, <1>3, <1>4 DEF IInv, TokensAccounted

LEMMA NextIInv == IInv /\ [Next]_vars => IInv'
  <1> SUFFICES ASSUME IInv, [Next]_vars PROVE IInv'
    OBVIOUS
  <1>1. CASE \E j \in Jobs : Step(j)
    BY <1>1, StepTypeOK, StepByPC, StepTokens DEF IInv
  <1>2. CASE shutdown
    BY <1>2, ShutdownStep
  <1>3. CASE acquireMaint \/ releaseMaint
    BY <1>3, WarmerStep
  <1>4. CASE UNCHANGED vars
    <2> USE <1>4 DEF vars, regVars, jobVars, semVars, credVars, cancelVars, IInv
    <2>1. TypeOK' /\ SlotByPC' /\ ChildByPC' /\ VerdictByPC' /\ SemWithinCap'
      BY DEF TypeOK, SlotByPC, ChildByPC, VerdictByPC, SemWithinCap
    <2>2. TokensAccounted'
      BY SameHolders
    <2> QED BY <2>1, <2>2
  <1> QED BY <1>1, <1>2, <1>3, <1>4, NextSteps

LEMMA IInvAlways == Spec => []IInv
  BY InitIInv, NextIInv, PTL DEF Spec

(***************************************************************************)
(* The variables of the registry keep their types: in particular no        *)
(* channel is drained below empty, and only verdicts are emitted as the    *)
(* terminal event.                                                         *)
(***************************************************************************)
THEOREM TypeCorrect == Spec => []TypeOK
  <1>1. IInv => TypeOK
    BY DEF IInv
  <1> QED BY <1>1, IInvAlways, PTL

(***************************************************************************)
(* No path of spawn, spawnGated or finalizeUnstarted loses a token of a    *)
(* semaphore or gives one back twice.                                      *)
(***************************************************************************)
THEOREM TokensExact == Spec => []TokensAccounted
  <1>1. IInv => TokensAccounted
    BY DEF IInv
  <1> QED BY <1>1, IInvAlways, PTL

(***************************************************************************)
(* The cap on the children of a pool holds for every number of jobs and    *)
(* every positive cap: each live child of a gated action owes a token, the *)
(* tokens owed are those in the channel, and the channel is bounded.       *)
(***************************************************************************)
THEOREM CapHolds == Spec => []ChildrenWithinCap
  <1>1. IInv => ChildrenWithinCap
    <2> SUFFICES ASSUME IInv, NEW p \in Pool, Capacity(p) > 0
                 PROVE  Cardinality(Running(p)) + Warming(p) <= Capacity(p)
      BY DEF ChildrenWithinCap
    <2>1. Running(p) \subseteq Holders(p)
      BY DEF Running, Holders, IInv, SlotByPC, ChildByPC, Pool
    <2>2. /\ Cardinality(Running(p)) <= Cardinality(Holders(p))
          /\ Cardinality(Running(p)) \in Nat
      BY <2>1, HoldersFinite, FS_Subset, FS_CardinalityType
    <2>3. /\ sem[p] = Cardinality(Holders(p)) + Warming(p)
          /\ sem[p] <= Capacity(p)
          /\ sem[p] \in Nat
      BY DEF IInv, TokensAccounted, SemWithinCap, TypeOK
    <2>4. Warming(p) \in Nat /\ Capacity(p) \in Nat
      BY CapsNatural DEF Warming, Capacity
    <2> QED BY <2>2, <2>3, <2>4, HoldersFinite
  <1> QED BY <1>1, IInvAlways, PTL

-----------------------------------------------------------------------------
(***************************************************************************)
(* The life of a job, told by where its goroutine stands: whether the      *)
(* cleanup has run, which events are out, which State is published, and    *)
(* whether the job may have left the registry.                             *)
(***************************************************************************)
CleanByPC ==
    \A j \in Jobs :
        /\ cleaned[j] <= 1
        /\ pc[j] \in {"new", "queued", "spawn", "started", "running", "unwind", "aborted"}
              => cleaned[j] = 0

EmittedByPC ==
    \A j \in Jobs :
        /\ pc[j] \in {"new", "queued", "spawn", "startFailed", "started", "aborted"}
              => emitted[j] = <<>>
        /\ pc[j] = "running" => emitted[j] = <<"started">>
        /\ pc[j] \in {"unwind", "wound", "marked"} => emitted[j] \in {<<>>, <<"started">>}
        /\ pc[j] \in {"emitted", "done"} =>
              emitted[j] \in {<<state[j]>>, <<"started", state[j]>>}

StateByPC ==
    \A j \in Jobs : ~cancelled[j] =>
        /\ pc[j] \in {"queued", "spawn", "started"} => state[j] = "pending"
        /\ pc[j] = "running" => state[j] = "running"

RegisteredByPC ==
    /\ \A j \in Jobs : j \notin jobs => pc[j] \in {"new", "marked", "emitted", "done"}
    /\ \A i \in 1..Len(terminal) : pc[terminal[i]] \in {"marked", "emitted", "done"}

\* The inductive invariant of a job's life.
LInv ==
    /\ IInv
    /\ CleanByPC
    /\ EmittedByPC
    /\ StateByPC
    /\ RegisteredByPC

LEMMA StepClean ==
    ASSUME LInv, NEW j \in Jobs, Step(j)
    PROVE  CleanByPC'
  <1> USE DEF LInv, IInv, TypeOK, CleanByPC
  <1>1. CASE startFails(j)
    BY <1>1 DEF startFails
  <1>2. CASE runCleanup(j)
    BY <1>2 DEF runCleanup
  <1>3. CASE ~startFails(j) /\ ~runCleanup(j)
    <2>1. cleaned' = cleaned
      BY <1>3 DEF Step, start, acquireSlot, finalizeUnstarted, pipeFails,
                  publishStartFailure, startSucceeds, publishRunning, procExits,
                  waitReturns, markTerminated, emitTerminal, release, cancel,
                  cancelContext, credVars
    <2> QED
      BY <1>3, <2>1 DEF Step, start, acquireSlot, finalizeUnstarted, pipeFails,
                  publishStartFailure, startSucceeds, publishRunning, procExits,
                  waitReturns, markTerminated, emitTerminal, release, cancel,
                  cancelContext
  <1> QED BY <1>1, <1>2, <1>3

LEMMA AppendToShort ==
    ASSUME NEW S, NEW x \in S, NEW y \in S
    PROVE  Append(<<>>, x) = <<x>> /\ Append(<<y>>, x) = <<y, x>>
  <1>1. Append(<<>>, x) = <<x>>
    OBVIOUS
  <1>2. <<y>> \in Seq(S) /\ Len(<<y>>) = 1
    OBVIOUS
  <1>3. Append(<<y>>, x) = <<y, x>>
    <2>1. /\ Append(<<y>>, x) \in Seq(S)
          /\ Len(Append(<<y>>, x)) = 2
          /\ Append(<<y>>, x)[1] = y
          /\ Append(<<y>>, x)[2] = x
      BY <1>2
    <2>2. /\ <<y, x>> \in Seq(S)
          /\ Len(<<y, x>>) = 2
          /\ <<y, x>>[1] = y
          /\ <<y, x>>[2] = x
      OBVIOUS
    <2>3. \A i \in 1..2 : Append(<<y>>, x)[i] = <<y, x>>[i]
      BY <2>1, <2>2
    <2> QED BY <2>1, <2>2, <2>3, SeqEqual
  <1> QED BY <1>1, <1>3

LEMMA StepEmitted ==
    ASSUME LInv, NEW j \in Jobs, Step(j)
    PROVE  EmittedByPC'
  <1> USE DEF LInv, IInv, TypeOK, EmittedByPC
  <1>1. CASE publishRunning(j)
    <2>1. emitted'[j] = Append(<<>>, "started")
      BY <1>1 DEF publishRunning
    <2>2. emitted'[j] = <<"started">>
      BY <2>1, AppendToShort DEF Event
    <2>3. \A k \in Jobs : k # j => emitted'[k] = emitted[k]
      BY <1>1 DEF publishRunning
    <2> QED BY <1>1, <2>2, <2>3 DEF publishRunning
  <1>2. CASE emitTerminal(j)
    <2>1. /\ emitted'[j] = Append(emitted[j], state[j])
          /\ emitted[j] \in {<<>>, <<"started">>}
      BY <1>2 DEF emitTerminal, VerdictByPC
    <2>2. emitted'[j] \in {<<state[j]>>, <<"started", state[j]>>}
      <3>1. state[j] \in Event /\ "started" \in Event
        BY <1>2 DEF emitTerminal, VerdictByPC, Event
      <3>2. CASE emitted[j] = <<>>
        BY <2>1, <3>1, <3>2, AppendToShort
      <3>3. CASE emitted[j] = <<"started">>
        BY <2>1, <3>1, <3>3, AppendToShort
      <3> QED BY <2>1, <3>2, <3>3
    <2>3. /\ \A k \in Jobs : k # j => emitted'[k] = emitted[k] /\ pc'[k] = pc[k]
          /\ pc'[j] \in {"emitted", "done"}
          /\ state' = state
      BY <1>2 DEF emitTerminal
    <2> QED BY <2>2, <2>3
  <1>3. CASE ~publishRunning(j) /\ ~emitTerminal(j)
    <2>1. emitted' = emitted
      BY <1>3 DEF Step, start, acquireSlot, finalizeUnstarted, pipeFails, startFails,
                  publishStartFailure, startSucceeds, procExits, waitReturns, runCleanup,
                  markTerminated, release, cancel, cancelContext
    <2>2. \A k \in Jobs : k # j => pc'[k] = pc[k] /\ state'[k] = state[k]
      BY <1>3 DEF Step, start, acquireSlot, finalizeUnstarted, pipeFails, startFails,
                  publishStartFailure, startSucceeds, procExits, waitReturns, runCleanup,
                  markTerminated, release, cancel, cancelContext
    <2>3. pc[j] \in {"emitted", "done"} => state'[j] = state[j] /\ pc'[j] \in {"emitted", "done"}
      BY <1>3 DEF Step, start, acquireSlot, finalizeUnstarted, pipeFails, startFails,
                  publishStartFailure, startSucceeds, procExits, waitReturns, runCleanup,
                  markTerminated, release, cancel, cancelContext, Active, VerdictByPC, Verdict
    <2>4. /\ pc'[j] \in {"emitted", "done"} => pc[j] \in {"emitted", "done"}
          /\ pc'[j] \in {"new", "queued", "spawn", "startFailed", "started", "aborted"}
                => pc[j] \in {"new", "queued", "spawn", "startFailed", "started", "aborted"}
          /\ pc'[j] = "running" => pc[j] = "running"
          /\ pc'[j] \in {"unwind", "wound", "marked"}
                => pc[j] \in {"queued", "startFailed", "running", "unwind", "wound", "marked"}
      BY <1>3 DEF Step, start, acquireSlot, finalizeUnstarted, pipeFails, startFails,
                  publishStartFailure, startSucceeds, procExits, waitReturns, runCleanup,
                  markTerminated, release, cancel, cancelContext
    <2>5. ASSUME NEW k \in Jobs, k # j
          PROVE  /\ emitted'[k] = emitted[k] /\ pc'[k] = pc[k] /\ state'[k] = state[k]
      BY <2>1, <2>2, <2>5
    <2> QED BY <2>1, <2>3, <2>4, <2>5
  <1> QED BY <1>1, <1>2, <1>3

LEMMA StepState ==
    ASSUME LInv, NEW j \in Jobs, Step(j)
    PROVE  StateByPC'
  <1> USE DEF LInv, IInv, TypeOK, StateByPC
  <1>0. CASE publishRunning(j)
    BY <1>0 DEF publishRunning, cancelVars
  <1>1. CASE \E a \in Actions, d \in BOOLEAN : start(j, a, d)
    BY <1>1 DEF start, cancelVars
  <1>4. CASE cancel(j)
    <2>1. cancelled'[j] /\ \A k \in Jobs : k # j => cancelled'[k] = cancelled[k]
      BY <1>4 DEF cancel
    <2>2. pc' = pc /\ \A k \in Jobs : k # j => state'[k] = state[k]
      BY <1>4 DEF cancel
    <2> QED BY <2>1, <2>2
  <1>2. CASE acquireSlot(j) \/ startSucceeds(j) \/ finalizeUnstarted(j)
               \/ publishStartFailure(j) \/ waitReturns(j)
    BY <1>2 DEF acquireSlot, startSucceeds, finalizeUnstarted, publishStartFailure,
                waitReturns, cancelVars
  <1>3. CASE pipeFails(j) \/ startFails(j) \/ runCleanup(j) \/ markTerminated(j)
               \/ emitTerminal(j) \/ release(j) \/ cancelContext(j)
               \/ (\E status \in {"exit0", "exitErr"} : procExits(j, status))
    BY <1>3 DEF pipeFails, startFails, runCleanup, markTerminated, emitTerminal, release,
                cancelContext, procExits, cancelVars
  <1> QED BY <1>0, <1>1, <1>2, <1>3, <1>4 DEF Step

LEMMA StepRegistered ==
    ASSUME LInv, NEW j \in Jobs, Step(j)
    PROVE  RegisteredByPC'
  <1> USE DEF LInv, IInv, TypeOK, RegisteredByPC
  <1>1. CASE markTerminated(j)
    <2> DEFINE t == Append(terminal, j)
    <2>1. Overflow \in Nat /\ Overflow <= Len(t)
      BY CapsNatural DEF Overflow
    <2>2. /\ pc' = [pc EXCEPT ![j] = "marked"]
          /\ jobs' = jobs \ {t[i] : i \in 1..Overflow}
          /\ terminal' = SubSeq(t, Overflow + 1, Len(t))
      BY <1>1 DEF markTerminated
    <2>3. /\ Len(t) = Len(terminal) + 1
          /\ t[Len(t)] = j
          /\ \A i \in 1..Len(terminal) : t[i] = terminal[i] /\ terminal[i] \in Jobs
      OBVIOUS
    <2>4. ASSUME NEW i \in 1..Len(t) PROVE pc'[t[i]] \in {"marked", "emitted", "done"}
      <3>1. CASE i = Len(t)
        BY <3>1, <2>2, <2>3
      <3>2. CASE i # Len(t)
        <4>1. i \in 1..Len(terminal)
          BY <3>2, <2>3
        <4>2. t[i] \in Jobs /\ pc[t[i]] \in {"marked", "emitted", "done"}
          BY <4>1, <2>3
        <4> QED BY <4>2, <2>2
      <3> QED BY <3>1, <3>2
    <2>5. ASSUME NEW k \in Jobs, k \notin jobs'
          PROVE  pc'[k] \in {"new", "marked", "emitted", "done"}
      <3>1. CASE k \notin jobs
        BY <3>1, <2>2
      <3>2. CASE \E i \in 1..Overflow : k = t[i]
        <4>1. PICK i \in 1..Overflow : k = t[i]
          BY <3>2
        <4>2. i \in 1..Len(t)
          BY <2>1, <2>3
        <4> QED BY <2>4, <4>1, <4>2
      <3> QED BY <2>2, <2>5, <3>1, <3>2
    <2>6. ASSUME NEW i \in 1..Len(terminal')
          PROVE  pc'[terminal'[i]] \in {"marked", "emitted", "done"}
      <3>1. terminal'[i] = t[i + Overflow] /\ i + Overflow \in 1..Len(t)
        BY <2>1, <2>2, <2>3
      <3> QED BY <2>4, <3>1
    <2> QED BY <2>5, <2>6
  <1>2. CASE ~markTerminated(j)
    <2>1. terminal' = terminal /\ jobs \subseteq jobs'
      BY <1>2 DEF Step, start, acquireSlot, finalizeUnstarted, pipeFails, startFails,
                  publishStartFailure, startSucceeds, publishRunning, procExits,
                  waitReturns, runCleanup, emitTerminal, release, cancel,
                  cancelContext, regVars
    <2>2. \A k \in Jobs : k # j => pc'[k] = pc[k]
      BY <1>2 DEF Step, start, acquireSlot, finalizeUnstarted, pipeFails, startFails,
                  publishStartFailure, startSucceeds, publishRunning, procExits,
                  waitReturns, runCleanup, emitTerminal, release, cancel, cancelContext
    <2>3. /\ pc[j] \in {"marked", "emitted", "done"} => pc'[j] \in {"marked", "emitted", "done"}
          /\ pc[j] = "new" => pc'[j] = "new" \/ j \in jobs'
      BY <1>2 DEF Step, start, acquireSlot, finalizeUnstarted, pipeFails, startFails,
                  publishStartFailure, startSucceeds, publishRunning, procExits,
                  waitReturns, runCleanup, emitTerminal, release, cancel, cancelContext
    <2>4. \A i \in 1..Len(terminal) : terminal[i] \in Jobs
      OBVIOUS
    <2> QED BY <2>1, <2>2, <2>3, <2>4
  <1> QED BY <1>1, <1>2

-----------------------------------------------------------------------------
LEMMA InitLInv == Init => LInv
  <1> SUFFICES ASSUME Init PROVE LInv
    OBVIOUS
  <1>1. IInv
    BY InitIInv
  <1>2. CleanByPC /\ EmittedByPC /\ StateByPC
    BY DEF Init, CleanByPC, EmittedByPC, StateByPC
  <1>3. RegisteredByPC
    BY DEF Init, newJobRegistry, RegisteredByPC
  <1> QED BY <1>1, <1>2, <1>3 DEF LInv

LEMMA NextLInv == LInv /\ [Next]_vars => LInv'
  <1> SUFFICES ASSUME LInv, [Next]_vars PROVE LInv'
    OBVIOUS
  <1>1. IInv'
    BY NextIInv DEF LInv
  <1>2. CASE \E j \in Jobs : Step(j)
    BY <1>1, <1>2, StepClean, StepEmitted, StepState, StepRegistered DEF LInv
  <1>3. CASE shutdown \/ acquireMaint \/ releaseMaint \/ UNCHANGED vars
    <2>1. UNCHANGED <<pc, cleaned, emitted, state, cancelled, jobs, terminal>>
      BY <1>3 DEF shutdown, acquireMaint, releaseMaint, vars, regVars, jobVars, semVars,
                  credVars, cancelVars
    <2> QED BY <1>1, <2>1 DEF LInv, CleanByPC, EmittedByPC, StateByPC, RegisteredByPC
  <1> QED BY <1>2, <1>3, NextSteps

LEMMA LInvAlways == Spec => []LInv
  BY InitLInv, NextLInv, PTL DEF Spec

(***************************************************************************)
(* The credential files are unlinked at most once, and only when no child  *)
(* of the job is alive or can still be started.                            *)
(***************************************************************************)
THEOREM CredentialsSafe == Spec => []CredentialsOutliveChild
  <1>1. LInv => CredentialsOutliveChild
    BY DEF LInv, IInv, CleanByPC, ChildByPC, CredentialsOutliveChild
  <1> QED BY <1>1, LInvAlways, PTL

(***************************************************************************)
(* A child nobody cancelled is counted by countActive until it has exited, *)
(* however short the ring of recent jobs is.                               *)
(***************************************************************************)
THEOREM LiveChildCounted == Spec => []LiveChildIsCounted
  <1>1. LInv => LiveChildIsCounted
    BY DEF LInv, IInv, ChildByPC, StateByPC, RegisteredByPC, LiveChildIsCounted, Active
  <1> QED BY <1>1, LInvAlways, PTL

\* The ring is short enough and holds registered jobs, each once.
RingInv ==
    /\ LInv
    /\ Len(terminal) <= RecentJobsRetained
    /\ \A i, k \in 1..Len(terminal) : terminal[i] = terminal[k] => i = k
    /\ \A i \in 1..Len(terminal) : terminal[i] \in jobs

LEMMA MarkKeepsRing ==
    ASSUME RingInv, NEW j \in Jobs, markTerminated(j)
    PROVE  RingSound'
  <1> DEFINE t == Append(terminal, j)
  <1> USE DEF RingInv, LInv, IInv, TypeOK, RegisteredByPC
  <1>1. Overflow \in Nat /\ Overflow <= Len(t) /\ Len(t) - Overflow <= RecentJobsRetained
    BY CapsNatural DEF Overflow
  <1>2. /\ pc[j] = "wound" /\ pc' = [pc EXCEPT ![j] = "marked"]
        /\ jobs' = jobs \ {t[i] : i \in 1..Overflow}
        /\ terminal' = SubSeq(t, Overflow + 1, Len(t))
    BY DEF markTerminated
  <1>3. /\ Len(t) = Len(terminal) + 1 /\ t[Len(t)] = j
        /\ \A i \in 1..Len(terminal) : t[i] = terminal[i]
    OBVIOUS
  <1>4. j \in jobs /\ \A i \in 1..Len(terminal) : terminal[i] # j
    BY <1>2
  <1>5. ASSUME NEW i \in 1..Len(t), NEW k \in 1..Len(t), t[i] = t[k] PROVE i = k
    <2>1. CASE i = Len(t) \/ k = Len(t)
      BY <1>3, <1>4, <1>5, <2>1
    <2>2. CASE i # Len(t) /\ k # Len(t)
      <3>1. i \in 1..Len(terminal) /\ k \in 1..Len(terminal)
        BY SMTT(20), <1>3, <2>2
      <3> QED BY <1>3, <1>5, <3>1
    <2> QED BY <2>1, <2>2
  <1>6. ASSUME NEW i \in 1..Len(t) PROVE t[i] \in jobs
    <2>1. CASE i = Len(t)
      BY <1>3, <1>4, <2>1
    <2>2. CASE i # Len(t)
      <3>1. i \in 1..Len(terminal)
        BY <1>3, <2>2
      <3> QED BY <1>3, <3>1
    <2> QED BY <2>1, <2>2
  <1>7. /\ Len(terminal') = Len(t) - Overflow
        /\ \A i \in 1..Len(terminal') : i + Overflow \in 1..Len(t) /\ terminal'[i] = t[i + Overflow]
    BY <1>1, <1>2, <1>3
  <1>8. ASSUME NEW i \in 1..Len(terminal') PROVE terminal'[i] \in jobs'
    <2>1. i + Overflow \in 1..Len(t) /\ terminal'[i] = t[i + Overflow]
      BY <1>7
    <2>2. i \in Nat /\ i > 0
      BY <1>1, <1>3, <1>7
    <2>3. ASSUME NEW k \in 1..Overflow PROVE t[k] # t[i + Overflow]
      <3>1. k \in 1..Len(t) /\ k # i + Overflow
        BY <1>1, <1>3, <2>2
      <3> QED BY <1>5, <2>1, <3>1
    <2>4. t[i + Overflow] \in jobs
      BY <1>6, <2>1
    <2>5. t[i + Overflow] \notin {t[k] : k \in 1..Overflow}
      <3> HIDE DEF t
      <3> QED BY <2>3
    <2> QED BY <1>2, <2>1, <2>4, <2>5, Zenon
  <1>9. ASSUME NEW i \in 1..Len(terminal'), NEW k \in 1..Len(terminal'),
               terminal'[i] = terminal'[k]
        PROVE  i = k
    <2>1. /\ i + Overflow \in 1..Len(t) /\ k + Overflow \in 1..Len(t)
          /\ t[i + Overflow] = t[k + Overflow]
      BY <1>7, <1>9
    <2>2. i + Overflow = k + Overflow
      BY <1>5, <2>1
    <2>3. i \in Int /\ k \in Int
      BY <1>1, <1>3, <1>7
    <2> QED BY <1>1, <2>2, <2>3
  <1>10. \A k \in Jobs : k \notin jobs' => pc'[k] \in {"new", "marked", "emitted", "done"}
    BY StepRegistered DEF Step
  <1> QED BY <1>1, <1>7, <1>8, <1>9, <1>10 DEF RingSound

(***************************************************************************)
(* The ring of recent jobs stays within its cap, holds registered jobs     *)
(* without duplicates, and evicts only what was wound up (markTerminated). *)
(***************************************************************************)
THEOREM RingHolds == Spec => []RingSound
  <1>1. Init => RingInv
    BY InitLInv, CapsNatural DEF Init, newJobRegistry, RingInv
  <1>2. RingInv /\ [Next]_vars => RingInv'
    <2> SUFFICES ASSUME RingInv, [Next]_vars PROVE RingInv'
      OBVIOUS
    <2>1. LInv'
      BY NextLInv DEF RingInv
    <2>2. CASE \E j \in Jobs : markTerminated(j)
      BY <2>1, <2>2, MarkKeepsRing DEF RingInv, RingSound
    <2>3. CASE \E j \in Jobs : Step(j) /\ ~markTerminated(j)
      <3>1. terminal' = terminal /\ jobs \subseteq jobs'
        BY <2>3 DEF Step, start, acquireSlot, finalizeUnstarted, pipeFails, startFails,
                    publishStartFailure, startSucceeds, publishRunning, procExits,
                    waitReturns, runCleanup, emitTerminal, release, cancel,
                    cancelContext, regVars
      <3> QED BY <2>1, <3>1 DEF RingInv
    <2>4. CASE shutdown \/ acquireMaint \/ releaseMaint \/ UNCHANGED vars
      <3>1. UNCHANGED <<jobs, terminal>>
        BY <2>4 DEF shutdown, acquireMaint, releaseMaint, vars, regVars
      <3> QED BY <2>1, <3>1 DEF RingInv
    <2> QED BY <2>2, <2>3, <2>4, NextSteps
  <1>3. RingInv => RingSound
    BY DEF RingInv, LInv, RegisteredByPC, RingSound
  <1> QED BY <1>1, <1>2, <1>3, PTL DEF Spec

(***************************************************************************)
(* A job emits one terminal event at most, and its State agrees with it    *)
(* from then on.                                                           *)
(***************************************************************************)
THEOREM VerdictUnique == Spec => []OneVerdict
  <1>1. LInv => OneVerdict
    <2> SUFFICES ASSUME LInv, NEW j \in Jobs
                 PROVE  /\ \A i \in 1..Len(emitted[j]) :
                              emitted[j][i] \in Verdict =>
                                  i = Len(emitted[j]) /\ emitted[j][i] = state[j]
                        /\ pc[j] \in {"emitted", "done"} =>
                              emitted[j] # <<>> /\ emitted[j][Len(emitted[j])] = state[j]
      BY DEF OneVerdict
    <2>1. \/ emitted[j] \in {<<>>, <<"started">>} /\ pc[j] \notin {"emitted", "done"}
          \/ emitted[j] \in {<<state[j]>>, <<"started", state[j]>>}
      BY DEF LInv, IInv, TypeOK, PC, EmittedByPC
    <2>2. CASE emitted[j] = <<>> /\ pc[j] \notin {"emitted", "done"}
      BY <2>2
    <2>3. CASE emitted[j] = <<"started">> /\ pc[j] \notin {"emitted", "done"}
      BY <2>3 DEF Verdict
    <2>4. CASE emitted[j] = <<state[j]>>
      BY <2>4
    <2>5. CASE emitted[j] = <<"started", state[j]>>
      BY <2>5 DEF Verdict
    <2> QED BY <2>1, <2>2, <2>3, <2>4, <2>5
  <1> QED BY <1>1, LInvAlways, PTL

-----------------------------------------------------------------------------
(***************************************************************************)
(* JobEngine implements JobLife, for any jobs, actions and caps.           *)
(***************************************************************************)

\* A job that is not registered yet shows no State.
UnbornByPC == \A j \in Jobs : pc[j] = "new" => state[j] = "none"

\* The cleanup closure is there until it is due, and has run afterwards.
HeldByPC ==
    \A j \in Jobs :
        /\ pc[j] \in {"queued", "spawn", "started", "running", "unwind"} => cleanup[j]
        /\ pc[j] \in {"startFailed", "wound", "marked", "emitted", "done"}
              => cleaned[j] = 1

\* The inductive invariant under which every step is one of JobLife.
LifeInv == LInv /\ UnbornByPC /\ HeldByPC

LEMMA StepUnborn ==
    ASSUME LifeInv, NEW j \in Jobs, Step(j)
    PROVE  UnbornByPC'
  <1> USE DEF LifeInv, LInv, IInv, TypeOK, UnbornByPC
  <1>1. CASE cancel(j)
    BY <1>1 DEF cancel, Active
  <1>2. CASE cancelContext(j) \/ \E status \in {"exit0", "exitErr"} : procExits(j, status)
    BY <1>2 DEF cancelContext, procExits
  <1>3. CASE ~cancel(j) /\ ~cancelContext(j)
               /\ ~(\E status \in {"exit0", "exitErr"} : procExits(j, status))
    <2>1. pc'[j] # "new"
      BY <1>3 DEF Step, start, acquireSlot, finalizeUnstarted, pipeFails, startFails,
                  publishStartFailure, startSucceeds, publishRunning, waitReturns,
                  runCleanup, markTerminated, emitTerminal, release
    <2>2. \A k \in Jobs : k # j => pc'[k] = pc[k] /\ state'[k] = state[k]
      BY <1>3 DEF Step, start, acquireSlot, finalizeUnstarted, pipeFails, startFails,
                  publishStartFailure, startSucceeds, publishRunning, waitReturns,
                  runCleanup, markTerminated, emitTerminal, release
    <2> QED BY <2>1, <2>2
  <1> QED BY <1>1, <1>2, <1>3

LEMMA StepHeld ==
    ASSUME LifeInv, NEW j \in Jobs, Step(j)
    PROVE  HeldByPC'
  <1> USE DEF LifeInv, LInv, IInv, TypeOK, HeldByPC, CleanByPC
  <1>1. CASE startFails(j)
    BY <1>1 DEF startFails
  <1>2. CASE runCleanup(j)
    BY <1>2 DEF runCleanup
  <1>3. CASE \E a \in Actions, d \in BOOLEAN : start(j, a, d)
    BY <1>3 DEF start
  <1>4. CASE ~startFails(j) /\ ~runCleanup(j)
               /\ ~(\E a \in Actions, d \in BOOLEAN : start(j, a, d))
    <2>1. UNCHANGED credVars
      BY <1>4 DEF Step, acquireSlot, finalizeUnstarted, pipeFails,
                  publishStartFailure, startSucceeds, publishRunning, procExits,
                  waitReturns, markTerminated, emitTerminal, release, cancel,
                  cancelContext
    <2>2. /\ \A k \in Jobs : k # j => pc'[k] = pc[k]
          /\ pc'[j] \in {"queued", "spawn", "started", "running", "unwind"}
                => pc[j] \in {"queued", "spawn", "started", "running", "unwind"}
          /\ pc'[j] \in {"startFailed", "wound", "marked", "emitted", "done"}
                => pc[j] \in {"startFailed", "wound", "marked", "emitted", "done"}
      BY <1>4 DEF Step, acquireSlot, finalizeUnstarted, pipeFails,
                  publishStartFailure, startSucceeds, publishRunning, procExits,
                  waitReturns, markTerminated, emitTerminal, release, cancel,
                  cancelContext
    <2> QED BY <2>1, <2>2 DEF credVars
  <1> QED BY <1>1, <1>2, <1>3, <1>4

LEMMA LifeInvAlways == Spec => []LifeInv
  <1>1. Init => LifeInv
    <2> SUFFICES ASSUME Init PROVE LifeInv
      OBVIOUS
    <2>1. UnbornByPC /\ HeldByPC
      BY DEF Init, UnbornByPC, HeldByPC
    <2> QED BY <2>1, InitLInv DEF LifeInv
  <1>2. LifeInv /\ [Next]_vars => LifeInv'
    <2> SUFFICES ASSUME LifeInv, [Next]_vars PROVE LifeInv'
      OBVIOUS
    <2>1. LInv'
      BY NextLInv DEF LifeInv
    <2>2. CASE \E j \in Jobs : Step(j)
      BY <2>1, <2>2, StepUnborn, StepHeld DEF LifeInv
    <2>3. CASE shutdown \/ acquireMaint \/ releaseMaint \/ UNCHANGED vars
      <3>1. UNCHANGED <<pc, cleaned, cleanup, state>>
        BY <2>3 DEF shutdown, acquireMaint, releaseMaint, vars, regVars, jobVars, semVars,
                    credVars
      <3> QED BY <2>1, <3>1 DEF LifeInv, UnbornByPC, HeldByPC
    <2> QED BY <2>2, <2>3, NextSteps
  <1> QED BY <1>1, <1>2, PTL DEF Spec

-----------------------------------------------------------------------------
(***************************************************************************)
(* Every step of the engine is a step of JobLife or leaves its variables   *)
(* alone.                                                                  *)
(***************************************************************************)
LEMMA PhaseMoves ==
    ASSUME TypeOK, NEW j \in Jobs, NEW p, pc' = [pc EXCEPT ![j] = p]
    PROVE  [k \in Jobs |-> PhaseOf(k)]'
              = [[k \in Jobs |-> PhaseOf(k)] EXCEPT ![j] = PhaseOf(j)']
  <1>1. \A k \in Jobs : k # j => PhaseOf(k)' = PhaseOf(k)
    BY DEF PhaseOf, TypeOK
  <1> QED BY <1>1

LEMMA PhaseStays ==
    ASSUME TypeOK, NEW j \in Jobs, NEW p, pc' = [pc EXCEPT ![j] = p],
           PhaseOf(j)' = PhaseOf(j)
    PROVE  \A k \in Jobs : PhaseOf(k)' = PhaseOf(k)
  BY DEF PhaseOf, TypeOK

LEMMA StepRefinesLife ==
    ASSUME LifeInv, NEW j \in Jobs, Step(j)
    PROVE  Life!Next \/ UNCHANGED Life!vars
  <1> USE DEF LifeInv, LInv, IInv, TypeOK
  <1>1. CASE \E a \in Actions, d \in BOOLEAN : start(j, a, d)
    <2>1. /\ \E p \in {"spawn", "queued"} : pc' = [pc EXCEPT ![j] = p]
          /\ pc[j] = "new"
          /\ state' = [state EXCEPT ![j] = "pending"]
          /\ UNCHANGED <<proc, cleaned, emitted>>
      BY <1>1 DEF start
    <2>2. PhaseOf(j) = "unborn" /\ PhaseOf(j)' = "waiting"
      BY <2>1 DEF PhaseOf
    <2>3. Life!Register(j)
      BY <2>1, <2>2, PhaseMoves DEF Life!Register
    <2> QED BY <2>3 DEF Life!Next
  <1>2. CASE acquireSlot(j) \/ pipeFails(j) \/ markTerminated(j) \/ release(j)
               \/ cancelContext(j)
    <2>1. UNCHANGED <<proc, cleaned, state, emitted>>
      BY <1>2 DEF acquireSlot, pipeFails, markTerminated, release, cancelContext, credVars
    <2>2. \A k \in Jobs : PhaseOf(k)' = PhaseOf(k)
      BY <1>2 DEF acquireSlot, pipeFails, markTerminated, release, cancelContext, PhaseOf
    <2> QED BY <2>1, <2>2 DEF Life!vars
  <1>3. CASE finalizeUnstarted(j) \/ publishStartFailure(j)
    <2>1. /\ \E p \in {"unwind", "wound"} : pc' = [pc EXCEPT ![j] = p]
          /\ pc[j] \in {"queued", "startFailed"}
          /\ proc[j] # "alive"
          /\ UNCHANGED <<proc, cleaned, emitted>>
      BY <1>3 DEF finalizeUnstarted, publishStartFailure, credVars, ChildByPC
    <2>2. PhaseOf(j) = "waiting" /\ PhaseOf(j)' = "over"
      BY <2>1 DEF PhaseOf
    <2>3. PICK v \in {"failed", "cancelled"} : state' = [state EXCEPT ![j] = v]
      BY <1>3 DEF finalizeUnstarted, publishStartFailure
    <2>4. Life!Conclude(j, v)
      BY <2>1, <2>2, <2>3, PhaseMoves DEF Life!Conclude
    <2> QED BY <2>4 DEF Life!Next, Life!Verdict
  <1>4. CASE startFails(j)
    <2>1. /\ pc' = [pc EXCEPT ![j] = "startFailed"]
          /\ pc[j] = "spawn"
          /\ cleaned[j] = 0 /\ cleanup[j]
          /\ cleaned' = [cleaned EXCEPT ![j] = 1]
          /\ proc[j] # "alive"
          /\ UNCHANGED <<proc, state, emitted>>
      <3>1. pc[j] = "spawn" /\ cleaned[j] = 0 /\ cleanup[j]
        BY <1>4 DEF startFails, CleanByPC, HeldByPC
      <3>2. cleaned' = [cleaned EXCEPT ![j] = @ + 1]
        BY <1>4, <3>1 DEF startFails
      <3>3. cleaned' = [cleaned EXCEPT ![j] = 1]
        BY <3>1, <3>2
      <3>4. proc[j] # "alive"
        BY <3>1 DEF ChildByPC
      <3>5. pc' = [pc EXCEPT ![j] = "startFailed"] /\ UNCHANGED <<proc, state, emitted>>
        BY <1>4 DEF startFails
      <3> QED BY <3>1, <3>3, <3>4, <3>5
    <2>2. PhaseOf(j) = "waiting" /\ PhaseOf(j)' = "waiting"
      BY <2>1 DEF PhaseOf
    <2>3. Life!Unlink(j)
      BY <2>1, <2>2, PhaseStays DEF Life!Unlink
    <2> QED BY <2>3 DEF Life!Next
  <1>5. CASE startSucceeds(j)
    <2>1. /\ pc' = [pc EXCEPT ![j] = "started"]
          /\ pc[j] = "spawn"
          /\ proc' = [proc EXCEPT ![j] = "alive"]
          /\ cleaned[j] = 0
          /\ UNCHANGED <<cleaned, state, emitted>>
      BY <1>5 DEF startSucceeds, credVars, CleanByPC
    <2>2. PhaseOf(j) = "waiting" /\ PhaseOf(j)' = "spawned"
      BY <2>1 DEF PhaseOf
    <2>3. {k \in Jobs : proc'[k] = "alive"} = {k \in Jobs : proc[k] = "alive"} \union {j}
      BY <2>1
    <2>4. Life!Spawn(j)
      BY <2>1, <2>2, <2>3, PhaseMoves DEF Life!Spawn
    <2> QED BY <2>4 DEF Life!Next
  <1>6. CASE publishRunning(j)
    <2>1. /\ pc' = [pc EXCEPT ![j] = "running"]
          /\ pc[j] = "started"
          /\ state' = [state EXCEPT ![j] = "running"]
          /\ emitted[j] = <<>>
          /\ emitted' = [emitted EXCEPT ![j] = Append(<<>>, "started")]
          /\ UNCHANGED <<cleaned, proc>>
      BY <1>6 DEF publishRunning, credVars, EmittedByPC
    <2>2. PhaseOf(j) = "spawned" /\ PhaseOf(j)' = "spawned"
      BY <2>1 DEF PhaseOf
    <2>3. emitted' = [emitted EXCEPT ![j] = <<"started">>]
      BY <2>1, AppendToShort DEF Event
    <2>4. Life!AnnounceStart(j)
      BY <2>1, <2>2, <2>3, PhaseStays DEF Life!AnnounceStart
    <2> QED BY <2>4 DEF Life!Next
  <1>7. CASE \E status \in {"exit0", "exitErr"} : procExits(j, status)
    <2>1. /\ proc[j] = "alive"
          /\ \E status \in {"exit0", "exitErr"} : proc' = [proc EXCEPT ![j] = status]
          /\ UNCHANGED <<pc, cleaned, state, emitted>>
      BY <1>7 DEF procExits, credVars
    <2>2. {k \in Jobs : proc'[k] = "alive"} = {k \in Jobs : proc[k] = "alive"} \ {j}
      BY <2>1
    <2>3. \A k \in Jobs : PhaseOf(k)' = PhaseOf(k)
      BY <2>1 DEF PhaseOf
    <2>4. Life!Exit(j)
      BY <2>1, <2>2, <2>3 DEF Life!Exit
    <2> QED BY <2>4 DEF Life!Next
  <1>8. CASE waitReturns(j)
    <2>1. PICK v \in Verdict : state' = [state EXCEPT ![j] = v]
      BY <1>8 DEF waitReturns, WaitState, Verdict
    <2>2. /\ pc' = [pc EXCEPT ![j] = "unwind"]
          /\ pc[j] = "running"
          /\ proc[j] # "alive"
          /\ emitted[j] = <<"started">>
          /\ UNCHANGED <<proc, cleaned, emitted>>
      BY <1>8 DEF waitReturns, childExited, credVars, EmittedByPC
    <2>3. PhaseOf(j) = "spawned" /\ PhaseOf(j)' = "over"
      BY <2>2 DEF PhaseOf
    <2>4. Life!Conclude(j, v)
      BY <2>1, <2>2, <2>3, PhaseMoves DEF Life!Conclude
    <2> QED BY <2>4 DEF Life!Next, Life!Verdict, Verdict
  <1>9. CASE runCleanup(j)
    <2>1. /\ pc' = [pc EXCEPT ![j] = "wound"]
          /\ pc[j] = "unwind"
          /\ cleaned[j] = 0 /\ cleanup[j]
          /\ cleaned' = [cleaned EXCEPT ![j] = 1]
          /\ proc[j] # "alive"
          /\ UNCHANGED <<proc, state, emitted>>
      <3>1. pc[j] = "unwind" /\ cleaned[j] = 0 /\ cleanup[j]
        BY <1>9 DEF runCleanup, CleanByPC, HeldByPC
      <3>2. cleaned' = [cleaned EXCEPT ![j] = @ + 1]
        BY <1>9, <3>1 DEF runCleanup
      <3>3. cleaned' = [cleaned EXCEPT ![j] = 1]
        BY <3>1, <3>2
      <3>4. proc[j] # "alive"
        BY <3>1 DEF ChildByPC
      <3>5. pc' = [pc EXCEPT ![j] = "wound"] /\ UNCHANGED <<proc, state, emitted>>
        BY <1>9 DEF runCleanup
      <3> QED BY <3>1, <3>3, <3>4, <3>5
    <2>2. PhaseOf(j) = "over" /\ PhaseOf(j)' = "over"
      BY <2>1 DEF PhaseOf
    <2>3. Life!Unlink(j)
      BY <2>1, <2>2, PhaseStays DEF Life!Unlink
    <2> QED BY <2>3 DEF Life!Next
  <1>10. CASE emitTerminal(j)
    <2>1. /\ \E p \in {"emitted", "done"} : pc' = [pc EXCEPT ![j] = p]
          /\ pc[j] = "marked"
          /\ cleaned[j] = 1
          /\ emitted[j] \in {<<>>, <<"started">>}
          /\ emitted' = [emitted EXCEPT ![j] = Append(@, state[j])]
          /\ UNCHANGED <<proc, cleaned, state>>
      BY <1>10 DEF emitTerminal, credVars, HeldByPC, EmittedByPC, VerdictByPC
    <2>2. PhaseOf(j) = "over" /\ PhaseOf(j)' = "over"
      BY <2>1 DEF PhaseOf
    <2>3. Life!AnnounceVerdict(j)
      BY ZenonT(30), <2>1, <2>2, PhaseStays DEF Life!AnnounceVerdict
    <2> QED BY <2>3 DEF Life!Next
  <1>11. CASE cancel(j)
    <2>1. /\ state[j] \in {"pending", "running"}
          /\ state' = [state EXCEPT ![j] = "cancelled"]
          /\ UNCHANGED <<pc, proc, cleaned, emitted>>
      BY <1>11 DEF cancel, Active, credVars
    <2>2. pc[j] \in {"queued", "spawn", "startFailed", "aborted", "started", "running"}
      BY <2>1 DEF UnbornByPC, VerdictByPC, Verdict, PC
    <2>3. PhaseOf(j) \in {"waiting", "spawned"} /\ \A k \in Jobs : PhaseOf(k)' = PhaseOf(k)
      BY <2>1, <2>2 DEF PhaseOf
    <2>4. Life!Cancel(j)
      BY <2>1, <2>3 DEF Life!Cancel
    <2> QED BY <2>4 DEF Life!Next
  <1> QED
    BY <1>1, <1>2, <1>3, <1>4, <1>5, <1>6, <1>7, <1>8, <1>9, <1>10, <1>11 DEF Step

(***************************************************************************)
(* The engine keeps what JobLife promises: whatever jobs, caps, cancels,   *)
(* failing starts and a shutdown do to each other, a job has one child at  *)
(* most, its credentials from before the start to after the end, and one   *)
(* verdict, announced once and never changed.                              *)
(***************************************************************************)
THEOREM EngineImplementsLife == Spec => ImplementsLife
  <1>1. Init => Life!Init
    BY DEF Init, PhaseOf, Life!Init
  <1>2. LifeInv /\ [Next]_vars => [Life!Next]_(Life!vars)
    <2> SUFFICES ASSUME LifeInv, [Next]_vars
                 PROVE  Life!Next \/ UNCHANGED Life!vars
      OBVIOUS
    <2>1. CASE \E j \in Jobs : Step(j)
      BY <2>1, StepRefinesLife
    <2>2. CASE shutdown \/ acquireMaint \/ releaseMaint \/ UNCHANGED vars
      <3>1. UNCHANGED <<pc, proc, cleaned, state, emitted>>
        BY <2>2 DEF shutdown, acquireMaint, releaseMaint, vars, regVars, jobVars, credVars
      <3> QED BY <3>1 DEF Life!vars, PhaseOf
    <2> QED BY <2>1, <2>2, NextSteps
  <1> QED BY <1>1, <1>2, LifeInvAlways, PTL DEF Spec, ImplementsLife, Life!Spec
=============================================================================
