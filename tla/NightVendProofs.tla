--------------------------- MODULE NightVendProofs ---------------------------
(***************************************************************************)
(* Proofs about NightWave and SecretVend, of which MCNightVend consists.   *)
(*                                                                         *)
(* NightWave: for any jobs and storages, any number of things that go      *)
(* wrong and any number of requests; what prunes and checks are to each    *)
(* other, on a host with one maintenance slot.                             *)
(*                                                                         *)
(* SecretVend: for any repos, callers and credentials, any number of       *)
(* attempts and any number of rotations.                                   *)
(***************************************************************************)
EXTENDS MCNightVend, FiniteSetTheorems, TLAPS

-----------------------------------------------------------------------------
(* NightWave: the scheduled jobs of a night.                               *)

\* The default of DUPLICACY_MAX_CONCURRENT_MAINT.
OneMaintSlot == MaxConcurrentMaint = 1

Gated(j) == semFor(action[j]) = "maintSem"
Alive(j) == st[j] \in {"running", "dying"}
Tops(S) == {m \in S : \A r \in S : r <= m}

(***************************************************************************)
(* The types.  A set of revisions that is not empty has a highest one.     *)
(***************************************************************************)
NightTypes ==
    /\ st \in [Jobs -> {"idle", "pending", "running", "dying", "over"}]
    /\ fired \subseteq {"prune", "check"}
    /\ due \subseteq Acts({"backup", "copy"}) /\ queue \subseteq Jobs \ Manual
    /\ flushing \subseteq Acts({"check"}) /\ flushed \subseteq Acts({"check"})
    /\ revs \in [Storages -> SUBSET Nat] /\ table \in [Storages -> SUBSET Nat]
    /\ listed \in [Jobs -> SUBSET Nat]
    /\ \A s \in Storages : Tops(revs[s]) # {}
    /\ \A j \in Jobs : listed[j] = {} \/ Tops(listed[j]) # {}

\* At most one child of those that share the maintenance slot.
SlotInv == \A j, k \in Jobs : Gated(j) /\ Gated(k) /\ Alive(j) /\ Alive(k) => j = k

\* A stage's schedules start with its marker, once; the checks' marker comes
\* when no scheduled prune is to start or is active.
ChainInv ==
    /\ "check" \in fired => "prune" \in fired
    /\ \A j \in queue : action[j] \in fired /\ st[j] = "idle"
    /\ \A a \in {"prune", "check"} : \A j \in Scheduled(a) :
          st[j] # "idle" \/ listed[j] # {} => a \in fired
    /\ "check" \in fired =>
          \A p \in Scheduled("prune") : p \notin queue /\ st[p] \in {"idle", "dying", "over"}

\* What a check found is at most as high as what is there, and so is the table;
\* the rows that were written whole are in it.
RowsInv ==
    /\ \A j \in flushing \union flushed : st[j] = "over"
    /\ \A j \in Acts({"check"}) : \A r \in listed[j] : \E m \in revs[storage[j]] : r <= m
    /\ \A s \in Storages : \A r \in table[s] : \E m \in revs[s] : r <= m
    /\ \A c \in flushed : listed[c] \subseteq table[storage[c]]

\* The inductive invariant, and what it becomes where the slot is one.
NightInv == NightTypes /\ ChainInv /\ RowsInv
SlotNightInv == NightInv /\ SlotInv /\ CheckSeesRetained /\ CheckAfterPrune

-----------------------------------------------------------------------------
\* Nobody who needs the slot has a child when another gets it.
LEMMA SlotIsFree ==
    ASSUME OneMaintSlot, NEW j \in Jobs, Gated(j), HasSlot(j), NEW k \in Jobs, Gated(k)
    PROVE  ~Alive(k)
  <1> DEFINE S == {i \in Jobs : semFor(action[i]) = "maintSem" /\ st[i] \in {"running", "dying"}}
  <1>1. IsFiniteSet(S) /\ Cardinality(S) \in Nat
    BY NightAssumption, FS_Subset, FS_CardinalityType
  <1>2. Cardinality(S) < 1
    BY DEF OneMaintSlot, Gated, HasSlot, Cap
  <1>3. S = {}
    BY <1>1, <1>2, FS_EmptySet
  <1> QED BY <1>3 DEF Gated, Alive

\* countActive counts nobody only when there is nobody.
LEMMA NoneActive ==
    ASSUME NEW actions, countActive(actions) = 0, NEW j \in Acts(actions)
    PROVE  st[j] \notin {"pending", "running"}
  <1> DEFINE S == {i \in Acts(actions) : st[i] \in {"pending", "running"}}
  <1>1. IsFiniteSet(S)
    BY NightAssumption, FS_Subset DEF Acts
  <1>2. S = {}
    BY <1>1, FS_EmptySet DEF countActive
  <1> QED BY <1>2

\* The highest of a set that has one.
LEMMA MaxIsTop ==
    ASSUME NEW S \in SUBSET Nat, Tops(S) # {}
    PROVE  Max(S) \in S /\ \A r \in S : r <= Max(S)
  <1>1. \E x \in S : \A y \in S : x >= y
    BY DEF Tops
  <1>2. Max(S) \in S /\ \A y \in S : Max(S) >= y
    BY <1>1 DEF Max
  <1> QED BY <1>2

\* Two sets with a highest element each have one together.
LEMMA TopsOfUnion ==
    ASSUME NEW S \in SUBSET Nat, NEW T \in SUBSET Nat, Tops(S) # {}, T = {} \/ Tops(T) # {}
    PROVE  Tops(S \union T) # {}
  <1>1. CASE T = {}
    BY <1>1
  <1>2. CASE Tops(T) # {}
    <2>1. PICK m \in S, n \in T : (\A r \in S : r <= m) /\ \A r \in T : r <= n
      BY <1>2 DEF Tops
    <2>2. CASE m <= n
      <3>1. n \in Tops(S \union T)
        BY <2>1, <2>2 DEF Tops
      <3> QED BY <3>1
    <2>3. CASE n <= m
      <3>1. m \in Tops(S \union T)
        BY <2>1, <2>3 DEF Tops
      <3> QED BY <3>1
    <2> QED BY <2>2, <2>3
  <1> QED BY <1>1, <1>2

(***************************************************************************)
(* What a job that completes does to the revisions: there is a highest one *)
(* afterwards, at least as high as any before, and none is removed but by  *)
(* a prune.                                                                *)
(***************************************************************************)
LEMMA EffectGrows ==
    ASSUME NightInv, NEW j \in Jobs
    PROVE  /\ Effect(j) \in [Storages -> SUBSET Nat]
           /\ \A s \in Storages : Tops(Effect(j)[s]) # {}
           /\ \A s \in Storages : \A r \in revs[s] : \E m \in Effect(j)[s] : r <= m
           /\ action[j] # "prune" => \A s \in Storages : revs[s] \subseteq Effect(j)[s]
  <1> DEFINE s == storage[j]
  <1>1. s \in Storages /\ revs[s] \in SUBSET Nat /\ Tops(revs[s]) # {}
    BY NightAssumption DEF NightInv, NightTypes
  <1>2. Max(revs[s]) \in Nat /\ Max(revs[s]) \in revs[s] /\ \A r \in revs[s] : r <= Max(revs[s])
    BY <1>1, MaxIsTop
  <1>3. PICK new \in SUBSET Nat :
           /\ Effect(j) = [revs EXCEPT ![s] = new]
           /\ Tops(new) # {}
           /\ \A r \in revs[s] : \E m \in new : r <= m
           /\ action[j] # "prune" => revs[s] \subseteq new
    <2>1. CASE action[j] = "backup"
      <3> DEFINE N == revs[s] \union {Max(revs[s]) + 1}
      <3>1. Max(revs[s]) + 1 \in Tops(N)
        BY <1>1, <1>2 DEF Tops
      <3>2. N \in SUBSET Nat /\ revs[s] \subseteq N /\ Effect(j) = [revs EXCEPT ![s] = N]
        BY <1>1, <1>2, <2>1 DEF Effect
      <3>3. \A r \in revs[s] : \E m \in N : r <= m
        BY <1>1, <3>2
      <3> QED BY <3>1, <3>2, <3>3
    <2>2. CASE action[j] = "copy"
      <3> DEFINE N == revs[s] \union listed[j]
      <3>1. N \in SUBSET Nat /\ revs[s] \subseteq N /\ Effect(j) = [revs EXCEPT ![s] = N]
        BY <1>1, <2>2 DEF Effect, NightInv, NightTypes
      <3>2. Tops(N) # {}
        BY <1>1, TopsOfUnion DEF NightInv, NightTypes
      <3>3. \A r \in revs[s] : \E m \in N : r <= m
        BY <1>1, <3>1
      <3> QED BY <3>1, <3>2, <3>3
    <2>3. CASE action[j] = "prune"
      <3> DEFINE N == {Max(revs[s])}
      <3>1. Max(revs[s]) \in Tops(N)
        BY <1>2 DEF Tops
      <3> QED BY <1>2, <2>3, <3>1 DEF Effect
    <2>4. CASE action[j] \notin {"backup", "copy", "prune"}
      <3>1. Effect(j) = revs /\ revs = [revs EXCEPT ![s] = revs[s]]
        BY <1>1, <2>4 DEF Effect, NightInv, NightTypes
      <3> QED BY <1>1, <3>1
    <2> QED BY <2>1, <2>2, <2>3, <2>4
  <1> QED BY <1>1, <1>3 DEF NightInv, NightTypes

\* What the hook of a job starts: a stage that has not been fired, and whose
\* schedules are all idle; the checks only beside no active prune.
LEMMA StageStarts ==
    ASSUME NightInv, NEW j \in Jobs, OnJobComplete(j)
    PROVE  \/ queue' = {} /\ fired' = fired
           \/ /\ queue' = Scheduled("prune") /\ fired' = fired \union {"prune"}
              /\ "prune" \notin fired
           \/ /\ queue' = Scheduled("check") /\ fired' = fired \union {"check"}
              /\ "prune" \in fired /\ "check" \notin fired
              /\ \A p \in Scheduled("prune") : st[p] \notin {"pending", "running"}
  <1>1. CASE StageAfter(j) = "prune"
    BY <1>1 DEF OnJobComplete, StageAfter
  <1>2. CASE StageAfter(j) = "check"
    <2>1. countActive(Prunes) = 0 /\ "prune" \in fired /\ "check" \notin fired
      BY <1>2 DEF StageAfter
    <2>2. \A p \in Scheduled("prune") : p \in Acts(Prunes)
      BY DEF Scheduled, Acts, Prunes
    <2> QED BY <1>2, <2>1, <2>2, NoneActive DEF OnJobComplete
  <1>3. CASE StageAfter(j) = "none"
    BY <1>3, NightAssumption DEF OnJobComplete, Scheduled, Acts
  <1> QED BY <1>1, <1>2, <1>3 DEF StageAfter

\* Each step keeps the types and a highest revision.
LEMMA TypesStep ==
    ASSUME NightInv, Next
    PROVE  NightTypes'
  <1> USE NightAssumption DEF NightInv, NightTypes, Acts, Scheduled, Started
  <1>1. ASSUME tick PROVE NightTypes'
    BY <1>1 DEF tick
  <1>2. ASSUME NEW j \in Jobs, fireDue(j) PROVE NightTypes'
    BY <1>2 DEF fireDue
  <1>3. ASSUME NEW j \in Jobs, fireStage(j) PROVE NightTypes'
    BY <1>3 DEF fireStage
  <1>4. ASSUME NEW j \in Jobs, fireStageFails(j) PROVE NightTypes'
    BY <1>4 DEF fireStageFails
  <1>5. ASSUME NEW j \in Jobs, request(j) PROVE NightTypes'
    BY <1>5 DEF request
  <1>6. ASSUME NEW j \in Jobs, spawn(j) PROVE NightTypes'
    BY <1>6 DEF spawn
  <1>7. ASSUME NEW j \in Jobs, spawnFails(j) PROVE NightTypes'
    BY <1>7 DEF spawnFails
  <1>8. ASSUME NEW j \in Jobs, cancel(j) PROVE NightTypes'
    BY <1>8 DEF cancel
  <1>9. ASSUME NEW j \in Jobs, complete(j) PROVE NightTypes'
    <2>1. /\ revs' \in [Storages -> SUBSET Nat]
          /\ \A s \in Storages : Tops(revs'[s]) # {}
      BY <1>9, EffectGrows DEF complete
    <2> QED BY <1>9, <2>1 DEF complete
  <1>10. ASSUME NEW j \in Jobs, fail(j) PROVE NightTypes'
    BY <1>10 DEF fail
  <1>11. ASSUME NEW j \in Jobs, OnJobComplete(j) PROVE NightTypes'
    BY <1>11, StageStarts DEF OnJobComplete
  <1>12. ASSUME NEW j \in Jobs, flushSnapshotStats(j) PROVE NightTypes'
    <2>1. PICK rows \in Collected(listed[j]) :
             /\ table' = upsertCheckRun(storage[j], rows)
             /\ flushed' = IF rows = listed[j] THEN flushed \union {j} ELSE flushed
      BY <1>12 DEF flushSnapshotStats
    <2>2. rows \in SUBSET Nat
      BY <2>1 DEF Collected
    <2>3. table' \in [Storages -> SUBSET Nat] /\ flushed' \subseteq Acts({"check"})
      BY <1>12, <2>1, <2>2 DEF upsertCheckRun, flushSnapshotStats
    <2> QED BY <1>12, <2>3 DEF flushSnapshotStats
  <1>13. ASSUME NEW j \in Jobs, flushFails(j) PROVE NightTypes'
    BY <1>13 DEF flushFails
  <1> QED
    BY <1>1, <1>2, <1>3, <1>4, <1>5, <1>6, <1>7, <1>8, <1>9, <1>10, <1>11, <1>12, <1>13
       DEF Next, Goes

\* Each step keeps the maintenance slot to one child.
LEMMA SlotStep ==
    ASSUME OneMaintSlot, SlotNightInv, Next
    PROVE  SlotInv'
  <1> USE NightAssumption DEF SlotNightInv, NightInv, NightTypes, SlotInv, Gated, Alive, Started
  <1>1. ASSUME tick PROVE SlotInv'
    BY <1>1 DEF tick
  <1>2. ASSUME NEW j \in Jobs, fireDue(j) PROVE SlotInv'
    BY <1>2 DEF fireDue
  <1>3. ASSUME NEW j \in Jobs, fireStage(j) PROVE SlotInv'
    BY <1>3 DEF fireStage
  <1>4. ASSUME NEW j \in Jobs, fireStageFails(j) PROVE SlotInv'
    BY <1>4 DEF fireStageFails
  <1>5. ASSUME NEW j \in Jobs, request(j) PROVE SlotInv'
    BY <1>5 DEF request
  <1>6. ASSUME NEW j \in Jobs, spawn(j) PROVE SlotInv'
    <2>1. Gated(j) => \A k \in Jobs : Gated(k) => ~Alive(k)
      BY <1>6, SlotIsFree DEF spawn
    <2>2. \A k \in Jobs : k # j => st'[k] = st[k]
      BY <1>6 DEF spawn
    <2> QED BY <2>1, <2>2
  <1>7. ASSUME NEW j \in Jobs, spawnFails(j) PROVE SlotInv'
    BY <1>7 DEF spawnFails
  <1>8. ASSUME NEW j \in Jobs, cancel(j) PROVE SlotInv'
    BY <1>8 DEF cancel
  <1>9. ASSUME NEW j \in Jobs, complete(j) PROVE SlotInv'
    BY <1>9 DEF complete
  <1>10. ASSUME NEW j \in Jobs, fail(j) PROVE SlotInv'
    BY <1>10 DEF fail
  <1>11. ASSUME NEW j \in Jobs, OnJobComplete(j) PROVE SlotInv'
    BY <1>11 DEF OnJobComplete
  <1>12. ASSUME NEW j \in Jobs, flushSnapshotStats(j) PROVE SlotInv'
    BY <1>12 DEF flushSnapshotStats
  <1>13. ASSUME NEW j \in Jobs, flushFails(j) PROVE SlotInv'
    BY <1>13 DEF flushFails
  <1> QED
    BY <1>1, <1>2, <1>3, <1>4, <1>5, <1>6, <1>7, <1>8, <1>9, <1>10, <1>11, <1>12, <1>13
       DEF Next, Goes

\* Each step keeps the order of the stages.
LEMMA ChainStep ==
    ASSUME NightInv, Next
    PROVE  ChainInv'
  <1> USE NightAssumption DEF NightInv, NightTypes, ChainInv, Acts, Scheduled, Started
  <1>1. ASSUME tick PROVE ChainInv'
    BY <1>1 DEF tick
  <1>2. ASSUME NEW j \in Jobs, fireDue(j) PROVE ChainInv'
    BY <1>2 DEF fireDue
  <1>3. ASSUME NEW j \in Jobs, fireStage(j) PROVE ChainInv'
    BY <1>3 DEF fireStage
  <1>4. ASSUME NEW j \in Jobs, fireStageFails(j) PROVE ChainInv'
    BY <1>4 DEF fireStageFails
  <1>5. ASSUME NEW j \in Jobs, request(j) PROVE ChainInv'
    BY <1>5 DEF request
  <1>6. ASSUME NEW j \in Jobs, spawn(j) PROVE ChainInv'
    BY <1>6 DEF spawn
  <1>7. ASSUME NEW j \in Jobs, spawnFails(j) PROVE ChainInv'
    BY <1>7 DEF spawnFails
  <1>8. ASSUME NEW j \in Jobs, cancel(j) PROVE ChainInv'
    BY <1>8 DEF cancel
  <1>9. ASSUME NEW j \in Jobs, complete(j) PROVE ChainInv'
    BY <1>9 DEF complete
  <1>10. ASSUME NEW j \in Jobs, fail(j) PROVE ChainInv'
    BY <1>10 DEF fail
  <1>11. ASSUME NEW j \in Jobs, OnJobComplete(j) PROVE ChainInv'
    <2>1. st' = st /\ listed' = listed /\ queue = {}
      BY <1>11 DEF OnJobComplete
    <2>2. CASE queue' = {} /\ fired' = fired
      BY <2>1, <2>2
    <2>3. CASE /\ queue' = Scheduled("prune") /\ fired' = fired \union {"prune"}
               /\ "prune" \notin fired
      BY <2>1, <2>3
    <2>4. CASE /\ queue' = Scheduled("check") /\ fired' = fired \union {"check"}
               /\ "prune" \in fired /\ "check" \notin fired
               /\ \A p \in Scheduled("prune") : st[p] \notin {"pending", "running"}
      BY <2>1, <2>4
    <2> QED BY <1>11, <2>2, <2>3, <2>4, StageStarts
  <1>12. ASSUME NEW j \in Jobs, flushSnapshotStats(j) PROVE ChainInv'
    BY <1>12 DEF flushSnapshotStats
  <1>13. ASSUME NEW j \in Jobs, flushFails(j) PROVE ChainInv'
    BY <1>13 DEF flushFails
  <1> QED
    BY <1>1, <1>2, <1>3, <1>4, <1>5, <1>6, <1>7, <1>8, <1>9, <1>10, <1>11, <1>12, <1>13
       DEF Next, Goes

\* Each step leaves a check that runs the revisions it found.
LEMMA RetainedStep ==
    ASSUME OneMaintSlot, SlotNightInv, Next
    PROVE  CheckSeesRetained'
  <1> USE NightAssumption DEF SlotNightInv, NightInv, NightTypes, CheckSeesRetained, Acts, Started
  <1>1. ASSUME tick PROVE CheckSeesRetained'
    BY <1>1 DEF tick
  <1>2. ASSUME NEW j \in Jobs, fireDue(j) PROVE CheckSeesRetained'
    BY <1>2 DEF fireDue
  <1>3. ASSUME NEW j \in Jobs, fireStage(j) PROVE CheckSeesRetained'
    BY <1>3 DEF fireStage
  <1>4. ASSUME NEW j \in Jobs, fireStageFails(j) PROVE CheckSeesRetained'
    BY <1>4 DEF fireStageFails
  <1>5. ASSUME NEW j \in Jobs, request(j) PROVE CheckSeesRetained'
    BY <1>5 DEF request
  <1>6. ASSUME NEW j \in Jobs, spawn(j) PROVE CheckSeesRetained'
    BY <1>6 DEF spawn
  <1>7. ASSUME NEW j \in Jobs, spawnFails(j) PROVE CheckSeesRetained'
    BY <1>7 DEF spawnFails
  <1>8. ASSUME NEW j \in Jobs, cancel(j) PROVE CheckSeesRetained'
    BY <1>8 DEF cancel
  <1>9. ASSUME NEW j \in Jobs, complete(j) PROVE CheckSeesRetained'
    <2>1. ASSUME NEW c \in Acts({"check"}), st'[c] \in {"running", "dying"}
          PROVE  listed'[c] \subseteq revs'[storage[c]]
      <3>1. c # j /\ st[c] \in {"running", "dying"} /\ listed'[c] = listed[c]
        BY <1>9, <2>1 DEF complete
      <3>2. action[j] # "prune"
        BY <1>9, <3>1 DEF complete, SlotInv, Gated, Alive, semFor, Prunes
      <3> QED BY <1>9, <3>1, <3>2, EffectGrows DEF complete
    <2> QED BY <2>1
  <1>10. ASSUME NEW j \in Jobs, fail(j) PROVE CheckSeesRetained'
    BY <1>10 DEF fail
  <1>11. ASSUME NEW j \in Jobs, OnJobComplete(j) PROVE CheckSeesRetained'
    BY <1>11 DEF OnJobComplete
  <1>12. ASSUME NEW j \in Jobs, flushSnapshotStats(j) PROVE CheckSeesRetained'
    BY <1>12 DEF flushSnapshotStats
  <1>13. ASSUME NEW j \in Jobs, flushFails(j) PROVE CheckSeesRetained'
    BY <1>13 DEF flushFails
  <1> QED
    BY <1>1, <1>2, <1>3, <1>4, <1>5, <1>6, <1>7, <1>8, <1>9, <1>10, <1>11, <1>12, <1>13
       DEF Next, Goes

\* Each step keeps the checks of the chain after its prunes.
LEMMA AfterStep ==
    ASSUME OneMaintSlot, SlotNightInv, Next
    PROVE  CheckAfterPrune'
  <1> USE NightAssumption DEF SlotNightInv, NightInv, NightTypes, ChainInv, CheckAfterPrune, Acts, Scheduled, Started
  <1>1. ASSUME tick PROVE CheckAfterPrune'
    BY <1>1 DEF tick
  <1>2. ASSUME NEW j \in Jobs, fireDue(j) PROVE CheckAfterPrune'
    BY <1>2 DEF fireDue
  <1>3. ASSUME NEW j \in Jobs, fireStage(j) PROVE CheckAfterPrune'
    BY <1>3 DEF fireStage
  <1>4. ASSUME NEW j \in Jobs, fireStageFails(j) PROVE CheckAfterPrune'
    BY <1>4 DEF fireStageFails
  <1>5. ASSUME NEW j \in Jobs, request(j) PROVE CheckAfterPrune'
    BY <1>5 DEF request
  <1>6. ASSUME NEW j \in Jobs, spawn(j) PROVE CheckAfterPrune'
    <2>1. ASSUME NEW c \in Scheduled("check"), NEW p \in Scheduled("prune"), listed'[c] # {}
          PROVE  st'[p] \in {"idle", "over"} /\ p \notin queue'
      <3>1. CASE c = j
        <4>1. "check" \in fired /\ p # j
          BY <1>6, <3>1 DEF spawn
        <4>2. ~Alive(p)
          BY <1>6, <3>1, SlotIsFree DEF spawn, Gated, semFor, Prunes
        <4> QED BY <1>6, <4>1, <4>2 DEF spawn, Alive
      <3>2. CASE c # j
        BY <1>6, <2>1, <3>2 DEF spawn
      <3> QED BY <3>1, <3>2
    <2> QED BY <2>1
  <1>7. ASSUME NEW j \in Jobs, spawnFails(j) PROVE CheckAfterPrune'
    BY <1>7 DEF spawnFails
  <1>8. ASSUME NEW j \in Jobs, cancel(j) PROVE CheckAfterPrune'
    BY <1>8 DEF cancel
  <1>9. ASSUME NEW j \in Jobs, complete(j) PROVE CheckAfterPrune'
    BY <1>9 DEF complete
  <1>10. ASSUME NEW j \in Jobs, fail(j) PROVE CheckAfterPrune'
    BY <1>10 DEF fail
  <1>11. ASSUME NEW j \in Jobs, OnJobComplete(j) PROVE CheckAfterPrune'
    <2>1. st' = st /\ listed' = listed
      BY <1>11 DEF OnJobComplete
    <2>2. "check" \in fired => queue' \intersect Scheduled("prune") = {}
      BY <1>11, StageStarts
    <2> QED BY <2>1, <2>2
  <1>12. ASSUME NEW j \in Jobs, flushSnapshotStats(j) PROVE CheckAfterPrune'
    BY <1>12 DEF flushSnapshotStats
  <1>13. ASSUME NEW j \in Jobs, flushFails(j) PROVE CheckAfterPrune'
    BY <1>13 DEF flushFails
  <1> QED
    BY <1>1, <1>2, <1>3, <1>4, <1>5, <1>6, <1>7, <1>8, <1>9, <1>10, <1>11, <1>12, <1>13
       DEF Next, Goes

\* Each step keeps the rows below the newest revision, and those written whole.
LEMMA RowsStep ==
    ASSUME NightInv, Next
    PROVE  RowsInv'
  <1> USE NightAssumption DEF NightInv, NightTypes, ChainInv, RowsInv, Acts, Scheduled, Started
  <1>1. ASSUME tick PROVE RowsInv'
    BY <1>1 DEF tick
  <1>2. ASSUME NEW j \in Jobs, fireDue(j) PROVE RowsInv'
    BY <1>2 DEF fireDue
  <1>3. ASSUME NEW j \in Jobs, fireStage(j) PROVE RowsInv'
    BY <1>3 DEF fireStage
  <1>4. ASSUME NEW j \in Jobs, fireStageFails(j) PROVE RowsInv'
    BY <1>4 DEF fireStageFails
  <1>5. ASSUME NEW j \in Jobs, request(j) PROVE RowsInv'
    BY <1>5 DEF request
  <1>6. ASSUME NEW j \in Jobs, spawn(j) PROVE RowsInv'
    BY <1>6 DEF spawn
  <1>7. ASSUME NEW j \in Jobs, spawnFails(j) PROVE RowsInv'
    BY <1>7 DEF spawnFails
  <1>8. ASSUME NEW j \in Jobs, cancel(j) PROVE RowsInv'
    BY <1>8 DEF cancel
  <1>9. ASSUME NEW j \in Jobs, complete(j) PROVE RowsInv'
    <2>1. \A s \in Storages : \A r \in revs[s] : \E m \in revs'[s] : r <= m
      BY <1>9, EffectGrows DEF complete
    <2>2. \A s \in Storages : revs[s] \subseteq Nat /\ revs'[s] \subseteq Nat
      BY <1>9, EffectGrows DEF complete
    <2>3. \A s \in Storages : \A r \in Nat :
             (\E m \in revs[s] : r <= m) => \E m \in revs'[s] : r <= m
      BY <2>1, <2>2
    <2>4. listed' = listed /\ table' = table /\ flushed' = flushed
      BY <1>9 DEF complete
    <2>5. \A c \in flushing' \union flushed' : st'[c] = "over"
      BY <1>9 DEF complete
    <2> QED BY <2>3, <2>4, <2>5
  <1>10. ASSUME NEW j \in Jobs, fail(j) PROVE RowsInv'
    BY <1>10 DEF fail
  <1>11. ASSUME NEW j \in Jobs, OnJobComplete(j) PROVE RowsInv'
    BY <1>11 DEF OnJobComplete
  <1>12. ASSUME NEW j \in Jobs, flushSnapshotStats(j) PROVE RowsInv'
    <2>1. PICK rows \in Collected(listed[j]) :
             /\ table' = upsertCheckRun(storage[j], rows)
             /\ flushed' = IF rows = listed[j] THEN flushed \union {j} ELSE flushed
      BY <1>12 DEF flushSnapshotStats
    <2>2. rows \subseteq listed[j] /\ table' = [table EXCEPT ![storage[j]] = @ \union rows]
      BY <2>1 DEF Collected, upsertCheckRun
    <2>3. revs' = revs /\ listed' = listed /\ st' = st /\ j \in flushing /\ action[j] = "check"
      BY <1>12 DEF flushSnapshotStats
    <2>4. \A s \in Storages : \A r \in table'[s] : \E m \in revs[s] : r <= m
      BY <2>2, <2>3
    <2>5. \A c \in flushed' : listed[c] \subseteq table'[storage[c]]
      BY <2>1, <2>2
    <2>6. \A c \in flushing' \union flushed' : st[c] = "over"
      BY <1>12, <2>1 DEF flushSnapshotStats
    <2> QED BY <2>3, <2>4, <2>5, <2>6
  <1>13. ASSUME NEW j \in Jobs, flushFails(j) PROVE RowsInv'
    BY <1>13 DEF flushFails
  <1> QED
    BY <1>1, <1>2, <1>3, <1>4, <1>5, <1>6, <1>7, <1>8, <1>9, <1>10, <1>11, <1>12, <1>13
       DEF Next, Goes

\* In the evening nothing has happened.
LEMMA InitNight ==
    ASSUME Init
    PROVE  SlotNightInv
  <1> USE NightAssumption DEF Init
  <1>1. 2 \in Tops({1, 2})
    BY DEF Tops
  <1>2. NightTypes
    BY <1>1 DEF NightTypes
  <1>3. SlotInv /\ ChainInv /\ CheckSeesRetained /\ CheckAfterPrune /\ RowsInv
    BY DEF SlotInv, Alive, ChainInv, CheckSeesRetained, CheckAfterPrune, RowsInv,
           Acts, Scheduled
  <1> QED BY <1>2, <1>3 DEF NightInv, SlotNightInv

\* A step that changes nothing keeps the invariant.
LEMMA StutterNight ==
    ASSUME UNCHANGED vars
    PROVE  (NightInv => NightInv') /\ (SlotNightInv => SlotNightInv')
  BY DEF SlotNightInv, NightInv, NightTypes, SlotInv, Alive, ChainInv, CheckSeesRetained,
         CheckAfterPrune, RowsInv, vars

(***************************************************************************)
(* The invariant holds throughout: the stages of the chain come in their   *)
(* order, and no row is of a higher revision than the storage has.         *)
(***************************************************************************)
THEOREM NightInvariant == Spec => []NightInv
  <1>1. Init => NightInv
    BY InitNight DEF SlotNightInv
  <1>2. NightInv /\ [Next]_vars => NightInv'
    BY TypesStep, ChainStep, RowsStep, StutterNight DEF NightInv
  <1> QED BY <1>1, <1>2, PTL DEF Spec

(***************************************************************************)
(* With one slot, no two of the jobs that need it have a child, a prune    *)
(* finds no check at work and a check of the chain no prune (acquireSlot). *)
(***************************************************************************)
THEOREM SlotInvariant == ASSUME OneMaintSlot PROVE Spec => []SlotNightInv
  <1>1. Init => SlotNightInv
    BY InitNight
  <1>2. SlotNightInv /\ [Next]_vars => SlotNightInv'
    <2>1. SlotNightInv /\ Next => NightInv'
      BY TypesStep, ChainStep, RowsStep DEF SlotNightInv, NightInv
    <2> QED BY <2>1, SlotStep, RetainedStep, AfterStep, StutterNight DEF SlotNightInv
  <1> QED BY <1>1, <1>2, PTL DEF Spec

(***************************************************************************)
(* No prune removes a revision under a check of its storage, whoever asked *)
(* for either and whatever is cancelled (semFor, acquireSlot).             *)
(***************************************************************************)
THEOREM RetainedForCheck == ASSUME OneMaintSlot PROVE Spec => []CheckSeesRetained
  BY SlotInvariant, PTL DEF SlotNightInv

(***************************************************************************)
(* The checks of the chain follow its prunes, although the chain forgets a *)
(* cancelled prune whose child still exits (countActive, newDuplicacyChain)*)
(***************************************************************************)
THEOREM ChecksFollowPrunes == ASSUME OneMaintSlot PROVE Spec => []CheckAfterPrune
  BY SlotInvariant, PTL DEF SlotNightInv

(***************************************************************************)
(* The row a storage's rollup shows is that of the newest revision, once a *)
(* check that saw it is written whole, in whatever order rows arrive       *)
(* (upsertCheckRun, queryDestinations).                                    *)
(***************************************************************************)
THEOREM RollupShowsNewest == Spec => []RollupCurrent
  <1>1. NightInv => RollupCurrent
    <2> SUFFICES ASSUME NightInv, NEW s \in Storages, NEW c \in flushed,
                        storage[c] = s, Max(revs[s]) \in listed[c]
                 PROVE  Max(table[s]) = Max(revs[s])
      BY DEF RollupCurrent, latest
    <2>1. revs[s] \in SUBSET Nat /\ table[s] \in SUBSET Nat /\ Tops(revs[s]) # {}
      BY DEF NightInv, NightTypes
    <2>2. Max(revs[s]) \in Nat /\ \A r \in revs[s] : r <= Max(revs[s])
      BY <2>1, MaxIsTop
    <2>3. Max(revs[s]) \in table[s]
      BY DEF NightInv, RowsInv
    <2>4. \A r \in table[s] : r <= Max(revs[s])
      BY <2>1, <2>2 DEF NightInv, RowsInv
    <2>5. Max(table[s]) \in table[s] /\ \A r \in table[s] : r <= Max(table[s])
      BY <2>1, <2>3, <2>4, MaxIsTop DEF Tops
    <2> QED BY <2>1, <2>2, <2>3, <2>4, <2>5
  <1> QED BY NightInvariant, <1>1, PTL

-----------------------------------------------------------------------------
(* SecretVend: the credentials of an invocation.                           *)

(***************************************************************************)
(* A caller in the loop works on a bundle of the controller.               *)
(***************************************************************************)
BundleInv ==
    \A r \in Call : pc[r] \in {"answered", "build"} => bundle[r] \in 1..MaxVersion

\* As long as no storage has failed, those before the current one are done.
Done(r) == IF pc[r] = "ready" THEN Len(Credentials[r]) ELSE at[r] - 1

Progress(r) ==
    pc[r] # "idle" /\ ~failed[r] =>
        /\ Len(env[r]) = Done(r)
        /\ \A i \in 1..Len(Credentials[r]) : <<r, i>> \in files <=> i <= Done(r)

ProgressInv == \A r \in Call : Progress(r)

\* A caller that goes ahead has no failed storage, an idle one has no file.
OutcomeInv ==
    \A r \in Call :
        /\ pc[r] = "ready" => ~failed[r]
        /\ pc[r] = "idle" => \A i \in 1..Len(Credentials[r]) : <<r, i>> \notin files

\* A key file is that of a caller and one of its storages.
FileInv ==
    \A f \in files : \E r \in Call : \E i \in 1..Len(Credentials[r]) : f = <<r, i>>

\* The rest of the types.
ValuesInv ==
    /\ version \in [Cred -> 1..MaxVersion]
    /\ notify \in [Cred -> BOOLEAN]
    /\ cache \in [Cred -> 0..MaxVersion]
    /\ fresh \in [Cred -> BOOLEAN]
    /\ pc \in [Call -> {"idle", "get", "fetch", "answered", "build", "ready"}]
    /\ at \in [Call -> Nat] /\ \A r \in Call : at[r] \in 1..Len(Credentials[r])
    /\ attempt \in [Call -> 0..(MaxAttempts - 1)]
    /\ bundle \in [Call -> 0..MaxVersion]
    /\ env \in [Call -> Seq(1..MaxVersion)]
    /\ failed \in [Call -> BOOLEAN]
    /\ floor \in [Cred -> 0..MaxVersion]

\* The inductive invariant.
VendInv ==
    /\ ValuesInv
    /\ FileInv
    /\ BundleInv
    /\ ProgressInv
    /\ OutcomeInv

-----------------------------------------------------------------------------
\* A repo has at least one storage, and each storage a credential.
LEMMA StorageFacts ==
    ASSUME Vend!VendConstants, NEW r \in Call
    PROVE  /\ Len(Credentials[r]) \in Nat \ {0}
           /\ \A i \in 1..Len(Credentials[r]) : Credentials[r][i] \in Cred
  <1>1. Credentials[r] \in Seq(Cred) /\ Credentials[r] # <<>>
    BY DEF Vend!VendConstants
  <1> QED BY <1>1

\* There is at least one attempt and one version.
LEMMA NumberFacts ==
    ASSUME Vend!VendConstants
    PROVE  MaxAttempts \in Nat \ {0} /\ MaxVersion \in Nat \ {0}
  BY DEF Vend!VendConstants

\* The storage a caller is at has a credential.
LEMMA WantedIsCred ==
    ASSUME Vend!VendConstants, VendInv, NEW r \in Call
    PROVE  Vend!Wanted(r) \in Cred
  BY StorageFacts DEF VendInv, ValuesInv, Vend!Wanted

\* What the loop of one caller does is nothing to another.
LEMMA OthersKept ==
    ASSUME VendInv, NEW r \in Call, NEW e \in BOOLEAN,
           NEW written \in {{}, {<<r, at[r]>>}}, Vend!nextStorage(r, e, written),
           NEW q \in Call, q # r
    PROVE  /\ pc'[q] = pc[q] /\ at'[q] = at[q] /\ failed'[q] = failed[q]
           /\ \A i \in 1..Len(Credentials[q]) : <<q, i>> \in files' <=> <<q, i>> \in files
  <1>1. pc'[q] = pc[q] /\ at'[q] = at[q] /\ failed'[q] = failed[q]
    BY DEF VendInv, ValuesInv, Vend!nextStorage
  <1>2. files' \in {Vend!cleanupOnError(r), files \union written}
    BY DEF Vend!nextStorage
  <1>3. \A i \in 1..Len(Credentials[q]) : <<q, i>> \in files' <=> <<q, i>> \in files
    BY <1>2 DEF Vend!cleanupOnError, Vend!FilesOf
  <1> QED BY <1>1, <1>3

\* ... and its progress is kept.
LEMMA OthersProgress ==
    ASSUME VendInv, NEW r \in Call, NEW e \in BOOLEAN,
           NEW written \in {{}, {<<r, at[r]>>}}, Vend!nextStorage(r, e, written),
           NEW q \in Call, q # r, env'[q] = env[q]
    PROVE  Progress(q)'
  <1>1. /\ pc'[q] = pc[q] /\ at'[q] = at[q] /\ failed'[q] = failed[q]
        /\ \A i \in 1..Len(Credentials[q]) : <<q, i>> \in files' <=> <<q, i>> \in files
    BY OthersKept
  <1>2. Progress(q)
    BY DEF VendInv, ProgressInv
  <1> QED BY <1>1, <1>2 DEF Progress, Done

\* A storage whose step succeeded leaves its file and moves the caller on.
LEMMA StorageDone ==
    ASSUME Vend!VendConstants, VendInv, NEW r \in Call, pc[r] = "build",
           Vend!nextStorage(r, FALSE, {<<r, at[r]>>}), ~failed[r]
    PROVE  /\ \A i \in 1..Len(Credentials[r]) : <<r, i>> \in files' <=> i <= Done(r)'
           /\ Done(r)' = Done(r) + 1
  <1>1. files' = files \union {<<r, at[r]>>}
    BY DEF Vend!nextStorage, Vend!errs
  <1>2. at[r] \in Nat /\ Len(Credentials[r]) \in Nat
    BY StorageFacts DEF VendInv, ValuesInv
  <1>3. Done(r)' = at[r] /\ Done(r) = at[r] - 1
    BY <1>2 DEF VendInv, ValuesInv, Vend!nextStorage, Vend!errs, Done
  <1>4. \A i \in 1..Len(Credentials[r]) : <<r, i>> \in files <=> i <= at[r] - 1
    BY <1>3 DEF VendInv, ProgressInv, Progress
  <1>5. ASSUME NEW i \in 1..Len(Credentials[r])
        PROVE  <<r, i>> \in files' <=> i <= at[r]
    <2>1. <<r, i>> \in files' <=> <<r, i>> \in files \/ i = at[r]
      BY <1>1
    <2> QED BY <1>2, <1>4, <2>1
  <1> QED BY <1>2, <1>3, <1>5

\* The types that the loop keeps.
LEMMA NextStorageTypes ==
    ASSUME Vend!VendConstants, VendInv, NEW r \in Call, NEW e \in BOOLEAN,
           NEW written \in {{}, {<<r, at[r]>>}}, Vend!nextStorage(r, e, written)
    PROVE  /\ failed' \in [Call -> BOOLEAN]
           /\ pc' \in [Call -> {"idle", "get", "fetch", "answered", "build", "ready"}]
           /\ at' \in [Call -> Nat] /\ \A q \in Call : at'[q] \in 1..Len(Credentials[q])
           /\ FileInv'
  <1>1. failed' \in [Call -> BOOLEAN]
    BY DEF VendInv, ValuesInv, Vend!nextStorage, Vend!errs
  <1>2. pc' \in [Call -> {"idle", "get", "fetch", "answered", "build", "ready"}]
    BY DEF VendInv, ValuesInv, Vend!nextStorage
  <1>3. at' \in [Call -> Nat] /\ \A q \in Call : at'[q] \in 1..Len(Credentials[q])
    BY StorageFacts DEF VendInv, ValuesInv, Vend!nextStorage
  <1>4. files' \subseteq files \union {<<r, at[r]>>}
    BY DEF Vend!nextStorage, Vend!cleanupOnError
  <1>5. at[r] \in 1..Len(Credentials[r])
    BY DEF VendInv, ValuesInv
  <1>6. FileInv'
    BY <1>4, <1>5 DEF VendInv, FileInv
  <1> QED BY <1>1, <1>2, <1>3, <1>6

\* What a caller comes to when the loop ends.
LEMMA NextStorageOutcome ==
    ASSUME Vend!VendConstants, VendInv, NEW r \in Call, NEW e \in BOOLEAN,
           NEW written \in {{}, {<<r, at[r]>>}}, Vend!nextStorage(r, e, written)
    PROVE  OutcomeInv'
  <1>1. pc'[r] = "ready" => ~failed'[r]
    BY DEF VendInv, ValuesInv, Vend!nextStorage
  <1>2. pc'[r] = "idle" => files' = Vend!cleanupOnError(r)
    BY DEF VendInv, ValuesInv, Vend!nextStorage
  <1>3. pc'[r] = "idle" => \A i \in 1..Len(Credentials[r]) : <<r, i>> \notin files'
    BY <1>2 DEF Vend!cleanupOnError, Vend!FilesOf
  <1>4. ASSUME NEW q \in Call, q # r
        PROVE  /\ pc'[q] = "ready" => ~failed'[q]
               /\ pc'[q] = "idle" => \A i \in 1..Len(Credentials[q]) : <<q, i>> \notin files'
    <2>1. \A f \in written : f[1] = r
      OBVIOUS
    <2>2. /\ pc'[q] = pc[q] /\ failed'[q] = failed[q]
          /\ \A i \in 1..Len(Credentials[q]) : <<q, i>> \in files' <=> <<q, i>> \in files
      BY <1>4, <2>1, OthersKept
    <2> QED BY <2>2 DEF VendInv, OutcomeInv
  <1> QED BY <1>1, <1>3, <1>4 DEF OutcomeInv

\* Each step keeps the types.
LEMMA ValuesStep ==
    ASSUME Vend!VendConstants, VendInv, Vend!Next
    PROVE  ValuesInv'
  <1> USE DEF VendInv, ValuesInv, Vend!ctlVars, Vend!cacheVars, Vend!callVars
  <1>1. ASSUME NEW r \in Call, Vend!prepareEnvForRepo(r) PROVE ValuesInv'
    <2>1. <<>> \in Seq(1..MaxVersion)
      OBVIOUS
    <2>2. env' \in [Call -> Seq(1..MaxVersion)]
      BY <1>1, <2>1 DEF Vend!prepareEnvForRepo
    <2>3. at' \in [Call -> Nat] /\ \A q \in Call : at'[q] \in 1..Len(Credentials[q])
      BY <1>1, StorageFacts DEF Vend!prepareEnvForRepo
    <2> QED BY <1>1, <2>2, <2>3 DEF Vend!prepareEnvForRepo
  <1>2. ASSUME NEW r \in Call, Vend!get(r) PROVE ValuesInv'
    <2>1. cache[Vend!Wanted(r)] \in 0..MaxVersion /\ 0 \in 0..(MaxAttempts - 1)
      BY SMTT(20), WantedIsCred, NumberFacts
    <2>2. /\ bundle' \in [Call -> 0..MaxVersion]
          /\ attempt' \in [Call -> 0..(MaxAttempts - 1)]
      BY ZenonT(30), <1>2, <2>1 DEF Vend!get
    <2> QED BY <1>2, <2>2 DEF Vend!get
  <1>3. ASSUME NEW r \in Call, Vend!answer(r) PROVE ValuesInv'
    <2>1. version[Vend!Wanted(r)] \in 0..MaxVersion
      BY WantedIsCred
    <2>2. bundle' \in [Call -> 0..MaxVersion]
      BY <1>3, <2>1 DEF Vend!answer
    <2> QED BY <1>3, <2>2 DEF Vend!answer
  <1>4. ASSUME NEW r \in Call, Vend!transient(r) PROVE ValuesInv'
    BY <1>4, NumberFacts DEF Vend!transient, Vend!MoreAttempts
  <1>5. ASSUME NEW r \in Call, Vend!vendFails(r) PROVE ValuesInv'
    BY <1>5, NextStorageTypes DEF Vend!vendFails
  <1>6. ASSUME NEW r \in Call, Vend!put(r) PROVE ValuesInv'
    BY ZenonT(30), <1>6, WantedIsCred DEF Vend!put, BundleInv
  <1>7. ASSUME NEW r \in Call, Vend!buildEnv(r) PROVE ValuesInv'
    <2>1. bundle[r] \in 1..MaxVersion
      BY <1>7 DEF Vend!buildEnv, BundleInv
    <2>2. Append(env[r], bundle[r]) \in Seq(1..MaxVersion)
      BY <2>1
    <2>3. env' \in {env, [env EXCEPT ![r] = Append(@, bundle[r])]}
      BY <1>7 DEF Vend!buildEnv
    <2>4. env' \in [Call -> Seq(1..MaxVersion)]
      BY <2>2, <2>3
    <2> QED BY <1>7, <2>4, NextStorageTypes DEF Vend!buildEnv
  <1>8. ASSUME NEW r \in Call, Vend!cleanup(r) PROVE ValuesInv'
    BY <1>8 DEF Vend!cleanup
  <1>9. ASSUME NEW c \in Cred, Vend!rotate(c) PROVE ValuesInv'
    BY <1>9, NumberFacts DEF Vend!rotate
  <1>10. ASSUME NEW c \in Cred, Vend!invalidate(c) PROVE ValuesInv'
    BY <1>10, NumberFacts DEF Vend!invalidate
  <1>11. ASSUME NEW c \in Cred, Vend!expire(c) PROVE ValuesInv'
    BY <1>11 DEF Vend!expire
  <1> QED
    BY <1>1, <1>2, <1>3, <1>4, <1>5, <1>6, <1>7, <1>8, <1>9, <1>10, <1>11
       DEF Vend!Next, Vend!CallStep

\* Each step leaves only files of a caller and its storages.
LEMMA FileStep ==
    ASSUME Vend!VendConstants, VendInv, Vend!Next
    PROVE  FileInv'
  <1> USE DEF VendInv, FileInv, Vend!ctlVars, Vend!cacheVars, Vend!callVars
  <1>1. ASSUME NEW r \in Call, Vend!prepareEnvForRepo(r) PROVE FileInv'
    BY <1>1 DEF Vend!prepareEnvForRepo
  <1>2. ASSUME NEW r \in Call, Vend!get(r) PROVE FileInv'
    BY <1>2 DEF Vend!get
  <1>3. ASSUME NEW r \in Call, Vend!answer(r) PROVE FileInv'
    BY <1>3 DEF Vend!answer
  <1>4. ASSUME NEW r \in Call, Vend!transient(r) PROVE FileInv'
    BY <1>4 DEF Vend!transient
  <1>5. ASSUME NEW r \in Call, Vend!vendFails(r) PROVE FileInv'
    BY <1>5, NextStorageTypes DEF Vend!vendFails
  <1>6. ASSUME NEW r \in Call, Vend!put(r) PROVE FileInv'
    BY <1>6 DEF Vend!put
  <1>7. ASSUME NEW r \in Call, Vend!buildEnv(r) PROVE FileInv'
    BY <1>7, NextStorageTypes DEF Vend!buildEnv
  <1>8. ASSUME NEW r \in Call, Vend!cleanup(r) PROVE FileInv'
    BY <1>8 DEF Vend!cleanup, Vend!FilesOf
  <1>9. ASSUME NEW c \in Cred, Vend!rotate(c) PROVE FileInv'
    BY <1>9 DEF Vend!rotate
  <1>10. ASSUME NEW c \in Cred, Vend!invalidate(c) PROVE FileInv'
    BY <1>10 DEF Vend!invalidate
  <1>11. ASSUME NEW c \in Cred, Vend!expire(c) PROVE FileInv'
    BY <1>11 DEF Vend!expire
  <1> QED
    BY <1>1, <1>2, <1>3, <1>4, <1>5, <1>6, <1>7, <1>8, <1>9, <1>10, <1>11
       DEF Vend!Next, Vend!CallStep

\* A bundle in hand is one of the controller, by a fetch or from the cache.
LEMMA BundleStep ==
    ASSUME Vend!VendConstants, VendInv, Vend!Next
    PROVE  BundleInv'
  <1> USE DEF VendInv, ValuesInv, BundleInv, Vend!ctlVars, Vend!cacheVars, Vend!callVars
  <1>1. ASSUME NEW r \in Call, Vend!prepareEnvForRepo(r) PROVE BundleInv'
    <2>1. \A q \in Call : pc'[q] \in {"answered", "build"} => pc[q] = pc'[q]
      BY <1>1 DEF Vend!prepareEnvForRepo
    <2> QED BY <1>1, <2>1 DEF Vend!prepareEnvForRepo
  <1>2. ASSUME NEW r \in Call, Vend!get(r) PROVE BundleInv'
    <2>1. Vend!Hit(Vend!Wanted(r)) => cache[Vend!Wanted(r)] \in 1..MaxVersion
      BY WantedIsCred DEF Vend!Hit
    <2>2. ASSUME NEW q \in Call, q # r PROVE pc'[q] = pc[q] /\ bundle'[q] = bundle[q]
      BY <1>2, <2>2 DEF Vend!get
    <2>3. pc'[r] \in {"answered", "build"} => bundle'[r] \in 1..MaxVersion
      BY <1>2, <2>1 DEF Vend!get
    <2> QED BY <2>2, <2>3
  <1>3. ASSUME NEW r \in Call, Vend!answer(r) PROVE BundleInv'
    BY <1>3, WantedIsCred DEF Vend!answer
  <1>4. ASSUME NEW r \in Call, Vend!transient(r) PROVE BundleInv'
    BY <1>4 DEF Vend!transient
  <1>5. ASSUME NEW r \in Call, Vend!vendFails(r) PROVE BundleInv'
    BY <1>5 DEF Vend!vendFails, Vend!nextStorage
  <1>6. ASSUME NEW r \in Call, Vend!put(r) PROVE BundleInv'
    BY <1>6 DEF Vend!put
  <1>7. ASSUME NEW r \in Call, Vend!buildEnv(r) PROVE BundleInv'
    BY <1>7 DEF Vend!buildEnv, Vend!nextStorage
  <1>8. ASSUME NEW r \in Call, Vend!cleanup(r) PROVE BundleInv'
    BY <1>8 DEF Vend!cleanup
  <1>9. ASSUME NEW c \in Cred, Vend!rotate(c) PROVE BundleInv'
    BY <1>9 DEF Vend!rotate
  <1>10. ASSUME NEW c \in Cred, Vend!invalidate(c) PROVE BundleInv'
    BY <1>10 DEF Vend!invalidate
  <1>11. ASSUME NEW c \in Cred, Vend!expire(c) PROVE BundleInv'
    BY <1>11 DEF Vend!expire
  <1> QED
    BY <1>1, <1>2, <1>3, <1>4, <1>5, <1>6, <1>7, <1>8, <1>9, <1>10, <1>11
       DEF Vend!Next, Vend!CallStep

\* Each step keeps the storages before the current one done.
LEMMA ProgressStep ==
    ASSUME Vend!VendConstants, VendInv, Vend!Next
    PROVE  ProgressInv'
  <1>1. ASSUME NEW r \in Call, Vend!prepareEnvForRepo(r) PROVE ProgressInv'
    <2>1. pc'[r] = "get" /\ at'[r] = 1 /\ env'[r] = <<>> /\ Len(env'[r]) = 0
      BY <1>1 DEF Vend!prepareEnvForRepo, VendInv, ValuesInv, OutcomeInv
    <2>2. \A i \in 1..Len(Credentials[r]) : <<r, i>> \notin files'
      BY <1>1 DEF Vend!prepareEnvForRepo, VendInv, ValuesInv, OutcomeInv
    <2>3. ASSUME NEW q \in Call, q # r
          PROVE  /\ pc'[q] = pc[q] /\ at'[q] = at[q] /\ env'[q] = env[q]
                 /\ failed'[q] = failed[q] /\ files' = files
      BY <1>1, <2>3 DEF Vend!prepareEnvForRepo, VendInv, ValuesInv, OutcomeInv
    <2>4. /\ Len(env'[r]) = Done(r)'
          /\ \A i \in 1..Len(Credentials[r]) : <<r, i>> \in files' <=> i <= Done(r)'
      BY <2>1, <2>2 DEF Done
    <2> QED
      BY <2>3, <2>4 DEF VendInv, ProgressInv, Progress, Done
  <1>2. ASSUME NEW r \in Call, Vend!get(r) PROVE ProgressInv'
    <2>1. /\ at' = at /\ env' = env /\ failed' = failed /\ files' = files
          /\ pc[r] = "get" /\ pc'[r] \in {"build", "fetch"}
      BY <1>2 DEF Vend!get, VendInv, ValuesInv, OutcomeInv
    <2>2. \A q \in Call : q # r => pc'[q] = pc[q]
      BY <1>2 DEF Vend!get, VendInv, ValuesInv, OutcomeInv
    <2> QED BY <2>1, <2>2 DEF VendInv, ProgressInv, Progress, Done
  <1>3. ASSUME NEW r \in Call, Vend!answer(r) PROVE ProgressInv'
    BY <1>3 DEF Vend!answer,
       VendInv, ValuesInv, ProgressInv, Progress, OutcomeInv, Done,
       Vend!ctlVars, Vend!cacheVars, Vend!callVars
  <1>4. ASSUME NEW r \in Call, Vend!transient(r) PROVE ProgressInv'
    BY <1>4 DEF Vend!transient, Vend!MoreAttempts,
       VendInv, ValuesInv, ProgressInv, Progress, OutcomeInv, Done,
       Vend!ctlVars, Vend!cacheVars, Vend!callVars
  <1>5. ASSUME NEW r \in Call, Vend!vendFails(r) PROVE ProgressInv'
    <2>1. failed'[r]
      BY <1>5 DEF VendInv, ValuesInv, Vend!vendFails, Vend!nextStorage, Vend!errs
    <2>2. env' = env
      BY <1>5 DEF Vend!vendFails
    <2>3. Vend!nextStorage(r, TRUE, {})
      BY <1>5 DEF Vend!vendFails
    <2>4. ASSUME NEW q \in Call, q # r PROVE Progress(q)'
      BY <2>2, <2>3, <2>4, OthersProgress
    <2>5. Progress(r)'
      BY <2>1 DEF Progress
    <2> QED BY <2>4, <2>5 DEF ProgressInv
  <1>6. ASSUME NEW r \in Call, Vend!put(r) PROVE ProgressInv'
    BY <1>6 DEF Vend!put, Vend!Keeps,
       VendInv, ValuesInv, ProgressInv, Progress, OutcomeInv, Done,
       Vend!ctlVars, Vend!cacheVars, Vend!callVars
  <1>7. ASSUME NEW r \in Call, Vend!buildEnv(r) PROVE ProgressInv'
    <2>1. CASE env' = env /\ Vend!nextStorage(r, TRUE, {})
      <3>1. ASSUME NEW q \in Call, q # r PROVE Progress(q)'
        BY <2>1, <3>1, OthersProgress
      <3>2. failed'[r]
        BY <2>1 DEF VendInv, ValuesInv, Vend!nextStorage, Vend!errs
      <3> QED BY <3>1, <3>2 DEF Progress, ProgressInv
    <2>2. CASE env' = [env EXCEPT ![r] = Append(@, bundle[r])]
               /\ Vend!nextStorage(r, FALSE, {<<r, at[r]>>})
      <3>1. ASSUME NEW q \in Call, q # r PROVE Progress(q)'
        <4>1. env'[q] = env[q]
          BY <2>2, <3>1 DEF VendInv, ValuesInv
        <4> QED BY <2>2, <3>1, <4>1, OthersProgress
      <3>2. ASSUME ~failed'[r] PROVE Progress(r)'
        <4>1. ~failed[r] /\ pc[r] = "build"
          BY <1>7, <2>2, <3>2 DEF VendInv, ValuesInv, Vend!buildEnv, Vend!nextStorage, Vend!errs
        <4>2. Len(env'[r]) = Len(env[r]) + 1
          BY <2>2 DEF VendInv, ValuesInv
        <4>3. Len(env[r]) = Done(r)
          BY <4>1 DEF VendInv, ProgressInv, Progress
        <4> QED BY <2>2, <4>1, <4>2, <4>3, StorageDone DEF Progress
      <3> QED BY <3>1, <3>2 DEF Progress, ProgressInv
    <2> QED BY <1>7, <2>1, <2>2 DEF Vend!buildEnv
  <1>8. ASSUME NEW r \in Call, Vend!cleanup(r) PROVE ProgressInv'
    BY <1>8 DEF Vend!cleanup, Vend!FilesOf,
       VendInv, ValuesInv, ProgressInv, Progress, OutcomeInv, Done,
       Vend!ctlVars, Vend!cacheVars, Vend!callVars
  <1>9. ASSUME NEW c \in Cred, Vend!rotate(c) PROVE ProgressInv'
    BY <1>9 DEF Vend!rotate,
       VendInv, ValuesInv, ProgressInv, Progress, OutcomeInv, Done,
       Vend!ctlVars, Vend!cacheVars, Vend!callVars
  <1>10. ASSUME NEW c \in Cred, Vend!invalidate(c) PROVE ProgressInv'
    BY <1>10 DEF Vend!invalidate,
       VendInv, ValuesInv, ProgressInv, Progress, OutcomeInv, Done,
       Vend!ctlVars, Vend!cacheVars, Vend!callVars
  <1>11. ASSUME NEW c \in Cred, Vend!expire(c) PROVE ProgressInv'
    BY <1>11 DEF Vend!expire,
       VendInv, ValuesInv, ProgressInv, Progress, OutcomeInv, Done,
       Vend!ctlVars, Vend!cacheVars, Vend!callVars
  <1> QED
    BY <1>1, <1>2, <1>3, <1>4, <1>5, <1>6, <1>7, <1>8, <1>9, <1>10, <1>11
       DEF Vend!Next, Vend!CallStep

\* A caller goes ahead without a failure and comes to rest without a file.
LEMMA OutcomeStep ==
    ASSUME Vend!VendConstants, VendInv, Vend!Next
    PROVE  OutcomeInv'
  <1> USE DEF VendInv, ValuesInv, OutcomeInv, Vend!ctlVars, Vend!cacheVars, Vend!callVars
  <1>1. ASSUME NEW r \in Call, Vend!prepareEnvForRepo(r) PROVE OutcomeInv'
    BY <1>1 DEF Vend!prepareEnvForRepo
  <1>2. ASSUME NEW r \in Call, Vend!get(r) PROVE OutcomeInv'
    BY <1>2 DEF Vend!get
  <1>3. ASSUME NEW r \in Call, Vend!answer(r) PROVE OutcomeInv'
    BY <1>3 DEF Vend!answer
  <1>4. ASSUME NEW r \in Call, Vend!transient(r) PROVE OutcomeInv'
    BY <1>4 DEF Vend!transient
  <1>5. ASSUME NEW r \in Call, Vend!vendFails(r) PROVE OutcomeInv'
    BY <1>5, NextStorageOutcome DEF Vend!vendFails
  <1>6. ASSUME NEW r \in Call, Vend!put(r) PROVE OutcomeInv'
    BY <1>6 DEF Vend!put
  <1>7. ASSUME NEW r \in Call, Vend!buildEnv(r) PROVE OutcomeInv'
    BY <1>7, NextStorageOutcome DEF Vend!buildEnv
  <1>8. ASSUME NEW r \in Call, Vend!cleanup(r) PROVE OutcomeInv'
    BY <1>8 DEF Vend!cleanup, Vend!FilesOf
  <1>9. ASSUME NEW c \in Cred, Vend!rotate(c) PROVE OutcomeInv'
    BY <1>9 DEF Vend!rotate
  <1>10. ASSUME NEW c \in Cred, Vend!invalidate(c) PROVE OutcomeInv'
    BY <1>10 DEF Vend!invalidate
  <1>11. ASSUME NEW c \in Cred, Vend!expire(c) PROVE OutcomeInv'
    BY <1>11 DEF Vend!expire
  <1> QED
    BY <1>1, <1>2, <1>3, <1>4, <1>5, <1>6, <1>7, <1>8, <1>9, <1>10, <1>11
       DEF Vend!Next, Vend!CallStep

\* In the beginning nobody has called.
LEMMA InitVend ==
    ASSUME Vend!VendConstants, Vend!Init
    PROVE  VendInv
  <1> USE StorageFacts, NumberFacts DEF Vend!Init
  <1>1. ValuesInv
    <2>1. <<>> \in Seq(1..MaxVersion)
      OBVIOUS
    <2> QED BY <2>1 DEF ValuesInv
  <1>2. FileInv /\ BundleInv /\ ProgressInv /\ OutcomeInv
    BY DEF FileInv, BundleInv, ProgressInv, Progress, OutcomeInv
  <1> QED BY <1>1, <1>2 DEF VendInv

\* A step that changes nothing keeps the invariant.
LEMMA StutterVend ==
    ASSUME VendInv, UNCHANGED Vend!vars
    PROVE  VendInv'
  BY DEF VendInv, ValuesInv, FileInv, BundleInv, ProgressInv, Progress, OutcomeInv, Done,
         Vend!vars, Vend!ctlVars, Vend!cacheVars, Vend!callVars

\* The types of the model are those of the invariant.
LEMMA VendTypes == VendInv => Vend!TypeOK
  <1> SUFFICES ASSUME VendInv PROVE Vend!TypeOK
    OBVIOUS
  <1>1. ASSUME NEW f \in files
        PROVE  f \in UNION {{r} \X (1..Len(Credentials[r])) : r \in Call}
    BY DEF VendInv, FileInv
  <1> QED BY <1>1 DEF VendInv, ValuesInv, Vend!TypeOK

(***************************************************************************)
(* The invariant holds throughout.                                         *)
(***************************************************************************)
THEOREM VendInvariant == Vend!Spec => []VendInv
  <1>1. Vend!Init => VendInv
    BY InitVend, VendConstantsFit
  <1>2. VendInv /\ [Vend!Next]_Vend!vars => VendInv'
    BY ValuesStep, FileStep, BundleStep, ProgressStep, OutcomeStep, StutterVend,
       VendConstantsFit DEF VendInv
  <1> QED BY <1>1, <1>2, PTL DEF Vend!Spec

(***************************************************************************)
(* An invocation that goes ahead has the environment and the key files of  *)
(* every storage of its repo, whichever fetches failed (prepareEnvForRepo).*)
(***************************************************************************)
THEOREM CompleteOrRefused == Vend!Spec => []AllOrNothing
  <1>1. VendInv => AllOrNothing
    <2> SUFFICES ASSUME VendInv, NEW r \in Call, pc[r] = "ready"
                 PROVE  /\ Len(env[r]) = Len(Credentials[r])
                        /\ Vend!FilesOf(r) = {r} \X (1..Len(Credentials[r]))
      BY DEF AllOrNothing, Vend!AllOrNothing
    <2>1. /\ Len(env[r]) = Len(Credentials[r])
          /\ \A i \in 1..Len(Credentials[r]) : <<r, i>> \in files
      BY StorageFacts, VendConstantsFit DEF VendInv, ValuesInv, ProgressInv, Progress, OutcomeInv, Done
    <2>2. \A f \in Vend!FilesOf(r) : \E i \in 1..Len(Credentials[r]) : f = <<r, i>>
      BY DEF VendInv, FileInv, Vend!FilesOf
    <2> QED BY <2>1, <2>2 DEF Vend!FilesOf
  <1> QED BY VendInvariant, <1>1, PTL

(***************************************************************************)
(* A call that failed, and an invocation that was cleaned up, leave no key *)
(* file in /dev/shm (the unlink on error, the cleanup closure).            *)
(***************************************************************************)
THEOREM NothingLeftBehind == Vend!Spec => []NoKeyFileLeft
  <1>1. VendInv => NoKeyFileLeft
    BY VendTypes, VendConstantsFit DEF VendInv, FileInv, OutcomeInv, NoKeyFileLeft, Vend!NoKeyFileLeft
  <1> QED BY VendInvariant, <1>1, PTL

(***************************************************************************)
(* The cache goes back to an older bundle through an invalidation only,    *)
(* however fetches overtake each other (secretCache.put).                  *)
(***************************************************************************)
THEOREM CacheRollsForward == Vend!Spec => CacheNeverRollsBack
  <1>1. VendInv /\ [Vend!Next]_Vend!vars => [Vend!RollsForward]_vendVars
    <2> SUFFICES ASSUME VendInv, Vend!Next PROVE Vend!RollsForward
      BY DEF Vend!vars, vendVars, Vend!cacheVars, Vend!callVars, Vend!ctlVars
    <2> USE DEF VendInv, ValuesInv, Vend!RollsForward, Vend!cacheVars
    <2>1. ASSUME NEW r \in Call, Vend!put(r) PROVE Vend!RollsForward
      <3>1. /\ bundle[r] \in Nat /\ Vend!Wanted(r) \in Cred
            /\ \A c \in Cred : cache[c] \in Nat
        BY <2>1, WantedIsCred, VendConstantsFit DEF Vend!put, BundleInv
      <3>2. CASE Vend!Keeps(Vend!Wanted(r), bundle[r])
        BY <2>1, <3>1, <3>2 DEF Vend!put
      <3>3. CASE ~Vend!Keeps(Vend!Wanted(r), bundle[r])
        <4>1. cache' = [cache EXCEPT ![Vend!Wanted(r)] = bundle[r]]
          BY <2>1, <3>3 DEF Vend!put
        <4>2. cache[Vend!Wanted(r)] <= bundle[r]
          BY <3>1, <3>3 DEF Vend!Keeps
        <4> QED BY <3>1, <4>1, <4>2
      <3> QED BY <3>2, <3>3
    <2>2. ASSUME NEW c \in Cred, Vend!invalidate(c) PROVE Vend!RollsForward
      BY <2>2 DEF Vend!invalidate
    <2>3. CASE cache' = cache
      BY <2>3
    <2> QED BY <2>1, <2>2, <2>3 DEF Vend!Next, Vend!CallStep, Vend!prepareEnvForRepo, Vend!get, Vend!answer,
            Vend!transient, Vend!vendFails, Vend!buildEnv, Vend!cleanup, Vend!rotate, Vend!expire
  <1> QED BY VendInvariant, <1>1, PTL DEF Vend!Spec, CacheNeverRollsBack
=============================================================================
