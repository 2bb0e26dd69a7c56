----------------------------- MODULE RepoProofs -----------------------------
(***************************************************************************)
(* Proofs about the repos of a node.  MappingStore, for any paths, callers *)
(* and number of writes: the file is always whole, what was acknowledged   *)
(* is in it, and the store implements DurableMap.  RepoRegistry, whose     *)
(* uuid and routed abstract from how the mapping is written: for any       *)
(* paths, any number of registrations and scanners, with and without other *)
(* repos of the node.                                                      *)
(***************************************************************************)
EXTENDS MappingStore, RepoRegistry, TLAPS

-----------------------------------------------------------------------------
(* MappingStore.                                                           *)

\* A caller between taking persistMu and giving it back.
Holds(c) == pc[c] \in {"collected", "open", "written"}

\* Whoever is in persist holds persistMu, so there is only one.
LockInv == \A c \in Caller : Holds(c) => persistMu = c

\* The temporary file that is about to be renamed is the holder's copy.
TmpInv == \A c \in Caller : pc[c] = "written" => tmp = entries[c]

\* acknowledged <= file <= memory.
OrderInv == \A p \in MappedPath : acked[p] <= file[p] /\ file[p] <= byID[p]

\* The holder's copy lies between the file and the memory ...
CopyInv == \A c \in Caller : Holds(c) =>
              \A p \in MappedPath : file[p] <= entries[c][p] /\ entries[c][p] <= byID[p]

\* ... and has the caller's own write in it.
OwnInv == \A c \in Caller :
              /\ pc[c] = "persist" => write[c] <= byID[path[c]]
              /\ Holds(c) => write[c] <= entries[c][path[c]]

\* The inductive invariant.
StoreInv ==
    /\ StoreTypeOK
    /\ file \in Map
    /\ LockInv
    /\ TmpInv
    /\ OrderInv
    /\ CopyInv
    /\ OwnInv

\* The initial states have it.
LEMMA StoreInvInit == StoreInit => StoreInv
  BY NotContents DEF StoreInit, StoreInv, StoreTypeOK, Map, Empty, LockInv, TmpInv,
     OrderInv, CopyInv, OwnInv, Holds

\* Every step keeps it.
LEMMA StoreInvNext == StoreInv /\ [StoreNext]_storeVars => StoreInv'
<1> USE DEF Map, Empty, Holds, At, goto, callVars
<1> SUFFICES ASSUME StoreInv, [StoreNext]_storeVars
             PROVE  StoreInv'
    OBVIOUS
<1>0. StoreTypeOK /\ file \in Map /\ LockInv /\ TmpInv /\ OrderInv /\ CopyInv /\ OwnInv
  BY DEF StoreInv
<1>1. ASSUME NEW c \in Caller, NEW p \in MappedPath, upsertOrDelete(c, p)
      PROVE  StoreInv'
  <2>1. StoreTypeOK' /\ (file \in Map)'
    BY <1>0, <1>1 DEF StoreTypeOK, upsertOrDelete
  <2>2. \A q \in MappedPath : byID[q] <= byID'[q]
    BY <1>0, <1>1 DEF StoreTypeOK, upsertOrDelete
  <2>3. LockInv' /\ TmpInv'
    BY <1>0, <1>1 DEF StoreTypeOK, LockInv, TmpInv, upsertOrDelete
  <2>4. OrderInv'
    BY <1>0, <1>1, <2>1, <2>2 DEF StoreTypeOK, OrderInv, upsertOrDelete
  <2>5. CopyInv'
    <3> SUFFICES ASSUME NEW d \in Caller, Holds(d)', NEW q \in MappedPath
                 PROVE  file'[q] <= entries'[d][q] /\ entries'[d][q] <= byID'[q]
        BY DEF CopyInv
    <3>1. Holds(d) /\ file' = file /\ entries' = entries
      BY <1>0, <1>1 DEF StoreTypeOK, upsertOrDelete
    <3>2. file[q] <= entries[d][q] /\ entries[d][q] <= byID[q]
      BY <1>0, <3>1 DEF CopyInv
    <3>3. byID[q] \in Nat /\ byID'[q] \in Nat /\ entries[d][q] \in Nat
      BY <1>0, <2>1 DEF StoreTypeOK
    <3> QED
      BY <3>1, <3>2, <3>3, <2>2
  <2>6. OwnInv'
    <3> SUFFICES ASSUME NEW d \in Caller
                 PROVE  /\ pc'[d] = "persist" => write'[d] <= byID'[path'[d]]
                        /\ Holds(d)' => write'[d] <= entries'[d][path'[d]]
        BY DEF OwnInv
    <3>1. CASE d = c
      BY <1>0, <1>1, <3>1 DEF StoreTypeOK, upsertOrDelete
    <3>2. CASE d # c
      <4>1. /\ pc'[d] = pc[d] /\ write'[d] = write[d] /\ path'[d] = path[d]
            /\ entries' = entries
        BY <1>0, <1>1, <3>2 DEF StoreTypeOK, upsertOrDelete
      <4>2. path[d] \in MappedPath /\ write[d] \in Nat
        BY <1>0 DEF StoreTypeOK
      <4>3. byID[path[d]] \in Nat /\ byID'[path[d]] \in Nat
        BY <1>0, <2>1, <4>2 DEF StoreTypeOK
      <4> QED
        BY <1>0, <2>2, <4>1, <4>2, <4>3 DEF OwnInv
    <3> QED
      BY <3>1, <3>2
  <2> QED
    BY <2>1, <2>3, <2>4, <2>5, <2>6 DEF StoreInv
<1>2. ASSUME NEW c \in Caller, collect(c)
      PROVE  StoreInv'
  <2>1. StoreTypeOK' /\ (file \in Map)'
    BY <1>0, <1>2 DEF StoreTypeOK, collect
  <2>2. \A d \in Caller : ~Holds(d)
    BY <1>0, <1>2, CallersAreSomebody DEF LockInv, collect, Free
  <2>3. LockInv' /\ TmpInv' /\ OrderInv'
    BY <1>0, <1>2, <2>2 DEF StoreTypeOK, LockInv, TmpInv, OrderInv, collect
  <2>4. CopyInv'
    BY <1>0, <1>2, <2>2 DEF StoreTypeOK, CopyInv, OrderInv, collect
  <2>5. OwnInv'
    BY <1>0, <1>2, <2>2 DEF StoreTypeOK, OwnInv, collect
  <2> QED
    BY <2>1, <2>3, <2>4, <2>5 DEF StoreInv
<1>3. ASSUME NEW c \in Caller, openTmp(c)
      PROVE  StoreInv'
  <2>1. StoreTypeOK' /\ (file \in Map)'
    BY <1>0, <1>3 DEF StoreTypeOK, openTmp
  <2>2. \A d \in Caller : Holds(d) => d = c
    BY <1>0, <1>3 DEF LockInv, openTmp
  <2>3. LockInv' /\ TmpInv' /\ OrderInv'
    BY <1>0, <1>3, <2>2 DEF StoreTypeOK, LockInv, TmpInv, OrderInv, openTmp
  <2>4. CopyInv' /\ OwnInv'
    BY <1>0, <1>3, <2>2 DEF StoreTypeOK, CopyInv, OwnInv, openTmp
  <2> QED
    BY <2>1, <2>3, <2>4 DEF StoreInv
<1>4. ASSUME NEW c \in Caller, writeTmp(c)
      PROVE  StoreInv'
  <2>1. StoreTypeOK' /\ (file \in Map)'
    BY <1>0, <1>4 DEF StoreTypeOK, writeTmp
  <2>2. \A d \in Caller : Holds(d) => d = c
    BY <1>0, <1>4 DEF LockInv, writeTmp
  <2>3. LockInv' /\ TmpInv' /\ OrderInv'
    BY <1>0, <1>4, <2>2 DEF StoreTypeOK, LockInv, TmpInv, OrderInv, writeTmp
  <2>4. CopyInv' /\ OwnInv'
    BY <1>0, <1>4, <2>2 DEF StoreTypeOK, CopyInv, OwnInv, writeTmp
  <2> QED
    BY <2>1, <2>3, <2>4 DEF StoreInv
<1>5. ASSUME NEW c \in Caller, rename(c)
      PROVE  StoreInv'
  <2>1. file' = entries[c] /\ byID' = byID /\ write' = write /\ path' = path
    BY <1>0, <1>5 DEF TmpInv, rename
  <2>2. StoreTypeOK' /\ (file \in Map)'
    BY <1>0, <1>5, <2>1 DEF StoreTypeOK, rename, returns, unlock
  <2>3. \A d \in Caller : ~Holds(d)'
    BY <1>0, <1>5 DEF StoreTypeOK, LockInv, rename, returns
  <2>4. LockInv' /\ TmpInv' /\ CopyInv'
    BY <2>3 DEF LockInv, TmpInv, CopyInv
  <2>5. OrderInv'
    BY <1>0, <1>5, <2>1 DEF StoreTypeOK, OrderInv, CopyInv, OwnInv, rename
  <2>6. OwnInv'
    BY <1>0, <1>5, <2>1, <2>3 DEF StoreTypeOK, OwnInv, rename, returns
  <2> QED
    BY <2>2, <2>4, <2>5, <2>6 DEF StoreInv
<1>6. ASSUME NEW c \in Caller, persistFails(c)
      PROVE  StoreInv'
  <2>1. StoreTypeOK' /\ (file \in Map)'
    BY <1>0, <1>6 DEF StoreTypeOK, persistFails, returns, unlock
  <2>2. \A d \in Caller : ~Holds(d)'
    BY <1>0, <1>6 DEF StoreTypeOK, LockInv, persistFails, returns
  <2>3. LockInv' /\ TmpInv' /\ CopyInv'
    BY <2>2 DEF LockInv, TmpInv, CopyInv
  <2>4. OrderInv'
    BY <1>0, <1>6 DEF OrderInv, persistFails
  <2>5. OwnInv'
    BY <1>0, <1>6, <2>2 DEF StoreTypeOK, OwnInv, persistFails, returns
  <2> QED
    BY <2>1, <2>3, <2>4, <2>5 DEF StoreInv
<1>7. ASSUME restart
      PROVE  StoreInv'
  <2>1. StoreTypeOK' /\ (file \in Map)'
    BY <1>0, <1>7 DEF StoreTypeOK, restart, load
  <2>2. OrderInv'
    BY <1>0, <1>7, <2>1 DEF StoreTypeOK, OrderInv, restart, load
  <2> QED
    BY <1>7, <2>1, <2>2
       DEF StoreInv, LockInv, TmpInv, CopyInv, OwnInv, restart
<1>8. ASSUME UNCHANGED storeVars
      PROVE  StoreInv'
  BY <1>0, <1>8 DEF StoreInv, StoreTypeOK, LockInv, TmpInv, OrderInv, CopyInv, OwnInv,
                    storeVars
<1> QED
  BY <1>1, <1>2, <1>3, <1>4, <1>5, <1>6, <1>7, <1>8 DEF StoreNext, Persist

\* The variables keep their types.
THEOREM StoreTypes == StoreSpec => []StoreTypeOK
<1>1. StoreInv => StoreTypeOK
  BY DEF StoreInv
<1> QED
  BY <1>1, StoreInvInit, StoreInvNext, PTL DEF StoreSpec

\* repos.json can be loaded at any time (persistMu and rename suffice), and a
\* write whose caller was told nil stays in it.
THEOREM AckedStays == StoreSpec => []AckedIsDurable
<1>1. StoreInv => AckedIsDurable
  BY NotContents DEF StoreInv, OrderInv, AckedIsDurable, FileIsWhole, Map
<1> QED
  BY <1>1, StoreInvInit, StoreInvNext, PTL DEF StoreSpec

\* Every step of the store is a step of the map kept in a file, or none.
LEMMA StepRefines == StoreInv /\ [StoreNext]_storeVars => [Abstract!Next]_Abstract!vars
<1> USE DEF Map, Abstract!Map, Holds, At
<1> SUFFICES ASSUME StoreInv, [StoreNext]_storeVars
             PROVE  [Abstract!Next]_Abstract!vars
    OBVIOUS
<1>0. StoreTypeOK /\ file \in Map /\ TmpInv /\ OrderInv /\ CopyInv /\ OwnInv
  BY DEF StoreInv
<1>1. ASSUME NEW c \in Caller, NEW p \in MappedPath, upsertOrDelete(c, p)
      PROVE  Abstract!Next
  BY <1>1 DEF upsertOrDelete, Abstract!Next, Abstract!Write
<1>2. ASSUME NEW c \in Caller, rename(c)
      PROVE  Abstract!Next
  <2>1. file' = entries[c] /\ byID' = byID
    BY <1>0, <1>2 DEF TmpInv, rename
  <2>2. file' \in Map /\ acked' \in Map
    BY <1>0, <1>2, <2>1 DEF StoreTypeOK, rename
  <2>3. \A p \in MappedPath : file[p] <= file'[p] /\ file'[p] <= byID[p]
    BY <1>0, <1>2, <2>1 DEF CopyInv, rename
  <2>4. \A p \in MappedPath : acked[p] <= acked'[p] /\ acked'[p] <= file'[p]
    <3> SUFFICES ASSUME NEW p \in MappedPath
                 PROVE  acked[p] <= acked'[p] /\ acked'[p] <= file'[p]
        OBVIOUS
    <3>1. /\ acked[p] \in Nat /\ file[p] \in Nat /\ file'[p] \in Nat
          /\ write[c] \in Nat /\ path[c] \in MappedPath
      BY <1>0, <2>2 DEF StoreTypeOK
    <3>2. acked[p] <= file'[p]
      BY <1>0, <2>3, <3>1 DEF OrderInv
    <3>3. write[c] <= file'[path[c]]
      BY <1>0, <1>2, <2>1 DEF OwnInv, rename
    <3> QED
      BY <1>0, <1>2, <3>1, <3>2, <3>3 DEF StoreTypeOK, rename
  <2> QED
    BY <2>1, <2>2, <2>3, <2>4 DEF Abstract!Next, Abstract!Save
<1>3. ASSUME restart
      PROVE  Abstract!Next
  BY <1>3 DEF restart, load, Abstract!Next, Abstract!Restart
<1>4. ASSUME NEW c \in Caller,
             collect(c) \/ openTmp(c) \/ writeTmp(c) \/ persistFails(c)
      PROVE  UNCHANGED Abstract!vars
  BY <1>4 DEF collect, openTmp, writeTmp, persistFails, Abstract!vars
<1>5. ASSUME UNCHANGED storeVars
      PROVE  UNCHANGED Abstract!vars
  BY <1>5 DEF storeVars, Abstract!vars
<1> QED
  BY <1>1, <1>2, <1>3, <1>4, <1>5 DEF StoreNext, Persist

\* The store implements DurableMap: saves move the file forward only, never
\* past the memory, and a restart forgets only what was not acknowledged.
THEOREM StoreImplements == StoreSpec => Implements
<1>1. StoreInit => Abstract!Init
  BY DEF StoreInit, Empty, Abstract!Init
<1> QED
  BY <1>1, StoreInvInit, StoreInvNext, StepRefines, PTL
     DEF StoreSpec, Implements, Abstract!Spec

-----------------------------------------------------------------------------
(* RepoRegistry.                                                           *)

\* A steady repo is registered and mapped alike; a registered one has no
\* tombstone.
SteadyInv ==
    /\ \A p \in steady : central[p] # 0 /\ uuid[p] = central[p]
    /\ \A p \in tombs : central[p] = 0

\* What the tick has set out to remove: nothing between ticks, and nothing
\* steady within one.
SweepInv ==
    /\ rec \in {"idle", "fetched", "rescan", "publish"} => todo = {} /\ cur = {}
    /\ rec = "fetched" => \A p \in steady : <<p, uuid[p]>> \in keep
    /\ steady \intersect (todo \union cur) = {}

\* The inductive invariant.
RegistryInv ==
    /\ TypeOK
    /\ SteadyInv
    /\ SweepInv

-----------------------------------------------------------------------------
\* Each step keeps the types.
LEMMA TypesStep ==
    ASSUME RegistryInv, Next
    PROVE  TypeOK'
  <1> USE RegistryBounds DEF RegistryInv, TypeOK,
         ctlVars, mapVars, scanVars, regVars, recVars, refVars
  <1>1. ASSUME NEW p \in Path, registered(p) PROVE TypeOK'
    BY <1>1 DEF registered
  <1>2. ASSUME NEW p \in Path, unregistered(p) PROVE TypeOK'
    BY <1>2 DEF unregistered
  <1>3. ASSUME NEW p \in Path, deleteLost(p) PROVE TypeOK'
    BY <1>3 DEF deleteLost
  <1>4. ASSUME NEW p \in Path, handleInitRepoNew(p) PROVE TypeOK'
    BY <1>4 DEF handleInitRepoNew
  <1>5. ASSUME NEW p \in Path, handleBindRepo(p) PROVE TypeOK'
    BY <1>5 DEF handleBindRepo
  <1>6. ASSUME NEW p \in Path, initPrimary(p) PROVE TypeOK'
    BY <1>6 DEF initPrimary, regEnds
  <1>7. ASSUME NEW p \in Path, addSecondaries(p) PROVE TypeOK'
    BY <1>7 DEF addSecondaries, regEnds
  <1>8. ASSUME NEW p \in Path, mapRepo(p) PROVE TypeOK'
    BY <1>8 DEF mapRepo, regEnds, upsert
  <1>9. ASSUME NEW p \in Path, handleDeleteRepo(p) PROVE TypeOK'
    BY <1>9 DEF handleDeleteRepo
  <1>10. ASSUME NEW p \in Path, deleteWipe(p) PROVE TypeOK'
    BY <1>10 DEF deleteWipe, removeAll
  <1>11. ASSUME NEW p \in Path, deleteUnmap(p) PROVE TypeOK'
    BY <1>11 DEF deleteUnmap, drop, upsert
  <1>12. ASSUME NEW p \in Path, jobStarts(p) PROVE TypeOK'
    BY <1>12 DEF jobStarts
  <1>13. ASSUME NEW p \in Path, jobMoves(p) PROVE TypeOK'
    BY <1>13 DEF jobMoves
  <1>14. ASSUME NEW p \in Path, jobEnds(p) PROVE TypeOK'
    BY <1>14 DEF jobEnds
  <1>15. ASSUME fetchCentralRepos PROVE TypeOK'
    BY <1>15 DEF fetchCentralRepos, Rows, Others
  <1>16. ASSUME listMapping PROVE TypeOK'
    BY <1>16 DEF listMapping
  <1>17. ASSUME NEW p \in Path, recGuard(p) PROVE TypeOK'
    BY <1>17 DEF recGuard
  <1>18. ASSUME NEW p \in Path, recWipe(p) PROVE TypeOK'
    BY <1>18 DEF recWipe, removeAll
  <1>19. ASSUME NEW p \in Path, recDrop(p) PROVE TypeOK'
    <2>1. wiped' \in BOOLEAN
      BY <1>19 DEF recDrop
    <2>2. uuid' \in [Path -> 0..MaxUUID] /\ routed' \in [Path -> BOOLEAN] /\ steady' \subseteq Path
      BY <1>19 DEF recDrop, drop, upsert
    <2> QED BY <1>19, <2>1, <2>2 DEF recDrop, drop, upsert
  <1>20. ASSUME fetchTombstones PROVE TypeOK'
    BY <1>20 DEF fetchTombstones
  <1>21. ASSUME recScan PROVE TypeOK'
    BY <1>21 DEF recScan, Findable
  <1>22. ASSUME recPublish PROVE TypeOK'
    BY <1>22 DEF recPublish
  <1>23. ASSUME reconcileTombstones PROVE TypeOK'
    BY <1>23 DEF reconcileTombstones
  <1>24. ASSUME recEnds PROVE TypeOK'
    BY <1>24 DEF recEnds
  <1>25. ASSUME refFetch PROVE TypeOK'
    BY <1>25 DEF refFetch, Rows
  <1>26. ASSUME NEW row \in refTodo, refCheck(row) PROVE TypeOK'
    BY <1>26 DEF refCheck
  <1>27. ASSUME NEW row \in refCur, refAdd(row) PROVE TypeOK'
    BY <1>27 DEF refAdd, upsert
  <1>28. ASSUME refEnds PROVE TypeOK'
    BY <1>28 DEF refEnds
  <1>29. ASSUME NEW s \in Scanner, scanLocked(s) PROVE TypeOK'
    BY <1>29 DEF scanLocked, Findable
  <1>30. ASSUME NEW s \in Scanner, scanPublish(s) PROVE TypeOK'
    BY <1>30 DEF scanPublish
  <1> QED
    BY <1>1, <1>2, <1>3, <1>4, <1>5, <1>6, <1>7, <1>8, <1>9, <1>10,
       <1>11, <1>12, <1>13, <1>14, <1>15, <1>16, <1>17, <1>18, <1>19,
       <1>20, <1>21, <1>22, <1>23, <1>24, <1>25, <1>26, <1>27, <1>28,
       <1>29, <1>30
       DEF Next, Register, Delete, Reconcile, Refresh, Scan

\* A step that changes the row or the mapping of a repo ends its steadiness.
LEMMA SteadyStep ==
    ASSUME RegistryInv, Next
    PROVE  SteadyInv'
  <1> USE RegistryBounds DEF RegistryInv, TypeOK, SteadyInv,
         ctlVars, mapVars, scanVars, regVars, recVars, refVars
  <1>1. ASSUME NEW p \in Path, registered(p) PROVE SteadyInv'
    BY <1>1 DEF registered
  <1>2. ASSUME NEW p \in Path, unregistered(p) PROVE SteadyInv'
    BY <1>2 DEF unregistered
  <1>3. ASSUME NEW p \in Path, deleteLost(p) PROVE SteadyInv'
    BY <1>3 DEF deleteLost
  <1>4. ASSUME NEW p \in Path, handleInitRepoNew(p) PROVE SteadyInv'
    BY <1>4 DEF handleInitRepoNew
  <1>5. ASSUME NEW p \in Path, handleBindRepo(p) PROVE SteadyInv'
    BY <1>5 DEF handleBindRepo
  <1>6. ASSUME NEW p \in Path, initPrimary(p) PROVE SteadyInv'
    BY <1>6 DEF initPrimary, regEnds
  <1>7. ASSUME NEW p \in Path, addSecondaries(p) PROVE SteadyInv'
    BY <1>7 DEF addSecondaries, regEnds
  <1>8. ASSUME NEW p \in Path, mapRepo(p) PROVE SteadyInv'
    BY <1>8 DEF mapRepo, regEnds, upsert
  <1>9. ASSUME NEW p \in Path, handleDeleteRepo(p) PROVE SteadyInv'
    BY <1>9 DEF handleDeleteRepo
  <1>10. ASSUME NEW p \in Path, deleteWipe(p) PROVE SteadyInv'
    BY <1>10 DEF deleteWipe, removeAll
  <1>11. ASSUME NEW p \in Path, deleteUnmap(p) PROVE SteadyInv'
    BY <1>11 DEF deleteUnmap, drop, upsert
  <1>12. ASSUME NEW p \in Path, jobStarts(p) PROVE SteadyInv'
    BY <1>12 DEF jobStarts
  <1>13. ASSUME NEW p \in Path, jobMoves(p) PROVE SteadyInv'
    BY <1>13 DEF jobMoves
  <1>14. ASSUME NEW p \in Path, jobEnds(p) PROVE SteadyInv'
    BY <1>14 DEF jobEnds
  <1>15. ASSUME fetchCentralRepos PROVE SteadyInv'
    BY <1>15 DEF fetchCentralRepos, Rows, Others
  <1>16. ASSUME listMapping PROVE SteadyInv'
    BY <1>16 DEF listMapping
  <1>17. ASSUME NEW p \in Path, recGuard(p) PROVE SteadyInv'
    BY <1>17 DEF recGuard
  <1>18. ASSUME NEW p \in Path, recWipe(p) PROVE SteadyInv'
    BY <1>18 DEF recWipe, removeAll
  <1>19. ASSUME NEW p \in Path, recDrop(p) PROVE SteadyInv'
    BY <1>19 DEF recDrop, drop, upsert
  <1>20. ASSUME fetchTombstones PROVE SteadyInv'
    BY <1>20 DEF fetchTombstones
  <1>21. ASSUME recScan PROVE SteadyInv'
    BY <1>21 DEF recScan, Findable
  <1>22. ASSUME recPublish PROVE SteadyInv'
    BY <1>22 DEF recPublish
  <1>23. ASSUME reconcileTombstones PROVE SteadyInv'
    BY <1>23 DEF reconcileTombstones
  <1>24. ASSUME recEnds PROVE SteadyInv'
    BY <1>24 DEF recEnds
  <1>25. ASSUME refFetch PROVE SteadyInv'
    BY <1>25 DEF refFetch, Rows
  <1>26. ASSUME NEW row \in refTodo, refCheck(row) PROVE SteadyInv'
    BY <1>26 DEF refCheck
  <1>27. ASSUME NEW row \in refCur, refAdd(row) PROVE SteadyInv'
    BY <1>27 DEF refAdd, upsert
  <1>28. ASSUME refEnds PROVE SteadyInv'
    BY <1>28 DEF refEnds
  <1>29. ASSUME NEW s \in Scanner, scanLocked(s) PROVE SteadyInv'
    BY <1>29 DEF scanLocked, Findable
  <1>30. ASSUME NEW s \in Scanner, scanPublish(s) PROVE SteadyInv'
    BY <1>30 DEF scanPublish
  <1> QED
    BY <1>1, <1>2, <1>3, <1>4, <1>5, <1>6, <1>7, <1>8, <1>9, <1>10,
       <1>11, <1>12, <1>13, <1>14, <1>15, <1>16, <1>17, <1>18, <1>19,
       <1>20, <1>21, <1>22, <1>23, <1>24, <1>25, <1>26, <1>27, <1>28,
       <1>29, <1>30
       DEF Next, Register, Delete, Reconcile, Refresh, Scan

\* Each step keeps steady repos off the list of those to remove.
LEMMA SweepStep ==
    ASSUME RegistryInv, Next
    PROVE  SweepInv'
  <1> USE RegistryBounds DEF RegistryInv, TypeOK, SteadyInv, SweepInv,
         ctlVars, mapVars, scanVars, regVars, recVars, refVars
  <1>1. ASSUME NEW p \in Path, registered(p) PROVE SweepInv'
    BY <1>1 DEF registered
  <1>2. ASSUME NEW p \in Path, unregistered(p) PROVE SweepInv'
    BY <1>2 DEF unregistered
  <1>3. ASSUME NEW p \in Path, deleteLost(p) PROVE SweepInv'
    BY <1>3 DEF deleteLost
  <1>4. ASSUME NEW p \in Path, handleInitRepoNew(p) PROVE SweepInv'
    BY <1>4 DEF handleInitRepoNew
  <1>5. ASSUME NEW p \in Path, handleBindRepo(p) PROVE SweepInv'
    BY <1>5 DEF handleBindRepo
  <1>6. ASSUME NEW p \in Path, initPrimary(p) PROVE SweepInv'
    BY <1>6 DEF initPrimary, regEnds
  <1>7. ASSUME NEW p \in Path, addSecondaries(p) PROVE SweepInv'
    BY <1>7 DEF addSecondaries, regEnds
  <1>8. ASSUME NEW p \in Path, mapRepo(p) PROVE SweepInv'
    BY <1>8 DEF mapRepo, regEnds, upsert
  <1>9. ASSUME NEW p \in Path, handleDeleteRepo(p) PROVE SweepInv'
    BY <1>9 DEF handleDeleteRepo
  <1>10. ASSUME NEW p \in Path, deleteWipe(p) PROVE SweepInv'
    BY <1>10 DEF deleteWipe, removeAll
  <1>11. ASSUME NEW p \in Path, deleteUnmap(p) PROVE SweepInv'
    BY <1>11 DEF deleteUnmap, drop, upsert
  <1>12. ASSUME NEW p \in Path, jobStarts(p) PROVE SweepInv'
    BY <1>12 DEF jobStarts
  <1>13. ASSUME NEW p \in Path, jobMoves(p) PROVE SweepInv'
    BY <1>13 DEF jobMoves
  <1>14. ASSUME NEW p \in Path, jobEnds(p) PROVE SweepInv'
    BY <1>14 DEF jobEnds
  <1>15. ASSUME fetchCentralRepos PROVE SweepInv'
    <2>1. keep' = Rows \union Others
      BY <1>15 DEF fetchCentralRepos, Believed
    <2>2. \A p \in steady' : <<p, uuid'[p]>> \in Rows
      BY <1>15 DEF fetchCentralRepos, Rows
    <2> QED BY <1>15, <2>1, <2>2 DEF fetchCentralRepos
  <1>16. ASSUME listMapping PROVE SweepInv'
    BY <1>16 DEF listMapping
  <1>17. ASSUME NEW p \in Path, recGuard(p) PROVE SweepInv'
    BY <1>17 DEF recGuard
  <1>18. ASSUME NEW p \in Path, recWipe(p) PROVE SweepInv'
    BY <1>18 DEF recWipe, removeAll
  <1>19. ASSUME NEW p \in Path, recDrop(p) PROVE SweepInv'
    BY <1>19 DEF recDrop, drop, upsert
  <1>20. ASSUME fetchTombstones PROVE SweepInv'
    BY <1>20 DEF fetchTombstones
  <1>21. ASSUME recScan PROVE SweepInv'
    BY <1>21 DEF recScan, Findable
  <1>22. ASSUME recPublish PROVE SweepInv'
    BY <1>22 DEF recPublish
  <1>23. ASSUME reconcileTombstones PROVE SweepInv'
    BY <1>23 DEF reconcileTombstones
  <1>24. ASSUME recEnds PROVE SweepInv'
    BY <1>24 DEF recEnds
  <1>25. ASSUME refFetch PROVE SweepInv'
    BY <1>25 DEF refFetch, Rows
  <1>26. ASSUME NEW row \in refTodo, refCheck(row) PROVE SweepInv'
    BY <1>26 DEF refCheck
  <1>27. ASSUME NEW row \in refCur, refAdd(row) PROVE SweepInv'
    BY <1>27 DEF refAdd, upsert
  <1>28. ASSUME refEnds PROVE SweepInv'
    BY <1>28 DEF refEnds
  <1>29. ASSUME NEW s \in Scanner, scanLocked(s) PROVE SweepInv'
    BY <1>29 DEF scanLocked, Findable
  <1>30. ASSUME NEW s \in Scanner, scanPublish(s) PROVE SweepInv'
    BY <1>30 DEF scanPublish
  <1> QED
    BY <1>1, <1>2, <1>3, <1>4, <1>5, <1>6, <1>7, <1>8, <1>9, <1>10,
       <1>11, <1>12, <1>13, <1>14, <1>15, <1>16, <1>17, <1>18, <1>19,
       <1>20, <1>21, <1>22, <1>23, <1>24, <1>25, <1>26, <1>27, <1>28,
       <1>29, <1>30
       DEF Next, Register, Delete, Reconcile, Refresh, Scan

\* In the beginning there is nothing to remove.
LEMMA InitRegistry == Init => RegistryInv
  <1> SUFFICES ASSUME Init PROVE RegistryInv
    OBVIOUS
  <1>1. central \in [Path -> 0..MaxUUID] /\ 0 \in 0..MaxUUID
    BY RegistryBounds DEF Init
  <1>2. disk \in [Path -> {"none", "primary", "full"}]
    BY DEF Init
  <1>3. TypeOK
    BY <1>1, <1>2 DEF Init, TypeOK
  <1>4. SteadyInv /\ SweepInv
    BY DEF Init, SteadyInv, SweepInv
  <1> QED BY <1>3, <1>4 DEF RegistryInv

\* A step that changes nothing keeps the invariant.
LEMMA StutterRegistry ==
    ASSUME RegistryInv, UNCHANGED vars
    PROVE  RegistryInv'
  BY DEF RegistryInv, TypeOK, SteadyInv, SweepInv, vars,
         ctlVars, mapVars, scanVars, regVars, recVars, refVars

(***************************************************************************)
(* The invariant, and with it the types, hold throughout.                  *)
(***************************************************************************)
THEOREM RegistryInvariant == Spec => []RegistryInv
  <1>1. RegistryInv /\ [Next]_vars => RegistryInv'
    BY TypesStep, SteadyStep, SweepStep, StutterRegistry DEF RegistryInv
  <1> QED BY InitRegistry, <1>1, PTL DEF Spec

(***************************************************************************)
(* The reconcile tick does not wipe a repo that was registered, and mapped *)
(* under its UUID, when the tick began and has been since, whatever is     *)
(* registered, removed, bound or refreshed meanwhile (reconcileOrphans,    *)
(* reconcileTombstones).                                                   *)
(***************************************************************************)
THEOREM SteadyIsKept == Spec => RegisteredIsKept
  <1>1. RegistryInv /\ [Next]_vars
           => [\A p \in Path : ReconcileWipes(p) => p \notin steady]_vars
    BY DEF RegistryInv, SweepInv, ReconcileWipes, recWipe
  <1> QED BY RegistryInvariant, <1>1, PTL DEF Spec, RegisteredIsKept
=============================================================================
