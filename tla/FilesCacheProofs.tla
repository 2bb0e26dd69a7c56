-------------------------- MODULE FilesCacheProofs --------------------------
(***************************************************************************)
(* Proofs about FilesCache, the list-files cache and its warm sweep: what  *)
(* a failed repo keeps, what the reconcile may delete, and what the size   *)
(* cap may evict.                                                          *)
(*                                                                         *)
(* The theorems are about the histories in which the warmer is the only    *)
(* writer, as in the run files_cache.  With a request goroutine beside it  *)
(* none of the three is true: the goroutine may have chosen its victims    *)
(* before a sweep begins and delete them during it, may cache a revision   *)
(* added after the discovery listing, and may change the ranks between     *)
(* the warmer's SELECT and its DELETE.                                     *)
(***************************************************************************)
EXTENDS FilesCache, FiniteSetTheorems, WellFoundedInduction, TLAPS

\* No request goroutine writes to the cache.
OnlyWarmer == Handlers = {}

-----------------------------------------------------------------------------
(* The inductive invariant.                                                *)

Pcs == {"idle", "repos", "targets", "warming", "listing", "sum", "select",
        "delete", "mark", "markers", "scan", "purge", "return"}
Evicting == {"sum", "select", "delete", "mark"}

\* The warmer is in evictBySize on behalf of a listing it stored.
Storing == W.pc \in Evicting /\ W.key # NoKey

\* It visits a repo; it visits the repos; it has left the last one.
AtRepo == W.pc \in {"targets", "warming", "listing"} \/ Storing
Visiting == W.pc = "repos" \/ AtRepo
Ending == \/ W.pc \in {"markers", "scan", "purge", "return"}
          \/ W.pc \in Evicting /\ W.key = NoKey

\* What evictBySize may find to free, and the places of candidates.
Need == {Bytes(K) - MaxBytes : K \in SUBSET Keys} \union {0}
Places == {RankIn(K, k) - 1 : K \in SUBSET Keys, k \in Keys}

LocalTypes ==
    [pc : Pcs, repo : Repos \union {"none"}, key : Keys \union {NoKey},
     need : Need, spare : SUBSET Repos, upto : Nat, exempt : SUBSET Repos,
     victims : SUBSET [rid : Nat, key : Keys], marks : SUBSET (Repos \X Keys)]

FilesTypes ==
    /\ TypeOK
    /\ proc \in [Writers -> LocalTypes]
    /\ todo \in [repos : SUBSET Repos, targets : SUBSET Targets,
                 revs : SUBSET (Keys \X Places)]
    /\ st \in [swept : SUBSET Targets, failed : SUBSET Repos,
               known : SUBSET Repos, keep : SUBSET Keys]
    /\ rows \in [Cached -> [rid : Nat \ {0}, repo : Repos]]
    /\ fence \in Nat
    /\ W.pc = "listing" => warmed < MaxWarm

\* A revision that exists was given out; one that is cached was, too.
GivenOut ==
    /\ \A g \in Groups : \A r \in live[g] : r <= made[g]
    /\ \A k \in Cached : k[2] <= made[k[1]]

\* The warmer has a key only while it lists and stores; the revision it lists
\* is not cached and was seen by a discovery listing, as the candidates were.
KeyInv ==
    /\ W.pc \notin Evicting \union {"listing"} => W.key = NoKey
    /\ W.pc = "listing" => W.key \in Keys /\ W.key \notin Cached
    /\ W.key # NoKey => W.key \in st.keep
    /\ Visiting => \A c \in todo.revs : c[1] \in st.keep

\* The repos still to visit, the one that is visited, and the failed ones are
\* pending.
VisitInv ==
    /\ Visiting => todo.repos \subseteq pending /\ st.failed \subseteq pending
    /\ AtRepo => /\ W.repo \in pending /\ W.repo \in st.known
                 /\ W.repo \notin todo.repos
                 /\ \A t \in todo.targets : t[1] = W.repo

\* The rows the repos in R had when the sweep began are there, unchanged.
Kept(R) == \A k \in DOMAIN before :
              before[k].repo \in R => k \in Cached /\ rows[k] = before[k]

KeptInv ==
    /\ Visiting => Kept(pending) /\ \A k \in DOMAIN before :
                      before[k].repo \in pending => before[k].rid <= fence
    /\ Ending => Kept(st.failed)

\* Whom an evictBySize of the warmer spares.
SpareInv ==
    /\ W.exempt = IF W.pc \in Evicting /\ W.key = NoKey THEN st.failed ELSE {}
    /\ W.pc \in {"select", "delete"} /\ W.key # NoKey =>
          W.spare = pending /\ W.upto = fence

\* The victims of evictBySize are rows it may take; those of the reconcile
\* are of repos that did not fail, and pruned if the repo's own.
VictimInv ==
    /\ W.pc \in {"delete", "purge"} =>
          \A v \in W.victims : v.key \in Cached /\ rows[v.key].rid = v.rid
    /\ W.pc = "delete" =>
          \A v \in W.victims :
             /\ RankIn(Cached, v.key) > Min({PinFloor, WarmN})
             /\ rows[v.key].repo \notin W.exempt
             /\ ~(rows[v.key].repo \in W.spare /\ v.rid <= W.upto)
    /\ W.pc = "purge" =>
          \A v \in W.victims :
             /\ rows[v.key].repo \notin st.failed
             /\ v.key[1][1] = rows[v.key].repo /\ rows[v.key].repo \in st.known
                => v.key \notin LiveKeys

\* What is cached and exists on a storage that was swept, the sweep has seen.
SweptInv == \A k \in Cached \intersect LiveKeys :
               k[1] \in st.swept => k \in st.keep

FilesInv ==
    /\ FilesTypes /\ GivenOut /\ KeyInv /\ VisitInv /\ KeptInv /\ SpareInv
    /\ VictimInv /\ SweptInv

-----------------------------------------------------------------------------
(* Lemmas about the operators.                                             *)

\* A finite set of naturals has a highest element: of the sets of what lies
\* above an element, a smallest one is empty.
LEMMA MaxOfFinite ==
    ASSUME NEW S \in SUBSET Nat, IsFiniteSet(S), S # {}
    PROVE  Max(S) \in S /\ \A y \in S : y <= Max(S)
  <1> DEFINE Above(x) == {y \in S : x < y}
             F == {Above(x) : x \in S}
  <1>1. F \subseteq FiniteSubsetsOf(S) /\ F # {}
    <2>1. \A x \in S : Above(x) \in SUBSET S
      OBVIOUS
    <2>2. F \subseteq SUBSET S
      BY <2>1
    <2>3. PICK x \in S : TRUE
      OBVIOUS
    <2>4. Above(x) \in F
      BY <2>3
    <2> HIDE DEF F
    <2> QED BY <2>2, <2>4, FS_FiniteSubsetsOfFinite
  <1>2. IsWellFoundedOn(StrictSubsetOrdering(S), FiniteSubsetsOf(S))
    BY FS_StrictSubsetOrderingWellFounded
  <1>3. PICK A \in F : \A B \in F : <<B, A>> \notin StrictSubsetOrdering(S)
    BY <1>1, <1>2, WFMin
  <1>4. PICK x \in S : A = Above(x)
    BY <1>3
  <1>5. \A y \in S : y <= x
    <2> SUFFICES ASSUME NEW y \in S, x < y PROVE FALSE
      OBVIOUS
    <2>1. y \in A /\ y \notin Above(y)
      BY <1>4
    <2>3. Above(y) \subseteq A
      <3> SUFFICES ASSUME NEW z \in Above(y) PROVE z \in A
        OBVIOUS
      <3>1. z \in S /\ y < z /\ x \in Nat /\ y \in Nat /\ z \in Nat
        OBVIOUS
      <3>2. x < z
        BY <3>1
      <3> QED BY <3>1, <3>2, <1>4
    <2>2. <<Above(y), A>> \in StrictSubsetOrdering(S)
      BY <2>1, <2>3, <1>4 DEF StrictSubsetOrdering
    <2> QED BY <2>2, <1>3
  <1>6. \E m \in S : \A y \in S : m >= y
    BY <1>4, <1>5
  <1> QED BY <1>6 DEF Max

\* There are finitely many keys.
LEMMA KeysFinite == IsFiniteSet(Keys)
  <1> DEFINE f == [t \in Targets |-> t[2]]
  <1>1. f \in Surjection(Targets, Storage)
    BY DEF Surjection, Storage
  <1>2. IsFiniteSet(Storage)
    BY <1>1, FS_Surjection, FilesCacheAssumption
  <1>3. IsFiniteSet(1..Revs)
    BY FS_Interval, FilesCacheAssumption
  <1> QED BY <1>2, <1>3, FS_Product, FilesCacheAssumption DEF Keys, Groups

\* A rank is a positive number.
LEMMA RankType ==
    ASSUME NEW K \in SUBSET Keys, NEW k
    PROVE  RankIn(K, k) \in Nat
  <1>1. IsFiniteSet({x \in K : x[1] = k[1] /\ x[2] > k[2]})
    BY KeysFinite, FS_Subset
  <1> QED BY <1>1, FS_CardinalityType DEF RankIn

\* The row that is inserted gets a rowid above those there are.
LEMMA NextRowidAbove ==
    ASSUME FilesTypes
    PROVE  NextRowid \in Nat \ {0} /\ \A k \in Cached : rows[k].rid < NextRowid
  <1> DEFINE R == {rows[k].rid : k \in Cached}
             f == [k \in Cached |-> rows[k].rid]
  <1>1. Cached \subseteq Keys /\ R \subseteq Nat
    BY DEF FilesTypes, TypeOK
  <1>2. IsFiniteSet(Cached)
    BY <1>1, KeysFinite, FS_Subset
  <1>3. f \in Surjection(Cached, R)
    BY DEF Surjection
  <1>4. IsFiniteSet({0} \union R)
    BY <1>2, <1>3, FS_Surjection, FS_Singleton, FS_Union
  <1>5. Max({0} \union R) \in Nat /\ \A y \in R : y <= Max({0} \union R)
    <2> DEFINE T == {0} \union R
    <2>1. T \in SUBSET Nat /\ T # {}
      BY <1>1
    <2>2. \A y \in R : y \in T
      OBVIOUS
    <2>3. IsFiniteSet(T)
      BY <1>4
    <2>4. Max(T) \in T /\ \A y \in T : y <= Max(T)
      <3> HIDE DEF T
      <3> QED BY <2>1, <2>3, MaxOfFinite
    <2> QED BY <2>1, <2>2, <2>4
  <1>6. \A k \in Cached : rows[k].rid \in R
    OBVIOUS
  <1>7. NextRowid = 1 + Max({0} \union R)
    BY DEF NextRowid
  <1> DEFINE top == Max({0} \union R)
  <1>8. top \in Nat /\ \A y \in R : y \in Nat /\ y <= top
    BY <1>1, <1>5
  <1> HIDE DEF R, top
  <1>9. NextRowid = 1 + top
    BY <1>7 DEF top
  <1> QED BY <1>6, <1>8, <1>9

\* The evictor protects at least the floor.
LEMMA PinAboveFloor ==
    effectivePinN \in Nat /\ Min({PinFloor, WarmN}) \in Nat
    /\ Min({PinFloor, WarmN}) <= effectivePinN
  <1> DEFINE floor == Min({PinFloor, WarmN})
  <1>1. /\ floor \in Nat /\ floor <= WarmN
        /\ WarmN <= PinFloor => floor = WarmN
    <2>1. \E x \in {PinFloor, WarmN} : \A y \in {PinFloor, WarmN} : x <= y
      BY FilesCacheAssumption
    <2>2. floor \in {PinFloor, WarmN} /\ \A y \in {PinFloor, WarmN} : floor <= y
      BY <2>1 DEF Min
    <2> QED BY <2>2, FilesCacheAssumption
  <1>2. ASSUME NEW n PROVE pinPolicy(n) \in Nat /\ floor <= pinPolicy(n)
    <2> DEFINE S == {floor} \union {k \in 1..WarmN : k >= floor /\ n[k] <= MaxBytes}
    <2>1. S \subseteq 0..WarmN
      BY <1>1, FilesCacheAssumption
    <2>2. IsFiniteSet(S) /\ S \subseteq Nat /\ S # {} /\ floor \in S
      <3>1. floor \in S /\ 0..WarmN \subseteq Nat /\ 0 \in Int /\ WarmN \in Int
        BY FilesCacheAssumption
      <3> HIDE DEF S
      <3>2. IsFiniteSet(0..WarmN) /\ S \in SUBSET (0..WarmN)
        BY <2>1, <3>1, FS_Interval
      <3> QED BY <3>1, <3>2, FS_Subset
    <2>3. Max(S) \in S /\ \A y \in S : y <= Max(S)
      BY <2>2, MaxOfFinite
    <2>4. pinPolicy(n) = Max(S)
      BY DEF pinPolicy
    <2> QED BY <2>2, <2>3, <2>4
  <1> QED BY <1>1, <1>2, FilesCacheAssumption DEF effectivePinN

-----------------------------------------------------------------------------
(* One lemma for each kind of step.                                        *)

\* The warmer is the only writer.
LEMMA TheWriter ==
    ASSUME OnlyWarmer, FilesTypes
    PROVE  Writers = {"warmer"} /\ W \in LocalTypes
  BY DEF OnlyWarmer, Writers, FilesTypes, W

\* A key is not the absence of one.
LEMMA KeyIsKey == ASSUME NEW k \in Keys PROVE k # NoKey
  BY DEF Keys, NoKey

\* A row deeper than the evictor protects is deeper than the floor.
LEMMA TakenIsDeep ==
    ASSUME FilesTypes, NEW k, RankIn(Cached, k) > effectivePinN
    PROVE  RankIn(Cached, k) > Min({PinFloor, WarmN})
  <1> DEFINE rank == RankIn(Cached, k)
             pin == effectivePinN
             floor == Min({PinFloor, WarmN})
  <1>1. rank \in Nat
    BY RankType DEF FilesTypes, TypeOK
  <1>2. pin \in Nat /\ floor \in Nat /\ floor <= pin
    BY PinAboveFloor
  <1>3. rank > pin
    OBVIOUS
  <1>4. rank > floor
    <2> HIDE DEF rank, pin, floor
    <2> QED BY <1>1, <1>2, <1>3
  <1> QED BY <1>4

\* What is at hand at the end of evictBySize or of a listing.
LEMMA Returned ==
    ASSUME OnlyWarmer, FilesTypes, Return("warmer"), W.key # NoKey => W.repo \in Repos
    PROVE  /\ proc' \in [Writers -> LocalTypes]
           /\ W'.key = NoKey /\ W'.victims = {} /\ W'.exempt = {}
           /\ W.key = NoKey => W'.pc = "return"
           /\ W.key # NoKey => W'.pc = "warming" /\ W'.repo = W.repo
  <1>1. W \in LocalTypes /\ Writers = {"warmer"}
    BY TheWriter
  <1>2. Locals \in LocalTypes
    BY DEF Locals, LocalTypes, Pcs, Need
  <1>3. W' = IF W.key = NoKey THEN [Locals EXCEPT !.pc = "return"]
             ELSE [Locals EXCEPT !.pc = "warming", !.repo = W.repo]
    BY <1>1 DEF Return, W, FilesTypes
  <1>4. W' \in LocalTypes
    BY <1>2, <1>3 DEF LocalTypes, Pcs, Locals
  <1>5. proc' = [proc EXCEPT !["warmer"] = W']
    BY <1>1, <1>3 DEF Return, W, FilesTypes
  <1>6. proc' \in [Writers -> LocalTypes]
    BY <1>4, <1>5 DEF FilesTypes
  <1> QED BY <1>3, <1>6 DEF Locals

\* A listing or an evictBySize ends: the sweep goes on where it was.
LEMMA ReturnStep ==
    ASSUME OnlyWarmer, FilesInv, Return("warmer"), W.pc \in Evicting \union {"listing"},
           UNCHANGED <<envVars, rows, pending, fence, todo, st, before>>,
           DOMAIN markers' \subseteq Repos \X Keys,
           \A m \in DOMAIN markers' :
              markers'[m] \in {"row_cap", "spool_ceiling", "cap_evicted"},
           warmed' \in 0..MaxWarm
    PROVE  FilesInv'
  <1>r. /\ W.key # NoKey => W.repo \in Repos
        /\ W.pc = "listing" => W.key # NoKey
    <2>1. W.pc = "listing" => W.key # NoKey
      BY KeyIsKey DEF FilesInv, KeyInv
    <2>2. W.key # NoKey => AtRepo
      BY DEF AtRepo, Storing, Evicting
    <2> QED BY <2>1, <2>2 DEF FilesInv, FilesTypes, TypeOK, VisitInv
  <1>a. /\ proc' \in [Writers -> LocalTypes]
        /\ W'.key = NoKey /\ W'.victims = {} /\ W'.exempt = {}
        /\ W.key = NoKey => W'.pc = "return" /\ Ending
        /\ W.key # NoKey => W'.pc = "warming" /\ W'.repo = W.repo /\ AtRepo /\ Visiting
    BY <1>r, Returned DEF FilesInv, Evicting, Ending, Visiting, AtRepo, Storing
  <1>1. FilesTypes'
    BY <1>a DEF FilesInv, envVars, FilesTypes, TypeOK, Cached
  <1>2. GivenOut'
    BY <1>a DEF FilesInv, envVars, GivenOut, Cached
  <1>3. KeyInv'
    BY <1>a DEF FilesInv, envVars, KeyInv, Cached, FilesTypes, Evicting, Storing, AtRepo, Visiting, Ending
  <1>4. VisitInv'
    BY <1>a DEF FilesInv, envVars, VisitInv, KeyInv, Evicting, Storing, AtRepo, Visiting, Ending
  <1>5. KeptInv'
    BY <1>a DEF FilesInv, envVars, KeptInv, VisitInv, KeyInv, Kept, Cached, Evicting, Storing, AtRepo, Visiting, Ending
  <1>6. SpareInv'
    BY <1>a DEF FilesInv, envVars, SpareInv, KeyInv, Evicting, Storing, AtRepo, Visiting, Ending
  <1>7. VictimInv'
    BY <1>a DEF FilesInv, envVars, VictimInv, Cached, RankIn, LiveKeys, KeyInv
  <1>8. SweptInv'
    BY <1>a DEF FilesInv, envVars, SweptInv, Cached, LiveKeys
  <1> QED BY <1>1, <1>2, <1>3, <1>4, <1>5, <1>6, <1>7, <1>8 DEF FilesInv

\* A listing is inserted: its key was not cached, its rowid is new.
LEMMA PutStep ==
    ASSUME OnlyWarmer, FilesInv, putGzipped("warmer")
    PROVE  FilesInv'
  <1>a. /\ proc' \in [Writers -> LocalTypes]
        /\ W'.pc = "sum" /\ W'.repo = W.repo
        /\ W'.key = W.key /\ W'.need = W.need
        /\ W'.spare = W.spare /\ W'.upto = W.upto
        /\ W'.exempt = W.exempt /\ W'.victims = W.victims
        /\ W'.marks = W.marks
    BY TheWriter DEF FilesInv, FilesTypes, LocalTypes, Pcs, W, putGzipped, Goto
  <1>b. /\ W.key \in Keys /\ W.key \notin Cached /\ W.key \in LiveKeys /\ W.key # NoKey
        /\ W.key \in st.keep /\ AtRepo /\ Visiting /\ ~Ending /\ W.pc = "listing"
        /\ W.repo \in Repos
    BY KeyIsKey DEF FilesInv, FilesTypes, TypeOK, KeyInv, VisitInv, putGzipped, W, AtRepo, Visiting, Ending, Evicting
  <1>c. /\ Cached' = Cached \union {W.key}
        /\ \A k \in Cached : rows'[k] = rows[k]
        /\ rows'[W.key] = [rid |-> NextRowid, repo |-> W.repo]
        /\ rows' = [k \in Cached' |-> rows'[k]]
    BY <1>b DEF putGzipped, Cached, W
  <1>u. /\ live' = live /\ made' = made /\ repos' = repos /\ markers' = markers
        /\ pending' = pending /\ fence' = fence /\ todo' = todo /\ st' = st
        /\ before' = before /\ LiveKeys' = LiveKeys
    BY DEF putGzipped, envVars, LiveKeys
  <1>v. warmed' \in 0..MaxWarm
    <2>1. warmed \in Nat /\ warmed < MaxWarm /\ warmed' = warmed + 1
      BY <1>b, FilesCacheAssumption DEF putGzipped, FilesInv, FilesTypes, TypeOK, W
    <2> QED BY <2>1, FilesCacheAssumption
  <1>d. NextRowid \in Nat \ {0} /\ \A k \in Cached : rows[k].rid < NextRowid
    BY NextRowidAbove DEF FilesInv
  <1>1. FilesTypes'
    BY <1>a, <1>b, <1>c, <1>u, <1>d, <1>v DEF FilesInv, FilesTypes, TypeOK
  <1>2. GivenOut'
    <2>1. W.key[2] <= made[W.key[1]]
      BY <1>b DEF LiveKeys, Keys, Groups, FilesInv, GivenOut
    <2> QED BY <2>1, <1>c, <1>u DEF FilesInv, GivenOut
  <1>3. KeyInv'
    BY <1>a, <1>b, <1>c, <1>u DEF FilesInv, KeyInv, FilesTypes, Evicting, Storing, AtRepo, Visiting, Ending
  <1>4. VisitInv'
    BY <1>a, <1>b, <1>c, <1>u DEF FilesInv, VisitInv, KeyInv, Evicting, Storing, AtRepo, Visiting, Ending
  <1>5. KeptInv'
    BY <1>a, <1>b, <1>c, <1>u DEF FilesInv, KeptInv, VisitInv, KeyInv, Kept, Evicting, Storing, AtRepo, Visiting, Ending
  <1>6. SpareInv'
    BY <1>a, <1>b, <1>c, <1>u DEF FilesInv, SpareInv, KeyInv, Evicting, Storing, AtRepo, Visiting, Ending
  <1>7. VictimInv'
    BY <1>a, <1>b, <1>c, <1>u DEF FilesInv, VictimInv, KeyInv
  <1>8. SweptInv'
    BY <1>a, <1>b, <1>c, <1>u DEF FilesInv, SweptInv
  <1> QED BY <1>1, <1>2, <1>3, <1>4, <1>5, <1>6, <1>7, <1>8 DEF FilesInv

\* The cache is over its cap: the warmer takes note of whom to spare.
LEMMA SumStep ==
    ASSUME OnlyWarmer, FilesInv, W.pc = "sum",
           proc' = [proc EXCEPT !["warmer"].pc = "select",
                                !["warmer"].need = Bytes(Cached) - MaxBytes,
                                !["warmer"].spare = pending, !["warmer"].upto = fence],
           UNCHANGED <<envVars, rows, markers, sweepVars, faults>>
    PROVE  FilesInv'
  <1>a. /\ proc' \in [Writers -> LocalTypes]
        /\ W'.pc = "select" /\ W'.repo = W.repo
        /\ W'.key = W.key /\ W'.need = Bytes(Cached) - MaxBytes
        /\ W'.spare = pending /\ W'.upto = fence
        /\ W'.exempt = W.exempt /\ W'.victims = W.victims
        /\ W'.marks = W.marks
    <2>1. Bytes(Cached) - MaxBytes \in Need
      BY DEF FilesInv, FilesTypes, TypeOK, Need
    <2>2. pending \in SUBSET Repos /\ fence \in Nat
      BY DEF FilesInv, FilesTypes, TypeOK
    <2> QED BY ZenonT(30), <2>1, <2>2, TheWriter DEF FilesInv, FilesTypes, LocalTypes, Pcs, W
  <1>1. FilesTypes'
    BY <1>a DEF FilesInv, envVars, sweepVars, FilesTypes, TypeOK, Cached
  <1>2. GivenOut'
    BY <1>a DEF FilesInv, envVars, sweepVars, GivenOut, Cached
  <1>3. KeyInv'
    BY <1>a DEF FilesInv, envVars, sweepVars, KeyInv, Cached, FilesTypes, Evicting, Storing, AtRepo, Visiting, Ending
  <1>4. VisitInv'
    BY <1>a DEF FilesInv, envVars, sweepVars, VisitInv, KeyInv, Evicting, Storing, AtRepo, Visiting, Ending
  <1>5. KeptInv'
    BY <1>a DEF FilesInv, envVars, sweepVars, KeptInv, VisitInv, KeyInv, Kept, Cached, Evicting, Storing, AtRepo, Visiting, Ending
  <1>6. SpareInv'
    BY <1>a DEF FilesInv, envVars, sweepVars, SpareInv, KeyInv, Evicting, Storing, AtRepo, Visiting, Ending
  <1>7. VictimInv'
    BY <1>a DEF FilesInv, envVars, sweepVars, VictimInv, Cached, RankIn, LiveKeys, KeyInv
  <1>8. SweptInv'
    BY <1>a DEF FilesInv, envVars, sweepVars, SweptInv, Cached, LiveKeys
  <1> QED BY <1>1, <1>2, <1>3, <1>4, <1>5, <1>6, <1>7, <1>8 DEF FilesInv

\* The victims are chosen: none is spared, none is a newest revision.
LEMMA SelectStep ==
    ASSUME OnlyWarmer, FilesInv, W.pc = "select",
           NEW V \in SUBSET Evictable("warmer", effectivePinN),
           proc' = [proc EXCEPT !["warmer"].pc = "delete",
                                !["warmer"].victims = {[rid |-> rows[k].rid, key |-> k] : k \in V},
                                !["warmer"].marks = Marks(V)],
           UNCHANGED <<envVars, rows, markers, sweepVars, faults>>
    PROVE  FilesInv'
  <1>a. /\ proc' \in [Writers -> LocalTypes]
        /\ W'.pc = "delete" /\ W'.repo = W.repo
        /\ W'.key = W.key /\ W'.need = W.need
        /\ W'.spare = W.spare /\ W'.upto = W.upto
        /\ W'.exempt = W.exempt /\ W'.victims = {[rid |-> rows[k].rid, key |-> k] : k \in V}
        /\ W'.marks = Marks(V)
    <2>1. /\ {[rid |-> rows[k].rid, key |-> k] : k \in V} \in SUBSET [rid : Nat, key : Keys]
          /\ Marks(V) \in SUBSET (Repos \X Keys)
      <3>1. \A k \in V : k \in Cached /\ k \in Keys /\ rows[k].rid \in Nat /\ rows[k].repo \in Repos
        BY DEF FilesInv, FilesTypes, TypeOK, Evictable
      <3>2. \A k \in V : [rid |-> rows[k].rid, key |-> k] \in [rid : Nat, key : Keys]
                         /\ <<rows[k].repo, k>> \in Repos \X Keys
        BY <3>1
      <3> QED BY <3>2 DEF Marks
    <2> QED BY <2>1, TheWriter DEF FilesInv, FilesTypes, LocalTypes, Pcs, W
  <1>1. FilesTypes'
    BY <1>a DEF FilesInv, envVars, sweepVars, FilesTypes, TypeOK, Cached
  <1>2. GivenOut'
    BY <1>a DEF FilesInv, envVars, sweepVars, GivenOut, Cached
  <1>3. KeyInv'
    BY <1>a DEF FilesInv, envVars, sweepVars, KeyInv, Cached, FilesTypes, Evicting, Storing, AtRepo, Visiting, Ending
  <1>4. VisitInv'
    BY <1>a DEF FilesInv, envVars, sweepVars, VisitInv, KeyInv, Evicting, Storing, AtRepo, Visiting, Ending
  <1>5. KeptInv'
    BY <1>a DEF FilesInv, envVars, sweepVars, KeptInv, VisitInv, KeyInv, Kept, Cached, Evicting, Storing, AtRepo, Visiting, Ending
  <1>6. SpareInv'
    BY <1>a DEF FilesInv, envVars, sweepVars, SpareInv, KeyInv, Evicting, Storing, AtRepo, Visiting, Ending
  <1>7. VictimInv'
    <2>1. ASSUME NEW v \in W'.victims
          PROVE  /\ v.key \in V /\ v.key \in Cached /\ rows[v.key].rid = v.rid
      <3>1. PICK k \in V : v = [rid |-> rows[k].rid, key |-> k]
        BY <1>a
      <3> QED BY <3>1 DEF Evictable
    <2>2. ASSUME NEW k \in V
          PROVE  /\ RankIn(Cached, k) > Min({PinFloor, WarmN})
                 /\ rows[k].repo \notin W.exempt
                 /\ ~(rows[k].repo \in W.spare /\ rows[k].rid <= W.upto)
      <3>2. RankIn(Cached, k) > effectivePinN
        BY DEF Evictable
      <3>3. RankIn(Cached, k) > Min({PinFloor, WarmN})
        BY <3>2, TakenIsDeep DEF FilesInv
      <3> QED BY <3>3 DEF Evictable, W
    <2> QED BY <1>a, <2>1, <2>2 DEF VictimInv, Cached, RankIn
  <1>8. SweptInv'
    BY <1>a DEF FilesInv, envVars, sweepVars, SweptInv, Cached, LiveKeys
  <1> QED BY <1>1, <1>2, <1>3, <1>4, <1>5, <1>6, <1>7, <1>8 DEF FilesInv

\* The victims are deleted: no row that has to stay is among them.
LEMMA DeleteStep ==
    ASSUME OnlyWarmer, FilesInv, evictDelete("warmer")
    PROVE  FilesInv'
  <1>a. /\ proc' \in [Writers -> LocalTypes]
        /\ W'.pc = "mark" /\ W'.repo = W.repo
        /\ W'.key = W.key /\ W'.need = W.need
        /\ W'.spare = W.spare /\ W'.upto = W.upto
        /\ W'.exempt = W.exempt /\ W'.victims = W.victims
        /\ W'.marks = W.marks
    BY TheWriter DEF FilesInv, FilesTypes, LocalTypes, Pcs, W, evictDelete, Goto
  <1>b. \A k \in ByRowid("warmer") : \E v \in W.victims : v.key = k /\ v.rid = rows[k].rid
    BY DEF ByRowid, W, FilesInv, VictimInv, FilesTypes, TypeOK, evictDelete
  <1>c. /\ Cached' = Cached \ ByRowid("warmer") /\ W.pc = "delete"
        /\ \A k \in Cached' : rows'[k] = rows[k]
        /\ rows' = [k \in Cached' |-> rows'[k]]
    BY DEF evictDelete, Cached, W
  <1>u. /\ live' = live /\ made' = made /\ repos' = repos /\ markers' = markers
        /\ pending' = pending /\ fence' = fence /\ todo' = todo /\ st' = st
        /\ before' = before /\ LiveKeys' = LiveKeys /\ warmed' = warmed
    BY DEF evictDelete, envVars, sweepVars, LiveKeys
  <1>d. \A k \in ByRowid("warmer") :
           /\ rows[k].repo \notin W.exempt
           /\ ~(rows[k].repo \in W.spare /\ rows[k].rid <= W.upto)
    BY <1>b, <1>c DEF FilesInv, VictimInv
  <1>1. FilesTypes'
    BY <1>a, <1>c, <1>u DEF FilesInv, FilesTypes, TypeOK
  <1>2. GivenOut'
    BY <1>a, <1>c, <1>u DEF FilesInv, GivenOut
  <1>3. KeyInv'
    BY <1>a, <1>c, <1>u DEF FilesInv, KeyInv, FilesTypes, Evicting, Storing, AtRepo, Visiting, Ending
  <1>4. VisitInv'
    BY <1>a, <1>c, <1>u DEF FilesInv, VisitInv, KeyInv, Evicting, Storing, AtRepo, Visiting, Ending
  <1>5. KeptInv'
    <2>1. CASE W.key = NoKey
      <3>1. W.exempt = st.failed /\ Kept(st.failed)
        BY <2>1, <1>c DEF FilesInv, SpareInv, KeptInv, Ending, Evicting
      <3>2. Kept(st.failed)'
        BY <3>1, <1>a, <1>c, <1>d, <1>u DEF Kept
      <3> QED BY <2>1, <1>a, <3>2 DEF KeptInv, Visiting, AtRepo, Storing
    <2>2. CASE W.key # NoKey
      <3>1. /\ W.spare = pending /\ W.upto = fence /\ Kept(pending)
            /\ \A k \in DOMAIN before : before[k].repo \in pending => before[k].rid <= fence
        BY <2>2, <1>c DEF FilesInv, SpareInv, KeptInv, Visiting, AtRepo, Storing, Evicting
      <3>2. Kept(pending)'
        BY <3>1, <1>a, <1>c, <1>d, <1>u DEF Kept
      <3> QED BY <2>2, <1>a, <1>u, <3>1, <3>2 DEF KeptInv, Ending
    <2> QED BY <2>1, <2>2
  <1>6. SpareInv'
    BY <1>a, <1>c, <1>u DEF FilesInv, SpareInv, KeyInv, Evicting, Storing, AtRepo, Visiting, Ending
  <1>7. VictimInv'
    BY <1>a, <1>c, <1>u DEF FilesInv, VictimInv, KeyInv
  <1>8. SweptInv'
    BY <1>a, <1>c, <1>u DEF FilesInv, SweptInv
  <1> QED BY <1>1, <1>2, <1>3, <1>4, <1>5, <1>6, <1>7, <1>8 DEF FilesInv

\* A sweep begins: every row of a known repo is within the fence.
LEMMA BeginStep ==
    ASSUME OnlyWarmer, FilesInv, sweepBegin
    PROVE  FilesInv'
  <1>a. /\ proc' \in [Writers -> LocalTypes]
        /\ W'.pc = "repos" /\ W'.repo = W.repo
        /\ W'.key = W.key /\ W'.need = W.need
        /\ W'.spare = W.spare /\ W'.upto = W.upto
        /\ W'.exempt = W.exempt /\ W'.victims = W.victims
        /\ W'.marks = W.marks
    BY TheWriter DEF FilesInv, FilesTypes, LocalTypes, Pcs, W, sweepBegin, Goto
  <1>u. /\ live' = live /\ made' = made /\ repos' = repos /\ rows' = rows
        /\ markers' = markers
        /\ LiveKeys' = LiveKeys /\ Cached' = Cached
    BY DEF sweepBegin, envVars, sweepVars, LiveKeys, Cached
  <1>b. /\ W.pc = "idle" /\ pending' = repos /\ before' = rows /\ st' = newSweepState
        /\ fence' = IF repos = {} THEN 0 ELSE NextRowid - 1
        /\ warmed' = 0 /\ todo' = [NoTodo EXCEPT !.repos = repos]
    BY DEF sweepBegin, W
  <1>c. NextRowid \in Nat \ {0} /\ \A k \in Cached : rows[k].rid < NextRowid
    BY NextRowidAbove DEF FilesInv
  <1>d. /\ fence' \in Nat
        /\ repos # {} => \A k \in Cached : rows[k].rid <= fence'
        /\ DOMAIN before' = Cached /\ 0 \in 0..MaxWarm
    BY SMTT(20), <1>b, <1>c, FilesCacheAssumption DEF FilesInv, FilesTypes, TypeOK, Cached
  <1>e. /\ todo'.repos = repos /\ todo'.targets = {} /\ todo'.revs = {}
        /\ todo' \in [repos : SUBSET Repos, targets : SUBSET Targets, revs : SUBSET (Keys \X Places)]
        /\ st'.failed = {} /\ st'.swept = {} /\ st'.known = {} /\ st'.keep = {}
        /\ st' \in [swept : SUBSET Targets, failed : SUBSET Repos, known : SUBSET Repos, keep : SUBSET Keys]
    BY <1>b DEF NoTodo, newSweepState, FilesInv, FilesTypes, TypeOK
  <1>f. W.key = NoKey
    BY <1>b DEF FilesInv, KeyInv, Evicting
  <1>1. FilesTypes'
    BY <1>a, <1>u, <1>b, <1>d, <1>e DEF FilesInv, FilesTypes, TypeOK
  <1>2. GivenOut'
    BY <1>a, <1>u DEF FilesInv, GivenOut
  <1>3. KeyInv'
    BY <1>a, <1>u, <1>b, <1>e, <1>f DEF FilesInv, KeyInv, FilesTypes, Evicting, Storing, AtRepo, Visiting, Ending
  <1>4. VisitInv'
    BY <1>a, <1>u, <1>b, <1>e, <1>f DEF FilesInv, VisitInv, KeyInv, Evicting, Storing, AtRepo, Visiting, Ending
  <1>5. KeptInv'
    BY <1>a, <1>u, <1>b, <1>d, <1>f DEF FilesInv, KeptInv, VisitInv, KeyInv, Kept, Evicting, Storing, AtRepo, Visiting, Ending
  <1>6. SpareInv'
    BY <1>a, <1>u, <1>b DEF FilesInv, SpareInv, KeyInv, Evicting, Storing, AtRepo, Visiting, Ending
  <1>7. VictimInv'
    BY <1>a, <1>u, <1>b DEF FilesInv, VictimInv, KeyInv
  <1>8. SweptInv'
    BY <1>a, <1>u, <1>b, <1>e DEF FilesInv, SweptInv
  <1> QED BY <1>1, <1>2, <1>3, <1>4, <1>5, <1>6, <1>7, <1>8 DEF FilesInv

\* A repo's credentials are vended.
LEMMA VendStep ==
    ASSUME OnlyWarmer, FilesInv, NEW r \in todo.repos, vend(r)
    PROVE  FilesInv'
  <1>a. /\ proc' \in [Writers -> LocalTypes]
        /\ W'.pc = "targets" /\ W'.repo = r
        /\ W'.key = W.key /\ W'.need = W.need
        /\ W'.spare = W.spare /\ W'.upto = W.upto
        /\ W'.exempt = W.exempt /\ W'.victims = W.victims
        /\ W'.marks = W.marks
    BY TheWriter DEF FilesInv, FilesTypes, LocalTypes, Pcs, W, vend
  <1>u. /\ live' = live /\ made' = made /\ repos' = repos /\ rows' = rows
        /\ markers' = markers /\ pending' = pending /\ fence' = fence /\ warmed' = warmed /\ before' = before
        /\ LiveKeys' = LiveKeys /\ Cached' = Cached
    BY DEF vend, envVars, sweepVars, LiveKeys, Cached
  <1>b. /\ W.pc = "repos" /\ W.key = NoKey /\ r \in Repos /\ Visiting /\ ~Ending /\ ~AtRepo
    BY DEF vend, W, FilesInv, FilesTypes, KeyInv, Evicting, Visiting, Ending, AtRepo, Storing
  <1>c. /\ st'.known = st.known \union {r} /\ st'.failed = st.failed /\ st'.swept = st.swept
        /\ st'.keep = st.keep /\ todo'.repos = todo.repos \ {r} /\ todo'.revs = todo.revs
        /\ todo'.targets = {t \in Targets : t[1] = r}
        /\ todo' \in [repos : SUBSET Repos, targets : SUBSET Targets, revs : SUBSET (Keys \X Places)]
        /\ st' \in [swept : SUBSET Targets, failed : SUBSET Repos, known : SUBSET Repos, keep : SUBSET Keys]
    BY <1>b DEF vend, FilesInv, FilesTypes
  <1>1. FilesTypes'
    BY <1>a, <1>u, <1>b, <1>c DEF FilesInv, FilesTypes, TypeOK
  <1>2. GivenOut'
    BY <1>a, <1>u, <1>b, <1>c DEF FilesInv, GivenOut
  <1>3. KeyInv'
    BY <1>a, <1>u, <1>b, <1>c DEF FilesInv, KeyInv, FilesTypes, Evicting, Storing, AtRepo, Visiting, Ending
  <1>4. VisitInv'
    BY <1>a, <1>u, <1>b, <1>c DEF FilesInv, VisitInv, KeyInv, Evicting, Storing, AtRepo, Visiting, Ending
  <1>5. KeptInv'
    BY <1>a, <1>u, <1>b, <1>c DEF FilesInv, KeptInv, VisitInv, KeyInv, Kept, Evicting, Storing, AtRepo, Visiting, Ending
  <1>6. SpareInv'
    BY <1>a, <1>u, <1>b, <1>c DEF FilesInv, SpareInv, KeyInv, Evicting, Storing, AtRepo, Visiting, Ending
  <1>7. VictimInv'
    BY <1>a, <1>u, <1>b, <1>c DEF FilesInv, VictimInv, KeyInv
  <1>8. SweptInv'
    BY <1>a, <1>u, <1>b, <1>c DEF FilesInv, SweptInv
  <1> QED BY <1>1, <1>2, <1>3, <1>4, <1>5, <1>6, <1>7, <1>8 DEF FilesInv

\* The vend fails: the repo is pending, so nothing of it was lost.
LEMMA VendFailsStep ==
    ASSUME OnlyWarmer, FilesInv, NEW r \in todo.repos, vendFails(r)
    PROVE  FilesInv'
  <1>a. /\ proc' \in [Writers -> LocalTypes]
        /\ W'.pc = W.pc /\ W'.repo = W.repo
        /\ W'.key = W.key /\ W'.need = W.need
        /\ W'.spare = W.spare /\ W'.upto = W.upto
        /\ W'.exempt = W.exempt /\ W'.victims = W.victims
        /\ W'.marks = W.marks
    BY TheWriter DEF FilesInv, FilesTypes, LocalTypes, Pcs, W, vendFails, Goto
  <1>u. /\ live' = live /\ made' = made /\ repos' = repos /\ rows' = rows
        /\ markers' = markers /\ pending' = pending /\ fence' = fence /\ warmed' = warmed /\ before' = before
        /\ LiveKeys' = LiveKeys /\ Cached' = Cached
    BY DEF vendFails, envVars, sweepVars, LiveKeys, Cached
  <1>b. /\ W.pc = "repos" /\ W.key = NoKey /\ r \in Repos /\ Visiting /\ ~Ending /\ ~AtRepo
    BY DEF vendFails, W, FilesInv, FilesTypes, KeyInv, Evicting, Visiting, Ending, AtRepo, Storing
  <1>c. /\ st'.known = st.known \union {r} /\ st'.failed = st.failed \union {r} /\ st'.swept = st.swept
        /\ st'.keep = st.keep /\ todo'.repos = todo.repos \ {r} /\ todo'.revs = todo.revs
        /\ todo'.targets = todo.targets
        /\ todo' \in [repos : SUBSET Repos, targets : SUBSET Targets, revs : SUBSET (Keys \X Places)]
        /\ st' \in [swept : SUBSET Targets, failed : SUBSET Repos, known : SUBSET Repos, keep : SUBSET Keys]
    BY <1>b DEF vendFails, FilesInv, FilesTypes
  <1>1. FilesTypes'
    BY <1>a, <1>u, <1>b, <1>c DEF FilesInv, FilesTypes, TypeOK
  <1>2. GivenOut'
    BY <1>a, <1>u, <1>b, <1>c DEF FilesInv, GivenOut
  <1>3. KeyInv'
    BY <1>a, <1>u, <1>b, <1>c DEF FilesInv, KeyInv, FilesTypes, Evicting, Storing, AtRepo, Visiting, Ending
  <1>4. VisitInv'
    BY <1>a, <1>u, <1>b, <1>c DEF FilesInv, VisitInv, KeyInv, Evicting, Storing, AtRepo, Visiting, Ending
  <1>5. KeptInv'
    BY <1>a, <1>u, <1>b, <1>c DEF FilesInv, KeptInv, VisitInv, KeyInv, Kept, Evicting, Storing, AtRepo, Visiting, Ending
  <1>6. SpareInv'
    BY <1>a, <1>u, <1>b, <1>c DEF FilesInv, SpareInv, KeyInv, Evicting, Storing, AtRepo, Visiting, Ending
  <1>7. VictimInv'
    BY <1>a, <1>u, <1>b, <1>c DEF FilesInv, VictimInv, KeyInv
  <1>8. SweptInv'
    BY <1>a, <1>u, <1>b, <1>c DEF FilesInv, SweptInv
  <1> QED BY <1>1, <1>2, <1>3, <1>4, <1>5, <1>6, <1>7, <1>8 DEF FilesInv

\* A discovery listing fails: the repo is exempt.
LEMMA ListFailsStep ==
    ASSUME OnlyWarmer, FilesInv, NEW t \in todo.targets, listFails(t)
    PROVE  FilesInv'
  <1>a. /\ proc' \in [Writers -> LocalTypes]
        /\ W'.pc = W.pc /\ W'.repo = W.repo
        /\ W'.key = W.key /\ W'.need = W.need
        /\ W'.spare = W.spare /\ W'.upto = W.upto
        /\ W'.exempt = W.exempt /\ W'.victims = W.victims
        /\ W'.marks = W.marks
    BY TheWriter DEF FilesInv, FilesTypes, LocalTypes, Pcs, W, listFails, Goto
  <1>u. /\ live' = live /\ made' = made /\ repos' = repos /\ rows' = rows
        /\ markers' = markers /\ pending' = pending /\ fence' = fence /\ warmed' = warmed /\ before' = before
        /\ LiveKeys' = LiveKeys /\ Cached' = Cached
    BY DEF listFails, envVars, sweepVars, LiveKeys, Cached
  <1>b. /\ W.pc = "targets" /\ W.key = NoKey /\ Visiting /\ ~Ending /\ AtRepo
        /\ t[1] = W.repo /\ W.repo \in pending /\ W.repo \in st.known /\ t[1] \in Repos
    BY DEF listFails, W, FilesInv, FilesTypes, TypeOK, KeyInv, VisitInv, Evicting, Visiting, Ending, AtRepo, Storing
  <1>c. /\ st'.known = st.known /\ st'.failed = st.failed \union {t[1]} /\ st'.swept = st.swept
        /\ st'.keep = st.keep /\ todo'.repos = todo.repos /\ todo'.revs = todo.revs
        /\ todo'.targets = todo.targets \ {t}
        /\ todo' \in [repos : SUBSET Repos, targets : SUBSET Targets, revs : SUBSET (Keys \X Places)]
        /\ st' \in [swept : SUBSET Targets, failed : SUBSET Repos, known : SUBSET Repos, keep : SUBSET Keys]
    BY <1>b DEF listFails, FilesInv, FilesTypes
  <1>1. FilesTypes'
    BY <1>a, <1>u, <1>b, <1>c DEF FilesInv, FilesTypes, TypeOK
  <1>2. GivenOut'
    BY <1>a, <1>u, <1>b, <1>c DEF FilesInv, GivenOut
  <1>3. KeyInv'
    BY <1>a, <1>u, <1>b, <1>c DEF FilesInv, KeyInv, FilesTypes, Evicting, Storing, AtRepo, Visiting, Ending
  <1>4. VisitInv'
    BY <1>a, <1>u, <1>b, <1>c DEF FilesInv, VisitInv, KeyInv, Evicting, Storing, AtRepo, Visiting, Ending
  <1>5. KeptInv'
    BY <1>a, <1>u, <1>b, <1>c DEF FilesInv, KeptInv, VisitInv, KeyInv, Kept, Evicting, Storing, AtRepo, Visiting, Ending
  <1>6. SpareInv'
    BY <1>a, <1>u, <1>b, <1>c DEF FilesInv, SpareInv, KeyInv, Evicting, Storing, AtRepo, Visiting, Ending
  <1>7. VictimInv'
    BY <1>a, <1>u, <1>b, <1>c DEF FilesInv, VictimInv, KeyInv
  <1>8. SweptInv'
    BY <1>a, <1>u, <1>b, <1>c DEF FilesInv, SweptInv
  <1> QED BY <1>1, <1>2, <1>3, <1>4, <1>5, <1>6, <1>7, <1>8 DEF FilesInv

\* It succeeds: what it shows is kept.
LEMMA ListSucceedsStep ==
    ASSUME OnlyWarmer, FilesInv, NEW t \in todo.targets, listSucceeds(t)
    PROVE  FilesInv'
  <1>a. /\ proc' \in [Writers -> LocalTypes]
        /\ W'.pc = "warming" /\ W'.repo = W.repo
        /\ W'.key = W.key /\ W'.need = W.need
        /\ W'.spare = W.spare /\ W'.upto = W.upto
        /\ W'.exempt = W.exempt /\ W'.victims = W.victims
        /\ W'.marks = W.marks
    BY TheWriter DEF FilesInv, FilesTypes, LocalTypes, Pcs, W, listSucceeds, Goto
  <1>u. /\ live' = live /\ made' = made /\ repos' = repos /\ rows' = rows
        /\ markers' = markers /\ pending' = pending /\ fence' = fence /\ warmed' = warmed /\ before' = before
        /\ LiveKeys' = LiveKeys /\ Cached' = Cached
    BY DEF listSucceeds, envVars, sweepVars, LiveKeys, Cached
  <1>b. /\ W.pc = "targets" /\ W.key = NoKey /\ Visiting /\ ~Ending /\ AtRepo
        /\ t[1] = W.repo /\ t \in Targets
    BY DEF listSucceeds, W, FilesInv, FilesTypes, TypeOK, KeyInv, VisitInv, Evicting, Visiting, Ending, AtRepo, Storing
  <1> DEFINE K == newestRevisionsPerSnapshot(Discovers(t))
  <1>k. Discovers(t) \subseteq LiveKeys /\ LiveKeys \subseteq Keys /\ K \subseteq Discovers(t)
    BY DEF Discovers, LiveKeys, newestRevisionsPerSnapshot
  <1>l. {<<k, RankIn(K, k) - 1>> : k \in K} \in SUBSET (Keys \X Places)
    <2>1. K \in SUBSET Keys
      BY <1>k
    <2>2. \A k \in K : k \in Keys /\ RankIn(K, k) - 1 \in Places
      BY <2>1 DEF Places
    <2> HIDE DEF K
    <2> QED BY <2>2
  <1>c. /\ st'.known = st.known /\ st'.failed = st.failed /\ st'.swept = st.swept \union {t}
        /\ st'.keep = st.keep \union Discovers(t) /\ todo'.repos = todo.repos
        /\ todo'.revs = {<<k, RankIn(K, k) - 1>> : k \in K}
        /\ todo'.targets = todo.targets \ {t}
        /\ todo' \in [repos : SUBSET Repos, targets : SUBSET Targets, revs : SUBSET (Keys \X Places)]
        /\ st' \in [swept : SUBSET Targets, failed : SUBSET Repos, known : SUBSET Repos, keep : SUBSET Keys]
    BY <1>b, <1>k, <1>l DEF listSucceeds, FilesInv, FilesTypes
  <1>d. \A c \in todo'.revs : c[1] \in st'.keep
    BY <1>c, <1>k
  <1>e. \A k \in LiveKeys : k[1] = t => k \in st'.keep
    BY <1>c DEF Discovers
  <1> HIDE DEF K
  <1>1. FilesTypes'
    BY <1>a, <1>u, <1>c DEF FilesInv, FilesTypes, TypeOK
  <1>2. GivenOut'
    BY <1>a, <1>u DEF FilesInv, GivenOut
  <1>3. KeyInv'
    BY <1>a, <1>u, <1>b, <1>c, <1>d DEF FilesInv, KeyInv, FilesTypes, Evicting, Storing, AtRepo, Visiting, Ending
  <1>4. VisitInv'
    BY <1>a, <1>u, <1>b, <1>c DEF FilesInv, VisitInv, KeyInv, Evicting, Storing, AtRepo, Visiting, Ending
  <1>5. KeptInv'
    BY <1>a, <1>u, <1>b, <1>c DEF FilesInv, KeptInv, VisitInv, KeyInv, Kept, Evicting, Storing, AtRepo, Visiting, Ending
  <1>6. SpareInv'
    BY <1>a, <1>u, <1>b, <1>c DEF FilesInv, SpareInv, KeyInv, Evicting, Storing, AtRepo, Visiting, Ending
  <1>7. VictimInv'
    BY <1>a, <1>u, <1>b DEF FilesInv, VictimInv, KeyInv
  <1>8. SweptInv'
    BY <1>a, <1>u, <1>c, <1>e DEF FilesInv, SweptInv
  <1> QED BY <1>1, <1>2, <1>3, <1>4, <1>5, <1>6, <1>7, <1>8 DEF FilesInv

\* The candidates left at the bound are dropped.
LEMMA CappedStep ==
    ASSUME OnlyWarmer, FilesInv, warmCapped
    PROVE  FilesInv'
  <1>a. /\ proc' \in [Writers -> LocalTypes]
        /\ W'.pc = W.pc /\ W'.repo = W.repo
        /\ W'.key = W.key /\ W'.need = W.need
        /\ W'.spare = W.spare /\ W'.upto = W.upto
        /\ W'.exempt = W.exempt /\ W'.victims = W.victims
        /\ W'.marks = W.marks
    BY TheWriter DEF FilesInv, FilesTypes, LocalTypes, Pcs, W, warmCapped, Goto
  <1>u. /\ live' = live /\ made' = made /\ repos' = repos /\ rows' = rows
        /\ markers' = markers /\ pending' = pending /\ fence' = fence /\ st' = st /\ warmed' = warmed /\ before' = before
        /\ LiveKeys' = LiveKeys /\ Cached' = Cached
    BY DEF warmCapped, envVars, sweepVars, LiveKeys, Cached
  <1>b. /\ todo'.repos = todo.repos /\ todo'.targets = todo.targets /\ todo'.revs = {}
        /\ todo' \in [repos : SUBSET Repos, targets : SUBSET Targets, revs : SUBSET (Keys \X Places)]
    BY DEF warmCapped, FilesInv, FilesTypes
  <1>1. FilesTypes'
    BY <1>a, <1>u, <1>b DEF FilesInv, FilesTypes, TypeOK
  <1>2. GivenOut'
    BY <1>a, <1>u DEF FilesInv, GivenOut
  <1>3. KeyInv'
    BY <1>a, <1>u, <1>b DEF FilesInv, KeyInv, FilesTypes, Evicting, Storing, AtRepo, Visiting, Ending
  <1>4. VisitInv'
    BY <1>a, <1>u, <1>b DEF FilesInv, VisitInv, KeyInv, Evicting, Storing, AtRepo, Visiting, Ending
  <1>5. KeptInv'
    BY <1>a, <1>u DEF FilesInv, KeptInv, VisitInv, KeyInv, Kept, Evicting, Storing, AtRepo, Visiting, Ending
  <1>6. SpareInv'
    BY <1>a, <1>u DEF FilesInv, SpareInv, KeyInv, Evicting, Storing, AtRepo, Visiting, Ending
  <1>7. VictimInv'
    BY <1>a, <1>u DEF FilesInv, VictimInv, KeyInv
  <1>8. SweptInv'
    BY <1>a, <1>u DEF FilesInv, SweptInv
  <1> QED BY <1>1, <1>2, <1>3, <1>4, <1>5, <1>6, <1>7, <1>8 DEF FilesInv

\* The next candidate is listed: the discovery showed it, it is not cached.
LEMMA NextListStep ==
    ASSUME OnlyWarmer, FilesInv, NEW c \in todo.revs, warmNext(c), warmWanted(c[1], c[2])
    PROVE  FilesInv'
  <1>a. /\ proc' \in [Writers -> LocalTypes]
        /\ W'.pc = "listing" /\ W'.repo = W.repo
        /\ W'.key = c[1] /\ W'.need = W.need
        /\ W'.spare = W.spare /\ W'.upto = W.upto
        /\ W'.exempt = W.exempt /\ W'.victims = W.victims
        /\ W'.marks = W.marks
    BY TheWriter DEF FilesInv, FilesTypes, LocalTypes, Pcs, W, warmNext
  <1>u. /\ live' = live /\ made' = made /\ repos' = repos /\ rows' = rows
        /\ markers' = markers /\ pending' = pending /\ fence' = fence /\ st' = st /\ warmed' = warmed /\ before' = before
        /\ LiveKeys' = LiveKeys /\ Cached' = Cached
    BY DEF warmNext, envVars, sweepVars, LiveKeys, Cached
  <1>b. /\ W.pc = "warming" /\ W.key = NoKey /\ Visiting /\ ~Ending /\ AtRepo
        /\ c[1] \in Keys /\ c[1] # NoKey /\ c[1] \notin Cached /\ c[1] \in st.keep /\ warmed < MaxWarm
    BY KeyIsKey DEF warmNext, warmWanted, W, FilesInv, FilesTypes, TypeOK, KeyInv, VisitInv, Evicting, Visiting, Ending, AtRepo, Storing
  <1>c. /\ todo'.repos = todo.repos /\ todo'.targets = todo.targets /\ todo'.revs = todo.revs \ {c}
        /\ todo' \in [repos : SUBSET Repos, targets : SUBSET Targets, revs : SUBSET (Keys \X Places)]
    BY DEF warmNext, FilesInv, FilesTypes
  <1>1. FilesTypes'
    BY <1>a, <1>u, <1>b, <1>c DEF FilesInv, FilesTypes, TypeOK
  <1>2. GivenOut'
    BY <1>a, <1>u, <1>b, <1>c DEF FilesInv, GivenOut
  <1>3. KeyInv'
    BY <1>a, <1>u, <1>b, <1>c DEF FilesInv, KeyInv, FilesTypes, Evicting, Storing, AtRepo, Visiting, Ending
  <1>4. VisitInv'
    BY <1>a, <1>u, <1>b, <1>c DEF FilesInv, VisitInv, KeyInv, Evicting, Storing, AtRepo, Visiting, Ending
  <1>5. KeptInv'
    BY <1>a, <1>u, <1>b, <1>c DEF FilesInv, KeptInv, VisitInv, KeyInv, Kept, Evicting, Storing, AtRepo, Visiting, Ending
  <1>6. SpareInv'
    BY <1>a, <1>u, <1>b, <1>c DEF FilesInv, SpareInv, KeyInv, Evicting, Storing, AtRepo, Visiting, Ending
  <1>7. VictimInv'
    BY <1>a, <1>u, <1>b, <1>c DEF FilesInv, VictimInv, KeyInv
  <1>8. SweptInv'
    BY <1>a, <1>u, <1>b, <1>c DEF FilesInv, SweptInv
  <1> QED BY <1>1, <1>2, <1>3, <1>4, <1>5, <1>6, <1>7, <1>8 DEF FilesInv

\* The next candidate is skipped.
LEMMA NextSkipStep ==
    ASSUME OnlyWarmer, FilesInv, NEW c \in todo.revs, warmNext(c), ~warmWanted(c[1], c[2])
    PROVE  FilesInv'
  <1>a. /\ proc' \in [Writers -> LocalTypes]
        /\ W'.pc = W.pc /\ W'.repo = W.repo
        /\ W'.key = W.key /\ W'.need = W.need
        /\ W'.spare = W.spare /\ W'.upto = W.upto
        /\ W'.exempt = W.exempt /\ W'.victims = W.victims
        /\ W'.marks = W.marks
    BY TheWriter DEF FilesInv, FilesTypes, LocalTypes, Pcs, W, warmNext, Goto
  <1>u. /\ live' = live /\ made' = made /\ repos' = repos /\ rows' = rows
        /\ markers' = markers /\ pending' = pending /\ fence' = fence /\ st' = st /\ warmed' = warmed /\ before' = before
        /\ LiveKeys' = LiveKeys /\ Cached' = Cached
    BY DEF warmNext, envVars, sweepVars, LiveKeys, Cached
  <1>c. /\ todo'.repos = todo.repos /\ todo'.targets = todo.targets /\ todo'.revs = todo.revs \ {c}
        /\ todo' \in [repos : SUBSET Repos, targets : SUBSET Targets, revs : SUBSET (Keys \X Places)]
    BY DEF warmNext, FilesInv, FilesTypes
  <1>1. FilesTypes'
    BY <1>a, <1>u, <1>c DEF FilesInv, FilesTypes, TypeOK
  <1>2. GivenOut'
    BY <1>a, <1>u, <1>c DEF FilesInv, GivenOut
  <1>3. KeyInv'
    BY <1>a, <1>u, <1>c DEF FilesInv, KeyInv, FilesTypes, Evicting, Storing, AtRepo, Visiting, Ending
  <1>4. VisitInv'
    BY <1>a, <1>u, <1>c DEF FilesInv, VisitInv, KeyInv, Evicting, Storing, AtRepo, Visiting, Ending
  <1>5. KeptInv'
    BY <1>a, <1>u, <1>c DEF FilesInv, KeptInv, VisitInv, KeyInv, Kept, Evicting, Storing, AtRepo, Visiting, Ending
  <1>6. SpareInv'
    BY <1>a, <1>u, <1>c DEF FilesInv, SpareInv, KeyInv, Evicting, Storing, AtRepo, Visiting, Ending
  <1>7. VictimInv'
    BY <1>a, <1>u, <1>c DEF FilesInv, VictimInv, KeyInv
  <1>8. SweptInv'
    BY <1>a, <1>u, <1>c DEF FilesInv, SweptInv
  <1> QED BY <1>1, <1>2, <1>3, <1>4, <1>5, <1>6, <1>7, <1>8 DEF FilesInv

\* The candidates of a storage are through.
LEMMA TargetDoneStep ==
    ASSUME OnlyWarmer, FilesInv, targetDone
    PROVE  FilesInv'
  <1>a. /\ proc' \in [Writers -> LocalTypes]
        /\ W'.pc = "targets" /\ W'.repo = W.repo
        /\ W'.key = W.key /\ W'.need = W.need
        /\ W'.spare = W.spare /\ W'.upto = W.upto
        /\ W'.exempt = W.exempt /\ W'.victims = W.victims
        /\ W'.marks = W.marks
    BY TheWriter DEF FilesInv, FilesTypes, LocalTypes, Pcs, W, targetDone, Goto
  <1>u. /\ live' = live /\ made' = made /\ repos' = repos /\ rows' = rows
        /\ markers' = markers /\ pending' = pending /\ fence' = fence /\ todo' = todo /\ st' = st /\ warmed' = warmed /\ before' = before
        /\ LiveKeys' = LiveKeys /\ Cached' = Cached
    BY DEF targetDone, envVars, sweepVars, LiveKeys, Cached
  <1>b. W.pc = "warming" /\ W.key = NoKey /\ Visiting /\ ~Ending /\ AtRepo
    BY DEF targetDone, W, FilesInv, FilesTypes, TypeOK, KeyInv, VisitInv, Evicting, Visiting, Ending, AtRepo, Storing
  <1>1. FilesTypes'
    BY <1>a, <1>u, <1>b DEF FilesInv, FilesTypes, TypeOK
  <1>2. GivenOut'
    BY <1>a, <1>u, <1>b DEF FilesInv, GivenOut
  <1>3. KeyInv'
    BY <1>a, <1>u, <1>b DEF FilesInv, KeyInv, FilesTypes, Evicting, Storing, AtRepo, Visiting, Ending
  <1>4. VisitInv'
    BY <1>a, <1>u, <1>b DEF FilesInv, VisitInv, KeyInv, Evicting, Storing, AtRepo, Visiting, Ending
  <1>5. KeptInv'
    BY <1>a, <1>u, <1>b DEF FilesInv, KeptInv, VisitInv, KeyInv, Kept, Evicting, Storing, AtRepo, Visiting, Ending
  <1>6. SpareInv'
    BY <1>a, <1>u, <1>b DEF FilesInv, SpareInv, KeyInv, Evicting, Storing, AtRepo, Visiting, Ending
  <1>7. VictimInv'
    BY <1>a, <1>u, <1>b DEF FilesInv, VictimInv, KeyInv
  <1>8. SweptInv'
    BY <1>a, <1>u, <1>b DEF FilesInv, SweptInv
  <1> QED BY <1>1, <1>2, <1>3, <1>4, <1>5, <1>6, <1>7, <1>8 DEF FilesInv

\* A repo is through: unless it failed, it is not pending any more.
LEMMA RepoDoneStep ==
    ASSUME OnlyWarmer, FilesInv, repoDone
    PROVE  FilesInv'
  <1>a. /\ proc' \in [Writers -> LocalTypes]
        /\ W'.pc = "repos" /\ W'.repo = "none"
        /\ W'.key = NoKey /\ W'.need = 0
        /\ W'.spare = {} /\ W'.upto = 0
        /\ W'.exempt = {} /\ W'.victims = {}
        /\ W'.marks = {}
    <2>1. Locals \in LocalTypes
      BY DEF Locals, LocalTypes, Pcs, Need
    <2> QED BY <2>1, TheWriter DEF FilesInv, FilesTypes, LocalTypes, Pcs, W, Locals, repoDone
  <1>u. /\ live' = live /\ made' = made /\ repos' = repos /\ rows' = rows
        /\ markers' = markers /\ todo' = todo /\ st' = st /\ warmed' = warmed /\ before' = before
        /\ LiveKeys' = LiveKeys /\ Cached' = Cached
    BY DEF repoDone, envVars, sweepVars, LiveKeys, Cached
  <1>b. /\ W.pc = "targets" /\ W.key = NoKey /\ Visiting /\ ~Ending /\ AtRepo /\ W.repo \notin todo.repos
    BY DEF repoDone, W, FilesInv, FilesTypes, TypeOK, KeyInv, VisitInv, Evicting, Visiting, Ending, AtRepo, Storing
  <1>c. /\ pending' = IF W.repo \in st.failed THEN pending ELSE pending \ {W.repo}
        /\ fence' = IF pending' = {} THEN 0 ELSE fence
    BY DEF repoDone
  <1>1. FilesTypes'
    BY <1>a, <1>u, <1>b, <1>c DEF FilesInv, FilesTypes, TypeOK
  <1>2. GivenOut'
    BY <1>a, <1>u, <1>b, <1>c DEF FilesInv, GivenOut
  <1>3. KeyInv'
    BY <1>a, <1>u, <1>b, <1>c DEF FilesInv, KeyInv, FilesTypes, Evicting, Storing, AtRepo, Visiting, Ending
  <1>4. VisitInv'
    BY <1>a, <1>u, <1>b, <1>c DEF FilesInv, VisitInv, KeyInv, Evicting, Storing, AtRepo, Visiting, Ending
  <1>5. KeptInv'
    BY <1>a, <1>u, <1>b, <1>c DEF FilesInv, KeptInv, VisitInv, KeyInv, Kept, Evicting, Storing, AtRepo, Visiting, Ending
  <1>6. SpareInv'
    BY <1>a, <1>u, <1>b, <1>c DEF FilesInv, SpareInv, KeyInv, Evicting, Storing, AtRepo, Visiting, Ending
  <1>7. VictimInv'
    BY <1>a, <1>u, <1>b, <1>c DEF FilesInv, VictimInv, KeyInv
  <1>8. SweptInv'
    BY <1>a, <1>u, <1>b, <1>c DEF FilesInv, SweptInv
  <1> QED BY <1>1, <1>2, <1>3, <1>4, <1>5, <1>6, <1>7, <1>8 DEF FilesInv

\* The last repo is through: from here the failed ones are exempt.
LEMMA SweepEndStep ==
    ASSUME OnlyWarmer, FilesInv, sweepEnd
    PROVE  FilesInv'
  <1>a. /\ proc' \in [Writers -> LocalTypes]
        /\ W'.pc = "markers" /\ W'.repo = W.repo
        /\ W'.key = W.key /\ W'.need = W.need
        /\ W'.spare = W.spare /\ W'.upto = W.upto
        /\ W'.exempt = W.exempt /\ W'.victims = W.victims
        /\ W'.marks = W.marks
    BY TheWriter DEF FilesInv, FilesTypes, LocalTypes, Pcs, W, sweepEnd, Goto
  <1>u. /\ live' = live /\ made' = made /\ repos' = repos /\ rows' = rows
        /\ markers' = markers /\ todo' = todo /\ st' = st /\ warmed' = warmed /\ before' = before
        /\ LiveKeys' = LiveKeys /\ Cached' = Cached
    BY DEF sweepEnd, envVars, sweepVars, LiveKeys, Cached
  <1>b. /\ W.pc = "repos" /\ W.key = NoKey /\ Visiting /\ st.failed \subseteq pending
        /\ pending' = {} /\ fence' = 0
    BY DEF sweepEnd, W, FilesInv, FilesTypes, TypeOK, KeyInv, VisitInv, Evicting, Visiting, Ending, AtRepo, Storing
  <1>1. FilesTypes'
    BY <1>a, <1>u, <1>b DEF FilesInv, FilesTypes, TypeOK
  <1>2. GivenOut'
    BY <1>a, <1>u, <1>b DEF FilesInv, GivenOut
  <1>3. KeyInv'
    BY <1>a, <1>u, <1>b DEF FilesInv, KeyInv, FilesTypes, Evicting, Storing, AtRepo, Visiting, Ending
  <1>4. VisitInv'
    BY <1>a, <1>u, <1>b DEF FilesInv, VisitInv, KeyInv, Evicting, Storing, AtRepo, Visiting, Ending
  <1>5. KeptInv'
    BY <1>a, <1>u, <1>b DEF FilesInv, KeptInv, VisitInv, KeyInv, Kept, Evicting, Storing, AtRepo, Visiting, Ending
  <1>6. SpareInv'
    BY <1>a, <1>u, <1>b DEF FilesInv, SpareInv, KeyInv, Evicting, Storing, AtRepo, Visiting, Ending
  <1>7. VictimInv'
    BY <1>a, <1>u, <1>b DEF FilesInv, VictimInv, KeyInv
  <1>8. SweptInv'
    BY <1>a, <1>u, <1>b DEF FilesInv, SweptInv
  <1> QED BY <1>1, <1>2, <1>3, <1>4, <1>5, <1>6, <1>7, <1>8 DEF FilesInv

\* The markers of what is gone are deleted.
LEMMA MarkersStep ==
    ASSUME OnlyWarmer, FilesInv, reconcileMarkers
    PROVE  FilesInv'
  <1>a. /\ proc' \in [Writers -> LocalTypes]
        /\ W'.pc = "scan" /\ W'.repo = W.repo
        /\ W'.key = W.key /\ W'.need = W.need
        /\ W'.spare = W.spare /\ W'.upto = W.upto
        /\ W'.exempt = W.exempt /\ W'.victims = W.victims
        /\ W'.marks = W.marks
    BY TheWriter DEF FilesInv, FilesTypes, LocalTypes, Pcs, W, reconcileMarkers, Goto
  <1>u. /\ live' = live /\ made' = made /\ repos' = repos /\ rows' = rows
        /\ pending' = pending /\ fence' = fence /\ todo' = todo /\ st' = st /\ warmed' = warmed /\ before' = before
        /\ LiveKeys' = LiveKeys /\ Cached' = Cached
    BY DEF reconcileMarkers, envVars, sweepVars, LiveKeys, Cached
  <1>b. /\ W.pc = "markers" /\ W.key = NoKey /\ Ending
        /\ DOMAIN markers' \subseteq DOMAIN markers /\ \A m \in DOMAIN markers' : markers'[m] = markers[m]
    BY DEF reconcileMarkers, W, FilesInv, FilesTypes, TypeOK, KeyInv, VisitInv, Evicting, Visiting, Ending, AtRepo, Storing
  <1>1. FilesTypes'
    BY <1>a, <1>u, <1>b DEF FilesInv, FilesTypes, TypeOK
  <1>2. GivenOut'
    BY <1>a, <1>u, <1>b DEF FilesInv, GivenOut
  <1>3. KeyInv'
    BY <1>a, <1>u, <1>b DEF FilesInv, KeyInv, FilesTypes, Evicting, Storing, AtRepo, Visiting, Ending
  <1>4. VisitInv'
    BY <1>a, <1>u, <1>b DEF FilesInv, VisitInv, KeyInv, Evicting, Storing, AtRepo, Visiting, Ending
  <1>5. KeptInv'
    BY <1>a, <1>u, <1>b DEF FilesInv, KeptInv, VisitInv, KeyInv, Kept, Evicting, Storing, AtRepo, Visiting, Ending
  <1>6. SpareInv'
    BY <1>a, <1>u, <1>b DEF FilesInv, SpareInv, KeyInv, Evicting, Storing, AtRepo, Visiting, Ending
  <1>7. VictimInv'
    BY <1>a, <1>u, <1>b DEF FilesInv, VictimInv, KeyInv
  <1>8. SweptInv'
    BY <1>a, <1>u, <1>b DEF FilesInv, SweptInv
  <1> QED BY <1>1, <1>2, <1>3, <1>4, <1>5, <1>6, <1>7, <1>8 DEF FilesInv

\* The rows of what is gone are chosen.
LEMMA ScanStep ==
    ASSUME OnlyWarmer, FilesInv, reconcileScan
    PROVE  FilesInv'
  <1>a. /\ proc' \in [Writers -> LocalTypes]
        /\ W'.pc = "purge" /\ W'.repo = W.repo
        /\ W'.key = W.key /\ W'.need = W.need
        /\ W'.spare = W.spare /\ W'.upto = W.upto
        /\ W'.exempt = W.exempt /\ W'.victims = {[rid |-> rows[k].rid, key |-> k] : k \in {x \in Cached : Gone(rows[x].repo, x)}}
        /\ W'.marks = W.marks
    <2>1. {[rid |-> rows[k].rid, key |-> k] : k \in {x \in Cached : Gone(rows[x].repo, x)}}
             \in SUBSET [rid : Nat, key : Keys]
      <3>1. \A k \in Cached : [rid |-> rows[k].rid, key |-> k] \in [rid : Nat, key : Keys]
        BY DEF FilesInv, FilesTypes, TypeOK
      <3> QED BY <3>1
    <2> QED BY <2>1, TheWriter DEF FilesInv, FilesTypes, LocalTypes, Pcs, W, reconcileScan
  <1>u. /\ live' = live /\ made' = made /\ repos' = repos /\ rows' = rows
        /\ markers' = markers /\ pending' = pending /\ fence' = fence /\ todo' = todo /\ st' = st /\ warmed' = warmed /\ before' = before
        /\ LiveKeys' = LiveKeys /\ Cached' = Cached
    BY DEF reconcileScan, envVars, sweepVars, LiveKeys, Cached
  <1>b. W.pc = "scan" /\ W.key = NoKey /\ Ending
    BY DEF reconcileScan, W, FilesInv, FilesTypes, TypeOK, KeyInv, VisitInv, Evicting, Visiting, Ending, AtRepo, Storing
  <1>1. FilesTypes'
    BY <1>a, <1>u, <1>b DEF FilesInv, FilesTypes, TypeOK
  <1>2. GivenOut'
    BY <1>a, <1>u, <1>b DEF FilesInv, GivenOut
  <1>3. KeyInv'
    BY <1>a, <1>u, <1>b DEF FilesInv, KeyInv, FilesTypes, Evicting, Storing, AtRepo, Visiting, Ending
  <1>4. VisitInv'
    BY <1>a, <1>u, <1>b DEF FilesInv, VisitInv, KeyInv, Evicting, Storing, AtRepo, Visiting, Ending
  <1>5. KeptInv'
    BY <1>a, <1>u, <1>b DEF FilesInv, KeptInv, VisitInv, KeyInv, Kept, Evicting, Storing, AtRepo, Visiting, Ending
  <1>6. SpareInv'
    BY <1>a, <1>u, <1>b DEF FilesInv, SpareInv, KeyInv, Evicting, Storing, AtRepo, Visiting, Ending
  <1>7. VictimInv'
    <2>1. ASSUME NEW v \in W'.victims
          PROVE  v.key \in Cached /\ rows[v.key].rid = v.rid /\ Gone(rows[v.key].repo, v.key)
      <3>1. PICK k \in {x \in Cached : Gone(rows[x].repo, x)} : v = [rid |-> rows[k].rid, key |-> k]
        BY <1>a
      <3> QED BY <3>1
    <2>2. ASSUME NEW k \in Cached, Gone(rows[k].repo, k)
          PROVE  /\ rows[k].repo \notin st.failed
                 /\ k[1][1] = rows[k].repo /\ rows[k].repo \in st.known => k \notin LiveKeys
      <3>1. rows[k].repo \notin st.failed /\ k \notin st.keep
        BY <2>2 DEF Gone, judges
      <3>2. ASSUME k[1][1] = rows[k].repo, rows[k].repo \in st.known
            PROVE  k[1] \in st.swept
        <4>1. k \in Keys
          BY DEF FilesInv, FilesTypes, TypeOK
        <4>2. k[1] = <<k[1][1], k[1][2]>>
          BY <4>1 DEF Keys, Groups
        <4> QED BY <2>2, <3>2, <4>2 DEF Gone, judges
      <3> QED BY <3>1, <3>2 DEF FilesInv, SweptInv
    <2> QED BY <1>a, <1>u, <2>1, <2>2 DEF VictimInv
  <1>8. SweptInv'
    BY <1>a, <1>u, <1>b DEF FilesInv, SweptInv
  <1> QED BY <1>1, <1>2, <1>3, <1>4, <1>5, <1>6, <1>7, <1>8 DEF FilesInv

\* They are deleted, and the failed repos are exempt from the eviction.
LEMMA PurgeStep ==
    ASSUME OnlyWarmer, FilesInv, reconcileDelete
    PROVE  FilesInv'
  <1>a. /\ proc' \in [Writers -> LocalTypes]
        /\ W'.pc = "sum" /\ W'.repo = "none"
        /\ W'.key = NoKey /\ W'.need = 0
        /\ W'.spare = {} /\ W'.upto = 0
        /\ W'.exempt = st.failed /\ W'.victims = {}
        /\ W'.marks = {}
    <2>1. Locals \in LocalTypes /\ st.failed \in SUBSET Repos
      BY DEF Locals, LocalTypes, Pcs, Need, FilesInv, FilesTypes
    <2> QED BY <2>1, TheWriter DEF FilesInv, FilesTypes, LocalTypes, Pcs, W, Locals, reconcileDelete
  <1>u. /\ live' = live /\ made' = made /\ repos' = repos /\ markers' = markers
        /\ pending' = pending /\ fence' = fence /\ todo' = todo /\ st' = st /\ warmed' = warmed /\ before' = before
        /\ LiveKeys' = LiveKeys
    BY DEF reconcileDelete, envVars, sweepVars, LiveKeys, Cached
  <1>b. /\ W.pc = "purge" /\ W.key = NoKey /\ Ending
    BY DEF reconcileDelete, W, FilesInv, FilesTypes, TypeOK, KeyInv, VisitInv, Evicting, Visiting, Ending, AtRepo, Storing
  <1>c. \A k \in ByRowid("warmer") : \E v \in W.victims : v.key = k /\ v.rid = rows[k].rid
    BY <1>b DEF ByRowid, W, FilesInv, VictimInv, FilesTypes, TypeOK
  <1>d. /\ Cached' = Cached \ ByRowid("warmer")
        /\ \A k \in Cached' : rows'[k] = rows[k]
        /\ rows' = [k \in Cached' |-> rows'[k]]
    BY DEF reconcileDelete, Cached, W
  <1>e. \A k \in ByRowid("warmer") : rows[k].repo \notin st.failed
    BY <1>b, <1>c DEF FilesInv, VictimInv
  <1>1. FilesTypes'
    BY <1>a, <1>u, <1>b, <1>d DEF FilesInv, FilesTypes, TypeOK
  <1>2. GivenOut'
    BY <1>a, <1>u, <1>b, <1>d DEF FilesInv, GivenOut
  <1>3. KeyInv'
    BY <1>a, <1>u, <1>b, <1>d DEF FilesInv, KeyInv, FilesTypes, Evicting, Storing, AtRepo, Visiting, Ending
  <1>4. VisitInv'
    BY <1>a, <1>u, <1>b, <1>d DEF FilesInv, VisitInv, KeyInv, Evicting, Storing, AtRepo, Visiting, Ending
  <1>5. KeptInv'
    BY <1>a, <1>u, <1>e, <1>b, <1>d DEF FilesInv, KeptInv, VisitInv, KeyInv, Kept, Evicting, Storing, AtRepo, Visiting, Ending
  <1>6. SpareInv'
    BY <1>a, <1>u, <1>b, <1>d DEF FilesInv, SpareInv, KeyInv, Evicting, Storing, AtRepo, Visiting, Ending
  <1>7. VictimInv'
    BY <1>a, <1>u, <1>b, <1>d DEF FilesInv, VictimInv, KeyInv
  <1>8. SweptInv'
    BY <1>a, <1>u, <1>b, <1>d DEF FilesInv, SweptInv
  <1> QED BY <1>1, <1>2, <1>3, <1>4, <1>5, <1>6, <1>7, <1>8 DEF FilesInv

\* The sweep's locals go out of scope.
LEMMA ReturnsStep ==
    ASSUME OnlyWarmer, FilesInv, sweepReturns
    PROVE  FilesInv'
  <1>a. /\ proc' \in [Writers -> LocalTypes]
        /\ W'.pc = "idle" /\ W'.repo = W.repo
        /\ W'.key = W.key /\ W'.need = W.need
        /\ W'.spare = W.spare /\ W'.upto = W.upto
        /\ W'.exempt = W.exempt /\ W'.victims = W.victims
        /\ W'.marks = W.marks
    BY TheWriter DEF FilesInv, FilesTypes, LocalTypes, Pcs, W, sweepReturns, Goto
  <1>u. /\ live' = live /\ made' = made /\ repos' = repos /\ rows' = rows
        /\ markers' = markers /\ pending' = pending /\ fence' = fence /\ todo' = todo /\ warmed' = warmed
        /\ LiveKeys' = LiveKeys /\ Cached' = Cached
    BY DEF sweepReturns, envVars, sweepVars, LiveKeys, Cached
  <1>b. W.pc = "return" /\ W.key = NoKey
    BY DEF sweepReturns, W, FilesInv, FilesTypes, TypeOK, KeyInv, VisitInv, Evicting, Visiting, Ending, AtRepo, Storing
  <1>c. /\ st'.failed = {} /\ st'.known = {} /\ st'.swept = {} /\ st'.keep = {} /\ DOMAIN before' = {}
        /\ st' \in [swept : SUBSET Targets, failed : SUBSET Repos, known : SUBSET Repos, keep : SUBSET Keys]
    BY DEF sweepReturns, newSweepState
  <1>1. FilesTypes'
    BY <1>a, <1>u, <1>b, <1>c DEF FilesInv, FilesTypes, TypeOK
  <1>2. GivenOut'
    BY <1>a, <1>u, <1>b, <1>c DEF FilesInv, GivenOut
  <1>3. KeyInv'
    BY <1>a, <1>u, <1>b, <1>c DEF FilesInv, KeyInv, FilesTypes, Evicting, Storing, AtRepo, Visiting, Ending
  <1>4. VisitInv'
    BY <1>a, <1>u, <1>b, <1>c DEF FilesInv, VisitInv, KeyInv, Evicting, Storing, AtRepo, Visiting, Ending
  <1>5. KeptInv'
    BY <1>a, <1>u, <1>b, <1>c DEF FilesInv, KeptInv, VisitInv, KeyInv, Kept, Evicting, Storing, AtRepo, Visiting, Ending
  <1>6. SpareInv'
    BY <1>a, <1>u, <1>b, <1>c DEF FilesInv, SpareInv, KeyInv, Evicting, Storing, AtRepo, Visiting, Ending
  <1>7. VictimInv'
    BY <1>a, <1>u, <1>b, <1>c DEF FilesInv, VictimInv, KeyInv
  <1>8. SweptInv'
    BY <1>a, <1>u, <1>b, <1>c DEF FilesInv, SweptInv
  <1> QED BY <1>1, <1>2, <1>3, <1>4, <1>5, <1>6, <1>7, <1>8 DEF FilesInv

\* The process dies: the rows stay.
LEMMA CrashStep ==
    ASSUME OnlyWarmer, FilesInv, crash
    PROVE  FilesInv'
  <1>a. /\ proc' \in [Writers -> LocalTypes]
        /\ W'.pc = "idle" /\ W'.repo = "none"
        /\ W'.key = NoKey /\ W'.need = 0
        /\ W'.spare = {} /\ W'.upto = 0
        /\ W'.exempt = {} /\ W'.victims = {}
        /\ W'.marks = {}
    <2>1. Locals \in LocalTypes
      BY DEF Locals, LocalTypes, Pcs, Need
    <2> QED BY <2>1, TheWriter DEF FilesInv, FilesTypes, LocalTypes, Pcs, W, Locals, crash
  <1>u. /\ live' = live /\ made' = made /\ repos' = repos /\ rows' = rows
        /\ markers' = markers
        /\ LiveKeys' = LiveKeys /\ Cached' = Cached
    BY DEF crash, envVars, sweepVars, LiveKeys, Cached
  <1>b. /\ pending' = {} /\ fence' = 0 /\ warmed' = 0 /\ DOMAIN before' = {} /\ 0 \in 0..MaxWarm
        /\ st'.failed = {} /\ st'.known = {} /\ st'.swept = {} /\ st'.keep = {}
        /\ todo'.repos = {} /\ todo'.targets = {} /\ todo'.revs = {}
        /\ todo' \in [repos : SUBSET Repos, targets : SUBSET Targets, revs : SUBSET (Keys \X Places)]
        /\ st' \in [swept : SUBSET Targets, failed : SUBSET Repos, known : SUBSET Repos, keep : SUBSET Keys]
    BY FilesCacheAssumption DEF crash, newSweepState, NoTodo
  <1>1. FilesTypes'
    BY <1>a, <1>u, <1>b DEF FilesInv, FilesTypes, TypeOK
  <1>2. GivenOut'
    BY <1>a, <1>u, <1>b DEF FilesInv, GivenOut
  <1>3. KeyInv'
    BY <1>a, <1>u, <1>b DEF FilesInv, KeyInv, FilesTypes, Evicting, Storing, AtRepo, Visiting, Ending
  <1>4. VisitInv'
    BY <1>a, <1>u, <1>b DEF FilesInv, VisitInv, KeyInv, Evicting, Storing, AtRepo, Visiting, Ending
  <1>5. KeptInv'
    BY <1>a, <1>u, <1>b DEF FilesInv, KeptInv, VisitInv, KeyInv, Kept, Evicting, Storing, AtRepo, Visiting, Ending
  <1>6. SpareInv'
    BY <1>a, <1>u, <1>b DEF FilesInv, SpareInv, KeyInv, Evicting, Storing, AtRepo, Visiting, Ending
  <1>7. VictimInv'
    BY <1>a, <1>u, <1>b DEF FilesInv, VictimInv, KeyInv
  <1>8. SweptInv'
    BY <1>a, <1>u, <1>b DEF FilesInv, SweptInv
  <1> QED BY <1>1, <1>2, <1>3, <1>4, <1>5, <1>6, <1>7, <1>8 DEF FilesInv

\* The storages and the registry change: no cached revision comes to exist.
LEMMA EnvStep ==
    ASSUME OnlyWarmer, FilesInv,
           \/ \E g \in Groups : revisionAdded(g) \/ \E r \in live[g] : revisionPruned(g, r)
           \/ \E r \in repos : repoRemoved(r)
    PROVE  FilesInv'
  <1>a. /\ proc' = proc /\ W' = W /\ rows' = rows /\ Cached' = Cached /\ markers' = markers
        /\ pending' = pending /\ fence' = fence /\ todo' = todo /\ st' = st
        /\ warmed' = warmed /\ before' = before
    BY DEF revisionAdded, revisionPruned, repoRemoved, sweepVars, W, Cached
  <1> DEFINE Grown ==
          /\ live' \in [Groups -> SUBSET (1..Revs)] /\ made' \in [Groups -> 0..Revs]
          /\ repos' \subseteq Repos
          /\ \A g \in Groups : made[g] <= made'[g]
          /\ \A g \in Groups : \A r \in live'[g] : r \in live[g] \/ r = made[g] + 1
          /\ \A g \in Groups : \A r \in live'[g] : r <= made'[g]
  <1>b. Grown
    <2>0. /\ live \in [Groups -> SUBSET (1..Revs)] /\ made \in [Groups -> 0..Revs] /\ repos \subseteq Repos
          /\ \A g \in Groups : \A r \in live[g] : r <= made[g]
      BY DEF FilesInv, FilesTypes, TypeOK, GivenOut
    <2>1. ASSUME NEW g \in Groups, revisionAdded(g) PROVE Grown
      <3>1. /\ made[g] + 1 \in 1..Revs /\ made' = [made EXCEPT ![g] = made[g] + 1]
            /\ live' = [live EXCEPT ![g] = live[g] \union {made[g] + 1}] /\ repos' = repos
        BY <2>0, <2>1, FilesCacheAssumption DEF revisionAdded
      <3> QED BY SMTT(20), <2>0, <3>1, FilesCacheAssumption
    <2>2. ASSUME NEW g \in Groups, NEW r \in live[g], revisionPruned(g, r) PROVE Grown
      BY <2>0, <2>2, FilesCacheAssumption DEF revisionPruned
    <2>3. ASSUME NEW r \in repos, repoRemoved(r) PROVE Grown
      BY <2>0, <2>3, FilesCacheAssumption DEF repoRemoved
    <2> QED BY <2>1, <2>2, <2>3
  <1>c. \A k \in Cached : k \in LiveKeys' => k \in LiveKeys
    <2> SUFFICES ASSUME NEW k \in Cached, k \in LiveKeys' PROVE k \in LiveKeys
      OBVIOUS
    <2>1. /\ k \in Keys /\ k[1] \in Groups /\ k[2] \in live'[k[1]] /\ k[2] <= made[k[1]]
          /\ made[k[1]] \in Nat /\ k[2] \in Nat
      BY FilesCacheAssumption DEF LiveKeys, Keys, Groups, FilesInv, FilesTypes, TypeOK, GivenOut
    <2>2. k[2] # made[k[1]] + 1
      BY <2>1
    <2> QED BY <1>b, <2>1, <2>2 DEF LiveKeys
  <1>d. \A k \in Cached : k[2] <= made'[k[1]]
    <2> SUFFICES ASSUME NEW k \in Cached PROVE k[2] <= made'[k[1]]
      OBVIOUS
    <2>1. /\ k[1] \in Groups /\ k[2] <= made[k[1]] /\ k[2] \in Nat
          /\ made[k[1]] \in Nat /\ made'[k[1]] \in Nat
      BY SMTT(20), <1>b, FilesCacheAssumption DEF Keys, Groups, FilesInv, FilesTypes, TypeOK, GivenOut
    <2> QED BY <1>b, <2>1
  <1>1. FilesTypes'
    BY <1>a, <1>b DEF FilesInv, FilesTypes, TypeOK
  <1>2. GivenOut'
    BY <1>a, <1>b, <1>d DEF FilesInv, GivenOut
  <1>3. KeyInv'
    BY <1>a DEF FilesInv, KeyInv, FilesTypes, Evicting, Storing, AtRepo, Visiting, Ending
  <1>4. VisitInv'
    BY <1>a DEF FilesInv, VisitInv, KeyInv, Evicting, Storing, AtRepo, Visiting, Ending
  <1>5. KeptInv'
    BY <1>a DEF FilesInv, KeptInv, VisitInv, KeyInv, Kept, Evicting, Storing, AtRepo, Visiting, Ending
  <1>6. SpareInv'
    BY <1>a DEF FilesInv, SpareInv, KeyInv, Evicting, Storing, AtRepo, Visiting, Ending
  <1>7. VictimInv'
    BY <1>a, <1>c DEF FilesInv, VictimInv, KeyInv
  <1>8. SweptInv'
    BY <1>a, <1>c DEF FilesInv, SweptInv
  <1> QED BY <1>1, <1>2, <1>3, <1>4, <1>5, <1>6, <1>7, <1>8 DEF FilesInv


\* A writer's step is one of the warmer's: it inserts, sums up, selects,
\* deletes, or it is through.
LEMMA StoreStep ==
    ASSUME OnlyWarmer, FilesInv, NEW p \in Writers, Store(p)
    PROVE  FilesInv'
  <1>1. p = "warmer" /\ W = proc["warmer"] /\ W \in LocalTypes
    BY TheWriter DEF FilesInv, W
  <1>2. /\ warmed \in 0..MaxWarm /\ DOMAIN markers \subseteq Repos \X Keys
        /\ \A m \in DOMAIN markers :
              markers[m] \in {"row_cap", "spool_ceiling", "cap_evicted"}
    BY DEF FilesInv, FilesTypes, TypeOK
  <1>3. /\ W.pc = "listing" => <<W.repo, W.key>> \in Repos \X Keys
        /\ W.pc = "listing" => warmed + 1 \in 0..MaxWarm
    <2>1. W.pc = "listing" => W.repo \in Repos /\ W.key \in Keys /\ warmed < MaxWarm
      BY DEF FilesInv, FilesTypes, TypeOK, KeyInv, VisitInv, AtRepo
    <2> QED BY <1>2, <2>1, FilesCacheAssumption
  <1>4. CASE listingFails(p)
    BY <1>1, <1>2, <1>4, ReturnStep DEF listingFails, envVars, sweepVars, Evicting
  <1>5. CASE listingGone(p)
    BY <1>1, <1>2, <1>5, ReturnStep DEF listingGone, envVars, sweepVars, Evicting
  <1>6. CASE listingTooBig(p)
    <2>1. /\ DOMAIN markers' = DOMAIN markers \union {<<W.repo, W.key>>}
          /\ \A m \in DOMAIN markers' :
                markers'[m] \in {"row_cap", "spool_ceiling", "cap_evicted"}
      BY <1>1, <1>2, <1>6 DEF listingTooBig
    <2> QED BY <1>1, <1>2, <1>3, <1>6, <2>1, ReturnStep DEF listingTooBig, envVars, sweepVars, Evicting
  <1>7. CASE storeRefused(p)
    <2>1. /\ DOMAIN markers' = DOMAIN markers \union {<<W.repo, W.key>>}
          /\ \A m \in DOMAIN markers' :
                markers'[m] \in {"row_cap", "spool_ceiling", "cap_evicted"}
      BY <1>1, <1>2, <1>7 DEF storeRefused
    <2>2. W.pc = "listing" /\ warmed' = warmed + 1
      BY <1>1, <1>7 DEF storeRefused
    <2>3. UNCHANGED <<envVars, rows, pending, fence, todo, st, before>> /\ Return("warmer")
      BY <1>1, <1>7 DEF storeRefused, envVars
    <2>4. warmed' \in 0..MaxWarm /\ DOMAIN markers' \subseteq Repos \X Keys
      BY <1>2, <1>3, <2>1, <2>2
    <2> QED BY <2>1, <2>2, <2>3, <2>4, ReturnStep
  <1>8. CASE putGzipped(p)
    BY <1>1, <1>8, PutStep
  <1>9. CASE evictSum(p)
    <2>1. CASE Bytes(Cached) - MaxBytes <= 0
      BY <1>1, <1>2, <1>9, <2>1, ReturnStep DEF evictSum, envVars, sweepVars, Evicting
    <2>2. CASE ~(Bytes(Cached) - MaxBytes <= 0)
      BY <1>1, <1>9, <2>2, SumStep DEF evictSum
    <2> QED BY <2>1, <2>2
  <1>10. CASE evictSelect(p)
    <2>1. PICK V \in Victims(Evictable("warmer", effectivePinN), W.need) :
             IF V = {} THEN Return("warmer")
             ELSE proc' = [proc EXCEPT
                             !["warmer"].pc = "delete",
                             !["warmer"].victims = {[rid |-> rows[k].rid, key |-> k] : k \in V},
                             !["warmer"].marks = Marks(V)]
      BY <1>1, <1>10 DEF evictSelect
    <2>2. V \in SUBSET Evictable("warmer", effectivePinN)
      BY <2>1 DEF Victims
    <2>3. CASE V = {}
      BY <1>1, <1>2, <1>10, <2>1, <2>3, ReturnStep DEF evictSelect, envVars, sweepVars, Evicting
    <2>4. CASE V # {}
      BY <1>1, <1>10, <2>1, <2>2, <2>4, SelectStep DEF evictSelect
    <2> QED BY <2>3, <2>4
  <1>11. CASE evictDelete(p)
    BY <1>1, <1>11, DeleteStep
  <1>12. CASE markCapEvicted(p)
    <2>1. /\ DOMAIN markers' = DOMAIN markers \union W.marks /\ W.marks \subseteq Repos \X Keys
          /\ \A m \in DOMAIN markers' :
                markers'[m] \in {"row_cap", "spool_ceiling", "cap_evicted"}
      BY <1>1, <1>2, <1>12 DEF markCapEvicted, LocalTypes
    <2> QED BY <1>1, <1>2, <1>12, <2>1, ReturnStep DEF markCapEvicted, envVars, sweepVars, Evicting
  <1> QED BY <1>4, <1>5, <1>6, <1>7, <1>8, <1>9, <1>10, <1>11, <1>12 DEF Store

\* A step of the sweep.
LEMMA SweepStep ==
    ASSUME OnlyWarmer, FilesInv, Sweep
    PROVE  FilesInv'
  <1>1. CASE \E r \in todo.repos : vend(r) \/ vendFails(r)
    BY <1>1, VendStep, VendFailsStep
  <1>2. CASE \E t \in todo.targets : listFails(t) \/ listSucceeds(t)
    BY <1>2, ListFailsStep, ListSucceedsStep
  <1>3. CASE warmCapped \/ \E c \in todo.revs : warmNext(c)
    BY <1>3, CappedStep, NextListStep, NextSkipStep
  <1>4. CASE sweepBegin \/ targetDone \/ repoDone \/ sweepEnd
    BY <1>4, BeginStep, TargetDoneStep, RepoDoneStep, SweepEndStep
  <1>5. CASE reconcileMarkers \/ reconcileScan \/ reconcileDelete \/ sweepReturns
    BY <1>5, MarkersStep, ScanStep, PurgeStep, ReturnsStep
  <1> QED BY <1>1, <1>2, <1>3, <1>4, <1>5 DEF Sweep

\* A step that changes nothing.
LEMMA FilesStutter == FilesInv /\ UNCHANGED vars => FilesInv'
  <1> SUFFICES ASSUME FilesInv, UNCHANGED vars PROVE FilesInv'
    OBVIOUS
  <1>1. /\ live' = live /\ made' = made /\ repos' = repos /\ rows' = rows
        /\ markers' = markers /\ pending' = pending /\ fence' = fence /\ proc' = proc
        /\ todo' = todo /\ st' = st /\ warmed' = warmed /\ before' = before
    BY DEF vars
  <1>2. W' = W /\ Cached' = Cached /\ LiveKeys' = LiveKeys
    BY <1>1 DEF W, Cached, LiveKeys
  <1>3. FilesTypes' /\ GivenOut'
    BY <1>1, <1>2 DEF FilesInv, FilesTypes, TypeOK, GivenOut
  <1>4. Visiting' = Visiting /\ Ending' = Ending /\ AtRepo' = AtRepo
    BY <1>2 DEF Visiting, Ending, AtRepo, Storing
  <1>5. KeyInv' /\ VisitInv' /\ KeptInv'
    BY <1>1, <1>2, <1>4 DEF FilesInv, KeyInv, VisitInv, KeptInv, Kept
  <1>6. SpareInv' /\ VictimInv' /\ SweptInv'
    BY <1>1, <1>2 DEF FilesInv, SpareInv, VictimInv, SweptInv, RankIn
  <1> QED BY <1>3, <1>5, <1>6 DEF FilesInv

\* The first state.
LEMMA FilesInit == OnlyWarmer /\ Init => FilesInv
  <1> SUFFICES ASSUME OnlyWarmer, Init PROVE FilesInv
    OBVIOUS
  <1>1. Locals \in LocalTypes
    BY DEF Locals, LocalTypes, Pcs, Need
  <1>2. /\ proc \in [Writers -> LocalTypes] /\ W = Locals /\ W.pc = "idle" /\ W.key = NoKey
        /\ W.exempt = {}
    BY <1>1 DEF Init, Writers, W, Locals
  <1>3. Cached = {} /\ 0 \in 0..MaxWarm /\ 0 \in 0..Revs
    BY FilesCacheAssumption DEF Init, Cached
  <1>4. FilesTypes
    BY <1>2, <1>3 DEF Init, FilesTypes, TypeOK, NoTodo, newSweepState
  <1>5. GivenOut /\ SweptInv
    BY <1>3 DEF Init, GivenOut, SweptInv
  <1>6. KeyInv /\ VisitInv /\ KeptInv /\ SpareInv /\ VictimInv
    BY <1>2 DEF KeyInv, VisitInv, KeptInv, SpareInv, VictimInv, Evicting, Visiting, Ending,
                AtRepo, Storing
  <1> QED BY <1>4, <1>5, <1>6 DEF FilesInv

-----------------------------------------------------------------------------
(* The theorems.                                                           *)

\* The invariant of the cache and the sweep is inductive.
THEOREM FilesInvariant == ASSUME OnlyWarmer PROVE Spec => []FilesInv
  <1>1. FilesInv /\ [Next]_vars => FilesInv'
    <2> SUFFICES ASSUME FilesInv, [Next]_vars PROVE FilesInv'
      OBVIOUS
    <2>1. CASE \/ \E g \in Groups : revisionAdded(g) \/ \E r \in live[g] : revisionPruned(g, r)
               \/ \E r \in repos : repoRemoved(r)
      BY <2>1, EnvStep
    <2>2. CASE \E h \in Handlers, t \in Targets, k \in LiveKeys : request(h, t, k)
      BY <2>2 DEF OnlyWarmer
    <2>3. CASE \E p \in Writers : Store(p)
      BY <2>3, StoreStep
    <2>4. CASE Sweep
      BY <2>4, SweepStep
    <2>5. CASE crash
      BY <2>5, CrashStep
    <2>6. CASE UNCHANGED vars
      BY <2>6, FilesStutter
    <2> QED BY <2>1, <2>2, <2>3, <2>4, <2>5, <2>6 DEF Next
  <1>2. Init => FilesInv
    BY FilesInit
  <1> QED BY <1>1, <1>2, PTL DEF Spec

(***************************************************************************)
(* A transient failure costs a repo no listing: until the sweep has ended  *)
(* its repo is pending, its rows are within the fence and spared by every  *)
(* evictBySize; afterwards it is failed, judged by no reconcile and exempt *)
(* from the last eviction.                                                 *)
(***************************************************************************)
THEOREM FailedRepoIsSafe == ASSUME OnlyWarmer PROVE Spec => []FailedRepoKeepsRows
  <1>1. FilesInv => FailedRepoKeepsRows
    <2> SUFFICES ASSUME FilesInv, W.pc # "idle",
                        NEW k \in DOMAIN before, before[k].repo \in st.failed
                 PROVE  k \in Cached
      BY DEF FailedRepoKeepsRows, FilesInv, FilesTypes
    <2>1. W.pc \in Pcs
      BY TheWriter DEF FilesInv, LocalTypes
    <2>2. Visiting \/ Ending
      BY <2>1 DEF Pcs, Visiting, Ending, AtRepo, Storing, Evicting
    <2> QED BY <2>2 DEF FilesInv, KeptInv, VisitInv, Kept
  <1> QED BY <1>1, FilesInvariant, PTL

(***************************************************************************)
(* The reconcile deletes no row of a revision that exists, for the own     *)
(* snapshot of a repo the sweep knows: it deletes by rowid what its scan   *)
(* chose, and the listings had not shown that.                             *)
(***************************************************************************)
THEOREM ReconcileIsRight == ASSUME OnlyWarmer PROVE Spec => ReconcileSparesLive
  <1>1. FilesInv /\ [Next]_vars =>
           [reconcileDelete =>
              \A k \in Cached \ DOMAIN rows' :
                 k[1][1] = rows[k].repo /\ rows[k].repo \in st.known => k \notin LiveKeys]_vars
    <2> SUFFICES ASSUME FilesInv, reconcileDelete,
                        NEW k \in Cached \ DOMAIN rows',
                        k[1][1] = rows[k].repo, rows[k].repo \in st.known
                 PROVE  k \notin LiveKeys
      OBVIOUS
    <2>1. k \in ByRowid("warmer") /\ W.pc = "purge"
      BY DEF reconcileDelete, Cached, W
    <2>2. PICK v \in W.victims : v.rid = rows[k].rid
      BY <2>1 DEF ByRowid, W
    <2>3. v.key = k
      BY <2>1, <2>2 DEF FilesInv, VictimInv, FilesTypes, TypeOK
    <2> QED BY <2>1, <2>3 DEF FilesInv, VictimInv
  <1> QED BY <1>1, FilesInvariant, PTL DEF Spec, ReconcileSparesLive

(***************************************************************************)
(* An eviction takes none of the newest maxPinRelaxedKeep revisions: the   *)
(* depth it protects is at least that, and what is cached has not changed  *)
(* between its SELECT and its DELETE.                                      *)
(***************************************************************************)
THEOREM EvictionSparesNewest == ASSUME OnlyWarmer PROVE Spec => NewestNotEvicted
  <1>1. FilesInv /\ [Next]_vars =>
           [\A p \in Writers : evictDelete(p) =>
              \A k \in Cached \ DOMAIN rows' :
                 RankIn(Cached, k) > Min({PinFloor, WarmN})]_vars
    <2> SUFFICES ASSUME FilesInv, NEW p \in Writers, evictDelete(p),
                        NEW k \in Cached \ DOMAIN rows'
                 PROVE  RankIn(Cached, k) > Min({PinFloor, WarmN})
      OBVIOUS
    <2>1. p = "warmer"
      BY TheWriter DEF FilesInv
    <2>2. k \in ByRowid("warmer") /\ W.pc = "delete"
      BY <2>1 DEF evictDelete, Cached, W
    <2>3. PICK v \in W.victims : v.rid = rows[k].rid
      BY <2>2 DEF ByRowid, W
    <2>4. v.key = k
      BY <2>2, <2>3 DEF FilesInv, VictimInv, FilesTypes, TypeOK
    <2> QED BY <2>2, <2>4 DEF FilesInv, VictimInv
  <1> QED BY <1>1, FilesInvariant, PTL DEF Spec, NewestNotEvicted
=============================================================================
