----------------------------- MODULE FilesCache -----------------------------
(***************************************************************************)
(* The persistent cache of "duplicacy list -files" output and the sweep    *)
(* that keeps it warm: src/snapshot_files_cache.go and                     *)
(* src/snapshot_files_warm.go, with the request handler of                 *)
(* src/duplicacy.go as the second writer.                                  *)
(*                                                                         *)
(* A row is keyed by an immutable (snapshot id, storage, revision).  Rows  *)
(* leave the cache in two ways.  evictBySize, run after every put and at   *)
(* the end of a sweep, brings the gzipped bytes back under the cap, oldest *)
(* revisions first, and leaves a cap_evicted marker so that the warmer     *)
(* does not list the row again.  reconcileAgainstKeep, run at the end of a *)
(* sweep, removes the revisions the sweep's listings did not show.         *)
(*                                                                         *)
(* An action ends between two statements sent to SQLite: the connection    *)
(* pool is not limited, so the warmer and the request goroutines           *)
(* interleave there.  Rows of equal rank are evicted in any order, which   *)
(* covers every history of last_access.                                    *)
(***************************************************************************)
EXTENDS Integers, FiniteSets, FiniteSetsExt

CONSTANTS
    Repos,          \* repo ids; a repo's own snapshot id is named by the repo
    Targets,        \* the <<repo, storage>> pairs of the repos' Storages
    Revs,           \* revision numbers a snapshot may reach: 1..Revs
    Size,           \* gzipped bytes of a listing, by revision
    Handlers,       \* the request goroutines, one request each
    WarmN,          \* LIST_FILES_CACHE_WARM_N
    MaxBytes,       \* LIST_FILES_CACHE_MAX_BYTES
    RowMax,         \* LIST_FILES_CACHE_ROW_MAX_BYTES
    Ceiling,        \* listSpoolFileMax
    PinFloor,       \* maxPinRelaxedKeep
    MaxWarm,        \* maxWarmListsPerSweep
    MaxFaults       \* bound: vends, listings and processes that fail

ASSUME FilesCacheAssumption ==
    /\ Revs \in Nat /\ WarmN \in Nat \ {0} /\ MaxBytes \in Nat \ {0}
    /\ RowMax \in Nat \ {0} /\ Ceiling \in Nat \ {0} /\ PinFloor \in Nat
    /\ MaxWarm \in Nat /\ MaxFaults \in Nat
    /\ Size \in [1..Revs -> Nat \ {0}]
    /\ IsFiniteSet(Repos) /\ IsFiniteSet(Targets) /\ IsFiniteSet(Handlers)
    /\ "warmer" \notin Handlers

VARIABLES
    live,      \* external: the revisions that exist, by (snapshot, storage)
    made,      \* external: the newest revision number given out
    repos,     \* the repos the registry knows
    rows,      \* snapshot_files_cache: key -> [rid, repo]
    markers,   \* snapshot_files_uncacheable: <<repo, key>> -> reason
    pending,   \* pendingRepos
    fence,     \* pendingMaxRowid, 0 when no repo is pending
    proc,      \* the writers: what each is doing, and its locals
    todo,      \* warmer: repos, then targets, then revisions still to visit
    st,        \* warmer: sweepState
    warmed,    \* warmer: listings this sweep
    faults,    \* history: faults so far
    before     \* history: rows when the sweep began

vars == <<live, made, repos, rows, markers, pending, fence, proc, todo, st,
          warmed, faults, before>>
envVars == <<live, made, repos>>
sweepVars == <<pending, fence, todo, st, warmed, before>>

-----------------------------------------------------------------------------
Storage == {t[2] : t \in Targets}
Groups == Repos \X Storage
Keys == Groups \X (1..Revs)
Writers == Handlers \union {"warmer"}

LiveKeys == {k \in Keys : k[2] \in live[k[1]]}

\* What a discovery listing shows (warmListArgs): on the default storage the
\* repo's own snapshot, on a relay secondary every snapshot of the pool.
Discovers(t) ==
    {k \in LiveKeys : k[1][2] = t[2] /\ (t[2] = "default" => k[1][1] = t[1])}

Bytes(K) == MapThenSumSet(LAMBDA k : Size[k[2]], K)
Cached == DOMAIN rows

\* ROW_NUMBER() OVER (PARTITION BY snapshot, storage ORDER BY revision DESC).
RankIn(K, k) == 1 + Cardinality({x \in K : x[1] = k[1] /\ x[2] > k[2]})

\* Mutant: the newest revisions are not kept when they exceed the cap.
pinPolicy_noFloor(n) == Max({k \in 0..WarmN : k = 0 \/ n[k] <= MaxBytes})

\* The largest depth, not below the floor, whose rows fit the cap; n[k] are
\* the cached bytes of the ranks up to k.
pinPolicy(n) ==
    LET floor == Min({PinFloor, WarmN})
    IN  Max({floor} \union {k \in 1..WarmN : k >= floor /\ n[k] <= MaxBytes})

effectivePinN ==
    IF WarmN <= PinFloor THEN WarmN
    ELSE pinPolicy([k \in 1..WarmN |->
                       Bytes({x \in Cached : RankIn(Cached, x) <= k})])

\* SQLite gives a new row the successor of the largest rowid in the table.
NextRowid == 1 + Max({0} \union {rows[k].rid : k \in Cached})

\* A writer's locals: what it lists, for which repo; the bytes to free, the
\* repos and the fence evictBySize goes by; the rows it has chosen.
NoKey == <<>>
Locals == [pc |-> "idle", repo |-> "none", key |-> NoKey, need |-> 0,
           spare |-> {}, upto |-> 0, exempt |-> {}, victims |-> {},
           marks |-> {}]

newSweepState == [swept |-> {}, failed |-> {}, known |-> {}, keep |-> {}]

NoTodo == [repos |-> {}, targets |-> {}, revs |-> {}]

Init ==
    /\ live = [g \in Groups |-> {}]
    /\ made = [g \in Groups |-> 0]
    /\ repos = Repos
    /\ rows = [k \in {} |-> 0]
    /\ markers = [x \in {} |-> 0]
    /\ pending = {}
    /\ fence = 0
    /\ proc = [p \in Writers |-> Locals]
    /\ todo = NoTodo
    /\ st = newSweepState
    /\ warmed = 0
    /\ faults = 0
    /\ before = [k \in {} |-> 0]

-----------------------------------------------------------------------------
(* External: the storages, and the repo registry.                          *)

\* A backup or copy job adds the next revision of a snapshot.
revisionAdded(g) ==
    /\ made[g] < Revs
    /\ made' = [made EXCEPT ![g] = @ + 1]
    /\ live' = [live EXCEPT ![g] = @ \union {made'[g]}]
    /\ UNCHANGED <<repos, rows, markers, proc, sweepVars, faults>>

\* A prune job removes a revision; its number is not used again.
revisionPruned(g, r) ==
    /\ r \in live[g]
    /\ live' = [live EXCEPT ![g] = @ \ {r}]
    /\ UNCHANGED <<made, repos, rows, markers, proc, sweepVars, faults>>

\* A repo is deleted from the agent.
repoRemoved(r) ==
    /\ r \in repos
    /\ repos' = repos \ {r}
    /\ UNCHANGED <<live, made, rows, markers, proc, sweepVars, faults>>

Fault == faults < MaxFaults /\ faults' = faults + 1

-----------------------------------------------------------------------------
(* Storing a listing: storeListing, putGzipped, evictBySize.               *)

Goto(p, l) == proc' = [proc EXCEPT ![p].pc = l]

\* The writer is through: a handler answers its client, the warmer goes on
\* with the sweep, or ends it after the last evictBySize.
Return(p) ==
    proc' = [proc EXCEPT ![p] =
               IF p # "warmer" THEN [Locals EXCEPT !.pc = "answered"]
               ELSE IF proc[p].key = NoKey THEN [Locals EXCEPT !.pc = "return"]
               ELSE [Locals EXCEPT !.pc = "warming", !.repo = proc[p].repo]]

\* runListFiles fails, is killed, or times out: nothing reusable.
listingFails(p) ==
    /\ proc[p].pc = "listing"
    /\ Fault
    /\ Return(p)
    /\ UNCHANGED <<envVars, rows, markers, sweepVars>>

\* The revision was pruned since it was chosen: duplicacy exits with an error.
listingGone(p) ==
    /\ proc[p].pc = "listing" /\ proc[p].key \notin LiveKeys
    /\ Return(p)
    /\ UNCHANGED <<envVars, rows, markers, sweepVars, faults>>

\* The listing grows past the spool ceiling: markUncacheable.
listingTooBig(p) ==
    LET x == proc[p] IN
    /\ x.pc = "listing"
    /\ x.key \in LiveKeys
    /\ Size[x.key[2]] > Ceiling
    /\ markers' = [m \in DOMAIN markers \union {<<x.repo, x.key>>} |->
                     IF m = <<x.repo, x.key>> THEN "spool_ceiling"
                     ELSE markers[m]]
    /\ Return(p)
    /\ UNCHANGED <<envVars, rows, sweepVars, faults>>

\* storeListing: over the row cap the listing is marked and not cached.
storeRefused(p) ==
    LET x == proc[p] IN
    /\ x.pc = "listing"
    /\ x.key \in LiveKeys
    /\ Size[x.key[2]] \in RowMax + 1..Ceiling
    /\ markers' = [m \in DOMAIN markers \union {<<x.repo, x.key>>} |->
                     IF m = <<x.repo, x.key>> THEN "row_cap" ELSE markers[m]]
    /\ warmed' = IF p = "warmer" THEN warmed + 1 ELSE warmed
    /\ Return(p)
    /\ UNCHANGED <<envVars, rows, pending, fence, todo, st, before, faults>>

\* putGzipped: insert, or update in place, which keeps the rowid.
putGzipped(p) ==
    LET x == proc[p] IN
    /\ x.pc = "listing"
    /\ x.key \in LiveKeys
    /\ Size[x.key[2]] <= RowMax /\ Size[x.key[2]] <= Ceiling
    /\ rows' = [k \in Cached \union {x.key} |->
                  IF k # x.key THEN rows[k]
                  ELSE [rid |-> IF k \in Cached THEN rows[k].rid ELSE NextRowid,
                        repo |-> x.repo]]
    /\ warmed' = IF p = "warmer" THEN warmed + 1 ELSE warmed
    /\ Goto(p, "sum")
    /\ UNCHANGED <<envVars, markers, pending, fence, todo, st, before, faults>>

\* evictBySize: the total, and the sweep's pending repos and fence.
evictSum(p) ==
    LET over == Bytes(Cached) - MaxBytes IN
    /\ proc[p].pc = "sum"
    /\ IF over <= 0 THEN Return(p)
       ELSE proc' = [proc EXCEPT ![p].pc = "select", ![p].need = over,
                                 ![p].spare = pending, ![p].upto = fence]
    /\ UNCHANGED <<envVars, rows, markers, sweepVars, faults>>

\* The rows evictBySize may take.
Evictable(p, pin) ==
    {k \in Cached :
        /\ RankIn(Cached, k) > pin
        /\ rows[k].repo \notin proc[p].exempt
        /\ ~(rows[k].repo \in proc[p].spare /\ rows[k].rid <= proc[p].upto)}

\* The rows it takes: deepest rank first, until enough is freed.
Victims(E, need) ==
    {V \in SUBSET E :
        /\ \A v \in V, e \in E \ V : RankIn(Cached, v) >= RankIn(Cached, e)
        /\ V = E \/ Bytes(V) >= need
        /\ V # {} => \E v \in V :
              /\ \A w \in V : RankIn(Cached, w) >= RankIn(Cached, v)
              /\ Bytes(V \ {v}) < need}

\* The victims of the warm window get a marker.
Marks(V) == {<<rows[k].repo, k>> : k \in {v \in V : RankIn(Cached, v) <= WarmN}}

evictSelect(p) ==
    /\ proc[p].pc = "select"
    /\ \E V \in Victims(Evictable(p, effectivePinN), proc[p].need) :
          IF V = {} THEN Return(p)
          ELSE proc' = [proc EXCEPT
                          ![p].pc = "delete",
                          ![p].victims = {[rid |-> rows[k].rid, key |-> k] :
                                          k \in V},
                          ![p].marks = Marks(V)]
    /\ UNCHANGED <<envVars, rows, markers, sweepVars, faults>>

\* The rows DELETE ... WHERE rowid IN (...) removes.
ByRowid(p) == {k \in Cached : \E v \in proc[p].victims : v.rid = rows[k].rid}

\* deleteByRowID.
evictDelete(p) ==
    /\ proc[p].pc = "delete"
    /\ rows' = [k \in Cached \ ByRowid(p) |-> rows[k]]
    /\ Goto(p, "mark")
    /\ UNCHANGED <<envVars, markers, sweepVars, faults>>

markCapEvicted(p) ==
    /\ proc[p].pc = "mark"
    /\ markers' = [m \in DOMAIN markers \union proc[p].marks |->
                     IF m \in proc[p].marks THEN "cap_evicted" ELSE markers[m]]
    /\ Return(p)
    /\ UNCHANGED <<envVars, rows, sweepVars, faults>>

Store(p) ==
    \/ listingFails(p) \/ listingGone(p) \/ listingTooBig(p)
    \/ storeRefused(p) \/ putGzipped(p)
    \/ evictSum(p) \/ evictSelect(p) \/ evictDelete(p) \/ markCapEvicted(p)

-----------------------------------------------------------------------------
(* serveSnapshotFiles: the request names a repo, its storage, any snapshot *)
(* (?id) and a revision; a hit, and a known oversize listing, end at once. *)

request(h, t, k) ==
    /\ proc[h] = Locals
    /\ t[1] \in repos /\ k[1][2] = t[2]
    /\ k \notin Cached
    /\ ~(<<t[1], k>> \in DOMAIN markers
         /\ markers[<<t[1], k>>] = "spool_ceiling")
    /\ k \in LiveKeys
    /\ proc' = [proc EXCEPT ![h] =
                  [Locals EXCEPT !.pc = "listing", !.repo = t[1], !.key = k]]
    /\ UNCHANGED <<envVars, rows, markers, sweepVars, faults>>

-----------------------------------------------------------------------------
(* warmListCacheSweep.                                                     *)

W == proc["warmer"]

sweepBegin ==
    /\ W.pc = "idle"
    /\ pending' = repos
    /\ fence' = IF repos = {} THEN 0 ELSE NextRowid - 1
    /\ st' = newSweepState
    /\ warmed' = 0
    /\ before' = rows
    /\ todo' = [NoTodo EXCEPT !.repos = repos]
    /\ Goto("warmer", "repos")
    /\ UNCHANGED <<envVars, rows, markers, faults>>

\* The next repo: prepareEnvForRepo vends its credentials.
vend(r) ==
    /\ W.pc = "repos" /\ r \in todo.repos
    /\ st' = [st EXCEPT !.known = @ \union {r}]
    /\ todo' = [todo EXCEPT !.repos = @ \ {r},
                            !.targets = {t \in Targets : t[1] = r}]
    /\ proc' = [proc EXCEPT !["warmer"].pc = "targets", !["warmer"].repo = r]
    /\ UNCHANGED <<envVars, rows, markers, pending, fence, warmed, before,
                   faults>>

vendFails(r) ==
    /\ W.pc = "repos" /\ r \in todo.repos
    /\ Fault
    /\ st' = [st EXCEPT !.known = @ \union {r}, !.failed = @ \union {r}]
    /\ todo' = [todo EXCEPT !.repos = @ \ {r}]
    /\ UNCHANGED <<envVars, rows, markers, proc, pending, fence, warmed,
                   before>>

\* Mutant: a storage counts as swept whether or not its listing succeeded.
listFails_swept(t) ==
    /\ W.pc = "targets" /\ t \in todo.targets
    /\ Fault
    /\ st' = [st EXCEPT !.swept = @ \union {t}]
    /\ todo' = [todo EXCEPT !.targets = @ \ {t}]
    /\ UNCHANGED <<envVars, rows, markers, proc, pending, fence, warmed,
                   before>>

\* The discovery listing of one storage fails: the repo is exempt.
listFails(t) ==
    /\ W.pc = "targets" /\ t \in todo.targets
    /\ Fault
    /\ st' = [st EXCEPT !.failed = @ \union {t[1]}]
    /\ todo' = [todo EXCEPT !.targets = @ \ {t}]
    /\ UNCHANGED <<envVars, rows, markers, proc, pending, fence, warmed,
                   before>>

\* The newest keepN revisions of each snapshot in a set of keys.
newestRevisionsPerSnapshot(K) == {k \in K : RankIn(K, k) <= WarmN}

\* It succeeds: what it shows is kept, the newest revisions are candidates.
\* A candidate carries its place among those of its snapshot.
listSucceeds(t) ==
    LET K == newestRevisionsPerSnapshot(Discovers(t)) IN
    /\ W.pc = "targets" /\ t \in todo.targets
    /\ st' = [st EXCEPT !.swept = @ \union {t}, !.keep = @ \union Discovers(t)]
    /\ todo' = [todo EXCEPT !.targets = @ \ {t},
                            !.revs = {<<k, RankIn(K, k) - 1>> : k \in K}]
    /\ Goto("warmer", "warming")
    /\ UNCHANGED <<envVars, rows, markers, pending, fence, warmed, before,
                   faults>>

\* Mutants: an evicted row is never listed again; it is listed again although
\* there is no room for it.
Readmitted_never(m, k) == markers[m] = "row_cap" /\ Size[k[2]] <= RowMax

Readmitted_always(m, k) ==
    \/ markers[m] = "row_cap" /\ Size[k[2]] <= RowMax
    \/ markers[m] = "cap_evicted"

\* A marked revision that is worth listing after all.  The row cap and the
\* spool ceiling are configuration and do not change here.
Readmitted(m, k) ==
    \/ markers[m] = "row_cap" /\ Size[k[2]] <= RowMax
    \/ markers[m] = "cap_evicted" /\ Bytes(Cached) + Size[k[2]] <= MaxBytes

\* Whether to list a candidate: within the depth the evictor protects, not
\* cached, and not marked, or worth another try.
warmWanted(k, rank) ==
    LET m == <<W.repo, k>> IN
    /\ rank < effectivePinN
    /\ k \notin Cached
    /\ m \in DOMAIN markers => Readmitted(m, k)

\* The candidates that may come next: newest first per snapshot.
Foremost == {c \in todo.revs : \A d \in todo.revs :
                                  d[1][1] = c[1][1] => d[2] >= c[2]}

\* Candidates left at the bound of one sweep are dropped.
warmCapped ==
    /\ W.pc = "warming" /\ todo.revs # {} /\ warmed >= MaxWarm
    /\ todo' = [todo EXCEPT !.revs = {}]
    /\ UNCHANGED <<envVars, rows, markers, pending, fence, st, warmed, before,
                   proc, faults>>

\* The next candidate is skipped, or warmOneListing lists it.
warmNext(c) ==
    /\ W.pc = "warming" /\ c \in Foremost /\ warmed < MaxWarm
    /\ todo' = [todo EXCEPT !.revs = @ \ {c}]
    /\ IF warmWanted(c[1], c[2])
       THEN proc' = [proc EXCEPT !["warmer"].pc = "listing",
                                 !["warmer"].key = c[1]]
       ELSE UNCHANGED proc
    /\ UNCHANGED <<envVars, rows, markers, pending, fence, st, warmed, before,
                   faults>>

targetDone ==
    /\ W.pc = "warming" /\ todo.revs = {}
    /\ Goto("warmer", "targets")
    /\ UNCHANGED <<envVars, rows, markers, sweepVars, faults>>

\* sweepRepoDone, for a repo that was listed in full.
repoDone ==
    /\ W.pc = "targets" /\ todo.targets = {}
    /\ pending' = IF W.repo \in st.failed THEN pending ELSE pending \ {W.repo}
    /\ fence' = IF pending' = {} THEN 0 ELSE fence
    /\ proc' = [proc EXCEPT !["warmer"] = [Locals EXCEPT !.pc = "repos"]]
    /\ UNCHANGED <<envVars, rows, markers, todo, st, warmed, before,
                   faults>>

sweepEnd ==
    /\ W.pc = "repos" /\ todo.repos = {}
    /\ pending' = {} /\ fence' = 0
    /\ Goto("warmer", "markers")
    /\ UNCHANGED <<envVars, rows, markers, todo, st, warmed, before, faults>>

\* Mutant: a repo that failed is judged by what the others listed.
judges_shared(repo, storage) == storage \in {t[2] : t \in st.swept}

judges(repo, storage) ==
    /\ repo \notin st.failed
    /\ IF repo \in st.known THEN <<repo, storage>> \in st.swept
       ELSE storage \in {t[2] : t \in st.swept}

\* A row or marker of repo for key k that the sweep found gone.
Gone(repo, k) == judges(repo, k[1][2]) /\ k \notin st.keep

reconcileMarkers ==
    /\ W.pc = "markers"
    /\ markers' = [m \in {x \in DOMAIN markers : ~Gone(x[1], x[2])} |->
                     markers[m]]
    /\ Goto("warmer", "scan")
    /\ UNCHANGED <<envVars, rows, sweepVars, faults>>

\* reconcileAgainstKeep: the scan of the rows, and the delete.
reconcileScan ==
    /\ W.pc = "scan"
    /\ proc' = [proc EXCEPT
                  !["warmer"].pc = "purge",
                  !["warmer"].victims =
                     {[rid |-> rows[k].rid, key |-> k] :
                      k \in {x \in Cached : Gone(rows[x].repo, x)}}]
    /\ UNCHANGED <<envVars, rows, markers, sweepVars, faults>>

\* After the delete: evictBySize, which spares the repos that failed.
reconcileDelete ==
    /\ W.pc = "purge"
    /\ rows' = [k \in Cached \ ByRowid("warmer") |-> rows[k]]
    /\ proc' = [proc EXCEPT !["warmer"] =
                  [Locals EXCEPT !.pc = "sum", !.exempt = st.failed]]
    /\ UNCHANGED <<envVars, markers, sweepVars, faults>>

\* The sweep's locals go out of scope.
sweepReturns ==
    /\ W.pc = "return"
    /\ st' = newSweepState
    /\ before' = [k \in {} |-> 0]
    /\ Goto("warmer", "idle")
    /\ UNCHANGED <<envVars, rows, markers, pending, fence, todo, warmed, faults>>

Sweep ==
    \/ sweepBegin
    \/ \E r \in todo.repos : vend(r) \/ vendFails(r)
    \/ \E t \in todo.targets : listFails(t) \/ listSucceeds(t)
    \/ warmCapped \/ (\E c \in todo.revs : warmNext(c))
    \/ targetDone \/ repoDone \/ sweepEnd
    \/ reconcileMarkers \/ reconcileScan \/ reconcileDelete
    \/ sweepReturns

\* The agent process dies: the two tables stay.
crash ==
    /\ Fault
    /\ pending' = {} /\ fence' = 0
    /\ proc' = [p \in Writers |-> IF p = "warmer" THEN Locals
                                  ELSE [Locals EXCEPT !.pc = "answered"]]
    /\ todo' = NoTodo /\ st' = newSweepState /\ warmed' = 0
    /\ before' = [k \in {} |-> 0]
    /\ UNCHANGED <<envVars, rows, markers>>

Next ==
    \/ \E g \in Groups : revisionAdded(g) \/ \E r \in live[g] : revisionPruned(g, r)
    \/ \E r \in repos : repoRemoved(r)
    \/ \E h \in Handlers, t \in Targets, k \in LiveKeys : request(h, t, k)
    \/ \E p \in Writers : Store(p)
    \/ Sweep
    \/ crash

Spec == Init /\ [][Next]_vars

(***************************************************************************)
(* Fairness.  The warmer's timers fire and its goroutine and those of the  *)
(* requests run; a listing ends, by its timeout at the latest.  Nothing    *)
(* else has to happen.                                                     *)
(***************************************************************************)
FairSpec == Spec /\ WF_vars(Sweep) /\ \A p \in Writers : WF_vars(Store(p))

-----------------------------------------------------------------------------
TypeOK ==
    /\ live \in [Groups -> SUBSET (1..Revs)]
    /\ made \in [Groups -> 0..Revs]
    /\ repos \subseteq Repos
    /\ Cached \subseteq Keys
    /\ \A k \in Cached : rows[k].rid \in Nat \ {0} /\ rows[k].repo \in Repos
    /\ \A k, l \in Cached : rows[k].rid = rows[l].rid => k = l
    /\ DOMAIN markers \subseteq Repos \X Keys
    /\ \A m \in DOMAIN markers :
          markers[m] \in {"row_cap", "spool_ceiling", "cap_evicted"}
    /\ pending \subseteq Repos
    /\ st.failed \subseteq st.known
    /\ warmed \in 0..MaxWarm

(***************************************************************************)
(* A transient failure must not cost a repo its listings: the rows a repo  *)
(* had when the sweep began survive every eviction and the reconcile of a  *)
(* sweep in which its vend or one of its listings failed.  The rows have   *)
(* distinct rowids (TypeOK), which evictions delete by.                    *)
(***************************************************************************)
FailedRepoKeepsRows ==
    /\ TypeOK
    /\ W.pc # "idle" =>
          \A k \in DOMAIN before : before[k].repo \in st.failed => k \in Cached

(***************************************************************************)
(* The reconcile removes what was pruned: it never deletes the row of a    *)
(* revision that exists, for the own snapshot of a repo the sweep knows.   *)
(***************************************************************************)
ReconcileSparesLive ==
    [][reconcileDelete =>
          \A k \in Cached \ DOMAIN rows' :
              k[1][1] = rows[k].repo /\ rows[k].repo \in st.known =>
                  k \notin LiveKeys]_vars

(***************************************************************************)
(* evictBySize "never" takes the newest revisions of a snapshot: a row it  *)
(* deletes is deeper than maxPinRelaxedKeep among the rows there are.      *)
(***************************************************************************)
NewestNotEvicted ==
    [][\A p \in Writers : evictDelete(p) =>
          \A k \in Cached \ DOMAIN rows' :
              RankIn(Cached, k) > Min({PinFloor, WarmN})]_vars

(***************************************************************************)
(* The warmer and the evictor do not fight: once storages, repos and       *)
(* clients are quiet, the sweeps list no revision any more, neither one    *)
(* that was evicted nor one whose listing is too big to be cached.         *)
(***************************************************************************)
Settles == <>[](W.pc # "listing")

(***************************************************************************)
(* The warm set is complete: in the end the newest revisions of every      *)
(* snapshot a repo of the agent lists are cached, whatever failed, was     *)
(* evicted or was pruned before, unless their listing is too big.          *)
(***************************************************************************)
NewestCached ==
    <>[](\A t \in {x \in Targets : x[1] \in repos} :
            \A k \in Discovers(t) :
                /\ RankIn(Discovers(t), k) <= PinFloor
                /\ Size[k[2]] <= RowMax /\ Size[k[2]] <= Ceiling
                => k \in Cached)
=============================================================================
