------------------------------ MODULE ListGate ------------------------------
(***************************************************************************)
(* Who may run "duplicacy list -files", and when: the listing gate, the    *)
(* hit gate and the spools of src/snapshot_files_stream.go, the request    *)
(* handler serveSnapshotFiles of src/duplicacy.go, and the warmer's        *)
(* runWarmListing of src/snapshot_files_warm.go, which holds a slot of the *)
(* maintenance semaphore of src/jobs.go as well.                           *)
(*                                                                         *)
(* The cache is reduced to whether a revision's row is there: the rows the *)
(* size cap or a prune takes away (module FilesCache) vanish at any time.  *)
(* A client may stop reading for ever, may leave at any moment, and a      *)
(* queue wait may time out at any moment.                                  *)
(***************************************************************************)
EXTENDS Integers, FiniteSets

CONSTANTS
    Handlers,      \* request goroutines, one request each
    Keys,          \* revisions whose listing is asked for
    Wanted,        \* the revision the warmer wants, or "none"
    MaintJobs,     \* check and prune jobs
    ListSlots,     \* LIST_FILES_MAX_CONCURRENT
    HitSlots,      \* LIST_FILES_MAX_CONCURRENT_HITS
    MaintSlots,    \* DUPLICACY_MAX_CONCURRENT_MAINT
    MaxLost,       \* bound: rows that vanish
    MaxCrashes     \* bound: crashes of the agent

ASSUME ListGateAssumption ==
    /\ IsFiniteSet(Handlers) /\ IsFiniteSet(MaintJobs)
    /\ ListSlots \in Nat \ {0} /\ HitSlots \in Nat \ {0}
    /\ MaintSlots \in Nat \ {0} /\ MaxLost \in Nat /\ MaxCrashes \in Nat
    /\ "warmer" \notin Handlers \union MaintJobs
    /\ Handlers \intersect MaintJobs = {}
    /\ "none" \notin Keys

VARIABLES
    pc,        \* where each goroutine stands
    key,       \* what each request asks for
    attempt,   \* the handler's loop counter
    copy,      \* the row a hit holds in RAM while it inflates
    listSem,   \* tokens in listGate.sem
    hitSem,    \* tokens in hitGate.sem
    maintSem,  \* tokens in the maintenance semaphore
    row,       \* the cache: "none", "good" or "torn" (does not inflate)
    marked,    \* revisions with a spool_ceiling marker
    spools,    \* the goroutines whose listing has a file in the spool dir
    up,        \* the agent process runs
    lost,      \* history: rows that vanished after they were written
    crashes,   \* history: crashes
    runs       \* history: listings of a revision that handlers completed

vars == <<pc, key, attempt, copy, listSem, hitSem, maintSem, row, marked, spools,
          up, lost, crashes, runs>>

-----------------------------------------------------------------------------
Procs == Handlers \union {"warmer"}
MaxAttempts == 3

\* The goroutines that hold a token, by where they stand.
ListHolders == {p \in Procs : pc[p] \in {"recheck", "admitted", "listing", "store"}}
                 \ (IF pc["warmer"] = "store" THEN {"warmer"} ELSE {})
HitHolders == {h \in Handlers : pc[h] \in {"open", "inflate", "openAgain", "inflateAgain"}}
MaintHolders == {j \in MaintJobs : pc[j] = "running"} \union
                (IF pc["warmer"] \in {"gate", "listing"} THEN {"warmer"} ELSE {})

Init ==
    /\ pc = [p \in Procs \union MaintJobs |-> "idle"]
    /\ key = [p \in Procs |-> "none"]
    /\ attempt = [h \in Handlers |-> 0]
    /\ copy = [h \in Handlers |-> "none"]
    /\ listSem = 0 /\ hitSem = 0 /\ maintSem = 0
    /\ row \in [Keys -> {"none", "good", "torn"}]
    /\ marked = {}
    /\ spools = {}
    /\ up = TRUE
    /\ lost = 0 /\ crashes = 0
    /\ runs = [k \in Keys |-> 0]

Goto(p, l) == pc' = [pc EXCEPT ![p] = l]
cacheVars == <<row, marked, lost, runs>>
semVars == <<listSem, hitSem, maintSem>>

-----------------------------------------------------------------------------
(* serveCached: has, the hit gate, open, writeListing.  It runs once before *)
(* the listing gate, and again after a slot was won and given back because *)
(* the row had appeared ("Again").                                         *)

request(h, k) ==
    /\ up /\ pc[h] = "idle"
    /\ key' = [key EXCEPT ![h] = k]
    /\ Goto(h, IF row[k] = "none" THEN "queue" ELSE "hitQueue")
    /\ UNCHANGED <<attempt, copy, semVars, cacheVars, spools, up, crashes>>

hitAcquire(h) ==
    /\ pc[h] \in {"hitQueue", "hitQueueAgain"}
    /\ hitSem < HitSlots
    /\ hitSem' = hitSem + 1
    /\ Goto(h, IF pc[h] = "hitQueue" THEN "open" ELSE "openAgain")
    /\ UNCHANGED <<key, attempt, copy, listSem, maintSem, cacheVars, spools, up,
                   crashes>>

\* Mutant: the wait for the hit gate is not bounded.
queueRefused_unbounded(h) ==
    /\ pc[h] = "queue"
    /\ Goto(h, "answered")
    /\ UNCHANGED <<key, attempt, copy, semVars, cacheVars, spools, up, crashes>>

\* A full gate gives up after ListQueueWait (503), or the client has left.
queueRefused(h) ==
    /\ pc[h] \in {"hitQueue", "hitQueueAgain", "queue"}
    /\ Goto(h, "answered")
    /\ UNCHANGED <<key, attempt, copy, semVars, cacheVars, spools, up, crashes>>

\* The next round of the loop, when the row vanished in between.
AttemptAfter(h) ==
    IF pc[h] \in {"openAgain", "inflateAgain"}
    THEN [attempt EXCEPT ![h] = @ + 1] ELSE attempt

\* open reads the row into RAM; it may have been evicted meanwhile.
open(h) ==
    /\ pc[h] \in {"open", "openAgain"}
    /\ IF row[key[h]] = "none"
       THEN /\ Goto(h, "queue")
            /\ attempt' = AttemptAfter(h)
            /\ hitSem' = hitSem - 1
            /\ UNCHANGED copy
       ELSE /\ Goto(h, IF pc[h] = "open" THEN "inflate" ELSE "inflateAgain")
            /\ copy' = [copy EXCEPT ![h] = row[key[h]]]
            /\ UNCHANGED <<attempt, hitSem>>
    /\ UNCHANGED <<key, listSem, maintSem, cacheVars, spools, up, crashes>>

\* writeListing succeeds: all of the listing went out.
inflateEnds(h) ==
    /\ pc[h] \in {"inflate", "inflateAgain"} /\ copy[h] = "good"
    /\ hitSem' = hitSem - 1
    /\ Goto(h, "answered")
    /\ copy' = [copy EXCEPT ![h] = "none"]
    /\ UNCHANGED <<key, attempt, listSem, maintSem, cacheVars, spools, up,
                   crashes>>

\* drop: the key's row goes, whichever listing it holds by now.
drop(k) ==
    /\ row' = [row EXCEPT ![k] = "none"]
    /\ lost' = IF row[k] = "good" THEN lost + 1 ELSE lost

\* writeListing fails on a torn row, which is dropped: before the headers
\* went out the request goes on as a miss, after that it is over.
inflateFails(h) ==
    /\ pc[h] \in {"inflate", "inflateAgain"} /\ copy[h] = "torn"
    /\ drop(key[h])
    /\ hitSem' = hitSem - 1
    /\ copy' = [copy EXCEPT ![h] = "none"]
    /\ \/ Goto(h, "answered") /\ UNCHANGED attempt
       \/ Goto(h, "queue") /\ attempt' = AttemptAfter(h)
    /\ UNCHANGED <<key, listSem, maintSem, marked, runs, spools, up, crashes>>

\* writeListing fails on the connection, broken or past its write deadline.
\* serveCached does not tell this from a torn row, but its delete runs under
\* the request's context, which net/http cancelled with the failing write.
clientFails(h) ==
    /\ pc[h] \in {"inflate", "inflateAgain"}
    /\ hitSem' = hitSem - 1
    /\ copy' = [copy EXCEPT ![h] = "none"]
    /\ Goto(h, "answered")
    /\ UNCHANGED <<key, attempt, listSem, maintSem, cacheVars, spools, up,
                   crashes>>

-----------------------------------------------------------------------------
(* The miss path.                                                          *)

listAcquire(h) ==
    /\ pc[h] = "queue"
    /\ listSem < ListSlots
    /\ listSem' = listSem + 1
    /\ Goto(h, "recheck")
    /\ UNCHANGED <<key, attempt, copy, hitSem, maintSem, cacheVars, spools, up,
                   crashes>>

\* Mutant: a queued duplicate is not looked up again.
FoundMeanwhile_no(h) == FALSE

\* Somebody else cached the revision while this request queued.
FoundMeanwhile(h) == attempt[h] < MaxAttempts /\ row[key[h]] # "none"

\* The recheck under the slot: a hit gives the slot back before it is served.
recheck(h) ==
    /\ pc[h] = "recheck"
    /\ IF FoundMeanwhile(h)
       THEN listSem' = listSem - 1 /\ Goto(h, "hasAgain")
       ELSE UNCHANGED listSem /\ Goto(h, "admitted")
    /\ UNCHANGED <<key, attempt, copy, hitSem, maintSem, cacheVars, spools, up,
                   crashes>>

\* serveCached asks again, now without the slot.
hasAgain(h) ==
    /\ pc[h] = "hasAgain"
    /\ IF row[key[h]] = "none"
       THEN Goto(h, "queue") /\ attempt' = [attempt EXCEPT ![h] = @ + 1]
       ELSE Goto(h, "hitQueueAgain") /\ UNCHANGED attempt
    /\ UNCHANGED <<key, copy, semVars, cacheVars, spools, up, crashes>>

\* A known oversize listing (413), or vend fails (500).
refuse(h) ==
    /\ pc[h] = "admitted"
    /\ Goto(h, "answered")
    /\ listSem' = listSem - 1
    /\ UNCHANGED <<key, attempt, copy, hitSem, maintSem, cacheVars, spools, up,
                   crashes>>

startListing(h) ==
    /\ pc[h] = "admitted"
    /\ key[h] \notin marked
    /\ Goto(h, "listing")
    /\ UNCHANGED <<key, attempt, copy, semVars, cacheVars, spools, up, crashes>>

\* listSpool.spill: the listing outgrows RAM.
spill(p) ==
    /\ pc[p] = "listing" /\ p \notin spools
    /\ spools' = spools \union {p}
    /\ UNCHANGED <<pc, key, attempt, copy, semVars, cacheVars, up, crashes>>

\* Mutant: the error path forgets the spool.
SpoolsAfterFailure_kept(p) == spools

\* runListFiles closes the spool of a run that failed.
SpoolsAfterFailure(p) == spools \ {p}

\* The run fails, is killed with its request, or times out; over the ceiling
\* the revision is marked.
listingFails(h) ==
    /\ pc[h] = "listing"
    /\ marked' \in {marked, marked \union {key[h]}}
    /\ spools' = SpoolsAfterFailure(h)
    /\ listSem' = listSem - 1
    /\ Goto(h, "answered")
    /\ UNCHANGED <<key, attempt, copy, hitSem, maintSem, row, lost, runs, up, crashes>>

listingDone(h) ==
    /\ pc[h] = "listing"
    /\ Goto(h, "store")
    /\ UNCHANGED <<key, attempt, copy, semVars, cacheVars, spools, up, crashes>>

\* storeListing, under the slot, may not cache the listing; then release.
store(h) ==
    /\ pc[h] = "store"
    /\ \/ /\ row' = [row EXCEPT ![key[h]] = "good"]
          /\ runs' = [runs EXCEPT ![key[h]] = @ + 1]
       \/ UNCHANGED <<row, runs>>
    /\ listSem' = listSem - 1
    /\ Goto(h, "write")
    /\ UNCHANGED <<key, attempt, copy, hitSem, maintSem, marked, lost, spools, up,
                   crashes>>

\* writeListing from the spool, and the deferred close.
writeEnds(h) ==
    /\ pc[h] = "write"
    /\ spools' = spools \ {h}
    /\ Goto(h, "answered")
    /\ UNCHANGED <<key, attempt, copy, semVars, cacheVars, up, crashes>>

-----------------------------------------------------------------------------
(* runWarmListing: the maintenance slot, then the gate, bounded.           *)

warmStart ==
    /\ up /\ Wanted \in Keys /\ pc["warmer"] = "idle" /\ row[Wanted] = "none"
    /\ key' = [key EXCEPT !["warmer"] = Wanted]
    /\ Goto("warmer", "maint")
    /\ UNCHANGED <<attempt, copy, semVars, cacheVars, spools, up, crashes>>

\* Mutant: the warmer yields to requests as long as any is being served.
warmMaint_yields ==
    /\ pc["warmer"] = "maint"
    /\ \A h \in Handlers : pc[h] \in {"idle", "answered"}
    /\ maintSem < MaintSlots
    /\ maintSem' = maintSem + 1
    /\ Goto("warmer", "gate")
    /\ UNCHANGED <<key, attempt, copy, listSem, hitSem, cacheVars, spools, up, crashes>>

warmMaint ==
    /\ pc["warmer"] = "maint"
    /\ maintSem < MaintSlots
    /\ maintSem' = maintSem + 1
    /\ Goto("warmer", "gate")
    /\ UNCHANGED <<key, attempt, copy, listSem, hitSem, cacheVars, spools, up, crashes>>

warmGate ==
    /\ pc["warmer"] = "gate"
    /\ listSem < ListSlots
    /\ listSem' = listSem + 1
    /\ Goto("warmer", "listing")
    /\ UNCHANGED <<key, attempt, copy, hitSem, maintSem, cacheVars, spools, up, crashes>>

\* The gate stays full for the whole wait: the maintenance slot goes back
\* before the retry.
warmTimeout ==
    /\ pc["warmer"] = "gate" /\ listSem = ListSlots
    /\ maintSem' = maintSem - 1
    /\ Goto("warmer", "maint")
    /\ UNCHANGED <<key, attempt, copy, listSem, hitSem, cacheVars, spools, up, crashes>>

\* The child has exited: both slots go back, the result is stored or dropped.
warmListed ==
    /\ pc["warmer"] = "listing"
    /\ listSem' = listSem - 1 /\ maintSem' = maintSem - 1
    /\ \/ Goto("warmer", "store") /\ UNCHANGED <<spools, marked>>
       \/ /\ Goto("warmer", "idle")
          /\ spools' = SpoolsAfterFailure("warmer")
          /\ marked' \in {marked, marked \union {key["warmer"]}}
    /\ UNCHANGED <<key, attempt, copy, hitSem, row, lost, runs, up, crashes>>

\* storeListing may not cache the listing.
warmStore ==
    /\ pc["warmer"] = "store"
    /\ row' \in {row, [row EXCEPT ![key["warmer"]] = "good"]}
    /\ spools' = spools \ {"warmer"}
    /\ Goto("warmer", "idle")
    /\ UNCHANGED <<key, attempt, copy, semVars, marked, lost, runs, up, crashes>>

-----------------------------------------------------------------------------
(* External: maintenance jobs, evictions, and the process itself.          *)

maintQueue(j) ==
    /\ up /\ pc[j] = "idle"
    /\ Goto(j, "queued")
    /\ UNCHANGED <<key, attempt, copy, semVars, cacheVars, spools, up, crashes>>

maintAcquire(j) ==
    /\ pc[j] = "queued"
    /\ maintSem < MaintSlots
    /\ maintSem' = maintSem + 1
    /\ Goto(j, "running")
    /\ UNCHANGED <<key, attempt, copy, listSem, hitSem, cacheVars, spools, up, crashes>>

maintEnds(j) ==
    /\ pc[j] = "running"
    /\ maintSem' = maintSem - 1
    /\ Goto(j, "idle")
    /\ UNCHANGED <<key, attempt, copy, listSem, hitSem, cacheVars, spools, up, crashes>>

rowLost(k) ==
    /\ row[k] # "none" /\ lost < MaxLost
    /\ row' = [row EXCEPT ![k] = "none"]
    /\ lost' = lost + 1
    /\ UNCHANGED <<pc, key, attempt, copy, semVars, marked, runs, spools, up, crashes>>

crash ==
    /\ up /\ crashes < MaxCrashes
    /\ crashes' = crashes + 1
    /\ up' = FALSE
    /\ pc' = [p \in DOMAIN pc |-> IF p \in Handlers /\ pc[p] # "idle"
                                  THEN "answered" ELSE "idle"]
    /\ listSem' = 0 /\ hitSem' = 0 /\ maintSem' = 0
    /\ copy' = [h \in Handlers |-> "none"]
    /\ UNCHANGED <<key, attempt, cacheVars, spools>>

\* newApp: the spool directory is emptied before the listener opens.
restart ==
    /\ ~up
    /\ up' = TRUE
    /\ spools' = {}
    /\ UNCHANGED <<pc, key, attempt, copy, semVars, cacheVars, crashes>>

-----------------------------------------------------------------------------
\* The steps of a request that depend on the agent and the child alone.
Serve(h) ==
    \/ hitAcquire(h) \/ queueRefused(h) \/ open(h)
    \/ listAcquire(h) \/ recheck(h) \/ hasAgain(h) \/ refuse(h)
    \/ startListing(h) \/ listingFails(h) \/ listingDone(h) \/ store(h)

\* The steps that wait for the client to read.
Client(h) == inflateEnds(h) \/ inflateFails(h) \/ clientFails(h) \/ writeEnds(h)

Warm == warmStart \/ warmMaint \/ warmGate \/ warmTimeout \/ warmListed \/ warmStore

Next ==
    \/ \E h \in Handlers : (\E k \in Keys : request(h, k)) \/ Serve(h) \/ Client(h)
    \/ \E p \in Procs : spill(p)
    \/ Warm
    \/ \E j \in MaintJobs : maintQueue(j) \/ maintAcquire(j) \/ maintEnds(j)
    \/ \E k \in Keys : rowLost(k)
    \/ crash \/ restart

Spec == Init /\ [][Next]_vars

(***************************************************************************)
(* Fairness.  Goroutines run, listings end (listFilesTimeout) and so do    *)
(* maintenance jobs; senders on a channel are served in order, so a        *)
(* maintenance slot that comes free again and again is not withheld (SF).  *)
(* No client has to read, no request has to come, nothing has to crash.    *)
(***************************************************************************)
FairSpec ==
    /\ Spec
    /\ \A h \in Handlers : WF_vars(Serve(h))
    /\ WF_vars(Warm) /\ SF_vars(warmMaint) /\ WF_vars(restart)
    /\ \A j \in MaintJobs : WF_vars(maintEnds(j)) /\ SF_vars(maintAcquire(j))

-----------------------------------------------------------------------------
TypeOK ==
    /\ key \in [Procs -> Keys \union {"none"}]
    /\ attempt \in [Handlers -> 0..MaxAttempts]
    /\ copy \in [Handlers -> {"none", "good", "torn"}]
    /\ listSem \in 0..ListSlots /\ hitSem \in 0..HitSlots
    /\ maintSem \in 0..MaintSlots
    /\ row \in [Keys -> {"none", "good", "torn"}]
    /\ marked \subseteq Keys /\ spools \subseteq Procs

(***************************************************************************)
(* The three semaphores hold exactly the tokens of the goroutines that are *)
(* between acquire and release: no answer, refusal, retry, failed listing  *)
(* or crash loses a slot or gives one back twice; with the capacities that *)
(* TypeOK has, listings, inflations and maintenance stay within bounds.    *)
(***************************************************************************)
TokensMatch ==
    /\ TypeOK
    /\ listSem = Cardinality(ListHolders)
    /\ hitSem = Cardinality(HitHolders)
    /\ maintSem = Cardinality(MaintHolders)

(***************************************************************************)
(* No spool file outlives its listing: while the agent runs, every file in *)
(* the spool directory belongs to a listing that is running, being stored  *)
(* or being sent, also after failures, and after a crash and restart.      *)
(***************************************************************************)
SpoolOwned ==
    up => spools \subseteq {p \in Procs : pc[p] \in {"listing", "store", "write"}}

(***************************************************************************)
(* duplicacy.go:416: "a queued duplicate must find it": with one slot,     *)
(* requests list a revision again only if its row was lost in between, to  *)
(* an eviction or to the drop of a hit that had read a torn row before.    *)
(* A request whose row vanished MaxAttempts times looks no further, and    *)
(* may list beside a row; until one has come to that, nobody does.         *)
(***************************************************************************)
ListedOnce ==
    ListSlots = 1 /\ (\A h \in Handlers : attempt[h] < MaxAttempts) =>
        \A k \in Keys : runs[k] <= 1 + lost

(***************************************************************************)
(* Every request gets its answer, or begins to, although clients stall for *)
(* ever, rows vanish while it waits and listings fail.                     *)
(***************************************************************************)
RequestServed ==
    \A h \in Handlers : pc[h] # "idle" ~>
        pc[h] \in {"answered", "write", "inflate", "inflateAgain"}

(***************************************************************************)
(* A client that stalls blocks nobody: the warmer, which waits for the     *)
(* maintenance slot and for the listing gate, gets to its listing.         *)
(***************************************************************************)
WarmerNotStarved ==
    pc["warmer"] \in {"maint", "gate"} ~> pc["warmer"] \in {"listing", "idle"}
=============================================================================
