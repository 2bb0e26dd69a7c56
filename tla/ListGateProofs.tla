--------------------------- MODULE ListGateProofs ---------------------------
(***************************************************************************)
(* Proofs about ListGate, for any finite sets of requests and maintenance  *)
(* jobs, any revisions, any slots and any number of crashes and lost rows. *)
(***************************************************************************)
EXTENDS ListGate, FiniteSetTheorems, TLAPS

(***************************************************************************)
(* Where a goroutine may stand, and the ranges of the rest.                *)
(***************************************************************************)
Position ==
    {"idle", "answered", "queue", "hitQueue", "open", "inflate", "recheck",
     "hasAgain", "hitQueueAgain", "openAgain", "inflateAgain", "admitted",
     "listing", "store", "write", "maint", "gate", "queued", "running"}

RangesInv ==
    /\ pc \in [Procs \union MaintJobs -> Position]
    /\ key \in [Procs -> Keys \union {"none"}]
    /\ attempt \in [Handlers -> 0..MaxAttempts]
    /\ copy \in [Handlers -> {"none", "good", "torn"}]
    /\ row \in [Keys -> {"none", "good", "torn"}]
    /\ marked \subseteq Keys /\ spools \subseteq Procs
    /\ lost \in Nat /\ runs \in [Keys -> Nat]

\* A request that is being served, and the warmer at work, have a revision.
KeyInv == \A p \in Procs : pc[p] \notin {"idle", "answered"} => key[p] \in Keys

\* The retry counter is below its bound while a row found in the queue is served.
RetryInv ==
    \A h \in Handlers :
        pc[h] \in {"hasAgain", "hitQueueAgain", "openAgain", "inflateAgain"} =>
            attempt[h] < MaxAttempts

LocalInv == RangesInv /\ KeyInv /\ RetryInv

\* A semaphore's channel holds its holders' tokens and never more than it can.
Counted(n, S, slots) == IsFiniteSet(S) /\ n = Cardinality(S) /\ n <= slots

SlotsInv ==
    /\ Counted(listSem, ListHolders, ListSlots)
    /\ Counted(hitSem, HitHolders, HitSlots)
    /\ Counted(maintSem, MaintHolders, MaintSlots)

(***************************************************************************)
(* With one slot, and while every request still looks before it lists: the *)
(* completed listings of a revision are paid for by lost rows, but for the *)
(* one whose row is there; a request on its way to one has paid already.   *)
(***************************************************************************)
Rechecking == ListSlots = 1 /\ \A h \in Handlers : attempt[h] < MaxAttempts
Listed(h) == pc[h] \in {"admitted", "listing", "store"}

OnceInv ==
    Rechecking =>
        /\ \A k \in Keys : runs[k] <= 1 + lost /\ (row[k] # "good" => runs[k] <= lost)
        /\ \A h \in Handlers : Listed(h) => runs[key[h]] <= lost

\* The inductive invariant.
GateInv ==
    /\ LocalInv
    /\ SlotsInv
    /\ SpoolOwned
    /\ OnceInv

(***************************************************************************)
(* Each step keeps the ranges, sets a revision before it is used, and goes *)
(* round the retry loop only below the bound.                              *)
(***************************************************************************)
LEMMA LocalStep ==
    ASSUME GateInv, Next
    PROVE  LocalInv'
  <1> USE ListGateAssumption
         DEF GateInv, LocalInv, RangesInv, KeyInv, RetryInv, Goto, Procs,
         Position, MaxAttempts, cacheVars, semVars
  <1>1. ASSUME NEW h \in Handlers, NEW k \in Keys, request(h, k) PROVE LocalInv'
    BY <1>1 DEF request
  <1>2. ASSUME NEW h \in Handlers, hitAcquire(h) PROVE LocalInv'
    BY <1>2 DEF hitAcquire
  <1>3. ASSUME NEW h \in Handlers, queueRefused(h) PROVE LocalInv'
    BY <1>3 DEF queueRefused
  <1>4. ASSUME NEW h \in Handlers, open(h) PROVE LocalInv'
    BY <1>4 DEF open, AttemptAfter
  <1>5. ASSUME NEW h \in Handlers, inflateEnds(h) PROVE LocalInv'
    BY <1>5 DEF inflateEnds
  <1>6. ASSUME NEW h \in Handlers, inflateFails(h) PROVE LocalInv'
    BY <1>6 DEF inflateFails, AttemptAfter, drop
  <1>7. ASSUME NEW h \in Handlers, clientFails(h) PROVE LocalInv'
    BY <1>7 DEF clientFails
  <1>8. ASSUME NEW h \in Handlers, listAcquire(h) PROVE LocalInv'
    BY <1>8 DEF listAcquire
  <1>9. ASSUME NEW h \in Handlers, recheck(h) PROVE LocalInv'
    BY <1>9 DEF recheck, FoundMeanwhile
  <1>10. ASSUME NEW h \in Handlers, hasAgain(h) PROVE LocalInv'
    BY <1>10 DEF hasAgain
  <1>11. ASSUME NEW h \in Handlers, refuse(h) PROVE LocalInv'
    BY <1>11 DEF refuse
  <1>12. ASSUME NEW h \in Handlers, startListing(h) PROVE LocalInv'
    BY <1>12 DEF startListing
  <1>13. ASSUME NEW p \in Procs, spill(p) PROVE LocalInv'
    BY <1>13 DEF spill
  <1>14. ASSUME NEW h \in Handlers, listingFails(h) PROVE LocalInv'
    BY <1>14 DEF listingFails, SpoolsAfterFailure
  <1>15. ASSUME NEW h \in Handlers, listingDone(h) PROVE LocalInv'
    BY <1>15 DEF listingDone
  <1>16. ASSUME NEW h \in Handlers, store(h) PROVE LocalInv'
    BY <1>16 DEF store
  <1>17. ASSUME NEW h \in Handlers, writeEnds(h) PROVE LocalInv'
    BY <1>17 DEF writeEnds
  <1>18. ASSUME warmStart PROVE LocalInv'
    BY <1>18 DEF warmStart
  <1>19. ASSUME warmMaint PROVE LocalInv'
    BY <1>19 DEF warmMaint
  <1>20. ASSUME warmGate PROVE LocalInv'
    BY <1>20 DEF warmGate
  <1>21. ASSUME warmTimeout PROVE LocalInv'
    BY <1>21 DEF warmTimeout
  <1>22. ASSUME warmListed PROVE LocalInv'
    BY <1>22 DEF warmListed, SpoolsAfterFailure
  <1>23. ASSUME warmStore PROVE LocalInv'
    BY <1>23 DEF warmStore
  <1>24. ASSUME NEW j \in MaintJobs, maintQueue(j) PROVE LocalInv'
    BY <1>24 DEF maintQueue
  <1>25. ASSUME NEW j \in MaintJobs, maintAcquire(j) PROVE LocalInv'
    BY <1>25 DEF maintAcquire
  <1>26. ASSUME NEW j \in MaintJobs, maintEnds(j) PROVE LocalInv'
    BY <1>26 DEF maintEnds
  <1>27. ASSUME NEW k \in Keys, rowLost(k) PROVE LocalInv'
    BY <1>27 DEF rowLost
  <1>28. ASSUME crash PROVE LocalInv'
    BY <1>28 DEF crash
  <1>29. ASSUME restart PROVE LocalInv'
    BY <1>29 DEF restart
  <1> QED
    BY <1>1, <1>2, <1>3, <1>4, <1>5, <1>6, <1>7, <1>8, <1>9, <1>10, <1>11,
    <1>12, <1>13, <1>14, <1>15, <1>16, <1>17, <1>18, <1>19, <1>20, <1>21,
    <1>22, <1>23, <1>24, <1>25, <1>26, <1>27, <1>28, <1>29 DEF Next, Serve,
    Client, Warm

(***************************************************************************)
(* A spool file is made by a listing under way, and every way out of the   *)
(* three positions that may have one removes it, or is a crash.            *)
(***************************************************************************)
LEMMA SpoolStep ==
    ASSUME GateInv, Next
    PROVE  SpoolOwned'
  <1> USE ListGateAssumption
         DEF GateInv, LocalInv, RangesInv, SpoolOwned, Goto, Procs
  <1>1. ASSUME NEW h \in Handlers, NEW k \in Keys, request(h, k) PROVE SpoolOwned'
    BY <1>1 DEF request
  <1>2. ASSUME NEW h \in Handlers, hitAcquire(h) PROVE SpoolOwned'
    BY <1>2 DEF hitAcquire
  <1>3. ASSUME NEW h \in Handlers, queueRefused(h) PROVE SpoolOwned'
    BY <1>3 DEF queueRefused
  <1>4. ASSUME NEW h \in Handlers, open(h) PROVE SpoolOwned'
    BY <1>4 DEF open
  <1>5. ASSUME NEW h \in Handlers, inflateEnds(h) PROVE SpoolOwned'
    BY <1>5 DEF inflateEnds
  <1>6. ASSUME NEW h \in Handlers, inflateFails(h) PROVE SpoolOwned'
    BY <1>6 DEF inflateFails
  <1>7. ASSUME NEW h \in Handlers, clientFails(h) PROVE SpoolOwned'
    BY <1>7 DEF clientFails
  <1>8. ASSUME NEW h \in Handlers, listAcquire(h) PROVE SpoolOwned'
    BY <1>8 DEF listAcquire
  <1>9. ASSUME NEW h \in Handlers, recheck(h) PROVE SpoolOwned'
    BY <1>9 DEF recheck
  <1>10. ASSUME NEW h \in Handlers, hasAgain(h) PROVE SpoolOwned'
    BY <1>10 DEF hasAgain
  <1>11. ASSUME NEW h \in Handlers, refuse(h) PROVE SpoolOwned'
    BY <1>11 DEF refuse
  <1>12. ASSUME NEW h \in Handlers, startListing(h) PROVE SpoolOwned'
    BY <1>12 DEF startListing
  <1>13. ASSUME NEW p \in Procs, spill(p) PROVE SpoolOwned'
    BY <1>13 DEF spill
  <1>14. ASSUME NEW h \in Handlers, listingFails(h) PROVE SpoolOwned'
    BY <1>14 DEF listingFails, SpoolsAfterFailure
  <1>15. ASSUME NEW h \in Handlers, listingDone(h) PROVE SpoolOwned'
    BY <1>15 DEF listingDone
  <1>16. ASSUME NEW h \in Handlers, store(h) PROVE SpoolOwned'
    BY <1>16 DEF store
  <1>17. ASSUME NEW h \in Handlers, writeEnds(h) PROVE SpoolOwned'
    BY <1>17 DEF writeEnds
  <1>18. ASSUME warmStart PROVE SpoolOwned'
    BY <1>18 DEF warmStart
  <1>19. ASSUME warmMaint PROVE SpoolOwned'
    BY <1>19 DEF warmMaint
  <1>20. ASSUME warmGate PROVE SpoolOwned'
    BY <1>20 DEF warmGate
  <1>21. ASSUME warmTimeout PROVE SpoolOwned'
    BY <1>21 DEF warmTimeout
  <1>22. ASSUME warmListed PROVE SpoolOwned'
    BY <1>22 DEF warmListed, SpoolsAfterFailure
  <1>23. ASSUME warmStore PROVE SpoolOwned'
    BY <1>23 DEF warmStore
  <1>24. ASSUME NEW j \in MaintJobs, maintQueue(j) PROVE SpoolOwned'
    BY <1>24 DEF maintQueue
  <1>25. ASSUME NEW j \in MaintJobs, maintAcquire(j) PROVE SpoolOwned'
    BY <1>25 DEF maintAcquire
  <1>26. ASSUME NEW j \in MaintJobs, maintEnds(j) PROVE SpoolOwned'
    BY <1>26 DEF maintEnds
  <1>27. ASSUME NEW k \in Keys, rowLost(k) PROVE SpoolOwned'
    BY <1>27 DEF rowLost
  <1>28. ASSUME crash PROVE SpoolOwned'
    BY <1>28 DEF crash
  <1>29. ASSUME restart PROVE SpoolOwned'
    BY <1>29 DEF restart
  <1> QED
    BY <1>1, <1>2, <1>3, <1>4, <1>5, <1>6, <1>7, <1>8, <1>9, <1>10, <1>11,
    <1>12, <1>13, <1>14, <1>15, <1>16, <1>17, <1>18, <1>19, <1>20, <1>21,
    <1>22, <1>23, <1>24, <1>25, <1>26, <1>27, <1>28, <1>29 DEF Next, Serve,
    Client, Warm

(***************************************************************************)
(* The tokens: one goroutine more, or fewer, between acquire and release.  *)
(***************************************************************************)
LEMMA OneMore ==
    ASSUME NEW n, NEW S, NEW slots \in Nat, Counted(n, S, slots), n < slots,
           NEW p, p \notin S
    PROVE  Counted(n + 1, S \union {p}, slots)
  BY FS_AddElement, FS_CardinalityType DEF Counted

LEMMA OneLess ==
    ASSUME NEW n, NEW S, NEW slots \in Nat, Counted(n, S, slots), NEW p \in S
    PROVE  Counted(n - 1, S \ {p}, slots)
  BY FS_RemoveElement, FS_CardinalityType DEF Counted

(***************************************************************************)
(* What each step does to the three sets of holders, and that it moves the *)
(* tokens alike.                                                           *)
(***************************************************************************)
LEMMA SlotsStep ==
    ASSUME GateInv, Next
    PROVE  SlotsInv'
  <1> USE ListGateAssumption
         DEF GateInv, LocalInv, SlotsInv, cacheVars, semVars
  <1>1. ASSUME NEW h \in Handlers, NEW k \in Keys, request(h, k) PROVE SlotsInv'
    <2>1. /\ ListHolders' = ListHolders
          /\ HitHolders' = HitHolders
          /\ MaintHolders' = MaintHolders
      BY <1>1 DEF request, Goto, Procs, RangesInv,
             ListHolders, HitHolders, MaintHolders
    <2> QED BY <1>1, <2>1 DEF request
  <1>2. ASSUME NEW h \in Handlers, hitAcquire(h) PROVE SlotsInv'
    <2>1. /\ ListHolders' = ListHolders
          /\ h \notin HitHolders /\ HitHolders' = HitHolders \union {h}
          /\ MaintHolders' = MaintHolders
      BY <1>2 DEF hitAcquire, Goto, Procs, RangesInv,
             ListHolders, HitHolders, MaintHolders
    <2> QED BY <1>2, <2>1, OneMore DEF hitAcquire
  <1>3. ASSUME NEW h \in Handlers, queueRefused(h) PROVE SlotsInv'
    <2>1. /\ ListHolders' = ListHolders
          /\ HitHolders' = HitHolders
          /\ MaintHolders' = MaintHolders
      BY <1>3 DEF queueRefused, Goto, Procs, RangesInv,
             ListHolders, HitHolders, MaintHolders
    <2> QED BY <1>3, <2>1 DEF queueRefused
  <1>4. ASSUME NEW h \in Handlers, open(h) PROVE SlotsInv'
    <2>1. ListHolders' = ListHolders /\ MaintHolders' = MaintHolders
      BY <1>4 DEF open, Goto, Procs, RangesInv,
             ListHolders, HitHolders, MaintHolders
    <2>2. CASE row[key[h]] = "none"
      <3>1. h \in HitHolders /\ HitHolders' = HitHolders \ {h}
        BY <1>4, <2>2 DEF open, Goto, Procs, RangesInv,
             ListHolders, HitHolders, MaintHolders
      <3> QED BY <1>4, <2>1, <2>2, <3>1, OneLess DEF open
    <2>3. CASE ~(row[key[h]] = "none")
      <3>1. HitHolders' = HitHolders
        BY <1>4, <2>3 DEF open, Goto, Procs, RangesInv,
             ListHolders, HitHolders, MaintHolders
      <3> QED BY <1>4, <2>1, <2>3, <3>1 DEF open
    <2> QED BY <2>2, <2>3
  <1>5. ASSUME NEW h \in Handlers, inflateEnds(h) PROVE SlotsInv'
    <2>1. /\ ListHolders' = ListHolders
          /\ h \in HitHolders /\ HitHolders' = HitHolders \ {h}
          /\ MaintHolders' = MaintHolders
      BY <1>5 DEF inflateEnds, Goto, Procs, RangesInv,
             ListHolders, HitHolders, MaintHolders
    <2> QED BY <1>5, <2>1, OneLess DEF inflateEnds
  <1>6. ASSUME NEW h \in Handlers, inflateFails(h) PROVE SlotsInv'
    <2>1. /\ ListHolders' = ListHolders
          /\ h \in HitHolders /\ HitHolders' = HitHolders \ {h}
          /\ MaintHolders' = MaintHolders
      BY <1>6 DEF inflateFails, Goto, Procs, RangesInv,
             ListHolders, HitHolders, MaintHolders
    <2> QED BY <1>6, <2>1, OneLess DEF inflateFails
  <1>7. ASSUME NEW h \in Handlers, clientFails(h) PROVE SlotsInv'
    <2>1. /\ ListHolders' = ListHolders
          /\ h \in HitHolders /\ HitHolders' = HitHolders \ {h}
          /\ MaintHolders' = MaintHolders
      BY <1>7 DEF clientFails, Goto, Procs, RangesInv,
             ListHolders, HitHolders, MaintHolders
    <2> QED BY <1>7, <2>1, OneLess DEF clientFails
  <1>8. ASSUME NEW h \in Handlers, listAcquire(h) PROVE SlotsInv'
    <2>1. /\ h \notin ListHolders /\ ListHolders' = ListHolders \union {h}
          /\ HitHolders' = HitHolders
          /\ MaintHolders' = MaintHolders
      BY <1>8 DEF listAcquire, Goto, Procs, RangesInv,
             ListHolders, HitHolders, MaintHolders
    <2> QED BY <1>8, <2>1, OneMore DEF listAcquire
  <1>9. ASSUME NEW h \in Handlers, recheck(h) PROVE SlotsInv'
    <2>1. HitHolders' = HitHolders /\ MaintHolders' = MaintHolders
      BY <1>9 DEF recheck, Goto, Procs, RangesInv,
             ListHolders, HitHolders, MaintHolders
    <2>2. CASE FoundMeanwhile(h)
      <3>1. h \in ListHolders /\ ListHolders' = ListHolders \ {h}
        BY <1>9, <2>2 DEF recheck, Goto, Procs, RangesInv,
             ListHolders, HitHolders, MaintHolders
      <3> QED BY <1>9, <2>1, <2>2, <3>1, OneLess DEF recheck
    <2>3. CASE ~(FoundMeanwhile(h))
      <3>1. ListHolders' = ListHolders
        BY <1>9, <2>3 DEF recheck, Goto, Procs, RangesInv,
             ListHolders, HitHolders, MaintHolders
      <3> QED BY <1>9, <2>1, <2>3, <3>1 DEF recheck
    <2> QED BY <2>2, <2>3
  <1>10. ASSUME NEW h \in Handlers, hasAgain(h) PROVE SlotsInv'
    <2>1. /\ ListHolders' = ListHolders
          /\ HitHolders' = HitHolders
          /\ MaintHolders' = MaintHolders
      BY <1>10 DEF hasAgain, Goto, Procs, RangesInv,
             ListHolders, HitHolders, MaintHolders
    <2> QED BY <1>10, <2>1 DEF hasAgain
  <1>11. ASSUME NEW h \in Handlers, refuse(h) PROVE SlotsInv'
    <2>1. /\ h \in ListHolders /\ ListHolders' = ListHolders \ {h}
          /\ HitHolders' = HitHolders
          /\ MaintHolders' = MaintHolders
      BY <1>11 DEF refuse, Goto, Procs, RangesInv,
             ListHolders, HitHolders, MaintHolders
    <2> QED BY <1>11, <2>1, OneLess DEF refuse
  <1>12. ASSUME NEW h \in Handlers, startListing(h) PROVE SlotsInv'
    <2>1. /\ ListHolders' = ListHolders
          /\ HitHolders' = HitHolders
          /\ MaintHolders' = MaintHolders
      BY <1>12 DEF startListing, Goto, Procs, RangesInv,
             ListHolders, HitHolders, MaintHolders
    <2> QED BY <1>12, <2>1 DEF startListing
  <1>13. ASSUME NEW p \in Procs, spill(p) PROVE SlotsInv'
    <2>1. /\ ListHolders' = ListHolders
          /\ HitHolders' = HitHolders
          /\ MaintHolders' = MaintHolders
      BY <1>13 DEF spill, Goto, Procs, RangesInv,
             ListHolders, HitHolders, MaintHolders
    <2> QED BY <1>13, <2>1 DEF spill
  <1>14. ASSUME NEW h \in Handlers, listingFails(h) PROVE SlotsInv'
    <2>1. /\ h \in ListHolders /\ ListHolders' = ListHolders \ {h}
          /\ HitHolders' = HitHolders
          /\ MaintHolders' = MaintHolders
      BY <1>14 DEF listingFails, Goto, Procs, RangesInv,
             ListHolders, HitHolders, MaintHolders
    <2> QED BY <1>14, <2>1, OneLess DEF listingFails
  <1>15. ASSUME NEW h \in Handlers, listingDone(h) PROVE SlotsInv'
    <2>1. /\ ListHolders' = ListHolders
          /\ HitHolders' = HitHolders
          /\ MaintHolders' = MaintHolders
      BY <1>15 DEF listingDone, Goto, Procs, RangesInv,
             ListHolders, HitHolders, MaintHolders
    <2> QED BY <1>15, <2>1 DEF listingDone
  <1>16. ASSUME NEW h \in Handlers, store(h) PROVE SlotsInv'
    <2>1. /\ h \in ListHolders /\ ListHolders' = ListHolders \ {h}
          /\ HitHolders' = HitHolders
          /\ MaintHolders' = MaintHolders
      BY <1>16 DEF store, Goto, Procs, RangesInv,
             ListHolders, HitHolders, MaintHolders
    <2> QED BY <1>16, <2>1, OneLess DEF store
  <1>17. ASSUME NEW h \in Handlers, writeEnds(h) PROVE SlotsInv'
    <2>1. /\ ListHolders' = ListHolders
          /\ HitHolders' = HitHolders
          /\ MaintHolders' = MaintHolders
      BY <1>17 DEF writeEnds, Goto, Procs, RangesInv,
             ListHolders, HitHolders, MaintHolders
    <2> QED BY <1>17, <2>1 DEF writeEnds
  <1>18. ASSUME warmStart PROVE SlotsInv'
    <2>1. /\ ListHolders' = ListHolders
          /\ HitHolders' = HitHolders
          /\ MaintHolders' = MaintHolders
      BY <1>18 DEF warmStart, Goto, Procs, RangesInv,
             ListHolders, HitHolders, MaintHolders
    <2> QED BY <1>18, <2>1 DEF warmStart
  <1>19. ASSUME warmMaint PROVE SlotsInv'
    <2>1. /\ ListHolders' = ListHolders
          /\ HitHolders' = HitHolders
          /\ "warmer" \notin MaintHolders /\ MaintHolders' = MaintHolders \union {"warmer"}
      BY <1>19 DEF warmMaint, Goto, Procs, RangesInv,
             ListHolders, HitHolders, MaintHolders
    <2> QED BY <1>19, <2>1, OneMore DEF warmMaint
  <1>20. ASSUME warmGate PROVE SlotsInv'
    <2>1. /\ "warmer" \notin ListHolders /\ ListHolders' = ListHolders \union {"warmer"}
          /\ HitHolders' = HitHolders
          /\ MaintHolders' = MaintHolders
      BY <1>20 DEF warmGate, Goto, Procs, RangesInv,
             ListHolders, HitHolders, MaintHolders
    <2> QED BY <1>20, <2>1, OneMore DEF warmGate
  <1>21. ASSUME warmTimeout PROVE SlotsInv'
    <2>1. /\ ListHolders' = ListHolders
          /\ HitHolders' = HitHolders
          /\ "warmer" \in MaintHolders /\ MaintHolders' = MaintHolders \ {"warmer"}
      BY <1>21 DEF warmTimeout, Goto, Procs, RangesInv,
             ListHolders, HitHolders, MaintHolders
    <2> QED BY <1>21, <2>1, OneLess DEF warmTimeout
  <1>22. ASSUME warmListed PROVE SlotsInv'
    <2>1. /\ "warmer" \in ListHolders /\ ListHolders' = ListHolders \ {"warmer"}
          /\ HitHolders' = HitHolders
          /\ "warmer" \in MaintHolders /\ MaintHolders' = MaintHolders \ {"warmer"}
      BY <1>22 DEF warmListed, Goto, Procs, RangesInv,
             ListHolders, HitHolders, MaintHolders
    <2> QED BY <1>22, <2>1, OneLess DEF warmListed
  <1>23. ASSUME warmStore PROVE SlotsInv'
    <2>1. /\ ListHolders' = ListHolders
          /\ HitHolders' = HitHolders
          /\ MaintHolders' = MaintHolders
      BY <1>23 DEF warmStore, Goto, Procs, RangesInv,
             ListHolders, HitHolders, MaintHolders
    <2> QED BY <1>23, <2>1 DEF warmStore
  <1>24. ASSUME NEW j \in MaintJobs, maintQueue(j) PROVE SlotsInv'
    <2>1. /\ ListHolders' = ListHolders
          /\ HitHolders' = HitHolders
          /\ MaintHolders' = MaintHolders
      BY <1>24 DEF maintQueue, Goto, Procs, RangesInv,
             ListHolders, HitHolders, MaintHolders
    <2> QED BY <1>24, <2>1 DEF maintQueue
  <1>25. ASSUME NEW j \in MaintJobs, maintAcquire(j) PROVE SlotsInv'
    <2>1. /\ ListHolders' = ListHolders
          /\ HitHolders' = HitHolders
          /\ j \notin MaintHolders /\ MaintHolders' = MaintHolders \union {j}
      BY <1>25 DEF maintAcquire, Goto, Procs, RangesInv,
             ListHolders, HitHolders, MaintHolders
    <2> QED BY <1>25, <2>1, OneMore DEF maintAcquire
  <1>26. ASSUME NEW j \in MaintJobs, maintEnds(j) PROVE SlotsInv'
    <2>1. /\ ListHolders' = ListHolders
          /\ HitHolders' = HitHolders
          /\ j \in MaintHolders /\ MaintHolders' = MaintHolders \ {j}
      BY <1>26 DEF maintEnds, Goto, Procs, RangesInv,
             ListHolders, HitHolders, MaintHolders
    <2> QED BY <1>26, <2>1, OneLess DEF maintEnds
  <1>27. ASSUME NEW k \in Keys, rowLost(k) PROVE SlotsInv'
    <2>1. /\ ListHolders' = ListHolders
          /\ HitHolders' = HitHolders
          /\ MaintHolders' = MaintHolders
      BY <1>27 DEF rowLost, Goto, Procs, RangesInv,
             ListHolders, HitHolders, MaintHolders
    <2> QED BY <1>27, <2>1 DEF rowLost
  <1>28. ASSUME crash PROVE SlotsInv'
    <2>1. ListHolders' = {} /\ HitHolders' = {} /\ MaintHolders' = {}
      BY <1>28 DEF crash, Goto, Procs, RangesInv,
             ListHolders, HitHolders, MaintHolders
    <2> QED BY <1>28, <2>1, FS_EmptySet DEF crash, Counted
  <1>29. ASSUME restart PROVE SlotsInv'
    <2>1. /\ ListHolders' = ListHolders
          /\ HitHolders' = HitHolders
          /\ MaintHolders' = MaintHolders
      BY <1>29 DEF restart, Goto, Procs, RangesInv,
             ListHolders, HitHolders, MaintHolders
    <2> QED BY <1>29, <2>1 DEF restart
  <1> QED
    BY <1>1, <1>2, <1>3, <1>4, <1>5, <1>6, <1>7, <1>8, <1>9, <1>10, <1>11,
    <1>12, <1>13, <1>14, <1>15, <1>16, <1>17, <1>18, <1>19, <1>20, <1>21,
    <1>22, <1>23, <1>24, <1>25, <1>26, <1>27, <1>28, <1>29 DEF Next, Serve,
    Client, Warm

(***************************************************************************)
(* One slot means one holder.                                              *)
(***************************************************************************)
LEMMA OneHolder ==
    ASSUME RangesInv, SlotsInv, ListSlots = 1, NEW p \in ListHolders, NEW q \in ListHolders
    PROVE  p = q
  <1> SUFFICES ASSUME p # q PROVE FALSE
    OBVIOUS
  <1>1. Cardinality(ListHolders) \in Nat /\ Cardinality(ListHolders) <= 1
    BY FS_CardinalityType DEF SlotsInv, Counted
  <1>2. {p} \subseteq ListHolders \ {q} /\ IsFiniteSet(ListHolders \ {q})
    BY FS_RemoveElement DEF SlotsInv, Counted
  <1>3. Cardinality({p}) = 1 /\ Cardinality(ListHolders \ {q}) = Cardinality(ListHolders) - 1
    BY FS_Singleton, FS_RemoveElement DEF SlotsInv, Counted
  <1> QED BY <1>1, <1>2, <1>3, FS_Subset

(***************************************************************************)
(* A row is lost before a revision is listed again: a request is admitted  *)
(* only where there is no row, and holds the one slot until it has stored. *)
(***************************************************************************)
LEMMA OnceStep ==
    ASSUME GateInv, Next
    PROVE  OnceInv'
  <1> USE ListGateAssumption
         DEF GateInv, LocalInv, RangesInv, KeyInv, OnceInv, Rechecking, Listed, Goto, Procs,
             MaxAttempts, cacheVars, semVars
  <1>1. ASSUME NEW h \in Handlers, NEW k \in Keys, request(h, k) PROVE OnceInv'
    BY <1>1 DEF request
  <1>2. ASSUME NEW h \in Handlers, hitAcquire(h) PROVE OnceInv'
    BY <1>2 DEF hitAcquire
  <1>3. ASSUME NEW h \in Handlers, queueRefused(h) PROVE OnceInv'
    BY <1>3 DEF queueRefused
  <1>4. ASSUME NEW h \in Handlers, open(h) PROVE OnceInv'
    BY <1>4 DEF open, AttemptAfter
  <1>5. ASSUME NEW h \in Handlers, inflateEnds(h) PROVE OnceInv'
    BY <1>5 DEF inflateEnds
  <1>6. ASSUME NEW h \in Handlers, inflateFails(h) PROVE OnceInv'
    BY <1>6 DEF inflateFails, AttemptAfter, drop
  <1>7. ASSUME NEW h \in Handlers, clientFails(h) PROVE OnceInv'
    BY <1>7 DEF clientFails
  <1>8. ASSUME NEW h \in Handlers, listAcquire(h) PROVE OnceInv'
    BY <1>8 DEF listAcquire
  <1>9. ASSUME NEW h \in Handlers, recheck(h) PROVE OnceInv'
    BY <1>9 DEF recheck, FoundMeanwhile
  <1>10. ASSUME NEW h \in Handlers, hasAgain(h) PROVE OnceInv'
    BY <1>10 DEF hasAgain
  <1>11. ASSUME NEW h \in Handlers, refuse(h) PROVE OnceInv'
    BY <1>11 DEF refuse
  <1>12. ASSUME NEW h \in Handlers, startListing(h) PROVE OnceInv'
    BY <1>12 DEF startListing
  <1>13. ASSUME NEW p \in Procs, spill(p) PROVE OnceInv'
    BY <1>13 DEF spill
  <1>14. ASSUME NEW h \in Handlers, listingFails(h) PROVE OnceInv'
    BY <1>14 DEF listingFails
  <1>15. ASSUME NEW h \in Handlers, listingDone(h) PROVE OnceInv'
    BY <1>15 DEF listingDone
  <1>16. ASSUME NEW h \in Handlers, store(h) PROVE OnceInv'
    <2>1. ASSUME NEW g \in Handlers, ListSlots = 1, Listed(g) PROVE g = h
      <3>1. g \in ListHolders /\ h \in ListHolders
        BY <1>16, <2>1 DEF store, ListHolders
      <3> QED BY <2>1, <3>1, OneHolder
    <2>2. ListSlots = 1 => \A g \in Handlers : ~Listed(g)'
      BY <1>16, <2>1 DEF store
    <2>3. key[h] \in Keys /\ Listed(h)
      BY <1>16 DEF store, KeyInv
    <2> QED BY <1>16, <2>2, <2>3 DEF store
  <1>17. ASSUME NEW h \in Handlers, writeEnds(h) PROVE OnceInv'
    BY <1>17 DEF writeEnds
  <1>18. ASSUME warmStart PROVE OnceInv'
    BY <1>18 DEF warmStart
  <1>19. ASSUME warmMaint PROVE OnceInv'
    BY <1>19 DEF warmMaint
  <1>20. ASSUME warmGate PROVE OnceInv'
    BY <1>20 DEF warmGate
  <1>21. ASSUME warmTimeout PROVE OnceInv'
    BY <1>21 DEF warmTimeout
  <1>22. ASSUME warmListed PROVE OnceInv'
    BY <1>22 DEF warmListed
  <1>23. ASSUME warmStore PROVE OnceInv'
    BY <1>23 DEF warmStore
  <1>24. ASSUME NEW j \in MaintJobs, maintQueue(j) PROVE OnceInv'
    BY <1>24 DEF maintQueue
  <1>25. ASSUME NEW j \in MaintJobs, maintAcquire(j) PROVE OnceInv'
    BY <1>25 DEF maintAcquire
  <1>26. ASSUME NEW j \in MaintJobs, maintEnds(j) PROVE OnceInv'
    BY <1>26 DEF maintEnds
  <1>27. ASSUME NEW k \in Keys, rowLost(k) PROVE OnceInv'
    BY <1>27 DEF rowLost
  <1>28. ASSUME crash PROVE OnceInv'
    BY <1>28 DEF crash
  <1>29. ASSUME restart PROVE OnceInv'
    BY <1>29 DEF restart
  <1> QED
    BY <1>1, <1>2, <1>3, <1>4, <1>5, <1>6, <1>7, <1>8, <1>9, <1>10, <1>11,
    <1>12, <1>13, <1>14, <1>15, <1>16, <1>17, <1>18, <1>19, <1>20, <1>21,
    <1>22, <1>23, <1>24, <1>25, <1>26, <1>27, <1>28, <1>29 DEF Next, Serve,
    Client, Warm

(***************************************************************************)
(* In the beginning nobody holds anything.                                 *)
(***************************************************************************)
LEMMA InitGate == Init => GateInv
  <1> SUFFICES ASSUME Init PROVE GateInv
    OBVIOUS
  <1> USE ListGateAssumption DEF Init, Procs
  <1>1. RangesInv /\ KeyInv /\ RetryInv /\ SpoolOwned /\ OnceInv
    BY DEF RangesInv, KeyInv, RetryInv, SpoolOwned, OnceInv, Listed, Position,
           MaxAttempts
  <1>2. ListHolders = {} /\ HitHolders = {} /\ MaintHolders = {}
    BY DEF ListHolders, HitHolders, MaintHolders
  <1>3. SlotsInv
    BY <1>2, FS_EmptySet DEF SlotsInv, Counted
  <1> QED BY <1>1, <1>3 DEF GateInv, LocalInv

LEMMA StutterGate ==
    ASSUME GateInv, UNCHANGED vars
    PROVE  GateInv'
  BY DEF vars, GateInv, LocalInv, RangesInv, KeyInv, RetryInv, SlotsInv, SpoolOwned, OnceInv,
         Rechecking, Listed,
         ListHolders, HitHolders, MaintHolders, Counted

(***************************************************************************)
(* The invariant holds throughout.                                         *)
(***************************************************************************)
THEOREM GateInvariant == Spec => []GateInv
  <1>1. GateInv /\ [Next]_vars => GateInv'
    BY LocalStep, SpoolStep, SlotsStep, OnceStep, StutterGate DEF GateInv
  <1> QED BY InitGate, <1>1, PTL DEF Spec

(***************************************************************************)
(* No answer, refusal, retry, failed listing or crash of the listing gate, *)
(* the hit gate or the warmer loses a slot or gives one back twice, and the *)
(* three semaphores stay within their channels (snapshot_files_stream.go). *)
(***************************************************************************)
THEOREM SlotsKept == Spec => []TokensMatch
  <1>1. GateInv => TokensMatch
    <2> SUFFICES ASSUME GateInv PROVE TokensMatch
      OBVIOUS
    <2>1. listSem \in 0..ListSlots /\ hitSem \in 0..HitSlots /\ maintSem \in 0..MaintSlots
      BY ListGateAssumption, FS_CardinalityType DEF GateInv, SlotsInv, Counted
    <2> QED BY <2>1 DEF GateInv, LocalInv, RangesInv, SlotsInv, Counted, TokensMatch, TypeOK
  <1> QED BY GateInvariant, <1>1, PTL

(***************************************************************************)
(* No spool file of a request or of the warmer outlives its listing, also  *)
(* after failures, and after a crash and the reset at start (runListFiles). *)
(***************************************************************************)
THEOREM SpoolsOwned == Spec => []SpoolOwned
  BY GateInvariant, PTL DEF GateInv

(***************************************************************************)
(* With one slot, a revision is listed again only if a row was lost in     *)
(* between, however many requests queue for it (duplicacy.go:416).         *)
(***************************************************************************)
THEOREM DuplicatesFindIt == Spec => []ListedOnce
  <1>1. GateInv => ListedOnce
    BY DEF GateInv, OnceInv, Rechecking, ListedOnce
  <1> QED BY GateInvariant, <1>1, PTL
=============================================================================
