---------------------------- MODULE FilterRender ----------------------------
(***************************************************************************)
(* The filter cache of src/filters.go at one repo.  A loop pulls the sets  *)
(* of the organisation and the site from the controller, keeps them in     *)
(* memory and in a file, and renders the repo's filters file.  Handlers    *)
(* take the repo's own rules (PUT), save and render them, or pull at once  *)
(* (refresh).  Nothing but the lock on the sets orders them: every file is *)
(* written through a temporary file of a fixed name that all of them open, *)
(* truncate, fill and rename.  A descriptor stays with its file when the   *)
(* file's name moves.  The process may die anywhere.                       *)
(*                                                                         *)
(* A list of sets or of rules is known by its number in its family, 0 the  *)
(* empty list.  The filters file holds what it was rendered from; its      *)
(* lines under a root are computeMerged of that.                           *)
(***************************************************************************)
EXTENDS FilterRules

CONSTANTS
    Handlers,      \* concurrent HTTP requests
    SetsFamily,    \* the lists of sets the controller may hold, numbered
    OwnFamily,     \* the lists of rules a repo may be given, numbered
    Roots,         \* the roots a repo may have
    Places,        \* the paths, below a root, that are looked at
    Loop,          \* the reconcile loop
    None,          \* no file, no descriptor
    Blank, Torn,   \* a truncated file; a file of two writers' bytes
    MaxEvents      \* bound on edits, requests, failed writes and crashes

ASSUME FilterAssumption ==
    /\ SetsFamily \in Seq(Seq(RuleSets)) /\ SetsFamily # <<>>
    /\ OwnFamily \in Seq(Seq(Rules))
    /\ Roots \subseteq Paths /\ Places \subseteq Paths
    /\ Loop \notin Handlers /\ None \notin {Blank, Torn}
    /\ \A x \in {None, Blank, Torn} : x \notin Nat /\ x \notin {"tmp", "dest", "gone"}

Actors == Handlers \union {Loop}
Files == {"sets", "own", "filters"}

VARIABLES
    ctl,      \* the sets the controller holds
    mem,      \* f.sets
    dest,     \* [Files -> the bytes under the file's name]
    tmp,      \* [Files -> the bytes under its temporary name]
    act,      \* [Actors -> what each is doing]
    acked,    \* the rules of the last PUT that was answered
    sent,     \* the rules of the PUTs sent since
    up,       \* the process is alive
    spent     \* how many of MaxEvents there were

vars == <<ctl, mem, dest, tmp, act, acked, sent, up, spent>>

\* fd is where the file this actor has open is now: under its temporary
\* name, under its final name, or replaced there by another.
Idle == [step |-> "idle", op |-> "none", file |-> "none", rules |-> 0,
         held |-> Blank, fd |-> None]

Init ==
    /\ ctl = 1
    /\ mem = 0
    /\ dest = [f \in Files |-> None]
    /\ tmp = [f \in Files |-> None]
    /\ act = [a \in Actors |-> Idle]
    /\ acked = 0
    /\ sent = {}
    /\ up = TRUE
    /\ spent = 0

\* Another edit, request, failed write or crash.
Event == spent < MaxEvents /\ spent' = spent + 1

\* The file's content, or `otherwise` when it is absent or does not parse.
Parsed(f, otherwise) ==
    IF dest[f] \in {None, Blank, Torn} THEN otherwise ELSE dest[f]

-----------------------------------------------------------------------------
\* The answer of the controller to pull, which returns at once if it fails.
pull(a, op) ==
    /\ up /\ act[a].step = "idle"
    /\ act' = [act EXCEPT ![a] = [Idle EXCEPT !.step = "store", !.op = op, !.held = ctl]]
    /\ UNCHANGED <<ctl, mem, dest, tmp, acked, sent, up>>

LoopPulls == pull(Loop, "pull") /\ UNCHANGED spent

handleGlobalFiltersRefresh(h) == pull(h, "refresh") /\ Event

\* Mutant: sets that did not change are not rendered again.
StoreSets_unlessChanged(a) ==
    /\ up /\ act[a].step = "store"
    /\ mem' = act[a].held
    /\ act' = [act EXCEPT ![a] = IF mem = act[a].held THEN Idle ELSE [@ EXCEPT !.step = "save"]]
    /\ UNCHANGED <<ctl, dest, tmp, acked, sent, up, spent>>

\* pull: the sets under the lock.
StoreSets(a) ==
    /\ up /\ act[a].step = "store"
    /\ mem' = act[a].held
    /\ act' = [act EXCEPT ![a].step = "save"]
    /\ UNCHANGED <<ctl, dest, tmp, acked, sent, up, spent>>

\* saveCache takes the lock again.
saveCache(a) ==
    /\ up /\ act[a].step = "save"
    /\ act' = [act EXCEPT ![a] = [@ EXCEPT !.step = "open", !.file = "sets", !.held = mem]]
    /\ UNCHANGED <<ctl, mem, dest, tmp, acked, sent, up, spent>>

\* A PUT of the repo's rules: savePerRepo first.
handlePutFilters(h, rules) ==
    /\ up /\ act[h].step = "idle"
    /\ act' = [act EXCEPT ![h] = [Idle EXCEPT !.step = "open", !.op = "put", !.file = "own",
                                             !.rules = rules, !.held = rules]]
    /\ sent' = sent \union {rules}
    /\ Event
    /\ UNCHANGED <<ctl, mem, dest, tmp, acked, up>>

\* computeMerged: the sets under the lock, then the rules from their file.
MergeSets(a) ==
    /\ up /\ act[a].step = "merge"
    /\ act' = [act EXCEPT ![a] = [@ EXCEPT !.step = "loadPerRepo", !.held = mem]]
    /\ UNCHANGED <<ctl, mem, dest, tmp, acked, sent, up, spent>>

loadPerRepo(a) ==
    /\ up /\ act[a].step = "loadPerRepo"
    /\ act' = [act EXCEPT ![a] = [@ EXCEPT !.step = "open", !.file = "filters",
                                  !.held = [sets |-> act[a].held, own |-> Parsed("own", 0)]]]
    /\ UNCHANGED <<ctl, mem, dest, tmp, acked, sent, up, spent>>

-----------------------------------------------------------------------------
\* os.WriteFile and os.Rename.
OpenTmp(a) ==
    /\ up /\ act[a].step = "open"
    /\ tmp' = [tmp EXCEPT ![act[a].file] = Blank]
    /\ act' = [act EXCEPT ![a] = [@ EXCEPT !.step = "write", !.fd = "tmp"]]
    /\ UNCHANGED <<ctl, mem, dest, acked, sent, up, spent>>

\* Over other bytes a longer text replaces them and a shorter one mixes.
Overlaid(old, new) == IF old \in {Blank, new} THEN {new} ELSE {new, Torn}

WriteTmp(a) ==
    /\ up /\ act[a].step = "write"
    /\ LET x == act[a] IN
       /\ \E bytes \in Overlaid(IF x.fd = "tmp" THEN tmp[x.file]
                              ELSE IF x.fd = "dest" THEN dest[x.file] ELSE Blank, x.held) :
             /\ tmp' = IF x.fd = "tmp" THEN [tmp EXCEPT ![x.file] = bytes] ELSE tmp
             /\ dest' = IF x.fd = "dest" THEN [dest EXCEPT ![x.file] = bytes] ELSE dest
       /\ act' = [act EXCEPT ![a] = [x EXCEPT !.step = "rename", !.fd = None]]
    /\ UNCHANGED <<ctl, mem, acked, sent, up, spent>>

\* Mutant: the PUT goes on, and answers, when its rules are not saved.
AfterWrite_ackAnyway(a, ok, others) ==
    LET x == act[a] IN
    /\ act' = [others EXCEPT ![a] = IF x.file # "filters"
                                 THEN [x EXCEPT !.step = "merge", !.file = "none",
                                                !.held = Blank, !.fd = None]
                                 ELSE Idle]
    /\ IF x.op = "put" /\ x.file = "filters" /\ ok
       THEN /\ acked' = x.rules
            /\ sent' = {act[h].rules : h \in {k \in Handlers \ {a} : act[k].op = "put"}}
       ELSE UNCHANGED <<acked, sent>>

\* What follows a write.  A cache that is not saved is only a warning, rules
\* that are not saved end the PUT, a render ends the request; only the PUT
\* answers with its error.
AfterWrite(a, ok, others) ==
    LET x == act[a] IN
    /\ act' = [others EXCEPT ![a] = IF x.file = "sets" \/ (x.file = "own" /\ ok)
                                 THEN [x EXCEPT !.step = "merge", !.file = "none",
                                                !.held = Blank, !.fd = None]
                                 ELSE Idle]
    /\ IF x.op = "put" /\ x.file = "filters" /\ ok
       THEN /\ acked' = x.rules
            /\ sent' = {act[h].rules : h \in {k \in Handlers \ {a} : act[k].op = "put"}}
       ELSE UNCHANGED <<acked, sent>>

\* The disk refuses the open, the write or the rename.
WriteFails(a) ==
    /\ up /\ act[a].step \in {"open", "write", "rename"}
    /\ AfterWrite(a, FALSE, act)
    /\ Event
    /\ UNCHANGED <<ctl, mem, dest, tmp, up>>

\* The descriptors on a file once the file open as tmp is renamed over it.
Moved(f) == [b \in Actors |->
    IF act[b].file # f THEN act[b]
    ELSE [act[b] EXCEPT !.fd = IF @ = "tmp" THEN "dest" ELSE IF @ = "dest" THEN "gone" ELSE @]]

\* The temporary file is gone when another writer renamed it.
RenameTmp(a) ==
    /\ up /\ act[a].step = "rename"
    /\ LET f == act[a].file IN
       IF tmp[f] = None
       THEN AfterWrite(a, FALSE, act) /\ UNCHANGED <<dest, tmp>>
       ELSE /\ AfterWrite(a, TRUE, Moved(f))
            /\ dest' = [dest EXCEPT ![f] = tmp[f]]
            /\ tmp' = [tmp EXCEPT ![f] = None]
    /\ UNCHANGED <<ctl, mem, up, spent>>

-----------------------------------------------------------------------------
\* An operator edits the sets at the controller.
EditSets ==
    /\ ctl' \in DOMAIN SetsFamily \ {ctl}
    /\ Event
    /\ UNCHANGED <<mem, dest, tmp, act, acked, sent, up>>

Crash ==
    /\ up
    /\ up' = FALSE
    /\ mem' = 0
    /\ act' = [a \in Actors |-> Idle]
    /\ Event
    /\ UNCHANGED <<ctl, dest, tmp, acked, sent>>

\* loadCache: an absent file or one that does not parse starts empty.
Boot ==
    /\ ~up
    /\ up' = TRUE
    /\ mem' = Parsed("sets", 0)
    /\ UNCHANGED <<ctl, dest, tmp, act, acked, sent, spent>>

Step(a) ==
    \/ StoreSets(a) \/ saveCache(a) \/ MergeSets(a) \/ loadPerRepo(a)
    \/ OpenTmp(a) \/ WriteTmp(a) \/ RenameTmp(a)

Next ==
    \/ LoopPulls \/ EditSets \/ Crash \/ Boot
    \/ \E h \in Handlers :
          \/ handleGlobalFiltersRefresh(h)
          \/ \E rules \in DOMAIN OwnFamily : handlePutFilters(h, rules)
    \/ \E a \in Actors : WriteFails(a)
    \/ \E a \in Actors : Step(a)

\* Requests run to their end, the process is restarted, and the loop's ticks
\* find the controller again and again.
Fairness ==
    /\ WF_vars(Boot)
    /\ WF_vars(LoopPulls)
    /\ \A a \in Actors : WF_vars(Step(a))

Spec == Init /\ [][Next]_vars /\ Fairness

-----------------------------------------------------------------------------
Contents == 0..Len(SetsFamily)
RulesOf == 0..Len(OwnFamily)
SetsOf(n) == IF n = 0 THEN <<>> ELSE SetsFamily[n]
OwnOf(n) == IF n = 0 THEN <<>> ELSE OwnFamily[n]

\* What may be rendered.
Sources == [sets : Contents, own : RulesOf]

TypeOK ==
    /\ ctl \in DOMAIN SetsFamily /\ mem \in Contents
    /\ \A f \in Files : \A bytes \in {dest[f], tmp[f]} \ {None, Blank, Torn} :
          \/ f = "sets" /\ bytes \in Contents
          \/ f = "own" /\ bytes \in RulesOf
          \/ f = "filters" /\ bytes \in Sources
    /\ acked \in RulesOf /\ sent \subseteq RulesOf
    /\ \A a \in Actors : act[a].fd = None <=> act[a].step # "write"

\* Rendered from c, the file means what c means.
RendersAsMeant(c) ==
    \A root \in Roots, q \in Places :
        BackedUp(computeMerged(SetsOf(c.sets), OwnOf(c.own), root), q)
          <=> Meant(SetsOf(c.sets), OwnOf(c.own), root, q)

Faithful == UNION {IF RendersAsMeant(c) THEN {c} ELSE {} : c \in Sources}

\* The file duplicacy reads leaves out what the rules mean and nothing else:
\* whatever the root, whatever order the sets and the rules came in, each path
\* is backed up exactly when the rule that takes precedence says so
\* (computeMerged, writeRules, anchorPattern).
RenderedAsWritten ==
    Parsed("filters", Blank) \in Faithful \union {Blank}

\* Sets the size gatherer can tell the meaning of: their includes are literal
\* and absolute, and no set that the server keeps for a repo has such excludes.
PlainSets(sets) ==
    \A i \in DOMAIN sets : \A r \in ToSet(sets[i].rules) :
        LET literal == r.pattern.abs /\ ~r.pattern.wild
        IN  IF r.action = "include" THEN literal ELSE ~(literal /\ sets[i].scope = "repo")

SkipsWhatIsLeftOut(sets) ==
    \A e \in AbsoluteExcludePrefixes(sets), root \in Roots, q \in Places :
        (IsStrictPrefix(root, e) /\ IsPrefix(e, root \o q))
            => ~BackedUp(computeMerged(sets, <<>>, root), q)

Conservative == UNION {IF PlainSets(SetsOf(n)) => SkipsWhatIsLeftOut(SetsOf(n))
                       THEN {n} ELSE {} : n \in Contents}

\* The size gatherer skips no directory that a backup walks into: for a repo
\* without rules of its own, and sets as PlainSets says, a path at or below an
\* exclude that AbsoluteExcludePrefixes hands out is not backed up.
SkipIsConservative == mem \in Conservative

\* Rules that a PUT was told are saved are on disk, or rules sent after them:
\* through failed writes, lost requests and crashes at any step.
AckedRulesSurvive ==
    /\ TypeOK
    /\ Parsed("own", 0) \in {acked} \union sent
    /\ dest["own"] \notin {Blank, Torn}

Current == Parsed("filters", Blank) = [sets |-> ctl, own |-> Parsed("own", 0)]

\* The file on disk comes to be, and to stay, the rendering of what the
\* controller holds and what the repo was given, whatever overlapping renders,
\* failed writes and crashes left behind (reconcileLoop).
FilterConverges == <>[]Current
=============================================================================
