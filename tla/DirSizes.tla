------------------------------ MODULE DirSizes ------------------------------
(***************************************************************************)
(* The directory-size gatherer of src/tree_sizes.go: passes over the       *)
(* backup roots, the bottom-up walk that reuses cached totals of subtrees  *)
(* that are not due, the worthiness filter, the entry cap, the file the    *)
(* cache is saved to, and the sleep between passes.                        *)
(*                                                                         *)
(* Time is discrete and kept as ages (how long ago something happened, up  *)
(* to AgeCap).  It passes while a directory is read (Cost), while the      *)
(* gatherer sleeps and while the agent is down.  A total is a number of    *)
(* files; bytes are summed alongside and add nothing.  The tree changes    *)
(* under the walk: files, directories, permissions, the exclude rules the  *)
(* controller pushes and the foreign mounts the guard tells the walk to    *)
(* skip.                                                                   *)
(***************************************************************************)
EXTENDS Integers, FiniteSets, Sequences, FiniteSetsExt, Functions

CONSTANTS
    Dirs, Parent,      \* the directory tree; Parent[d] = "none" for a root
    Roots,             \* BackupRoots, in order
    Repos,             \* directories a repo is registered at
    Cost,              \* how long it takes to read a directory
    Small, Large,      \* TreeSizeSmallRefresh, TreeSizeLargeRefresh
    LargeFiles,        \* TreeSizeLargeFileThreshold
    SlowWalk,          \* TreeSizeSlowWalk
    WalkTimeout,       \* TreeSizeWalkTimeout
    KeepDepth,         \* TreeSizeKeepDepth
    KeepMinFiles,      \* TreeSizeKeepMinFiles
    MaxEntries,        \* TreeSizeMaxEntries
    MaxFiles,          \* bound: files directly in a directory
    MaxChanges,        \* bound: changes of the tree
    MaxCrashes,        \* bound: crashes and restarts
    AgeCap,            \* bound: ages are not told apart beyond it
    QuietCap           \* bound: the same for the age of the last change

ASSUME DirSizesAssumption ==
    /\ IsFiniteSet(Dirs)
    /\ Parent \in [Dirs -> Dirs \union {"none"}] /\ "none" \notin Dirs
    /\ \A S \in SUBSET Dirs : S # {} => \E d \in S : Parent[d] \notin S  \* no cycle
    /\ Roots \in Seq(Dirs) /\ Repos \subseteq Dirs
    /\ Cost \in [Dirs -> Nat]
    /\ Small \in Nat \ {0} /\ Large \in Nat /\ Small <= Large
    /\ LargeFiles \in Nat /\ SlowWalk \in Nat /\ WalkTimeout \in Nat \ {0}
    /\ KeepDepth \in Nat /\ KeepMinFiles \in Nat /\ MaxEntries \in Nat \ {0}
    /\ MaxFiles \in Nat /\ MaxChanges \in Nat /\ MaxCrashes \in Nat
    /\ AgeCap \in Nat /\ QuietCap \in Nat
    /\ AgeCap > Large
    /\ AgeCap > Large + Len(Roots) * SumFunctionOnSet(Cost, Dirs)

VARIABLES
    files,      \* the tree: files directly in each directory
    gone,       \* directories that do not exist
    closed,     \* directories that cannot be opened
    rules,      \* directories under an exclude rule
    guard,      \* foreign mounts this pass does not descend into
    cache,      \* dirSizeCache.m: directory -> [n, age, walk]
    disk,       \* dir_sizes.v2.json
    attempt,    \* lastAttempt: root -> age
    pc,         \* the gatherer: "down", "idle", "pass", "walk" or "sleep"
    todoRoots,  \* the roots this pass has still to look at
    passAge,    \* how long ago the pass began
    walkAge,    \* how long the walk of the current root has been running
    dirty,      \* something was walked in this pass
    stack,      \* the frames of walk, the innermost last
    quiet,      \* history: how long ago the tree last changed
    changes,    \* history: changes so far
    crashes     \* history: crashes so far

tree == <<files, gone, closed, rules>>
pass == <<guard, todoRoots, passAge, dirty>>
history == <<quiet, changes, crashes>>
vars == <<tree, pass, cache, disk, attempt, pc, walkAge, stack, history>>

-----------------------------------------------------------------------------
Kids(d) == {c \in Dirs : Parent[c] = d}
RootSet == Range(Roots)
Empty == [d \in {} |-> 0]

\* d and the directories above it.
Above == [d \in Dirs |->
            {e \in Dirs : \A S \in SUBSET Dirs :
               d \in S /\ (\A x \in S : Parent[x] \in S \union {"none"}) => e \in S}]
Subtree(d) == {e \in Dirs : d \in Above[e]}

\* d or a directory above it is in S (pathUnderAny).
Under(d, S) == Above[d] \intersect S # {}

\* What the loop over the entries of d goes on with.
Visible(d) == {c \in Kids(d) : ~Under(c, rules) /\ c \notin gone}

\* What os.Open lets the walk read.
opens(d) == d \notin closed /\ ~Under(d, gone)

\* The directories a walk of d with no cache would read now.
Reached(d) ==
    {e \in Subtree(d) : \A x \in Above[e] \intersect Subtree(d) :
       opens(x) /\ (x # d => ~Under(x, rules) /\ x \notin guard)}

\* The file count it would find.
Total(d) == SumFunctionOnSet(files, Reached(d))

\* roots: the backup roots that no rule excludes.
Allowed(r) == ~Under(r, rules)

\* rebuildAnchors: where a pushed tree can be rooted.
isAnchor(d) == (d \in RootSet /\ Allowed(d)) \/ d \in Repos

cadence(e) == IF e.n > LargeFiles \/ e.walk > SlowWalk THEN Large ELSE Small

\* Mutant: a cached total is reused whatever its age.
fresh_always(d) == d \in DOMAIN cache

\* A cached total young enough to be reused.
fresh(d) == d \in DOMAIN cache /\ cache[d].age < cadence(cache[d])

\* due, with the time the pass began.
due(r) == r \in DOMAIN cache => cache[r].age - passAge >= cadence(cache[r])

\* Mutant: a slow directory deep in the tree is not kept.
worthCaching_noSlow(depth, e) == depth <= KeepDepth \/ e.n >= KeepMinFiles

worthCaching(depth, e) ==
    depth <= KeepDepth \/ e.n >= KeepMinFiles \/ e.walk > SlowWalk

drop(d) == Restrict(cache, DOMAIN cache \ {d})
put(d, e) == [x \in DOMAIN cache \union {d} |-> IF x = d THEN e ELSE cache[x]]

-----------------------------------------------------------------------------
(* Time.                                                                   *)

Older(a, t) == Min({AgeCap, a + t})
Aged(c, t) == [d \in DOMAIN c |-> [c[d] EXCEPT !.age = Older(@, t)]]

Elapse(t) ==
    /\ cache' = Aged(cache, t)
    /\ disk' = Aged(disk, t)
    /\ attempt' = [r \in DOMAIN attempt |-> Older(attempt[r], t)]
    /\ quiet' = Min({QuietCap, quiet + t})

\* ctx.Err: the walk of this root has used up its time.
expired == walkAge >= WalkTimeout

-----------------------------------------------------------------------------
(* The tree.                                                               *)

Init ==
    /\ files \in [Dirs -> 0..MaxFiles]
    /\ gone = {} /\ closed = {} /\ rules = {} /\ guard = {}
    /\ cache = Empty /\ disk = Empty /\ attempt = Empty
    /\ pc = "idle" /\ todoRoots = {} /\ passAge = 0 /\ walkAge = 0
    /\ dirty = FALSE /\ stack = <<>>
    /\ quiet = 0 /\ changes = 0 /\ crashes = 0

Toggle(S, d) == (S \ {d}) \union ({d} \ S)

\* External: the users of the host, and the controller's filter sets.
treeChanges ==
    /\ changes < MaxChanges
    /\ \E d \in Dirs :
         \/ /\ \E n \in 0..MaxFiles : n # files[d] /\ files' = [files EXCEPT ![d] = n]
            /\ UNCHANGED <<gone, closed, rules>>
         \/ closed' = Toggle(closed, d) /\ UNCHANGED <<files, gone, rules>>
         \/ rules' = Toggle(rules, d) /\ UNCHANGED <<files, gone, closed>>
         \/ /\ d \notin RootSet
            /\ gone' = Toggle(gone, d) /\ UNCHANGED <<files, closed, rules>>
    /\ changes' = changes + 1
    /\ quiet' = 0
    /\ UNCHANGED <<pass, cache, disk, attempt, pc, walkAge, stack, crashes>>

-----------------------------------------------------------------------------
(* runPass.                                                                *)

\* The guard is rebuilt; if the mount table cannot be read, or the mounts
\* have changed, the walk sees another tree than the pass before.
beginPass ==
    /\ pc = "idle"
    /\ pc' = "pass"
    /\ todoRoots' = {r \in RootSet : Allowed(r)}
    /\ \/ UNCHANGED <<guard, quiet, changes>>
       \/ /\ changes < MaxChanges
          /\ \E d \in Dirs \ RootSet : guard' = Toggle(guard, d)
          /\ quiet' = 0 /\ changes' = changes + 1
    /\ UNCHANGED <<tree, passAge, dirty, cache, disk, attempt, walkAge, stack,
                   crashes>>

\* The loop goes by their order in the configuration.
nextRoot == Roots[Min({i \in DOMAIN Roots : Roots[i] \in todoRoots})]

skipRoot ==
    /\ pc = "pass" /\ todoRoots # {} /\ ~due(nextRoot)
    /\ todoRoots' = todoRoots \ {nextRoot}
    /\ UNCHANGED <<tree, guard, passAge, dirty, cache, disk, attempt, pc, walkAge,
                   stack, history>>

walkRoot ==
    /\ pc = "pass" /\ todoRoots # {} /\ due(nextRoot)
    /\ pc' = "walk"
    /\ walkAge' = 0
    /\ stack' = <<[dir |-> "pass", depth |-> -1, todo |-> {nextRoot},
                   sum |-> 0, age |-> 0, read |-> TRUE]>>
    /\ UNCHANGED <<tree, pass, cache, disk, attempt, history>>

\* The walk is over, with a total or with an error: the attempt counts.
rootDone ==
    /\ attempt' = [r \in DOMAIN attempt \union {nextRoot} |->
                     IF r = nextRoot THEN 0 ELSE attempt[r]]
    /\ todoRoots' = todoRoots \ {nextRoot}
    /\ dirty' = TRUE
    /\ pc' = "pass"
    /\ stack' = <<>>
    /\ walkAge' = 0

walkReturns ==
    /\ pc = "walk" /\ Len(stack) = 1 /\ stack[1].todo = {}
    /\ rootDone
    /\ UNCHANGED <<tree, guard, passAge, cache, disk, history>>

-----------------------------------------------------------------------------
(* walk, one action per directory visited.                                 *)

Top == stack[Len(stack)]
Below == SubSeq(stack, 1, Len(stack) - 1)

\* The child's total is added and the loop goes on.
Return(frames, d, n) ==
    LET f == frames[Len(frames)]
    IN  [frames EXCEPT ![Len(frames)] =
           [f EXCEPT !.todo = @ \ {d}, !.sum = @ + n]]

\* An exclude rule or the mount guard takes a child out of the walk.
Skipped(d) == Len(stack) > 1 /\ (Under(d, rules) \/ d \in guard)

Calls(d) ==
    pc = "walk" /\ Top.read /\ d \in Top.todo /\ ~Skipped(d) /\ ~expired

reuse(d) ==
    /\ Calls(d) /\ fresh(d)
    /\ stack' = Return(stack, d, cache[d].n)
    /\ UNCHANGED <<tree, pass, cache, disk, attempt, pc, walkAge, history>>

\* os.Open fails: an empty entry makes the scheduler back off.
openFails(d) ==
    /\ Calls(d) /\ ~fresh(d) /\ ~opens(d)
    /\ cache' = put(d, [n |-> 0, age |-> 0, walk |-> 0])
    /\ stack' = Return(stack, d, 0)
    /\ UNCHANGED <<tree, pass, disk, attempt, pc, walkAge, history>>

openDir(d) ==
    /\ Calls(d) /\ ~fresh(d) /\ opens(d)
    /\ stack' = Append(stack, [dir |-> d,
                               depth |-> IF isAnchor(d) THEN 0 ELSE Top.depth + 1,
                               todo |-> {}, sum |-> 0, age |-> 0, read |-> FALSE])
    /\ UNCHANGED <<tree, pass, cache, disk, attempt, pc, walkAge, history>>

\* ReadDir and the stats of the files, the throttle pause included.
readDir ==
    /\ pc = "walk" /\ ~Top.read
    /\ Elapse(Cost[Top.dir])
    /\ passAge' = Older(passAge, Cost[Top.dir])
    /\ walkAge' = Older(walkAge, Cost[Top.dir])
    /\ stack' = [i \in 1..Len(stack) |->
                   LET f == [stack[i] EXCEPT !.age = Older(@, Cost[Top.dir])]
                   IN  IF i < Len(stack) THEN f
                       ELSE [f EXCEPT !.read = TRUE, !.sum = files[f.dir],
                                      !.todo = Kids(f.dir) \ gone]]
    /\ UNCHANGED <<tree, guard, todoRoots, dirty, pc, changes, crashes>>

skipChild(d) ==
    /\ pc = "walk" /\ Top.read /\ d \in Top.todo /\ Skipped(d)
    /\ stack' = Return(stack, d, 0)
    /\ UNCHANGED <<tree, pass, cache, disk, attempt, pc, walkAge, history>>

\* Every entry is summed: the total is stored if it is worth a slot.
leave ==
    /\ pc = "walk" /\ Len(stack) > 1 /\ Top.read /\ Top.todo = {} /\ ~expired
    /\ LET e == [n |-> Top.sum, age |-> Top.age, walk |-> Top.age]
       IN  cache' = IF worthCaching(Top.depth, e) THEN put(Top.dir, e)
                    ELSE drop(Top.dir)
    /\ stack' = Return(Below, Top.dir, Top.sum)
    /\ UNCHANGED <<tree, pass, disk, attempt, pc, walkAge, history>>

\* Out of time: the error goes up through every frame, nothing is cached.
timeout ==
    /\ pc = "walk" /\ expired /\ Top.read
    /\ Len(stack) > 1 \/ stack[1].todo # {}
    /\ rootDone
    /\ UNCHANGED <<tree, guard, passAge, cache, disk, history>>

-----------------------------------------------------------------------------
(* After the roots: enforceCap, save, sleep.                               *)

\* The MaxEntries largest totals, in any order among equals.
enforceCap(c) ==
    IF Cardinality(DOMAIN c) <= MaxEntries THEN {c}
    ELSE {Restrict(c, K) : K \in
            {K \in kSubset(MaxEntries, DOMAIN c) :
               \A d \in K, e \in DOMAIN c \ K : c[d].n >= c[e].n}}

\* save writes a temporary file and renames it: it succeeds, or fails and the
\* file stays as it was.
save(c) == disk' \in {c, disk}

persist ==
    /\ pc = "pass" /\ todoRoots = {}
    /\ IF dirty
       THEN /\ cache' \in enforceCap(cache)
            /\ save(cache')
       ELSE UNCHANGED <<cache, disk>>
    /\ pc' = "sleep"
    /\ passAge' = 0 /\ dirty' = FALSE
    /\ UNCHANGED <<tree, guard, todoRoots, attempt, walkAge, stack, history>>

\* untilNextDue: at least a minute (here 1), at most the small cadence.
untilNextDue ==
    LET wait(r) == IF r \notin DOMAIN attempt THEN 1
                   ELSE (IF r \in DOMAIN cache THEN cadence(cache[r]) ELSE Small)
                          - attempt[r]
        all == {Small} \union {wait(r) : r \in {r \in RootSet : Allowed(r)}}
    IN  Max({1, Min(all)})

sleep ==
    /\ pc = "sleep"
    /\ Elapse(untilNextDue)
    /\ pc' = "idle"
    /\ UNCHANGED <<tree, pass, walkAge, stack, changes, crashes>>

forget ==
    /\ cache' = Empty /\ attempt' = Empty /\ stack' = <<>> /\ todoRoots' = {}
    /\ passAge' = 0 /\ walkAge' = 0 /\ dirty' = FALSE

\* The process dies; what was not saved is lost.
crash ==
    /\ pc # "down" /\ crashes < MaxCrashes
    /\ crashes' = crashes + 1
    /\ pc' = "down"
    /\ forget
    /\ UNCHANGED <<tree, guard, disk, quiet, changes>>

\* The context is cancelled: between two roots the pass returns at once, in a
\* walk it saves first.
shutdown ==
    /\ pc = "walk" \/ (pc = "pass" /\ todoRoots # {})
    /\ crashes < MaxCrashes
    /\ crashes' = crashes + 1
    /\ pc' = "down"
    /\ IF pc = "walk"
       THEN \E c \in enforceCap(cache) : save(c)
       ELSE UNCHANGED disk
    /\ forget
    /\ UNCHANGED <<tree, guard, quiet, changes>>

\* load, after the file has grown older by t.
load(t) == Aged(disk, t)

\* prune drops what the rules exclude by now.
prune(c) == Restrict(c, {d \in DOMAIN c : ~Under(d, rules)})

\* Start, after the agent was down for a while; what was pruned is saved, if
\* the save succeeds.
restart ==
    /\ pc = "down"
    /\ \E t \in {0, Small} :
         /\ cache' = prune(load(t))
         /\ disk' \in {load(t), prune(load(t))}
         /\ quiet' = Min({QuietCap, quiet + t})
    /\ pc' = "idle"
    /\ UNCHANGED <<tree, pass, attempt, walkAge, stack, changes, crashes>>

-----------------------------------------------------------------------------
Gather ==
    \/ beginPass \/ skipRoot \/ walkRoot \/ walkReturns
    \/ \E d \in Dirs : reuse(d) \/ openFails(d) \/ openDir(d) \/ skipChild(d)
    \/ readDir \/ leave \/ timeout \/ persist \/ sleep \/ restart

Next == Gather \/ treeChanges \/ crash \/ shutdown

Spec == Init /\ [][Next]_vars

\* The gatherer's goroutine runs on, and a crashed agent is restarted.
FairSpec == Spec /\ WF_vars(Gather)

-----------------------------------------------------------------------------
Entries == [n : 0..MaxFiles * Cardinality(Dirs), age : 0..AgeCap, walk : 0..AgeCap]
IsCache(c) == DOMAIN c \subseteq Dirs /\ \A d \in DOMAIN c : c[d] \in Entries

TypeOK ==
    /\ files \in [Dirs -> 0..MaxFiles]
    /\ gone \subseteq Dirs /\ closed \subseteq Dirs /\ rules \subseteq Dirs
    /\ guard \subseteq Dirs
    /\ IsCache(cache) /\ IsCache(disk)
    /\ DOMAIN attempt \subseteq RootSet
    /\ \A r \in DOMAIN attempt : attempt[r] \in 0..AgeCap
    /\ pc \in {"down", "idle", "pass", "walk", "sleep"}
    /\ todoRoots \subseteq RootSet
    /\ passAge \in 0..AgeCap /\ walkAge \in 0..AgeCap /\ dirty \in BOOLEAN
    /\ quiet \in 0..QuietCap

\* How many levels of directories there are below d.
Height(d) == Max({Cardinality(Above[e]) - Cardinality(Above[d]) : e \in Subtree(d)})

(***************************************************************************)
(* A cached total is never partial, and is stale by a bounded time only:   *)
(* if the tree has not changed since one large cadence per level below the *)
(* directory before the total was computed, the total is what a full walk  *)
(* would find, whatever was reused, dropped, evicted, timed out, unreadable*)
(* or reloaded on the way (walk: "parents are NOT cached partial").        *)
(***************************************************************************)
TrueWhenQuiet ==
    /\ TypeOK
    /\ \A d \in DOMAIN cache :
          cache[d].age < AgeCap /\ quiet > cache[d].age + Height(d) * Large
            => cache[d].n = Total(d)

(***************************************************************************)
(* tree_sizes.go:16: "A directory refreshes every TreeSizeSmallRefresh":   *)
(* after a pass, no directory of the small cadence is two cadences old.    *)
(***************************************************************************)
SmallRefreshed ==
    pc = "sleep" => \A d \in DOMAIN cache :
        cadence(cache[d]) = Small => cache[d].age < 2 * Small

(***************************************************************************)
(* tree_sizes.go:67: "Unknown must not render as zero": in a tree at rest  *)
(* a cached total of zero is that of a directory without files.            *)
(***************************************************************************)
ZeroIsGenuine ==
    \A d \in DOMAIN cache : cache[d].n = 0 /\ quiet > cache[d].age => files[d] = 0

(***************************************************************************)
(* Walks that run out of time resume: once the tree is at rest, the size   *)
(* of every backup root is there, and right, again and again.              *)
(***************************************************************************)
SizedInTheEnd ==
    \A r \in RootSet :
        []<>(~Allowed(r) \/ (r \in DOMAIN cache /\ cache[r].n = Total(r)))
=============================================================================
