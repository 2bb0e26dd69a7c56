------------------------------ MODULE TreePush ------------------------------
(***************************************************************************)
(* The tree push of src/trees.go.  Every five minutes the walker lists the *)
(* trees of the repos, reports their hashes, sends the ones the controller *)
(* asks for, and then does the same for the backup roots.  A directory     *)
(* whose mtime did not change is not read again: its cached list is part   *)
(* of the new tree, with the very nodes it was built from.  The sizes are  *)
(* written into the nodes on every push, from what DirSizes gathered.      *)
(*                                                                         *)
(* A list is told by its directory and the version it was read at, 0 where *)
(* there is none.  A hash is the tree it is the hash of.  The controller   *)
(* is external.  A walk reads the disk at one moment.                      *)
(***************************************************************************)
EXTENDS Integers, FiniteSets, Sequences, SequencesExt

CONSTANTS
    Dirs,
    Parent,         \* [Dirs -> the directory above, or None]
    Above,          \* [Dirs -> the directory and all above it, by Parent]
    Items, Tops,    \* the trees of both lanes, and where each starts
    Lanes,          \* <<repos, backup roots>>: the items of each, in order
    treeMaxDepth,
    None,
    MaxChanges,     \* bound on changes of directories and of gathered sizes
    MaxTroubles     \* bound on failed reads, calls, and restarts

VARIABLES
    version,    \* [Dirs -> the version of its entries, its mtime]
    sizes,      \* [Dirs -> the gathered size, 0 for none yet]
    blind,      \* directories that cannot be read
    cache,      \* [Dirs -> None or the list of an earlier walk and what is under it]
    lane,       \* the lane under way, 0 between ticks
    todo,       \* items of the lane that are not walked yet
    nodes,      \* [Items -> None or the walked tree in memory, tree and size]
    sum,        \* [Items -> None or the tree that was hashed]
    reported,   \* the manifest of this lane was answered
    want,       \* the items that the controller asked for, not yet sent
    late,       \* PUTs that were given up here and may still arrive
    rows,       \* [items -> None or the tree the controller stores]
    seen,       \* items of the last manifest that arrived for their lane
    changes, troubles

disk == <<version, sizes, blind>>
progress == <<lane, todo, nodes, sum, reported, want>>
vars == <<disk, cache, progress, late, rows, seen, changes, troubles>>

\* A finite chain or tree of directories, and lanes of the items.
TreeConstants ==
    /\ IsFiniteSet(Dirs) /\ Above \in [Dirs -> SUBSET Dirs] /\ Tops \in [Items -> SUBSET Dirs]
    /\ Lanes \in Seq(Seq(Items)) /\ Lanes # <<>> /\ treeMaxDepth \in Nat

\* e is in a tree of i; how deep the walk from t is at e.
Covers(i, e) == Tops[i] \intersect Above[e] # {}
Depth(t, e) == Cardinality(Above[e]) - Cardinality(Above[t])

Init ==
    /\ version = [d \in Dirs |-> 1]
    /\ sizes = [d \in Dirs |-> 0]
    /\ blind = {} /\ late = {} /\ seen = {}
    /\ cache = [d \in Dirs |-> None]
    /\ lane = 0 /\ todo = <<>> /\ reported = FALSE /\ want = {}
    /\ nodes = [i \in Items |-> None] /\ sum = [i \in Items |-> None]
    /\ rows = [i \in Items |-> None]
    /\ changes = 0 /\ troubles = 0

-----------------------------------------------------------------------------
Hit(d) == cache[d] # None /\ cache[d].mtime = version[d]

\* The first directory on the way down from t to e where the walk does not go
\* on by itself.
Stops(t, e) ==
    {d \in Above[e] : t \in Above[d] /\ (Depth(t, d) >= treeMaxDepth \/ Hit(d) \/ d \in blind)}
FirstStop(t, e) == CHOOSE d \in Stops(t, e) : \A x \in Stops(t, e) : Depth(t, d) <= Depth(t, x)

\* walkDir from t: the list of e in the tree, the depth before the cache and
\* the cache before the disk.
walkDir(t, e) ==
    IF Stops(t, e) = {} THEN version[e]
    ELSE LET d == FirstStop(t, e)
         IN  IF Depth(t, d) >= treeMaxDepth \/ ~Hit(d) THEN 0 ELSE cache[d].tree[e]

\* What a walk from t adds to the cache: the directories it read, each with
\* all that is under it in this tree.
Remembered(t) ==
    [d \in Dirs |-> IF t \in Above[d] /\ Stops(t, d) = {}
                    THEN [mtime |-> version[d],
                          tree |-> [e \in Dirs |-> IF d \in Above[e] THEN walkDir(t, e) ELSE 0]]
                    ELSE cache[d]]

\* The directories with a node in a tree: the tops, which are new in every
\* walk, and what the lists name.
HasNode(i, tree, e) == e \in Tops[i] \/ (Covers(i, e) /\ tree[Parent[e]] # 0)

\* The node of e is one object in two trees: both hold the same list.
SharedNode(i, tree, k, e) ==
    /\ Covers(i, e) /\ Covers(k, e) /\ e \notin Tops[i] \union Tops[k]
    /\ tree[Parent[e]] # 0 /\ tree[Parent[e]] = nodes[k].tree[Parent[e]]

\* Mutant: a node that has a size keeps it.
annotateSizes_once(i, tree) ==
    [e \in Dirs |->
        IF ~HasNode(i, tree, e) THEN 0
        ELSE IF rows[i] # None /\ rows[i].size[e] # 0 THEN rows[i].size[e] ELSE sizes[e]]

annotateSizes(i, tree) == [e \in Dirs |-> IF HasNode(i, tree, e) THEN sizes[e] ELSE 0]

\* The trees walked before have nodes in common with the one annotated now.
Restamped(k, i, tree) ==
    [nodes[k] EXCEPT !.size = [e \in Dirs |-> IF SharedNode(i, tree, k, e) THEN sizes[e] ELSE @[e]]]

\* The hash stands for what it is the hash of.
treeSum(n) == n

-----------------------------------------------------------------------------
\* The tick starts with the lane of the repos.
tick ==
    /\ lane = 0
    /\ lane' = 1 /\ todo' = Lanes[1]
    /\ UNCHANGED <<disk, cache, nodes, sum, reported, want, late, rows, seen, changes, troubles>>

\* walkRoot or walkBackupRootsUmbrella, annotateSizes, treeSum of the next item.
walk ==
    /\ todo # <<>>
    /\ LET i == Head(todo)
           TopOf(e) == CHOOSE t \in Tops[i] : t \in Above[e]
           tree == [e \in Dirs |-> IF Covers(i, e) THEN walkDir(TopOf(e), e) ELSE 0]
           new == [tree |-> tree, size |-> annotateSizes(i, tree)]
       IN  /\ nodes' = [k \in Items |-> IF k = i THEN new
                                        ELSE IF nodes[k] = None THEN None ELSE Restamped(k, i, tree)]
           /\ sum' = [sum EXCEPT ![i] = treeSum(new)]
           /\ cache' = [d \in Dirs |-> IF Covers(i, d) THEN Remembered(TopOf(d))[d] ELSE cache[d]]
    /\ todo' = Tail(todo)
    /\ UNCHANGED <<disk, lane, reported, want, late, rows, seen, changes, troubles>>

\* A top that is not there is not reported.
walkFails ==
    /\ todo # <<>> /\ troubles < MaxTroubles
    /\ todo' = Tail(todo)
    /\ seen' = seen \ {Head(todo)}
    /\ troubles' = troubles + 1
    /\ UNCHANGED <<disk, cache, lane, nodes, sum, reported, want, late, rows, changes>>

Walked == {i \in Items : nodes[i] # None}

\* External: a tree of the same root is there already, in either lane.
Held(i) == sum[i] \in {rows[k] : k \in {k \in Items : Tops[k] = Tops[i]}}

\* The manifest: every item with its hash; the answer names what is missing.
manifest ==
    /\ lane > 0 /\ todo = <<>> /\ Walked # {} /\ ~reported
    /\ reported' = TRUE
    /\ rows' = [i \in Items |-> IF i \in Walked /\ Held(i) THEN sum[i] ELSE rows[i]]
    /\ seen' = (seen \ Range(Lanes[lane])) \union Walked
    /\ want' = {i \in Walked : ~Held(i)}
    /\ UNCHANGED <<disk, cache, lane, todo, nodes, sum, late, changes, troubles>>

\* The manifest is lost: the lane is over for this tick.
manifestFails ==
    /\ lane > 0 /\ todo = <<>> /\ Walked # {} /\ ~reported /\ troubles < MaxTroubles
    /\ reported' = TRUE
    /\ seen' = seen \ Range(Lanes[lane])
    /\ troubles' = troubles + 1
    /\ UNCHANGED <<disk, cache, lane, todo, nodes, sum, want, late, rows, changes>>

\* The tree as its nodes are now.
gzipTree(i) == nodes[i]

\* External: the controller hashes what it gets and refuses what was not
\* announced.
Stored(i, announced, body) == IF body = announced THEN [rows EXCEPT ![i] = body] ELSE rows

\* They are sent in the order of the lane.
NextWanted ==
    CHOOSE i \in want :
        \E n \in DOMAIN Lanes[lane] :
            Lanes[lane][n] = i /\ \A m \in 1..(n - 1) : Lanes[lane][m] \notin want

put ==
    /\ want # {}
    /\ LET i == NextWanted
       IN  rows' = Stored(i, sum[i], gzipTree(i)) /\ want' = want \ {i}
    /\ UNCHANGED <<disk, cache, lane, todo, nodes, sum, reported, late, seen, changes, troubles>>

\* A PUT that fails here may have been lost or be on its way; the others go on.
putFails ==
    /\ want # {} /\ troubles < MaxTroubles
    /\ LET i == NextWanted
       IN  /\ want' = want \ {i}
           /\ late' \in {late, late \union {<<i, sum[i], gzipTree(i)>>}}
    /\ troubles' = troubles + 1
    /\ UNCHANGED <<disk, cache, lane, todo, nodes, sum, reported, rows, seen, changes>>

\* After the repos the backup roots, after these the next tick's time.
laneEnds ==
    /\ lane > 0 /\ todo = <<>> /\ (reported \/ Walked = {}) /\ want = {}
    /\ LET n == IF lane = Len(Lanes) THEN 0 ELSE lane + 1
       IN  lane' = n /\ todo' = IF n = 0 THEN <<>> ELSE Lanes[n]
    /\ nodes' = [i \in Items |-> None] /\ sum' = nodes' /\ reported' = FALSE
    /\ UNCHANGED <<disk, cache, want, late, rows, seen, changes, troubles>>

restart ==
    /\ troubles < MaxTroubles
    /\ cache' = [d \in Dirs |-> None]
    /\ lane' = 0 /\ todo' = <<>> /\ reported' = FALSE /\ want' = {}
    /\ nodes' = [i \in Items |-> None] /\ sum' = nodes'
    /\ troubles' = troubles + 1
    /\ UNCHANGED <<disk, late, rows, seen, changes>>

-----------------------------------------------------------------------------
\* External: a late PUT arrives, with the body it was sent with.
arrives(w) ==
    /\ w \in late
    /\ late' = late \ {w}
    /\ rows' = Stored(w[1], w[2], w[3])
    /\ UNCHANGED <<disk, cache, progress, seen, changes, troubles>>

\* External: the reaper drops what nobody has reported for a time.
reap(i) ==
    /\ i \notin seen /\ rows[i] # None
    /\ rows' = [rows EXCEPT ![i] = None]
    /\ UNCHANGED <<disk, cache, progress, late, seen, changes, troubles>>

\* Entries come and go in d; the gatherer finds another size; d cannot be read
\* for a time.
change(d) ==
    /\ changes < MaxChanges
    /\ changes' = changes + 1
    /\ version' = [version EXCEPT ![d] = @ + 1]
    /\ UNCHANGED <<sizes, blind, cache, progress, late, rows, seen, troubles>>

gathered(d) ==
    /\ changes < MaxChanges
    /\ changes' = changes + 1
    /\ sizes' = [sizes EXCEPT ![d] = @ + 1]
    /\ UNCHANGED <<version, blind, cache, progress, late, rows, seen, troubles>>

blinded(d) ==
    /\ d \notin blind /\ troubles < MaxTroubles
    /\ blind' = blind \union {d}
    /\ troubles' = troubles + 1
    /\ UNCHANGED <<version, sizes, cache, progress, late, rows, seen, changes>>

readable(d) ==
    /\ d \in blind
    /\ blind' = blind \ {d}
    /\ UNCHANGED <<version, sizes, cache, progress, late, rows, seen, changes, troubles>>

Walker == tick \/ walk \/ manifest \/ put \/ laneEnds
Fails == walkFails \/ manifestFails \/ putFails \/ restart
Changes == \E d \in Dirs : change(d) \/ gathered(d) \/ blinded(d)
Readable == \E d \in Dirs : readable(d)
Late == \E w \in late : arrives(w)
Reaps == \E i \in Items : reap(i)

Next == Walker \/ Fails \/ Changes \/ Readable \/ Late \/ Reaps

\* The ticker goes on, every call has its timeout, and a request that is under
\* way arrives; errors of reading do not last.
Fairness ==
    /\ WF_vars(Walker)
    /\ WF_vars(Late)
    /\ WF_vars(Readable)

Spec == Init /\ [][Next]_vars /\ Fairness

-----------------------------------------------------------------------------
TypeOK ==
    /\ version \in [Dirs -> Nat] /\ sizes \in [Dirs -> Nat] /\ blind \subseteq Dirs
    /\ lane \in 0..Len(Lanes) /\ reported \in BOOLEAN
    /\ seen \subseteq Items
    /\ \A d \in Dirs : cache[d] # None => cache[d].tree \in [Dirs -> Nat]

\* A tree that has no directory in common with another of its lane is sent as
\* it was announced, though its nodes are those of the cache and of the trees
\* of the other lane, and sizes are found all the time (walkDir, annotateSizes,
\* pushTreeLane: "the two sides hash one byte stream").
PutMatchesManifest ==
    \A i \in want :
        (\A k \in Range(Lanes[lane]) \ {i}, e \in Dirs : ~(Covers(i, e) /\ Covers(k, e)))
            => gzipTree(i) = sum[i]

Arrived(i) ==
    /\ rows[i] # None
    /\ \A t \in Tops[i] : rows[i].tree[t] = version[t]
    /\ \A e \in Dirs : HasNode(i, rows[i].tree, e) => rows[i].size[e] = sizes[e]

AllArrived == \A i \in Items : Arrived(i)

\* The controller comes to hold the entries of every root as they are and the
\* size of every directory it shows, whatever was cached, refused because of a
\* shared node, lost, late, reaped, unreadable for a time or cut off by a restart.
TreeArrives == <>[]AllArrived
=============================================================================
