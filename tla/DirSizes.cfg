\* A root that takes longer than its timeout, over slow subtrees; a change and a crash.
SPECIFICATION FullFairSpec
CONSTANTS
    r = r
    q = q
    a = a
    b = b
    c = c
    Dirs = {r, a, b}
    Parent <- Flat
    Roots <- OneRoot
    Repos = {a}
    Cost <- OneEach
    Small = 4
    Large = 10
    LargeFiles = 2
    SlowWalk = 0
    WalkTimeout = 3
    KeepDepth = 0
    KeepMinFiles = 2
    MaxEntries = 4
    MaxFiles = 1
    MaxChanges = 1
    MaxCrashes = 1
    AgeCap = 15
    QuietCap = 27
INVARIANT  TrueWhenQuiet
PROPERTY SizedInTheEnd
