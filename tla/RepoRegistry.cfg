\* One path: init, bind, delete, ticks, the refresh, scans and a job; the node has other repos.
SPECIFICATION FairSpec
CONSTANTS
    Path = {p1}
    MaxUUID = 1
    Scanner = {s1}
    OtherRepos = TRUE
PROPERTY
    RegisteredIsKept OrphanCleared
