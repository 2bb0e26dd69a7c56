\* Two requests whose clients may stall, the warmer, a maintenance job and a crash.
SPECIFICATION FairSpec
CONSTANTS
    h1 = h1
    h2 = h2
    h3 = h3
    Handlers = {h1, h2}
    Keys = {k1}
    Wanted = k1
    MaintJobs = {c1}
    ListSlots = 1
    HitSlots = 1
    MaintSlots = 1
    MaxLost = 1
    MaxCrashes = 1
INVARIANT  SpoolOwned 
PROPERTY RequestServed WarmerNotStarved
