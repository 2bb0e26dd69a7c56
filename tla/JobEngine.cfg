\* Two check jobs and the warmer share one maintenance slot; the ring keeps one job.
SPECIFICATION FairSpec
CONSTANTS
    Jobs = {j1, j2}
    Actions = {"check"}
    MaxConcurrentCopies = 1
    MaxConcurrentMaint = 1
    RecentJobsRetained = 1
INVARIANTS
    ChildrenWithinCap
    TokensAccounted
    LiveChildIsCounted
PROPERTIES
    ImplementsLife
    QueueMoves
    CancelTakesEffect
