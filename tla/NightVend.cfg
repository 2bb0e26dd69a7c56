\* A night with one thing going wrong and one request; and two repos that share
\* a storage while every credential is rotated once.
SPECIFICATION SideSpec
CONSTANTS
    Jobs = {1, 2, 3, 4, 5, 6, 7}
    action <- MCActions
    storage <- MCStorages
    Manual = {6, 7}
    Storages = {"local", "offsite"}
    Source = "local"
    MaxConcurrentCopies = 1
    MaxConcurrentMaint = 1
    TailsKeepUp = TRUE
    MaxTroubles = 1
    MaxRequests = 1
    c1 = c1
    c2 = c2
    r1 = r1
    r2 = r2
    Cred = {c1, c2}
    Call = {r1, r2}
    Credentials <- TwoRepos
    MaxAttempts = 2
    MaxVersion = 2
INVARIANTS CheckSeesRetained CheckAfterPrune RollupCurrent AllOrNothing NoKeyFileLeft
PROPERTIES  CacheNeverRollsBack RotationTakesEffect
