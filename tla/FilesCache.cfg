\* Two repos on the shared pool, crashes and failures; the warmer alone writes.
SPECIFICATION Spec
CONSTANTS
    A = A
    B = B
    Repos = {A, B}
    Targets <- OnDefault
    Revs = 2
    Size <- Growing
    Handlers = {}
    WarmN = 2
    MaxBytes = 3
    RowMax = 5
    Ceiling = 6
    PinFloor = 1
    MaxWarm = 3
    MaxFaults = 1
INVARIANT  FailedRepoKeepsRows
  
SYMMETRY Swap
