\* Two listings compete for two bytes; the third exceeds the row cap, the fourth the ceiling.
SPECIFICATION ThinningSpec
CONSTANTS
    A = A
    B = B
    Repos = {A}
    Targets <- OneRepo
    Revs = 4
    Size <- Growing
    Handlers = {h1}
    WarmN = 4
    MaxBytes = 2
    RowMax = 2
    Ceiling = 3
    PinFloor = 1
    MaxWarm = 4
    MaxFaults = 0
PROPERTY Settles 
