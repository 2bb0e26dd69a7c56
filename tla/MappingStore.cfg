\* Three callers, two paths of two writes each, any failure, any kill.
SPECIFICATION StoreSpec
CONSTANTS
    MappedPath = {p1, p2}
    Caller = {c1, c2, c3}
    Nobody = Nobody
    Torn = Torn
    NoTmp = NoTmp
    MaxWrites = 2
INVARIANT
    AckedIsDurable
PROPERTY
    Implements
