\* A job starts, or is cancelled and dying, between guard and wipe.
SPECIFICATION Spec
CONSTANTS
    Path = {p1}
    MaxUUID = 1
    Scanner = {s1}
    OtherRepos = FALSE
PROPERTY NoWipeUnderJob
