CONSTANTS
    Schedules = {s1}
    Workers = {w1, w2}
    Loop = loop
    NoSchedule = NoSchedule
SPECIFICATION FairSpec
INVARIANTS
    LockExcludes
    NeverTwice
    FlagsOwned
PROPERTY
    AllReturn
CHECK_DEADLOCK FALSE
