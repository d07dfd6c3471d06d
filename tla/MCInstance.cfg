SPECIFICATION FairSpec
CONSTANTS
    Callers = {c1, c2}
    MaxStarts = 2
    CrashLimit = 1
    Window = 2
    MaxTime = 0
INVARIANTS
    OneProcess
    ExitClassified
    KillsOnlyAsked
    StopAllStops
PROPERTIES
    Lifecycle
    CallsReturn
CHECK_DEADLOCK FALSE
