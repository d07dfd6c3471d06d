SPECIFICATION Spec
CONSTANTS
    Callers = {c1}
    MaxStarts = 4
    CrashLimit = 2
    Window = 2
    MaxTime = 3
CONSTRAINT NoReadyLine
INVARIANT RestartBudget
CHECK_DEADLOCK FALSE
