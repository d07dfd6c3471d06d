CONSTANTS
    Schedules = {s1}
    Workers = {w1, w2}
    Loop = loop
    NoSchedule = NoSchedule
SPECIFICATION Spec
INVARIANT NeverStartedTwice
CHECK_DEADLOCK FALSE
