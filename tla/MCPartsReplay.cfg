SPECIFICATION Spec
CONSTANTS
    Moving = {"login"}
    Secrets = {s1, s2}
    NoSecret = NoSecret
    Tokens = {p1}
    Sessions = {k1}
    Handlers = {t1, t2}
    PendingTTL = 0
    EnrolTTL = 0
    FirstTime = 2
    LastTime = 3
    MaxArrivals = 3
    Keys = {a1, a2, a3}
    Window = 2
    MaxHits = 2
    MaxTracked = 2
    Streams = {x1, x2}
    Capacity = 3
    Burst = 2
    Queue = 2
    MaxLines = 5
    MaxText = 7
    TicksPerMinute = 2
    MinutesPerDay = 3
    DaysPerWeek = 2
    Intervals = {2}
    DaySets = {{}, {0}}
    Horizon = 16
    MaxEdits = 2
    Fields = {f1, f2}
    Values = {v1, v2}
    Threads = {b1, b2}
    NoFile = NoFile
    MaxFiles = 3
    MaxBackups = 1
    Attempts = 0
    Keep = 1
    Seconds = {1}
    MaxReboots = 1
SYMMETRY Symmetry
PROPERTY NoReplay
CHECK_DEADLOCK FALSE
