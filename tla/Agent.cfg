SPECIFICATION FairSpec
CONSTANTS
    Users = {u1, u2}
    Servers = {s1}
    Runs = {r1, r2}
    Clicks = {c1}
    MaxConvs = 1
    MaxHistory = 3
    MaxIter = 2
    MaxCalls = 2
    MaxTurns = 2
    MaxAsks = 1
INVARIANTS NoTurnLost HistoryReplayable MemoryBounded
PROPERTIES GateKept EveryoneReturns
