SPECIFICATION Spec
CONSTANTS
    u1 = u1 u2 = u2 s1 = s1 s2 = s2 r1 = r1 r2 = r2
    NoUser = NoUser NoSession = NoSession
    Users <- TwoUsers
    Sessions <- TwoSessions
    Requests <- TwoRequests
    MaxFails = 0
    MaxBoots = 0
PROPERTY NeverLockedOut
CHECK_DEADLOCK FALSE
