SPECIFICATION Spec
CONSTANTS
    Users = {root, u1, u2}
    Founder = root
    Roles = {r1}
    NoRole = NoRole
    Servers = {s1}
    s1 = s1 u1 = u1 u2 = u2
    Perms = {"start"}
    Entries <- SomeEntries
    Patches <- SomePatches
    Keep = Keep
    Requests = {t1, t2}
    MaxArrivals = 4
SYMMETRY Symmetry
PROPERTIES GoneStaysGone GrantBounded
CHECK_DEADLOCK FALSE
