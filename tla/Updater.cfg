SPECIFICATION FairSpec
CONSTANTS
    Appliers = {a1, a2}
    Versions = {1, 2, 3}
    Servers = {s1}
    Depth = 2
PROPERTIES SwapIsAtomic ApplyEnds
