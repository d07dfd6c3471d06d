CONSTANTS
    Servers = {s1}
    Threads = {t1, t2}
    Edits = {e1, e2}
    NoServer = NoServer
    NoThread = NoThread
    MaxBoots = 2
SPECIFICATION FairSpec
INVARIANTS
    DeletedStaysGone
    AckedEditsKept
    DiskFollowsMemory
PROPERTIES
    CatalogKept
    CallsReturn
CHECK_DEADLOCK FALSE
