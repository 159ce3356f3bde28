\* As MCBootShared.cfg: two operators claim the LUN; nothing fails.
CONSTANTS
    n1 = n1
    n2 = n2
    d1 = d1
    d2 = d2
    NoNode = NoNode
    NoDisk = NoDisk
    Nodes <- Both
    Disks <- BothDisks
    NumSlots = 2
    Faulty <- NoFault
    Layouts <- EitherOrder
    Worlds <- Shared
SPECIFICATION FairSpec
PROPERTIES ClaimsAreALedger
