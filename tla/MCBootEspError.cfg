\* As MCBoot.cfg, but the ESP, or the claim on it, may fail to read.
CONSTANTS
    n1 = n1
    n2 = n2
    d1 = d1
    d2 = d2
    NoNode = NoNode
    NoDisk = NoDisk
    Nodes <- Both
    Disks <- BothDisks
    NumSlots = 2
    Faulty <- EspFails
    Layouts <- EitherOrder
    Worlds <- Crowded
SPECIFICATION FairSpec
PROPERTIES ClaimsAreALedger
