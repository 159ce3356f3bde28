\* As MCBoot.cfg, with a flow-over that lays its data slab first.
CONSTANTS
    n1 = n1
    n2 = n2
    d1 = d1
    d2 = d2
    NoNode = NoNode
    NoDisk = NoDisk
    Nodes <- Both
    Disks <- BothDisks
    NumSlots = 2
    Faulty <- NoFault
    Layouts <- DataFirst
    Worlds <- Crowded
SPECIFICATION FairSpec
INVARIANTS AssimilatedBootsLocal
