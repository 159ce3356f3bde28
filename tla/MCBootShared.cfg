\* A LUN both machines reach: drives that may not answer, no name, and claims that
\* are not written.
CONSTANTS
    n1 = n1
    n2 = n2
    d1 = d1
    d2 = d2
    NoNode = NoNode
    NoDisk = NoDisk
    Nodes <- Both
    Disks <- BothDisks
    NumSlots = 2
    Faulty <- DriveNameOrClaimFails
    Layouts <- EitherOrder
    Worlds <- Shared
SPECIFICATION FairSpec
INVARIANTS TypeOK OneWriterPerDisk
PROPERTIES FormatsOnlyUntouched BootEnds
