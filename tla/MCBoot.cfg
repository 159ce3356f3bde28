\* Two chassis, disks carried between them; drives and names that may not be read.
CONSTANTS
    n1 = n1
    n2 = n2
    d1 = d1
    d2 = d2
    NoNode = NoNode
    NoDisk = NoDisk
    Nodes <- Both
    Disks <- BothDisks
    NumSlots = 2
    Faulty <- DriveOrNameFails
    Layouts <- EitherOrder
    Worlds <- Crowded
SPECIFICATION Spec
INVARIANTS RootIsNotAnothers NothingOfferedWhileOwning BootedIsClaimed SentBackForWantOfASystem
PROPERTIES FormatsOnlyUntouched ClaimsAreALedger
