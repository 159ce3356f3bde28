\* All machines of up to three drives.
CONSTANTS
    Candidates <- MCCandidates
    MaxDrives = 3
SPECIFICATION Spec
INVARIANTS IntentIsTheLists NamesDoNotDecide
PROPERTY OwnershipIsSticky
