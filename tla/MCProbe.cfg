\* Every shape of drive; any read may fail, and unless the look is quiet
\* somebody may lay out an empty drive meanwhile.
CONSTANTS
    n1 = n1
    n2 = n2
    NoNode = NoNode
    Nodes <- Both
    Self = n1
    Contents <- MCContents
    Faulty <- AnyFails
SPECIFICATION FairSpec
INVARIANTS TypeOK ClaimIsDecisive MineIsALocalSlab AgreesWithJudge
PROPERTIES BlankIsUntouched LookEnds
