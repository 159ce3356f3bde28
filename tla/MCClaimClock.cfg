CONSTANT Clock <- MCClock
SPECIFICATION FairSpec
INVARIANTS TypeOK DateIsRight
PROPERTIES ClaimsReadInOrder DateIsFound
