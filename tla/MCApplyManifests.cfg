CONSTANTS
    Objects <- MCObjects
    Unhandled <- MCUnhandled
    Needs <- MCNeeds
    Inputs <- MCInputs
    Tries = 2
    MaxRuns = 3
    Troubles = 2
SPECIFICATION FairSpec
INVARIANTS TypeOK AppliedMeansAccepted UndisturbedRunApplies OldRunsStayOld
PROPERTIES RunEnds
