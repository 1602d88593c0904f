CONSTANTS
    CaseIds = {"a", "b", "c"}
    Definitions <- MCDefinitions
    Releases = {"old", "new"}
    Baseline = "old"
    Misses <- MCMisses
    Incidents = {"i1"}
    Decision <- MCDecision
    Controls <- MCControls
    Floors <- MCFloors
    InitialCases <- MCInitialCases
    MaxVersion = 3
    MaxTime = 3
SPECIFICATION MCSpec
INVARIANTS
    FedBackOnce
    ClosedFixed
    PostureHonest
    AssuredPasses
PROPERTIES
    CoverageKept
CHECK_DEADLOCK FALSE
