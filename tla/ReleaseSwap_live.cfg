SPECIFICATION FairSpec
CONSTANTS
    Last = 3
    Starts = {1, 2}
    Healthy = {1}
    GateSlots = 2
    Overlap = FALSE
    CanPair = FALSE
    FaultKinds = {"cut"}
    MaxFaults = 1
PROPERTY TrialEnds
PROPERTY BackInService
PROPERTY BundleUsedUp
