SPECIFICATION Spec
CONSTANTS
    Last = 3
    Starts = {1, 2, 3}
    Healthy = {1, 3}
    GateSlots = 2
    Overlap = FALSE
    CanPair = TRUE
    FaultKinds = {"cut", "crash", "io"}
    MaxFaults = 1
PROPERTY RefinesTrial
PROPERTY BansStick
