SPECIFICATION Spec
CONSTANTS
    Last = 3
    Starts = {1, 2, 3}
    Healthy = {1}
    GateSlots = 2
    Overlap = TRUE
    CanPair = FALSE
    FaultKinds = {}
    MaxFaults = 0
INVARIANT CanGoBack
