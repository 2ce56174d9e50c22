SPECIFICATION Spec
CONSTANTS
    Last = 3
    Starts = {1, 2, 3}
    Healthy = {1, 3}
    GateSlots = 2
    Overlap = FALSE
    CanPair = FALSE
    FaultKinds = {"cut", "crash", "io", "stop", "save"}
    MaxFaults = 2
INVARIANT TypeOK
INVARIANT CanGoBack
INVARIANT NeverStranded
INVARIANT Settled
