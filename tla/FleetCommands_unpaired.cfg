SPECIFICATION Spec
CONSTANTS
    Servers = {a}
    None = None
    a = a
    Kinds = {"local"}
    MaxId = 1
    maxDeliveries = 2
    MaxCommands = 2
    MaxAcks = 2
    MaxPairings = 1
    Events = {"unpair"}
    MaxFaults = 0
INVARIANT UnpairHolds
CHECK_DEADLOCK FALSE
