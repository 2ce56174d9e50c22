SPECIFICATION SceneSpec
CONSTANTS
    Servers = {a, b}
    Home = a
    a = a
    b = b
    None = None
    Scenes = {"queue", "move"}
    Kinds = {"reboot", "update", "rename", "local"}
    MaxId = 2
    maxDeliveries = 3
    MaxCommands = 2
    MaxAcks = 1
    MaxPairings = 3
    Events = {"lose", "crash", "age", "revoke", "delete"}
    MaxFaults = 1
INVARIANTS EndersRunOnce AckedRan
PROPERTY RenamesInOrder
CHECK_DEADLOCK FALSE
