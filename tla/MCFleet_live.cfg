SPECIFICATION FairSceneSpec
CONSTANTS
    Servers = {a}
    Home = a
    a = a
    None = None
    Scenes = {"leave", "arrive"}
    Kinds = {"reboot", "rename", "local"}
    MaxId = 2
    maxDeliveries = 3
    MaxCommands = 2
    MaxAcks = 2
    MaxPairings = 2
    Events = {"lose", "crash", "save", "age", "unpair", "revoke", "rejoin"}
    MaxFaults = 1
INVARIANT NoManifestUnpaired
PROPERTIES CommandsEnd CommandsArrive
CHECK_DEADLOCK FALSE
