SPECIFICATION DeviceSpec
CONSTANTS
    QueueSize = 3
    PowerEvents = {"edge", "set", "method", "crash", "timeout", "restart", "display"}
    MaxChanges = 4
    SyncLists <- TwoLists
    Files <- FourFiles
    Size <- BlocksOf
    Bytes <- BytesOf
    Manifests <- FourManifests
    NoManifest <- EmptyManifest
    Rooms = {4, 10}
    SyncEvents = {"download", "rename", "undo", "save", "cut", "laptop", "serve", "room"}
    MaxFaults = 3
    Playlists = {l, m}
    DefaultList = l
    Numbers = {1, 2}
    Calls = {c1, c2}
    LibEvents = {"pair", "person", "restart", "card", "upload"}
    MaxCalls = 2
    MaxLibEvents = 1
    Local = {f}
    Object = o
    HashEvents = {"pair", "person", "restart", "save", "card"}
    MaxHash = 2
    GoodNames = {n, k}
    FactoryName = n
    Bad = bad
    CfgEvents = {"restart", "save", "server", "name", "rename", "full", "person", "pair"}
    MaxCfg = 2
    Requests = {r1, r2}
    Terminal = terminal
    Disks = {stick, ssd, card}
    Stick = stick
    Small = {card}
    hubQueue = 2
    InstallEvents = {"cli", "io", "umount", "drop", "mount", "stop"}
    MaxInstall = 1
    MaxVersions = 2
    Names <- DeviceNames
    Plans <- DevicePlans
    FleetPlans <- ManifestPlans
    DayLen = 3
    Moments <- SaturdayNight
    NoFleet = NoFleet
    NoScreen = NoScreen
    MaxSchedule = 2
INVARIANTS PowerIsReal CardIsWhole LibraryIsSafe InstallIsHonest ScheduleIsRight
PROPERTIES PictureFollows Converges DeviceSettles FileIsKept EditIsTaken
CHECK_DEADLOCK FALSE
