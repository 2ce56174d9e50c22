SPECIFICATION Spec
CONSTANTS
    Two = {m1, m2}
    NoMachine = none
    WithToken = {m2}
    TokenModes = {"auto", "pending"}
    MaxUses = 1
    maxPending = 1
    EnrollEvents = {"lose", "person", "unpair", "reject", "delete", "revoke", "age", "copy", "reflash"}
    MaxEvents = 2
    MaxSecrets = 14
    NoVersion = NoVersion
    MirrorFaults = {"get", "rename", "restart"}
    MaxMirror = 5
    NoObject = NoObject
    MediaEvents = {"fail", "busy", "stop"}
    MaxMedia = 4
    Device = d
    Groups = {g}
    Playlists = {p, q}
    Media = {a}
    None = None
    NoList = NoList
    MaxWrites = 6
INVARIANTS RequestsAreSound MirrorIsVerified MediaIsKept
PROPERTIES PairedRowIsKept NoneWaitsForEver StaysOnTheAir LeftoversGo PlanIsKept
CHECK_DEADLOCK FALSE
