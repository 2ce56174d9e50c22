SPECIFICATION Spec
CONSTANTS
    A = A
    B = B
    Lists = {A, B}
    NoList = NoList
    Content <- ContentAB
    Killers = {2}
    Broken = {4}
    RestartsBeforeReboot = 2
    QueueSize = 1
    MaxInFlight = 2
    Events = {"want", "restart", "screen", "display", "unplug", "freeze", "die", "nightly", "draw"}
    MaxChanges = 3
INVARIANT TypeOK
INVARIANT SuspendedIsDark
INVARIANT NowPlayingIsReal
INVARIANT GraceHasList
INVARIANT RebootNeedsFaults
CHECK_DEADLOCK FALSE
