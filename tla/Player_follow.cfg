SPECIFICATION FairSpec
CONSTANTS
    A = A
    B = B
    Lists = {A, B}
    NoList = NoList
    Content <- ContentAB
    Killers = {2}
    Broken = {3}
    RestartsBeforeReboot = 2
    QueueSize = 1
    MaxInFlight = 2
    Events = {"want", "restart", "display", "freeze", "die", "nightly", "draw"}
    MaxChanges = 2
INVARIANT BlamedOnce
PROPERTY FollowsWant
