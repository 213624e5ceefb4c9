SPECIFICATION Spec
CONSTANTS
    p1 = p1
    p2 = p2
    u1 = u1
    u2 = u2
    target = target
    glob = glob
    pgTarget = pgTarget
    Call = {p1, p2}
    Bucket = {target, glob, pgTarget}
    Kind <- Kinds
    Gates <- TwoGates
    Burst <- GlobalBurst
    Interval <- SlowKeys
    MaxWait = 2
    IdleTTL = 3
    EvictEvery = 2
    MaxInFlight = 2
    MaxChecks = 5
    TicksInCall = FALSE
    MaxTime = 4
CHECK_DEADLOCK FALSE
INVARIANTS
    WithinRate
    NothingForFree
