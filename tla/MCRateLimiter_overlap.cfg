SPECIFICATION Spec
CONSTANTS
    p1 = p1
    p2 = p2
    u1 = u1
    u2 = u2
    target = target
    glob = glob
    pgTarget = pgTarget
    Call = {p1, p2}
    Bucket = {u1, u2, glob}
    Kind <- Kinds
    Gates <- TwoScopes
    Burst <- OneToken
    Interval <- SlowKeys
    MaxWait = 2
    IdleTTL = 4
    EvictEvery = 2
    MaxInFlight = 2
    MaxChecks = 12
    TicksInCall = FALSE
    MaxTime = 6
CHECK_DEADLOCK FALSE
INVARIANT
    DeniedBurnsNothing
