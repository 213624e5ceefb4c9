SPECIFICATION Spec
CONSTANTS
    p1 = p1
    p2 = p2
    u1 = u1
    u2 = u2
    target = target
    glob = glob
    pgTarget = pgTarget
    Call = {p1, p2}
    Bucket = {u1, u2, target, glob}
    Kind <- Kinds
    Gates <- ThreeScopes
    Burst <- GlobalBurst
    Interval <- SlowKeys
    MaxWait = 2
    IdleTTL = 3
    EvictEvery = 2
    MaxInFlight = 1
    MaxChecks = 6
    TicksInCall = FALSE
    MaxTime = 5
CHECK_DEADLOCK FALSE
INVARIANTS
    TypeOK
    DeniedBurnsNothing
PROPERTIES
    HintIsExact
    ImplementsAtomic
