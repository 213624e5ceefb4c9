SPECIFICATION Spec
CONSTANTS
    t1 = t1
    t2 = t2
    ann = ann
    bob = bob
    None = None
    Request = {t1, t2}
    Blocks <- AuthBlocks
    Who = {ann, bob}
    Profile <- Said
    Tokens <- Bearers
    StateMaxAge = 1
    SessionMaxAge = 1
    ExchangeTimeout = 1
    Grace = 1
    MaxLogins = 2
    MaxTime = 1
SYMMETRY Tabs
INVARIANTS
    TypeOK
    CodesGoHome
    AdmittedIsEntitled
    OneSessionPerLogin
    SameIdentityBothWays
PROPERTIES
    ExitTellsTheCut
