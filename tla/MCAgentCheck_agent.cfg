SPECIFICATION Spec
CONSTANTS
    a = a
    m = m
    x = x
    r1 = r1
    r2 = r2
    svc = svc
    NoIp = NoIp
    Request = {r1, r2}
    Ip = {a, m}
    Name = {svc}
    Kind <- MixedKinds
    Host <- OneName
    EnabledChecks = {"tcp", "postgres"}
    Policies <- Lists
    Guarded = {m}
INVARIANTS
    TypeOK
    ReportCoversDial
    TcpDialsWhatWasAuthorized
    GuardAlwaysHolds
    DenialPrecedesContact
    MetricsCoverAnswers
    AuditTellsTheAnswer
