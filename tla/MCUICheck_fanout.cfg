SPECIFICATION FairSpec
CONSTANTS
    Second = 2
    DefaultTimeout = 10
    MaxTimeout = 60
    MinClampTimeout = 1
    Agents = {1, 2, 3}
    Lists <- DiscoveredLists
    Durations <- Texts
    Ports = {"80"}
    Addresses = {"client", "other", "edge", "p1", "p2"}
    Proxies = {"p1", "p2"}
    Budget = 6
    MaxAgentsPerCheck = 3
    MaxConcurrentFanout = 2
    EnabledChecks = {"tcp", "postgres"}
    Requests <- Asks
    Senders <- Visitors
CHECK_DEADLOCK FALSE
INVARIANTS
    TypeOK
    FirstWaveReports
    CoverageIsExact
    ChecksAreAudited
    KeyIsTheClient
PROPERTY
    Responds
