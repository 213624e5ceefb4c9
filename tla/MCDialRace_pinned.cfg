SPECIFICATION FairSpec
CONSTANTS
    a = a
    b = b
    c = c
    NoIp = NoIp
    Ip = {a, b, c}
    Host = {"a", "b", "c"}
    Hosts <- PinnedHosts
    Addrs <- PinnedAddrs
    Denied = {c}
    MaxConcurrentDials = 2
INVARIANTS
    TypeOK
    OneOwner
    OneConnEscapes
    DialsSettled
    
    WaitsOnlyBehindFullPool
PROPERTIES
    ImplementsVerdict
    Terminates
    SlowSiblingHarmless
