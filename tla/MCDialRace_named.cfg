SPECIFICATION Spec
CONSTANTS
    a = a
    b = b
    c = c
    NoIp = NoIp
    Ip = {a, b, c}
    Host = {"svc"}
    Hosts <- NamedHosts
    Addrs <- NamedAddrs
    Denied = {c}
    MaxConcurrentDials = 16
INVARIANTS
    NeverConnectedToDenied
    ErrorHasCause
