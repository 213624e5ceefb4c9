SPECIFICATION Spec
CONSTANTS
    Second = 2
    DefaultTimeout = 10
    MaxTimeout = 60
    MinClampTimeout = 1
    Agents = {1, 2, 3}
    Lists <- PairLists
    Durations <- Texts
    Ports = {"80"}
    Addresses = {"client", "other", "edge", "p1", "p2"}
    Proxies = {"p1", "p2"}
    Budget = 6
    MaxAgentsPerCheck = 0
    MaxConcurrentFanout = 1
    EnabledChecks = {"tcp"}
    Requests <- Calls
    Senders <- Anyone
CHECK_DEADLOCK FALSE
INVARIANT
    NodeReportsItself
