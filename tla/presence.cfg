SPECIFICATION PresenceSpec
CONSTANTS
    U = u
    Players = {u}
    Conns = {s1, s2, s3, s4}
    UserOf <- SocketOwner
    Worlds = {w1}
    HostOf <- WorldHost
    Posts = {p1}
    None = None
    MaxFaults = 1
CHECK_DEADLOCK FALSE
SYMMETRY Symmetry
INVARIANTS GoneIsOffline
