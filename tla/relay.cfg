SPECIFICATION FairSpec
CONSTANTS
    Worlds = {w1}
    Hosts = {h}
    H = h
    HostOf <- OneHost
    R1 = r1
    R2 = r2
    Relays = {r1}
    Patches = {p1}
    Conns = {h1, h2, g1, g2}
    HostConns = {h1, h2}
    SecondRelay = {}
    RoleOf <- RoleByConn
    RelayIdOf <- RelayByConn
    None = None
    MaxPlayersPerWorld = 1
    MaxFaults = 1
INVARIANTS TypeOK PairsAreHostAndGuest SocketHasOneOwner CountTracksTunnels GaugeCountsTunnels
PROPERTIES CapAtAdmission ClosedRelayStaysClosed UpgradedSettles
