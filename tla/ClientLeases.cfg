CONSTANTS
    Peers = {k1, k2, k3}
    OldKeys = {k1, k2}
    OldIPs = {2, 3, 4}
    startIP = 2
    endIP = 3
    Conns = {1, 2}
    Requests = {r1, r2}
    MaxSessions = 2
    SharedStaleKeys = FALSE
    Service = Service
    NoIP = NoIP
    NoPeer = NoPeer
SPECIFICATION LeasesSpec
SYMMETRY LeaseSymmetry
CHECK_DEADLOCK FALSE
INVARIANTS
    RecoveryResolves
    RecoveredIsLeased
    GrantIsExclusive
PROPERTIES
    ImplementsLease
    AddressStable
    KeyStable
