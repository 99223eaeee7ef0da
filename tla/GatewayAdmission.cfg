CONSTANTS
    Peers = {p1, p2}
    Backends = {b1, b2}
    SessionIDs = {1, 2, 3, 4}
    Families = {{b1, b2}}
    MaxPeersPerBackend = 1
    MaxGauge = 4
    Ops = {"timeout", "revoke", "probe", "expire", "reconcile", "restart"}
    Faults = {}
    None = None
SPECIFICATION GatewaySpec
SYMMETRY PeerSymmetry
INVARIANTS
    RouteHasOwner
    RowHasSession
    GaugeExact
    LiveWithinCap
