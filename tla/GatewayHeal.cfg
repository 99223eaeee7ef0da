CONSTANTS
    Peers = {p1, p2}
    Backends = {b1, b2}
    SessionIDs = {1, 2, 3, 4}
    Families = {{b1, b2}}
    MaxPeersPerBackend = 1
    MaxGauge = 2
    Ops = {"timeout", "disconnect", "migrate", "reconcile"}
    Faults = {"gaugeRow", "migrateRow"}
    None = None
SPECIFICATION FairGatewaySpec
INVARIANTS
    PlacementsAgree
PROPERTIES
    SweptPeerReleased
    DriftHeals
