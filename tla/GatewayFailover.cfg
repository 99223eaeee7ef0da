CONSTANTS
    Peers = {p1}
    Backends = {b1, b2, b3, b4}
    SessionIDs = {1, 2, 3, 4}
    Families = {{b1, b2, b3}, {b4}}
    MaxPeersPerBackend = 1
    MaxGauge = 3
    Ops = {"timeout", "disable", "enable", "migrate", "probe"}
    Faults = {}
    None = None
SPECIFICATION GatewaySpec
SYMMETRY GatewaySymmetry
INVARIANTS
    RouteIsRecorded
PROPERTIES
    FamilyKept
    MigrationIsWhole
