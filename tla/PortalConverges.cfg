CONSTANTS
    Peers = {p1, p2}
    i1 = i1
    i2 = i2
    alice = alice
    bob = bob
    IPs = {i1}
    Leases <- OneAddress
    SessionIDs = {1, 2, 3, 4, 5}
    MaxChanges = 2
    MaxFaults = 1
    Faults = {"read", "status", "rows", "add", "remove", "verify", "lose", "select", "migrate"}
    None = None
SPECIFICATION FairAccessSpec
PROPERTIES
    Converges
