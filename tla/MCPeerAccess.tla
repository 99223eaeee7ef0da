---------------------------- MODULE MCPeerAccess ----------------------------
(* Small instances of the portal's access control: two addresses, and two   *)
(* owners for the first of them.                                            *)
EXTENDS PeerAccess, TLC

CONSTANTS i1, i2, alice, bob

OneAddress == {[ip |-> i1, owner |-> alice], [ip |-> i1, owner |-> bob]}
TwoAddresses == OneAddress \cup {[ip |-> i2, owner |-> alice]}

PeerSymmetry == Permutations(Peers)
=============================================================================
