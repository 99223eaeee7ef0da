------------------------------ MODULE MCGateway ------------------------------
(* Small instances of the session core.  Peers are interchangeable: no      *)
(* definition names one, and the runs with symmetry check safety only.      *)
EXTENDS SessionGateway, TLC

PeerSymmetry == Permutations(Peers)

\* The backends of one family are interchangeable too.
GatewaySymmetry == PeerSymmetry \cup UNION {Permutations(F) : F \in Families}
=============================================================================
