--------------------------- MODULE MCReturnRoutes ---------------------------
\* Small instances of the return path; the cfg gives the constants.
EXTENDS ReturnRoutes, TLC

\* Peers, addresses and engines are interchangeable; used where no liveness is checked.
RouteSymmetry == Permutations(Peers) \cup Permutations(Addresses) \cup Permutations(Engines)
=============================================================================
