------------------------------ MODULE MCLeases ------------------------------
(* A pool of two addresses, and tables that name both of them and a third    *)
(* one of a former subnet.  Two keys are in the tables, a third is generated. *)
EXTENDS ClientLeases, TLC

LeaseSymmetry ==
    Permutations(OldKeys) \cup Permutations(Peers \ OldKeys) \cup Permutations(Requests)
=============================================================================
