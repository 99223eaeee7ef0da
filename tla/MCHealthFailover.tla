-------------------------- MODULE MCHealthFailover --------------------------
(* Small instances of the failover of one backend. *)
EXTENDS HealthFailover
=============================================================================
