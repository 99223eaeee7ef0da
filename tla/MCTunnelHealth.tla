--------------------------- MODULE MCTunnelHealth ---------------------------
(* Small instances of one tunnel's health. *)
EXTENDS TunnelHealth
=============================================================================
