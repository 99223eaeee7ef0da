----------------------------- MODULE MCPeerSync -----------------------------
\* Small instances of the peer synchroniser; the cfg gives the constants.
EXTENDS PeerSync, TLC
=============================================================================
