---------------------------- MODULE AddressLease ----------------------------
(***************************************************************************)
(* What the address manager promises its callers: an address belongs to at *)
(* most one peer at a time and a peer holds at most one address.  The      *)
(* state is only the ownership of each address; a grant takes a free       *)
(* address for a peer (giving up the one it held), a reclaim frees one.    *)
(* Module Ipam keeps two maps and a cursor and implements this.            *)
(***************************************************************************)
CONSTANTS Peers,     \* peer public keys
          Pool,      \* assignable addresses
          NoPeer     \* the owner of a free address

VARIABLE owner       \* owner[ip]: the peer the address is leased to

leaseVars == <<owner>>

Free(ip) == owner[ip] = NoPeer

Holds(p, ip) == owner[ip] = p

LeaseInit == owner = [ip \in Pool |-> NoPeer]

Grant(ip, p) ==
    /\ Free(ip)
    /\ owner' = [a \in Pool |-> IF a = ip THEN p
                                ELSE IF owner[a] = p THEN NoPeer ELSE owner[a]]

Reclaim(ip) ==
    /\ ~Free(ip)
    /\ owner' = [owner EXCEPT ![ip] = NoPeer]

LeaseNext == \E ip \in Pool : Reclaim(ip) \/ \E p \in Peers : Grant(ip, p)

LeaseSpec == LeaseInit /\ [][LeaseNext]_leaseVars
=============================================================================
