-------------------------------- MODULE Ipam --------------------------------
(***************************************************************************)
(* The IP address manager of the client subnet (internal/vpn/ipam).  Two   *)
(* maps record the same leases in both directions, a cursor walks the pool *)
(* round-robin, and every operation runs under the manager's own mutex, so *)
(* each operation is one action.  An operation that returns an error       *)
(* leaves the state alone and is not an action: Reserve outside            *)
(* [startIP, endIP] or on another peer's address, Release of nothing, and  *)
(* Allocate on an exhausted pool or for a peer that holds a lease.         *)
(*                                                                         *)
(* An operator whose name ends in "Wrong" is its neighbour with a mistake  *)
(* the code could contain.  Nothing uses it.                               *)
(***************************************************************************)
EXTENDS Integers, FiniteSets

CONSTANTS Peers,     \* peer public keys
          startIP,   \* first assignable address (network + 2)
          endIP,     \* last assignable address (broadcast - 1)
          NoIP,      \* no entry in the map allocated
          NoPeer     \* no entry in the map reverse

Pool == startIP .. endIP

\* Addresses a caller may ask for: the gateway sits just below the pool, the
\* broadcast address just above it.
Addresses == (startIP - 1) .. (endIP + 1)

ASSUME SubnetAssumption == /\ startIP \in Nat
                           /\ endIP \in Nat
                           /\ startIP <= endIP
ASSUME NullAssumption == /\ NoPeer \notin Peers
                         /\ NoIP \notin Pool

VARIABLES allocated, \* allocated[p]: the address leased to p
          reverse,   \* reverse[ip]: the peer holding ip
          cursor     \* where the next Allocate starts looking

ipamVars == <<allocated, reverse, cursor>>

Total == endIP - startIP + 1

Leases == {p \in Peers : allocated[p] # NoIP}

IsFree(ip) == reverse[ip] = NoPeer

After(ip) == IF ip = endIP THEN startIP ELSE ip + 1

\* How many addresses the walk skips from `from` before it reaches ip.
Steps(from, ip) == IF ip >= from THEN ip - from ELSE ip - from + Total

IpamInit ==
    /\ allocated = [p \in Peers |-> NoIP]
    /\ reverse = [ip \in Pool |-> NoPeer]
    /\ cursor = startIP

IsNextFreeWrong(ip) == ip = cursor

\* The address the round-robin walk stops at: the first free one.
IsNextFree(ip) ==
    /\ IsFree(ip)
    /\ \A other \in Pool : IsFree(other) => Steps(cursor, ip) <= Steps(cursor, other)

Allocate(p) ==
    /\ allocated[p] = NoIP
    /\ Cardinality(Leases) < Total
    /\ \E ip \in Pool :
         /\ IsNextFree(ip)
         /\ allocated' = [allocated EXCEPT ![p] = ip]
         /\ reverse' = [reverse EXCEPT ![ip] = p]
         /\ cursor' = After(ip)

\* A peer that held another address gives its reverse entry up first.
Reserve(ip, p) ==
    /\ ip \in Pool
    /\ IsFree(ip)
    /\ allocated' = [allocated EXCEPT ![p] = ip]
    /\ reverse' = [a \in Pool |-> IF a = ip THEN p
                                  ELSE IF a = allocated[p] THEN NoPeer
                                  ELSE reverse[a]]
    /\ UNCHANGED cursor

Release(p) ==
    /\ allocated[p] # NoIP
    /\ allocated' = [allocated EXCEPT ![p] = NoIP]
    /\ reverse' = [reverse EXCEPT ![allocated[p]] = NoPeer]
    /\ UNCHANGED cursor

ReleaseIP(ip) ==
    /\ ip \in Pool
    /\ ~IsFree(ip)
    /\ reverse' = [reverse EXCEPT ![ip] = NoPeer]
    /\ allocated' = [allocated EXCEPT ![reverse[ip]] = NoIP]
    /\ UNCHANGED cursor

IpamNext ==
    \/ \E p \in Peers : Allocate(p) \/ Release(p)
    \/ \E p \in Peers, ip \in Addresses : Reserve(ip, p)
    \/ \E ip \in Addresses : ReleaseIP(ip)

IpamSpec == IpamInit /\ [][IpamNext]_ipamVars

-----------------------------------------------------------------------------
IpamTypeOK ==
    /\ allocated \in [Peers -> Pool \cup {NoIP}]
    /\ reverse \in [Pool -> Peers \cup {NoPeer}]
    /\ cursor \in Pool

\* The two maps describe the same set of leases: looking an address up by peer
\* and the peer up by address always agree, whichever of Allocate, Reserve,
\* Release and ReleaseIP wrote last (ipam.go:74-189).
MapsAgree ==
    \A p \in Peers, ip \in Pool : allocated[p] = ip <=> reverse[ip] = p

\* The guard of Allocate counts one map while its walk searches the other
\* (ipam.go:88-113): whenever the count says there is room, the walk finds an
\* address, and whenever it says there is none, none is free.
CountMeansRoom ==
    Cardinality(Leases) < Total <=> \E ip \in Pool : IsFree(ip)

\* The manager implements the ownership map of AddressLease (ipam.go:19-189).
Lease == INSTANCE AddressLease WITH owner <- reverse
ImplementsLease == Lease!LeaseSpec
=============================================================================
