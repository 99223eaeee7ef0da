----------------------------- MODULE IpamProofs -----------------------------
(***************************************************************************)
(* The two maps of the address manager stay inverse of each other, and the *)
(* manager implements AddressLease, for every pool and set of peers.       *)
(***************************************************************************)
EXTENDS Ipam, FiniteSetTheorems, TLAPS

\* The inductive invariant: the types and the agreement of the maps.  Types
\* alone are not enough for Release and ReleaseIP, which look one map up to
\* delete from the other.
IpamInv == IpamTypeOK /\ MapsAgree

\* Both maps start empty and the cursor at the first address (ipam.go:62-71).
LEMMA InitEstablishesIpamInv == IpamInit => IpamInv
  BY SubnetAssumption, NullAssumption
     DEF IpamInit, IpamInv, IpamTypeOK, MapsAgree, Pool

\* The cursor wraps inside the pool (ipam.go:96-99).
LEMMA AfterStaysInPool == ASSUME NEW ip \in Pool PROVE After(ip) \in Pool
  BY SubnetAssumption DEF After, Pool

\* Every operation keeps the maps inverse of each other (ipam.go:75-189).
LEMMA StepKeepsIpamInv == IpamInv /\ [IpamNext]_ipamVars => IpamInv'
<1> SUFFICES ASSUME IpamInv, [IpamNext]_ipamVars PROVE IpamInv'
  OBVIOUS
<1> USE SubnetAssumption, NullAssumption DEF IpamInv, IpamTypeOK, MapsAgree
<1>1. ASSUME NEW p \in Peers, Allocate(p) PROVE IpamInv'
  <2>1. PICK ip \in Pool :
           /\ IsFree(ip)
           /\ allocated' = [allocated EXCEPT ![p] = ip]
           /\ reverse' = [reverse EXCEPT ![ip] = p]
           /\ cursor' = After(ip)
    BY <1>1 DEF Allocate, IsNextFree
  <2>2. allocated[p] = NoIP
    BY <1>1 DEF Allocate
  <2>3. IpamTypeOK'
    BY <2>1, AfterStaysInPool
  <2>4. MapsAgree'
    BY <2>1, <2>2 DEF IsFree
  <2> QED BY <2>3, <2>4
<1>2. ASSUME NEW p \in Peers, Release(p) PROVE IpamInv'
  BY <1>2 DEF Release
<1>3. ASSUME NEW p \in Peers, NEW ip \in Addresses, Reserve(ip, p) PROVE IpamInv'
  BY <1>3 DEF Reserve, IsFree
<1>4. ASSUME NEW ip \in Addresses, ReleaseIP(ip) PROVE IpamInv'
  <2>1. reverse[ip] \in Peers /\ ip \in Pool
    BY <1>4 DEF ReleaseIP, IsFree
  <2> QED BY <1>4, <2>1 DEF ReleaseIP
<1>5. CASE UNCHANGED ipamVars
  BY <1>5 DEF ipamVars
<1> QED BY <1>1, <1>2, <1>3, <1>4, <1>5 DEF IpamNext

\* Looking an address up by peer and the peer up by address always agree, in
\* every reachable state, for every pool and every set of peers.
THEOREM IpamMapsAgree == IpamSpec => []MapsAgree
<1>1. IpamInv => MapsAgree
  BY DEF IpamInv
<1> QED BY <1>1, InitEstablishesIpamInv, StepKeepsIpamInv, PTL DEF IpamSpec

\* The manager starts as AddressLease starts and each of its steps is a step of
\* AddressLease or leaves the ownership alone: no address ever passes from one
\* peer to another without being free in between.
THEOREM IpamImplementsLease == IpamSpec => ImplementsLease
<1> USE SubnetAssumption, NullAssumption
        DEF IpamInv, IpamTypeOK, MapsAgree, Lease!LeaseNext, Lease!leaseVars,
            Lease!Grant, Lease!Reclaim, Lease!Free
<1>1. IpamInit => Lease!LeaseInit
  BY DEF IpamInit, Lease!LeaseInit
<1>2. IpamInv /\ [IpamNext]_ipamVars => [Lease!LeaseNext]_(Lease!leaseVars)
  <2> SUFFICES ASSUME IpamInv, [IpamNext]_ipamVars
               PROVE [Lease!LeaseNext]_(Lease!leaseVars)
    OBVIOUS
  <2>1. ASSUME NEW p \in Peers, Allocate(p) PROVE Lease!LeaseNext
    <3>1. PICK ip \in Pool : IsFree(ip) /\ reverse' = [reverse EXCEPT ![ip] = p]
      BY <2>1 DEF Allocate, IsNextFree
    <3>2. \A a \in Pool : reverse[a] # p
      BY <2>1 DEF Allocate
    <3>3. reverse' = [a \in Pool |-> IF a = ip THEN p
                                     ELSE IF reverse[a] = p THEN NoPeer
                                     ELSE reverse[a]]
      BY <3>1, <3>2
    <3>4. Lease!Grant(ip, p)
      BY <3>1, <3>3 DEF IsFree
    <3> QED BY <3>4
  <2>2. ASSUME NEW p \in Peers, Release(p) PROVE Lease!LeaseNext
    <3>1. allocated[p] \in Pool /\ reverse[allocated[p]] = p
      BY <2>2 DEF Release
    <3>2. Lease!Reclaim(allocated[p])
      BY <2>2, <3>1 DEF Release
    <3> QED BY <3>1, <3>2
  <2>3. ASSUME NEW p \in Peers, NEW ip \in Addresses, Reserve(ip, p)
        PROVE Lease!LeaseNext
    <3>1. \A a \in Pool : a = allocated[p] <=> reverse[a] = p
      OBVIOUS
    <3>2. reverse' = [a \in Pool |-> IF a = ip THEN p
                                     ELSE IF reverse[a] = p THEN NoPeer
                                     ELSE reverse[a]]
      BY <2>3, <3>1 DEF Reserve
    <3>3. Lease!Grant(ip, p)
      BY <2>3, <3>2 DEF Reserve, IsFree
    <3>4. ip \in Pool
      BY <2>3 DEF Reserve
    <3> QED BY <3>3, <3>4
  <2>4. ASSUME NEW ip \in Addresses, ReleaseIP(ip) PROVE Lease!LeaseNext
    BY <2>4 DEF ReleaseIP, IsFree
  <2>5. CASE UNCHANGED ipamVars
    BY <2>5 DEF ipamVars
  <2> QED BY <2>1, <2>2, <2>3, <2>4, <2>5 DEF IpamNext
<1> QED
  BY <1>1, <1>2, InitEstablishesIpamInv, StepKeepsIpamInv, PTL
     DEF IpamSpec, ImplementsLease, Lease!LeaseSpec

\* While the maps agree, as many peers hold a lease as addresses are taken, so
\* the count and the walk agree (ipam.go:88-113).
LEMMA AgreementMeansRoom == ASSUME IpamInv PROVE CountMeansRoom
<1> USE SubnetAssumption, NullAssumption
<1> DEFINE Taken == {ip \in Pool : reverse[ip] # NoPeer}
           f == [ip \in Taken |-> reverse[ip]]
<1>1. IsFiniteSet(Pool) /\ Cardinality(Pool) = Total
  BY FS_Interval DEF Pool, Total
<1>2. /\ IsFiniteSet(Taken)
      /\ Cardinality(Taken) <= Cardinality(Pool)
      /\ Cardinality(Taken) = Cardinality(Pool) => Taken = Pool
  BY <1>1, FS_Subset
<1>3. f \in Bijection(Taken, Leases)
  <2>1. f \in [Taken -> Leases]
    BY DEF IpamInv, IpamTypeOK, MapsAgree, Leases
  <2>2. \A a, b \in Taken : f[a] = f[b] => a = b
    BY DEF IpamInv, IpamTypeOK, MapsAgree
  <2>3. \A p \in Leases : \E ip \in Taken : f[ip] = p
    BY DEF IpamInv, IpamTypeOK, MapsAgree, Leases
  <2> QED
    BY <2>1, <2>2, <2>3 DEF Bijection, Injection, Surjection, IsInjective
<1>4. Cardinality(Leases) = Cardinality(Taken)
  BY <1>2, <1>3, FS_Bijection DEF ExistsBijection
<1>5. Cardinality(Taken) \in Nat /\ Cardinality(Pool) \in Nat
  BY <1>1, <1>2, FS_CardinalityType
<1>6. (\E ip \in Pool : IsFree(ip)) <=> Taken # Pool
  BY DEF IsFree
<1>7. Taken = Pool => Cardinality(Taken) = Cardinality(Pool)
  OBVIOUS
<1> HIDE DEF Taken
<1> QED BY <1>1, <1>2, <1>4, <1>5, <1>6, <1>7 DEF CountMeansRoom

\* Whenever the count says there is room the walk finds an address, and whenever
\* it says there is none, none is free.
THEOREM IpamCountMeansRoom == IpamSpec => []CountMeansRoom
<1> QED BY AgreementMeansRoom, InitEstablishesIpamInv, StepKeepsIpamInv, PTL DEF IpamSpec
=============================================================================
