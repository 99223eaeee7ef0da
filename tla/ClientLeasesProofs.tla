------------------------- MODULE ClientLeasesProofs -------------------------
(***************************************************************************)
(* What holds of client configurations for every set of connections, keys, *)
(* requests and addresses, and of Service.Start's recovery for every state *)
(* of the tables.                                                          *)
(*                                                                         *)
(* Unconditionally: the state is well typed, everything the service does   *)
(* to addresses is a behaviour of the address manager and so of an         *)
(* exclusive lease, a recovery that ends leaves an address to the rows of  *)
(* one key, and a recorded address stays.  These rest on Recovering, which *)
(* says how far a recovery has come, and on DraftCurrent, that what the    *)
(* holder of assignmentMu has read is still so.                            *)
(*                                                                         *)
(* From tables in which no two rows share a key: a row's keys stay, each   *)
(* recorded address is leased to its row's key, and an answer's address is *)
(* recorded for no other key.  These rest on Apart, which keeps keys apart *)
(* in the rows, the claims and what requests have read.                    *)
(***************************************************************************)
EXTENDS ClientLeases, IpamProofs, WellFoundedInduction

-----------------------------------------------------------------------------
(* The helpers.                                                             *)

\* Of several connections one is the oldest.
LEMMA OldestConnection ==
  ASSUME NEW C \in SUBSET Conns, C # {}
  PROVE  \E c \in C : \A d \in C : c <= d
<1>1. C \subseteq Nat
  BY ConnsAssumption
<1>2. PICK c \in C : \A d \in C : <<d, c>> \notin OpToRel(<, Nat)
  BY <1>1, WFMin, NatLessThanWellFounded, Zenon
<1>3. \A d \in C : d \in Nat /\ c \in Nat /\ ~(d < c)
  BY <1>1, <1>2, Zenon DEF OpToRel
<1> QED BY <1>3

\* The foremost of several claims is one of them (peer_ip_recovery.go:88-107).
LEMMA ForemostIsOne ==
  ASSUME NEW C \in SUBSET Conns, C # {}, \A c \in C : claim[c].legacy \in BOOLEAN
  PROVE  Foremost(C) \in C
<1> DEFINE D == {c \in C : ~claim[c].legacy}
<1>1. \E c \in C : \A d \in C : Precedes(c, d)
  <2>1. CASE D # {}
    <3>1. PICK c \in D : \A d \in D : c <= d
      BY <2>1, OldestConnection
    <3>2. \A d \in C : Precedes(c, d)
      BY <3>1 DEF Precedes
    <3> QED BY <3>1, <3>2
  <2>2. CASE D = {}
    <3>1. PICK c \in C : \A d \in C : c <= d
      BY OldestConnection
    <3>2. \A d \in C : Precedes(c, d)
      BY <2>2, <3>1 DEF Precedes
    <3> QED BY <3>1, <3>2
  <2> QED BY <2>1, <2>2
<1> HIDE DEF D
<1> QED BY <1>1 DEF Foremost

-----------------------------------------------------------------------------
(* Types, and who holds assignmentMu.                                       *)

\* The stage says who holds the lock, and what is at hand under it: a request that
\* has read its keys, claims that name keys, an address to answer with.
LockHeld ==
    /\ holder = Nobody <=> stage \in {"free", "stopped"}
    /\ stage \in {"refresh", "assign", "persist"} => holder \in Requests
    /\ holder \in Requests => asked[holder] # Idle
    /\ \A r \in Requests : asked[r] # Idle => asked[r].key \in Peers
    /\ \A c \in Conns : claim[c].ip # NoIP => claim[c].key \in Peers
    /\ stage = "persist" => draft.chosen \in Pool

Typed == IpamInv /\ LeasesTypeOK /\ LockHeld

Asking == [conn : Conns \cup {NoConn}, key : Peers \cup {NoPeer}, known : BOOLEAN]
Claim == [key : Peers \cup {NoPeer}, ip : Pool \cup OldIPs \cup {NoIP}, legacy : BOOLEAN]
Draft == [known : BOOLEAN, ip : Pool \cup OldIPs \cup {NoIP}, marked : BOOLEAN,
          had : BOOLEAN, chosen : Pool \cup {NoIP}]

\* Nothing asked, claimed or drafted is well typed.
LEMMA NothingTyped == Idle \in Asking /\ NoClaim \in Claim /\ NoDraft \in Draft
  BY DEF Idle, NoClaim, NoDraft, Asking, Claim, Draft, NoConn

\* What a recovery reads of the tables is typed, and a claim names a key
\* (database/vpn.go:167-213).
LEMMA ClaimsTyped ==
  ASSUME Typed
  PROVE  /\ Claims \in [Conns -> Claim]
         /\ \A c \in Conns : Claims[c].ip # NoIP => Claims[c].key \in Peers
<1> SUFFICES ASSUME NEW c \in Conns
             PROVE  Claims[c] \in Claim /\ (Claims[c].ip # NoIP => Claims[c].key \in Peers)
  BY DEF Claims
<1>1. key[c] \in Peers \cup {NoPeer} /\ ip[c] \in Pool \cup OldIPs \cup {NoIP}
  BY DEF Typed, LeasesTypeOK
<1>2. key[c] \in Peers => session[key[c]] \in Pool \cup OldIPs \cup {NoIP}
  BY DEF Typed, LeasesTypeOK
<1>3. Claims[c] = NoClaim \/ Claims[c] \in [key : Peers, ip : Pool \cup OldIPs, legacy : BOOLEAN]
  BY <1>1, <1>2 DEF Claims
<1>4. CASE Claims[c] = NoClaim
  BY <1>4, NothingTyped DEF NoClaim
<1>5. CASE Claims[c] \in [key : Peers, ip : Pool \cup OldIPs, legacy : BOOLEAN]
  BY <1>5 DEF Claim
<1> QED BY <1>3, <1>4, <1>5

\* The tables of an earlier process are well typed, whatever they name.
LEMMA InitTyped == LeasesInit => Typed
<1> SUFFICES ASSUME LeasesInit PROVE Typed
  OBVIOUS
<1>1. IpamInv
  BY InitEstablishesIpamInv DEF LeasesInit
<1>2. exists \in [Conns -> {"unborn", "live", "gone"}]
  BY DEF LeasesInit
<1>3. /\ key \in [Conns -> Peers \cup {NoPeer}]
      /\ ip \in [Conns -> Pool \cup OldIPs \cup {NoIP}]
      /\ session \in [Peers -> Pool \cup OldIPs \cup {NoIP}]
  BY TablesAssumption DEF LeasesInit
<1>4. \A c \in Conns : /\ exists[c] # "live" => key[c] = NoPeer /\ ~marked[c]
                       /\ ip[c] # NoIP => key[c] # NoPeer /\ ~marked[c]
  BY <1>2 DEF LeasesInit
<1>5. asked \in [Requests -> Asking] /\ claim \in [Conns -> Claim] /\ draft \in Draft
  BY NothingTyped DEF LeasesInit
<1>6. LeasesTypeOK
  <2>1. /\ marked \in [Conns -> BOOLEAN]
        /\ online = {} /\ deleting = {} /\ closing = NoPeer /\ admitted = 0 /\ started = FALSE
        /\ holder = Nobody /\ stage = "free" /\ released = {}
    BY DEF LeasesInit
  <2>2. admitted \in 0..MaxSessions
    BY <2>1, TablesAssumption
  <2> QED BY <1>1, <1>2, <1>3, <1>4, <1>5, <2>1, <2>2 DEF LeasesTypeOK, IpamInv, Asking, Claim, Draft
<1>7. LockHeld
  BY HolderAssumption DEF LockHeld, LeasesInit, NoClaim
<1> QED BY <1>1, <1>6, <1>7 DEF Typed

\* The keys a request answers with (client_config.go:416-431).
LEMMA AdoptedKeyTyped ==
  ASSUME Typed, stage = "refresh"
  PROVE  /\ holder \in Requests /\ asked[holder].conn \in Conns \cup {NoConn}
         /\ asked[holder].key \in Peers
         /\ AdoptedKey(asked[holder].conn) \in Peers
<1>1. holder \in Requests /\ asked[holder] \in Asking /\ asked[holder].key \in Peers
  BY DEF Typed, LockHeld, LeasesTypeOK, Asking
<1> QED BY <1>1 DEF AdoptedKey, InRow, Asking, Typed, LeasesTypeOK

\* Each step does to the address manager what the manager allows, or nothing.
LEMMA StepIsIpam == ASSUME Typed, [LeasesNext]_leaseVars PROVE [IpamNext]_ipamVars
<1>1. ASSUME NEW k \in Peers, Release(k) PROVE IpamNext
  BY <1>1 DEF IpamNext
<1>2. ASSUME NEW k \in Peers, NEW a \in Pool, Reserve(a, k) PROVE IpamNext
  <2>1. a \in Addresses
    BY SubnetAssumption DEF Addresses, Pool
  <2> QED BY <1>2, <2>1 DEF IpamNext
<1>3. CASE ReserveClaimedIP
  <2>1. PICK a \in {claim[c].ip : c \in Claimants} :
          LET rivals == {c \in Claimants : claim[c].ip = a}
              winner == claim[Foremost(rivals)].key
          IN  \/ a \in Pool /\ Reserve(a, winner)
              \/ UNCHANGED ipamVars
    BY <1>3 DEF ReserveClaimedIP
  <2> DEFINE rivals == {c \in Claimants : claim[c].ip = a}
  <2>2. rivals \in SUBSET Conns /\ rivals # {}
    BY DEF Claimants
  <2>3. \A c \in rivals : claim[c].legacy \in BOOLEAN /\ claim[c].key \in Peers
    BY DEF Typed, LeasesTypeOK, LockHeld, Claimants
  <2>4. Foremost(rivals) \in rivals
    BY <2>2, <2>3, ForemostIsOne
  <2> QED BY <1>2, <2>1, <2>3, <2>4
<1>4. CASE Refresh
  <2>1. AdoptedKey(asked[holder].conn) \in Peers
    BY <1>4, AdoptedKeyTyped DEF Refresh
  <2> QED BY <1>1, <1>4, <2>1 DEF Refresh
<1>5. CASE AssignIP
  <2>1. asked[holder].key \in Peers
    BY <1>5 DEF AssignIP, Typed, LockHeld
  <2>2. Recorded => draft.ip \in Pool
    BY DEF Recorded
  <2>3. \A k \in Peers : Allocate(k) => IpamNext
    BY DEF IpamNext
  <2> QED BY <1>2, <1>5, <2>1, <2>2, <2>3 DEF AssignIP
<1>6. CASE Persist
  <2>1. asked[holder].key \in Peers
    BY <1>6 DEF Persist, Typed, LockHeld
  <2> QED BY <1>1, <1>6, <2>1 DEF Persist
<1>7. CASE ReleaseUnpersistedLease
  <2>1. closing \in Peers
    BY <1>7 DEF ReleaseUnpersistedLease, Typed, LeasesTypeOK, Nobody
  <2> QED BY <1>1, <1>7, <2>1 DEF ReleaseUnpersistedLease, ReleaseOutside
<1>8. ASSUME NEW k \in Peers, ReleaseClient(k) PROVE [IpamNext]_ipamVars
  BY <1>1, <1>8 DEF ReleaseClient, ReleaseOutside
<1> QED
  BY <1>3, <1>4, <1>5, <1>6, <1>7, <1>8
     DEF LeasesNext, leaseVars, AddConnection, Connect, DeleteConnection, Prepare, BeginRender,
         BeginStart, Lock, ResolvePeerClaims, InvalidateSessions, CloseSession

\* The three parts of the types: the rows, what sessions and deletions leave, and
\* the turn of the holder of the lock.
RowsTyped ==
    /\ exists \in [Conns -> {"unborn", "live", "gone"}]
    /\ key \in [Conns -> Peers \cup {NoPeer}]
    /\ ip \in [Conns -> Pool \cup OldIPs \cup {NoIP}]
    /\ marked \in [Conns -> BOOLEAN]
    /\ \A c \in Conns : /\ exists[c] # "live" => key[c] = NoPeer /\ ~marked[c]
                        /\ ip[c] # NoIP => key[c] # NoPeer /\ ~marked[c]

SessionsTyped ==
    /\ session \in [Peers -> Pool \cup OldIPs \cup {NoIP}]
    /\ online \subseteq Peers /\ deleting \subseteq Peers
    /\ closing \in Peers \cup {NoPeer}
    /\ admitted \in 0..MaxSessions
    /\ started \in BOOLEAN

TurnTyped ==
    /\ asked \in [Requests -> Asking]
    /\ holder \in Requests \cup {Service, Nobody}
    /\ stage \in {"free", "peers", "addresses", "refresh", "assign", "persist",
                 "invalidate", "stopped"}
    /\ claim \in [Conns -> Claim]
    /\ draft \in Draft
    /\ released \subseteq Peers
    /\ LockHeld

\* The state is well typed when its parts are.
LEMMA TypedParts == Typed <=> IpamInv /\ RowsTyped /\ SessionsTyped /\ TurnTyped
  BY DEF Typed, IpamInv, LeasesTypeOK, RowsTyped, SessionsTyped, TurnTyped, Asking, Claim, Draft

\* So is the next state.
LEMMA TypedPartsNext == Typed' <=> IpamInv' /\ RowsTyped' /\ SessionsTyped' /\ TurnTyped'
  BY TypedParts, PTL

\* Whoever leaves the lock leaves nothing at hand (client_config.go:276-332).
LEMMA UnlockTyped == ASSUME Typed, Unlock PROVE TurnTyped'
<1>1. holder' = Nobody /\ stage' \in {"free", "stopped"} /\ draft' = NoDraft /\ released' = {}
  BY DEF Unlock
<1>2. claim' \in [Conns -> Claim] /\ \A c \in Conns : claim'[c].ip = NoIP
  BY NothingTyped DEF Unlock, NoClaim
<1>3. asked' \in [Requests -> Asking]
  BY NothingTyped, TypedParts DEF Unlock, TurnTyped
<1>4. \A r \in Requests : asked'[r] # Idle => asked'[r].key \in Peers
  BY DEF Unlock, Typed, LockHeld
<1>5. LockHeld'
  BY <1>1, <1>2, <1>4, HolderAssumption DEF LockHeld
<1> QED BY <1>1, <1>2, <1>3, <1>5, NothingTyped DEF TurnTyped

\* A step that leaves the turn and the requests alone.
LEMMA TurnUnchanged == ASSUME Typed, UNCHANGED <<turnVars, asked>> PROVE TurnTyped'
  BY TypedParts DEF turnVars, TurnTyped, LockHeld

\* A step that leaves the rows alone.
LEMMA RowsUnchanged == ASSUME Typed, UNCHANGED rowVars PROVE RowsTyped'
  BY TypedParts DEF rowVars, RowsTyped

\* A step that leaves alone the sessions that end, the deletions and the start.
LEMMA SessionsUnchanged ==
  ASSUME Typed, UNCHANGED <<sessionVars, deleting, started>> PROVE SessionsTyped'
  BY TypedParts DEF sessionVars, SessionsTyped

\* What is done without the lock keeps the types (vpn_connections.go, session.go).
LEMMA OutsideTyped ==
  ASSUME Typed,
         \/ \E c \in Conns : AddConnection(c) \/ Connect(c) \/ DeleteConnection(c)
         \/ \E k \in Peers : CloseSession(k) \/ ReleaseClient(k)
         \/ ReleaseUnpersistedLease
  PROVE  RowsTyped' /\ SessionsTyped' /\ TurnTyped'
<1>1. ASSUME NEW c \in Conns, AddConnection(c) PROVE RowsTyped' /\ SessionsTyped' /\ TurnTyped'
  <2>1. RowsTyped'
    BY <1>1, TypedParts DEF AddConnection, RowsTyped
  <2> QED BY <1>1, <2>1, SessionsUnchanged, TurnUnchanged DEF AddConnection
<1>2. ASSUME NEW c \in Conns, Connect(c) PROVE RowsTyped' /\ SessionsTyped' /\ TurnTyped'
  <2>1. SessionsTyped'
    BY <1>2, TypedParts, TablesAssumption DEF Connect, SessionsTyped, RowsTyped
  <2> QED BY <1>2, <2>1, RowsUnchanged, TurnUnchanged DEF Connect
<1>3. ASSUME NEW c \in Conns, DeleteConnection(c) PROVE RowsTyped' /\ SessionsTyped' /\ TurnTyped'
  <2>1. RowsTyped'
    BY <1>3, TypedParts DEF DeleteConnection, RowsTyped
  <2>2. SessionsTyped'
    BY <1>3, TypedParts DEF DeleteConnection, SessionsTyped, RowsTyped, sessionVars
  <2> QED BY <1>3, <2>1, <2>2, TurnUnchanged DEF DeleteConnection
<1>4. ASSUME NEW k \in Peers, ReleaseOutside(k), asked' = asked PROVE TurnTyped'
  BY <1>4, TypedParts DEF ReleaseOutside, TurnTyped, LockHeld
<1>5. ASSUME NEW k \in Peers, CloseSession(k) PROVE RowsTyped' /\ SessionsTyped' /\ TurnTyped'
  <2>1. SessionsTyped'
    BY <1>5, TypedParts DEF CloseSession, SessionsTyped
  <2> QED BY <1>5, <2>1, RowsUnchanged, TurnUnchanged DEF CloseSession
<1>6. ASSUME NEW k \in Peers, ReleaseClient(k) PROVE RowsTyped' /\ SessionsTyped' /\ TurnTyped'
  <2>1. SessionsTyped'
    BY <1>6, TypedParts DEF ReleaseClient, SessionsTyped
  <2> QED BY <1>4, <1>6, <2>1, RowsUnchanged DEF ReleaseClient
<1>7. CASE ReleaseUnpersistedLease
  <2>1. SessionsTyped' /\ closing \in Peers
    BY <1>7, TypedParts DEF ReleaseUnpersistedLease, SessionsTyped, Nobody
  <2> QED BY <1>4, <1>7, <2>1, RowsUnchanged DEF ReleaseUnpersistedLease
<1> QED BY <1>1, <1>2, <1>3, <1>5, <1>6, <1>7

\* What a request reads before the lock, and the recovery as it takes it.
LEMMA RequestTyped ==
  ASSUME Typed,
         \/ \E r \in Requests : Prepare(r) \/ BeginRender(r)
         \/ BeginStart
  PROVE  RowsTyped' /\ SessionsTyped' /\ TurnTyped'
<1>1. ASSUME NEW r \in Requests, Prepare(r) PROVE RowsTyped' /\ SessionsTyped' /\ TurnTyped'
  <2>1. PICK k \in Peers, c \in Conns \cup {NoConn}, b \in BOOLEAN :
          asked' = [asked EXCEPT ![r] = [conn |-> c, key |-> k, known |-> b]]
    BY <1>1 DEF Prepare, Live
  <2>2. asked' \in [Requests -> Asking] /\ asked'[r].key \in Peers /\ asked'[r] # Idle
    BY <2>1, TypedParts, NullAssumption DEF TurnTyped, Asking, Idle
  <2>3. \A q \in Requests : asked'[q] = asked[q] \/ asked'[q] = asked'[r]
    BY <2>1, TypedParts DEF TurnTyped
  <2>4. UNCHANGED turnVars
    BY <1>1 DEF Prepare
  <2>5. TurnTyped'
    BY <2>2, <2>3, <2>4, TypedParts DEF TurnTyped, LockHeld, turnVars
  <2> QED BY <1>1, <2>5, RowsUnchanged, SessionsUnchanged DEF Prepare
<1>2. ASSUME NEW h \in Requests \cup {Service}, Lock(h), h \in Requests => asked[h] # Idle
      PROVE  RowsTyped' /\ SessionsTyped' /\ TurnTyped'
  <2>1. TurnTyped'
    BY <1>2, ClaimsTyped, TypedParts, HolderAssumption DEF Lock, TurnTyped, LockHeld
  <2> QED BY <1>2, <2>1, RowsUnchanged, SessionsUnchanged DEF Lock
<1> QED BY <1>1, <1>2, HolderAssumption DEF BeginRender, BeginStart

\* A quarantined row names no address, and asks its user for a new configuration.
LEMMA QuarantineTyped ==
  ASSUME Typed, NEW C \in SUBSET Conns, NEW R \in SUBSET C, C \subseteq Live, Quarantine(C, R),
         UNCHANGED <<deleting, started>>
  PROVE  RowsTyped' /\ SessionsTyped'
<1>1. RowsTyped'
  BY TypedParts DEF Quarantine, RowsTyped, Live
<1>2. SessionsTyped'
  BY TypedParts DEF Quarantine, SessionsTyped
<1> QED BY <1>1, <1>2

\* A step of the recovery, whether all its writes succeed or one does not
\* (peer_ip_recovery.go:221-294).
LEMMA QuarantineAllTyped ==
  ASSUME Typed, NEW C \in SUBSET Conns, NEW R \in SUBSET C, NEW settled,
         stage \in {"peers", "addresses"}, QuarantineAll(C, R, settled),
         UNCHANGED <<deleting, started>>
  PROVE  RowsTyped' /\ SessionsTyped' /\ TurnTyped'
<1>1. CASE C \subseteq Live /\ Quarantine(C, R) /\ Settle(settled)
  <2>1. claim' \in [Conns -> Claim] /\ \A c \in Conns : claim'[c] \in {NoClaim, claim[c]}
    BY <1>1, TypedParts, NothingTyped DEF Settle, TurnTyped
  <2>2. holder # Nobody /\ stage' \in {"addresses", "invalidate", "refresh"}
        /\ (stage' = "refresh" => holder \in Requests)
    BY <1>1, TypedParts DEF Settle, TurnTyped, LockHeld
  <2>3. UNCHANGED <<holder, draft, released, asked>>
    BY <1>1 DEF Settle
  <2>4. LockHeld'
    BY <2>1, <2>2, <2>3 DEF LockHeld, NoClaim, Typed
  <2>5. TurnTyped'
    BY <2>1, <2>2, <2>3, <2>4, TypedParts DEF TurnTyped
  <2> QED BY <1>1, <2>5, QuarantineTyped
<1>2. CASE \E done \in SUBSET (C \cap Live) : Quarantine(done, R \cap done) /\ Unlock
  BY <1>2, UnlockTyped, QuarantineTyped
<1> QED BY <1>1, <1>2 DEF QuarantineAll

\* Sorting out the claims and reserving their addresses keep the types
\* (peer_ip_recovery.go:88-294).
LEMMA RecoveryTyped ==
  ASSUME Typed, ResolvePeerClaims \/ ReserveClaimedIP
  PROVE  RowsTyped' /\ SessionsTyped' /\ TurnTyped'
<1>1. CASE ResolvePeerClaims
  <2>1. Inconsistent \in SUBSET Conns
    BY DEF Inconsistent, Claimants
  <2> QED BY <1>1, <2>1, QuarantineAllTyped DEF ResolvePeerClaims
<1>2. CASE ReserveClaimedIP
  <2>1. PICK E \in SUBSET Conns, R \in SUBSET Conns, settled \in SUBSET Conns :
          R \subseteq E /\ QuarantineAll(E, R, settled)
    BY <1>2 DEF ReserveClaimedIP, Evicted, Claimants
  <2> QED BY <1>2, <2>1, QuarantineAllTyped DEF ReserveClaimedIP
<1> QED BY <1>1, <1>2

\* The request's own steps under the lock (client_config.go:334-467, 560-660).
LEMMA AnswerTyped ==
  ASSUME Typed, IpamInv', Refresh \/ AssignIP \/ Persist \/ InvalidateSessions
  PROVE  RowsTyped' /\ SessionsTyped' /\ TurnTyped'
<1>1. CASE Refresh
  <2>1. CASE GiveUp
    BY <1>1, <2>1, UnlockTyped, RowsUnchanged, SessionsUnchanged DEF GiveUp, Refresh
  <2> DEFINE c == asked[holder].conn
             k == AdoptedKey(c)
  <2>2. CASE /\ IF c = NoConn THEN Live = {} ELSE c \in Live
             /\ draft' = [known |-> InRow(c), ip |-> IF c = NoConn THEN NoIP ELSE ip[c],
                          marked |-> RegenerationRequired(c), had |-> allocated[k] # NoIP,
                          chosen |-> NoIP]
             /\ asked' = [asked EXCEPT ![holder].key = k]
             /\ stage' = "assign"
             /\ UNCHANGED <<rowVars, sessionVars, holder, claim, released>>
    <3>1. holder \in Requests /\ k \in Peers /\ c \in Conns \cup {NoConn}
      BY <1>1, AdoptedKeyTyped DEF Refresh
    <3>2. draft' \in Draft
      BY <2>2, <3>1, TypedParts DEF Draft, InRow, RegenerationRequired, RowsTyped
    <3>3. asked' \in [Requests -> Asking] /\ asked'[holder].key = k /\ asked'[holder] # Idle
          /\ \A r \in Requests : r # holder => asked'[r] = asked[r]
      BY <2>2, <3>1, TypedParts, NullAssumption DEF TurnTyped, Asking, Idle
    <3>4. LockHeld'
      BY <2>2, <3>1, <3>3, HolderAssumption DEF Typed, LockHeld
    <3>5. TurnTyped'
      BY <2>2, <3>2, <3>3, <3>4, TypedParts DEF TurnTyped
    <3> QED BY <1>1, <2>2, <3>5, RowsUnchanged, SessionsUnchanged DEF Refresh
  <2> QED BY <1>1, <2>1, <2>2 DEF Refresh
<1>2. CASE AssignIP
  <2>1. CASE GiveUp
    BY <1>2, <2>1, UnlockTyped, RowsUnchanged, SessionsUnchanged DEF GiveUp, AssignIP
  <2>2. ASSUME NEW a \in Pool, Choose(a) PROVE RowsTyped' /\ SessionsTyped' /\ TurnTyped'
    <3>1. draft' \in Draft /\ draft'.chosen = a
      BY <2>2, TypedParts DEF Choose, TurnTyped, Draft
    <3>2. holder \in Requests
      BY <1>2 DEF AssignIP, Typed, LockHeld
    <3>3. LockHeld'
      BY <2>2, <3>1, <3>2, HolderAssumption DEF Choose, Typed, LockHeld
    <3>4. TurnTyped'
      BY <2>2, <3>1, <3>3, TypedParts DEF Choose, TurnTyped
    <3> QED BY <1>2, <2>2, <3>4, RowsUnchanged, SessionsUnchanged DEF AssignIP, Choose
  <2> DEFINE k == asked[holder].key
  <2>3. k \in Peers /\ (Recorded => draft.ip \in Pool)
    BY <1>2 DEF AssignIP, Typed, LockHeld, Recorded
  <2>4. allocated[k] # NoIP => allocated[k] \in Pool
    BY <2>3 DEF Typed, IpamInv, IpamTypeOK
  <2>5. Allocate(k) => allocated'[k] \in Pool
    BY <2>3 DEF Typed, IpamInv, IpamTypeOK, Allocate
  <2> QED BY <1>2, <2>1, <2>2, <2>3, <2>4, <2>5 DEF AssignIP
<1>3. CASE Persist
  <2>1. TurnTyped' /\ SessionsTyped'
    BY <1>3, UnlockTyped, SessionsUnchanged DEF Persist
  <2>2. ASSUME NEW c \in Conns, Store(c) PROVE RowsTyped'
    <3>1. asked[holder].key \in Peers /\ draft.chosen \in Pool
      BY <1>3 DEF Persist, Typed, LockHeld
    <3> QED BY <2>2, <3>1, TypedParts, NullAssumption DEF Store, RowsTyped
  <2>3. Target \subseteq Conns
    BY DEF Target, Live
  <2> QED BY <1>3, <2>1, <2>2, <2>3, RowsUnchanged DEF Persist
<1>4. CASE InvalidateSessions
  <2>1. TurnTyped'
    BY <1>4, UnlockTyped DEF InvalidateSessions
  <2>2. RowsTyped'
    <3>1. \A c \in Conns : Claims[c].legacy => key[c] # NoPeer
      BY DEF Claims, NoClaim
    <3>2. \A c \in Conns : Claims[c].ip \in Pool \cup OldIPs \cup {NoIP}
      BY ClaimsTyped DEF Claim
    <3> QED BY <1>4, <3>1, <3>2, TypedParts DEF InvalidateSessions, RowsTyped
  <2>3. SessionsTyped'
    BY <1>4, TypedParts DEF InvalidateSessions, SessionsTyped
  <2> QED BY <2>1, <2>2, <2>3
<1> QED BY <1>1, <1>2, <1>3, <1>4

\* Every step keeps the types.
LEMMA StepTyped == Typed /\ [LeasesNext]_leaseVars => Typed'
<1> SUFFICES ASSUME Typed, [LeasesNext]_leaseVars PROVE Typed'
  OBVIOUS
<1>1. IpamInv'
  BY StepIsIpam, StepKeepsIpamInv DEF Typed
<1>2. RowsTyped' /\ SessionsTyped' /\ TurnTyped'
  <2>1. CASE UNCHANGED leaseVars
    BY <2>1, RowsUnchanged, SessionsUnchanged, TurnUnchanged DEF leaseVars
  <2> QED BY <1>1, <2>1, OutsideTyped, RequestTyped, RecoveryTyped, AnswerTyped DEF LeasesNext
<1> QED BY <1>1, <1>2, TypedPartsNext

\* The state is always well typed, whatever tables an earlier process left.
THEOREM LeasesTypes == LeasesSpec => []LeasesTypeOK
<1>1. Typed => LeasesTypeOK
  BY DEF Typed
<1> QED BY <1>1, InitTyped, StepTyped, PTL DEF LeasesSpec

\* The recovery, the requests, the sessions that end and the deletions use the
\* address manager as it may be used (client_config.go:560-604,
\* peer_ip_recovery.go:221-294): what they do together to its maps is a behaviour of
\* the manager.
THEOREM LeasesUseIpam == LeasesSpec => IpamSpec
<1>1. LeasesInit => IpamInit
  BY DEF LeasesInit
<1>2. Typed /\ [LeasesNext]_leaseVars => [IpamNext]_ipamVars
  BY StepIsIpam
<1> QED BY <1>1, <1>2, InitTyped, StepTyped, PTL DEF LeasesSpec, IpamSpec

\* So no address passes from one client to another without having been given up,
\* in whatever order recovery, answers, sessions and deletions come (ImplementsLease).
THEOREM LeasesImplementLease == LeasesSpec => ImplementsLease
<1> QED BY LeasesUseIpam, IpamImplementsLease

-----------------------------------------------------------------------------
(* The recovery.                                                            *)

\* What happens without the lock leaves the turn alone: a row may appear or go, a
\* key may lose its lease and is then remembered.
RowQuiet(c) ==
    \/ /\ exists'[c] = exists[c] /\ key'[c] = key[c] /\ ip'[c] = ip[c] /\ marked'[c] = marked[c]
    \/ /\ exists[c] = "live" /\ exists'[c] = "gone"
       /\ key'[c] = NoPeer /\ ip'[c] = NoIP /\ ~marked'[c]
    \/ /\ exists[c] = "unborn" /\ exists'[c] = "live"
       /\ key'[c] = key[c] /\ ip'[c] = ip[c] /\ marked'[c] = marked[c]

LeaseQuiet ==
    stage # "free" =>
        /\ released \subseteq released'
        /\ \A k \in Peers : allocated'[k] = allocated[k] \/ k \in released'

Quiet ==
    /\ UNCHANGED <<holder, stage, claim, draft>>
    /\ holder \in Requests => asked'[holder] = asked[holder]
    /\ \A c \in Conns : RowQuiet(c)
    /\ LeaseQuiet

\* The recovery's own steps, when all their writes succeed.
Locked ==
    /\ holder = Nobody /\ stage' = "peers" /\ claim' = Claims /\ UNCHANGED rowVars

Resolved ==
    /\ stage = "peers" /\ Inconsistent \subseteq Live
    /\ Quarantine(Inconsistent, Inconsistent) /\ Settle(Inconsistent)
    /\ UNCHANGED ipamVars

Rivals(a) == {c \in Claimants : claim[c].ip = a}
Winner(a) == claim[Foremost(Rivals(a))].key
Losers(a) == Evicted(Rivals(a), Winner(a), a)
Retired(a) == {c \in Losers(a) : \E d \in Rivals(a) \ {c} : claim[d].key = claim[c].key}

Reserved ==
    /\ stage = "addresses"
    /\ \E a \in {claim[c].ip : c \in Claimants} :
         /\ IF Grantable(a, Winner(a)) /\ a \in Pool /\ IsFree(a)
            THEN Reserve(a, Winner(a)) ELSE UNCHANGED ipamVars
         /\ Losers(a) \subseteq Live
         /\ Quarantine(Losers(a), Retired(a)) /\ Settle(Rivals(a))

\* The steps of an answer that is not over.
Refreshed ==
    /\ Refresh /\ stage' = "assign" /\ stage = "refresh"
    /\ UNCHANGED <<rowVars, claim, released, holder>>

Assigned ==
    /\ AssignIP /\ stage' = "persist" /\ stage = "assign"
    /\ UNCHANGED <<rowVars, claim, released, holder, asked>>

\* Every step is one of these, or ends the turn.
LEMMA StepKinds ==
  ASSUME Typed, [LeasesNext]_leaseVars
  PROVE  \/ Quiet \/ Locked \/ Resolved \/ Reserved \/ Refreshed \/ Assigned
         \/ stage' \in {"free", "stopped"}
<1>1. ASSUME NEW k \in Peers, ReleaseOutside(k)
      PROVE  LeaseQuiet /\ UNCHANGED <<holder, stage, claim, draft>>
  <2>1. allocated \in [Peers -> Pool \cup {NoIP}]
    BY DEF Typed, IpamInv, IpamTypeOK
  <2> QED BY <1>1, <2>1 DEF ReleaseOutside, LeaseQuiet, Release, ipamVars
<1>2. UNCHANGED <<ipamVars, turnVars>> => LeaseQuiet /\ UNCHANGED <<holder, stage, claim, draft>>
  BY DEF LeaseQuiet, ipamVars, turnVars
<1>3. UNCHANGED rowVars => \A c \in Conns : RowQuiet(c)
  BY DEF rowVars, RowQuiet
<1>4. ASSUME NEW c \in Conns, AddConnection(c) \/ DeleteConnection(c)
      PROVE  \A d \in Conns : RowQuiet(d)
  BY <1>4, TypedParts DEF AddConnection, DeleteConnection, RowQuiet, RowsTyped, Live
<1>5. ASSUME NEW r \in Requests, Prepare(r) PROVE Quiet
  <2>1. holder \in Requests => asked'[holder] = asked[holder]
    BY <1>5, TypedParts DEF Prepare, TurnTyped, LockHeld
  <2> QED BY <1>2, <1>3, <1>5, <2>1 DEF Prepare, Quiet
<1>6. CASE \/ \E c \in Conns : AddConnection(c) \/ Connect(c) \/ DeleteConnection(c)
           \/ \E k \in Peers : CloseSession(k)
  BY <1>2, <1>3, <1>4, <1>6 DEF Quiet, AddConnection, Connect, DeleteConnection, CloseSession
<1>7. CASE ReleaseUnpersistedLease
  <2>1. closing \in Peers
    BY <1>7, TypedParts DEF ReleaseUnpersistedLease, SessionsTyped, Nobody
  <2> QED BY <1>1, <1>3, <1>7, <2>1 DEF Quiet, ReleaseUnpersistedLease
<1>8. ASSUME NEW k \in Peers, ReleaseClient(k) PROVE Quiet
  BY <1>1, <1>3, <1>8 DEF Quiet, ReleaseClient
<1>9. ASSUME NEW h, Lock(h) PROVE Locked
  BY <1>9 DEF Lock, Locked
<1>10. Unlock => stage' \in {"free", "stopped"}
  BY DEF Unlock
<1>11. CASE ResolvePeerClaims
  BY <1>10, <1>11 DEF ResolvePeerClaims, QuarantineAll, Resolved
<1>12. CASE ReserveClaimedIP
  <2>1. PICK a \in {claim[c].ip : c \in Claimants} :
          /\ IF Grantable(a, Winner(a)) /\ a \in Pool /\ IsFree(a)
             THEN Reserve(a, Winner(a)) ELSE UNCHANGED ipamVars
          /\ QuarantineAll(Losers(a), Retired(a), Rivals(a))
    BY <1>12 DEF ReserveClaimedIP, Losers, Retired, Rivals, Winner
  <2> QED BY <1>10, <1>12, <2>1 DEF ReserveClaimedIP, QuarantineAll, Reserved
<1>13. CASE Refresh
  BY <1>10, <1>13 DEF Refresh, GiveUp, Refreshed
<1>14. CASE AssignIP
  BY <1>10, <1>14 DEF AssignIP, GiveUp, Choose, Assigned
<1>15. CASE Persist \/ InvalidateSessions
  BY <1>10, <1>15 DEF Persist, InvalidateSessions
<1>16. CASE UNCHANGED leaseVars
  BY <1>2, <1>3, <1>16 DEF leaseVars, Quiet
<1> QED
  BY <1>5, <1>6, <1>7, <1>8, <1>9, <1>11, <1>12, <1>13, <1>14, <1>15, <1>16
     DEF LeasesNext, BeginRender, BeginStart

\* A claim that is not settled is what its row says, unless the row is gone.
ClaimsCurrent ==
    \A c \in Claimants : exists[c] # "gone" =>
        /\ exists[c] = "live" /\ key[c] = claim[c].key
        /\ ip[c] = IF claim[c].legacy THEN NoIP ELSE claim[c].ip

\* Claims of one key agree on its address.
ClaimsAgree == \A c, d \in Claimants : claim[c].key = claim[d].key => claim[c].ip = claim[d].ip

Settled(c) == c \in Conns \ Claimants /\ ip[c] # NoIP

\* A settled row shares neither its key nor its address with a claim that is not.
SettledApart ==
    \A c \in Conns, d \in Claimants :
        Settled(c) => key[c] # claim[d].key /\ ip[c] # claim[d].ip

SettledPaired ==
    \A c, d \in Conns : Settled(c) /\ Settled(d) => (ip[c] = ip[d] <=> key[c] = key[d])

\* How far the recovery has come.
Recovering ==
    /\ stage \notin {"free", "stopped"} => ClaimsCurrent
    /\ stage = "peers" => \A c \in Conns : ~Settled(c)
    /\ stage = "addresses" => ClaimsAgree
    /\ stage \notin {"free", "stopped", "peers"} => SettledApart /\ SettledPaired
    /\ Recovered => Claimants = {}

\* Writing claims off settles them.
LEMMA SettleLeaves ==
  ASSUME Typed, NEW C, Settle(C)
  PROVE  /\ claim' = [c \in Conns |-> IF c \in C THEN NoClaim ELSE claim[c]]
         /\ Claimants' = Claimants \ C
         /\ stage' \in {"addresses", "invalidate", "refresh"}
         /\ stage' = "addresses" <=> Claimants' # {}
<1>1. claim' = [c \in Conns |-> IF c \in C THEN NoClaim ELSE claim[c]]
  BY DEF Settle
<1>2. Claimants' = Claimants \ C
  BY <1>1 DEF Claimants, NoClaim
<1> QED BY <1>1, <1>2 DEF Settle

\* A row that records an address is live, and a claim of its own that is not settled
\* is for that address.
LEMMA RecordedIsLive ==
  ASSUME Typed, NEW c \in Conns, ip[c] # NoIP
  PROVE  /\ exists[c] = "live" /\ key[c] \in Peers
         /\ ClaimsCurrent /\ c \in Claimants => key[c] = claim[c].key /\ ip[c] = claim[c].ip
<1>1. exists[c] = "live" /\ key[c] \in Peers
  BY TypedParts DEF RowsTyped
<1> QED BY <1>1 DEF ClaimsCurrent

\* What the recovery has read is what the tables say.
LEMMA LockRecovers == ASSUME Typed, Locked PROVE Recovering'
<1>1. stage' = "peers" /\ claim' = Claims /\ exists' = exists /\ key' = key /\ ip' = ip
  BY DEF Locked, rowVars
<1>2. \A c \in Conns :
        /\ ip[c] # NoIP => Claims[c].ip # NoIP
        /\ Claims[c].ip # NoIP =>
             /\ exists[c] = "live" /\ key[c] = Claims[c].key
             /\ ip[c] = IF Claims[c].legacy THEN NoIP ELSE Claims[c].ip
  BY RecordedIsLive, NullAssumption DEF Claims, NoClaim
<1> QED BY <1>1, <1>2 DEF Recovering, ClaimsCurrent, Settled, Recovered, Claimants

\* What happens without the lock can only take rows away from the recovery.
LEMMA QuietRecovers == ASSUME Typed, Typed', Recovering, Quiet PROVE Recovering'
<1>1. Claimants' = Claimants /\ claim' = claim /\ stage' = stage
  BY DEF Quiet, Claimants
<1>2. ASSUME NEW c \in Conns, ip'[c] # NoIP PROVE ip'[c] = ip[c] /\ key'[c] = key[c]
  BY <1>2 DEF Quiet, RowQuiet
<1>3. ClaimsCurrent => ClaimsCurrent'
  <2> SUFFICES ASSUME ClaimsCurrent, NEW c \in Claimants, exists'[c] # "gone"
               PROVE  /\ exists'[c] = "live" /\ key'[c] = claim[c].key
                      /\ ip'[c] = IF claim[c].legacy THEN NoIP ELSE claim[c].ip
    BY <1>1 DEF ClaimsCurrent
  <2>1. c \in Conns /\ RowQuiet(c)
    BY DEF Claimants, Quiet
  <2> QED BY <2>1 DEF ClaimsCurrent, RowQuiet
<1>4. \A c \in Conns : Settled(c)' => Settled(c) /\ ip'[c] = ip[c] /\ key'[c] = key[c]
  BY <1>1, <1>2 DEF Settled
<1>5. (SettledApart => SettledApart') /\ (SettledPaired => SettledPaired') /\ (ClaimsAgree => ClaimsAgree')
  BY <1>1, <1>4 DEF SettledApart, SettledPaired, ClaimsAgree
<1> QED BY <1>1, <1>3, <1>4, <1>5 DEF Recovering, Recovered

\* The claims of one key that agree with the foremost of them agree with each other
\* (peer_ip_recovery.go:231-250).
LEMMA ResolvedRecovers == ASSUME Typed, Typed', Recovering, Resolved PROVE Recovering'
<1>1. /\ claim' = [c \in Conns |-> IF c \in Inconsistent THEN NoClaim ELSE claim[c]]
      /\ Claimants' = Claimants \ Inconsistent
      /\ stage' \in {"addresses", "invalidate", "refresh"}
      /\ stage' = "addresses" <=> Claimants' # {}
  BY SettleLeaves DEF Resolved
<1>2. /\ exists' = exists
      /\ key' = [c \in Conns |-> IF c \in Inconsistent THEN NoPeer ELSE key[c]]
      /\ ip' = [c \in Conns |-> IF c \in Inconsistent THEN NoIP ELSE ip[c]]
  BY DEF Resolved, Quarantine
<1>3. Claimants \subseteq Conns /\ ClaimsCurrent /\ \A c \in Conns : ~Settled(c)
  BY DEF Claimants, Recovering, Resolved
<1>4. ClaimsCurrent'
  BY <1>1, <1>2, <1>3 DEF ClaimsCurrent
<1>5. \A c \in Conns : ~Settled(c)'
  BY <1>1, <1>2, <1>3 DEF Settled
<1>6. ClaimsAgree'
  <2> SUFFICES ASSUME NEW c \in Claimants \ Inconsistent, NEW d \in Claimants \ Inconsistent,
                      claim[c].key = claim[d].key
               PROVE  claim[c].ip = claim[d].ip
    BY <1>1, <1>3 DEF ClaimsAgree
  <2>1. SameKey(c) = SameKey(d)
    BY DEF SameKey
  <2> QED BY <2>1 DEF Inconsistent
<1> QED BY <1>1, <1>4, <1>5, <1>6 DEF Recovering, SettledApart, SettledPaired, Recovered

\* An address that is settled belongs to the rows of one key, none of whose claims
\* is left (peer_ip_recovery.go:252-294).
LEMMA ReservedRecovers == ASSUME Typed, Typed', Recovering, Reserved PROVE Recovering'
<1>1. PICK a : /\ Losers(a) \subseteq Live
               /\ Quarantine(Losers(a), Retired(a)) /\ Settle(Rivals(a))
  BY DEF Reserved
<1>2. /\ claim' = [c \in Conns |-> IF c \in Rivals(a) THEN NoClaim ELSE claim[c]]
      /\ Claimants' = Claimants \ Rivals(a)
      /\ stage' \in {"addresses", "invalidate", "refresh"}
      /\ stage' = "addresses" <=> Claimants' # {}
  BY <1>1, SettleLeaves
<1>3. /\ exists' = exists
      /\ key' = [c \in Conns |-> IF c \in Retired(a) THEN NoPeer ELSE key[c]]
      /\ ip' = [c \in Conns |-> IF c \in Losers(a) THEN NoIP ELSE ip[c]]
  BY <1>1 DEF Quarantine
<1>4. /\ Claimants \subseteq Conns /\ Rivals(a) \subseteq Claimants
      /\ Losers(a) \subseteq Rivals(a) /\ Retired(a) \subseteq Losers(a)
  BY DEF Claimants, Rivals, Losers, Retired, Evicted
<1>5. ClaimsCurrent /\ ClaimsAgree /\ SettledApart /\ SettledPaired
  BY DEF Recovering, Reserved
<1>6. ClaimsCurrent'
  BY <1>2, <1>3, <1>4, <1>5 DEF ClaimsCurrent
<1>7. ClaimsAgree'
  BY <1>2, <1>4, <1>5 DEF ClaimsAgree
<1> DEFINE New(c) == c \in Rivals(a) \ Losers(a) /\ key[c] = Winner(a) /\ ip[c] = a
<1>8. ASSUME NEW c \in Conns, Settled(c)'
      PROVE  key'[c] = key[c] /\ ip'[c] = ip[c] /\ (Settled(c) \/ New(c))
  <2>1. ip'[c] # NoIP /\ c \notin Losers(a) /\ key'[c] = key[c] /\ ip'[c] = ip[c]
    BY <1>3, <1>4, <1>8 DEF Settled
  <2>2. CASE c \in Claimants
    <3>1. c \in Rivals(a)
      BY <1>2, <1>8, <2>2 DEF Settled
    <3>2. claim[c].key = Winner(a) /\ claim[c].ip = a
      BY <2>1, <3>1 DEF Losers, Evicted, Rivals
    <3> QED BY <1>5, <2>1, <2>2, <3>1, <3>2, RecordedIsLive
  <2>3. CASE c \notin Claimants
    BY <2>1, <2>3 DEF Settled
  <2> QED BY <2>1, <2>2, <2>3
<1>9. ASSUME NEW c \in Conns, New(c) PROVE claim[c].key = Winner(a) /\ c \in Claimants
  BY <1>9 DEF Rivals, Losers, Evicted
<1>10. SettledApart'
  <2> SUFFICES ASSUME NEW c \in Conns, NEW d \in Claimants \ Rivals(a), Settled(c)'
               PROVE  key[c] # claim[d].key /\ ip[c] # claim[d].ip
    BY <1>2, <1>4, <1>8 DEF SettledApart
  <2>1. claim[d].ip # a /\ d \in Claimants
    BY DEF Rivals
  <2>2. CASE Settled(c)
    BY <1>5, <2>1, <2>2 DEF SettledApart
  <2>3. CASE New(c)
    <3>1. claim[c].key = Winner(a) /\ claim[c].ip = a /\ c \in Claimants
      BY <1>9, <2>3 DEF Rivals
    <3> QED BY <1>5, <2>1, <2>3, <3>1 DEF ClaimsAgree
  <2> QED BY <1>8, <2>2, <2>3
<1>11. SettledPaired'
  <2> SUFFICES ASSUME NEW c \in Conns, NEW d \in Conns, Settled(c)', Settled(d)'
               PROVE  ip[c] = ip[d] <=> key[c] = key[d]
    BY <1>8 DEF SettledPaired
  <2>1. ASSUME NEW e \in Conns, NEW f \in Conns, Settled(e), New(f)
        PROVE  ip[e] # ip[f] /\ key[e] # key[f]
    <3>1. claim[f].key = key[f] /\ claim[f].ip = ip[f] /\ f \in Claimants
      BY <1>9, <2>1 DEF Rivals
    <3> QED BY <1>5, <2>1, <3>1 DEF SettledApart
  <2>2. CASE Settled(c) /\ Settled(d)
    BY <1>5, <2>2 DEF SettledPaired
  <2>3. CASE New(c) /\ New(d)
    BY <2>3
  <2> QED BY <1>8, <2>1, <2>2, <2>3
<1> QED BY <1>2, <1>6, <1>7, <1>10, <1>11 DEF Recovering, Recovered

\* No step sets a recovery back.
LEMMA StepRecovers == Typed /\ Typed' /\ Recovering /\ [LeasesNext]_leaseVars => Recovering'
<1> SUFFICES ASSUME Typed, Typed', Recovering, [LeasesNext]_leaseVars PROVE Recovering'
  OBVIOUS
<1>1. CASE Refreshed \/ Assigned
  BY <1>1 DEF Refreshed, Assigned, Recovering, Recovered, ClaimsCurrent, SettledApart,
              SettledPaired, Settled, Claimants, rowVars
<1>2. CASE stage' \in {"free", "stopped"}
  BY <1>2 DEF Recovering, Recovered
<1> QED BY <1>1, <1>2, StepKinds, LockRecovers, QuietRecovers, ResolvedRecovers, ReservedRecovers

\* Whatever the tables held and whichever writes failed, once a recovery is over two
\* rows share their address exactly when they share their key (RecoveryResolves;
\* peer_ip_recovery.go:221-294).
THEOREM RecoveriesResolve == LeasesSpec => []RecoveryResolves
<1>1. LeasesInit => Recovering
  BY DEF LeasesInit, Recovering, Recovered
<1>2. Recovering => RecoveryResolves
  BY DEF Recovering, RecoveryResolves, Recovered, SettledPaired, Settled
<1> QED BY <1>1, <1>2, InitTyped, StepTyped, StepRecovers, PTL DEF LeasesSpec

-----------------------------------------------------------------------------
(* What an answer rests on.                                                 *)

\* What the holder of the lock has read of its connection is still so, if the
\* connection is still there; a recorded address is the answer's.
DraftCurrent ==
    LET c == asked[holder].conn
    IN  stage \in {"assign", "persist"} =>
          /\ c # NoConn =>
               /\ exists[c] # "unborn"
               /\ exists[c] = "live" =>
                    /\ draft.ip = ip[c] /\ draft.marked = marked[c]
                    /\ draft.known <=> key[c] # NoPeer
          /\ c = NoConn => draft.ip = NoIP
          /\ stage = "persist" /\ Recorded => draft.chosen = draft.ip

\* What a refresh that is not the end of the turn does.
LEMMA RefreshedEffect ==
  ASSUME Typed, Refreshed
  PROVE  LET c == asked[holder].conn
             k == AdoptedKey(c)
         IN  /\ holder \in Requests /\ c \in Conns \cup {NoConn} /\ k \in Peers
             /\ c # NoConn => c \in Live
             /\ draft' = [known |-> InRow(c), ip |-> IF c = NoConn THEN NoIP ELSE ip[c],
                          marked |-> RegenerationRequired(c), had |-> allocated[k] # NoIP,
                          chosen |-> NoIP]
             /\ asked'[holder] = [asked[holder] EXCEPT !.key = k]
             /\ \A r \in Requests : r # holder => asked'[r] = asked[r]
             /\ IF RegenerationRequired(c) /\ allocated[k] # NoIP THEN Release(k)
                ELSE UNCHANGED ipamVars
<1>1. ~GiveUp
  BY DEF GiveUp, Unlock, Refreshed
<1>2. holder \in Requests /\ asked \in [Requests -> Asking]
  BY TypedParts, AdoptedKeyTyped DEF Refreshed, Refresh, TurnTyped
<1> QED BY <1>1, <1>2, AdoptedKeyTyped DEF Refreshed, Refresh

\* What an assignment that is not the end of the turn does.
LEMMA AssignedEffect ==
  ASSUME Typed, Assigned
  PROVE  LET k == asked[holder].key
         IN  /\ holder \in Requests /\ k \in Peers
             /\ draft' = [draft EXCEPT !.chosen = draft'.chosen]
             /\ draft'.chosen \in Pool
             /\ \/ /\ Recorded /\ draft'.chosen = draft.ip
                   /\ \/ IsFree(draft.ip) /\ Reserve(draft.ip, k)
                      \/ reverse[draft.ip] = k /\ UNCHANGED ipamVars
                \/ /\ ~Recorded /\ allocated[k] # NoIP /\ UNCHANGED ipamVars
                   /\ draft'.chosen = allocated[k]
                \/ ~Recorded /\ Allocate(k) /\ draft'.chosen = allocated'[k]
<1>1. ~GiveUp
  BY DEF GiveUp, Unlock, Assigned
<1> DEFINE k == asked[holder].key
<1>2. holder \in Requests /\ k \in Peers /\ draft \in Draft
  BY TypedParts DEF Assigned, Typed, LockHeld, TurnTyped
<1>3. \A a : Choose(a) => draft' = [draft EXCEPT !.chosen = a] /\ draft'.chosen = a
  BY <1>2 DEF Choose, Draft
<1>4. Recorded => draft.ip \in Pool
  BY DEF Recorded
<1>5. (allocated[k] # NoIP => allocated[k] \in Pool) /\ (Allocate(k) => allocated'[k] \in Pool)
  BY <1>2 DEF Typed, IpamInv, IpamTypeOK, Allocate
<1> QED BY <1>1, <1>2, <1>3, <1>4, <1>5 DEF Assigned, AssignIP

\* What the holder of the lock has read stays so, whatever happens without the lock
\* (client_config.go:607-660).
LEMMA StepKeepsDraft ==
  Typed /\ Typed' /\ DraftCurrent /\ [LeasesNext]_leaseVars => DraftCurrent'
<1> SUFFICES ASSUME Typed, Typed', DraftCurrent, [LeasesNext]_leaseVars,
                    stage' \in {"assign", "persist"}
             PROVE  DraftCurrent'
  BY DEF DraftCurrent
<1>1. CASE Quiet
  <2> DEFINE c == asked[holder].conn
  <2>1. holder' = holder /\ stage' = stage /\ draft' = draft /\ holder \in Requests
        /\ asked'[holder] = asked[holder]
    BY <1>1 DEF Quiet, Typed, LockHeld
  <2>2. c # NoConn => c \in Conns /\ RowQuiet(c)
    BY <1>1, <2>1, TypedParts DEF Quiet, TurnTyped, Asking
  <2>3. Recorded' = Recorded
    BY <2>1 DEF Recorded
  <2>4. c # NoConn /\ exists'[c] = "live" =>
          exists[c] = "live" /\ ip'[c] = ip[c] /\ marked'[c] = marked[c] /\ key'[c] = key[c]
    BY <2>1, <2>2 DEF RowQuiet, DraftCurrent
  <2>5. c # NoConn => exists'[c] # "unborn"
    BY <2>1, <2>2 DEF RowQuiet, DraftCurrent
  <2> QED BY <2>1, <2>3, <2>4, <2>5 DEF DraftCurrent
<1>2. CASE Refreshed
  <2> DEFINE c == asked[holder].conn
  <2>1. asked \in [Requests -> Asking] /\ holder \in Requests
    BY <1>2, RefreshedEffect, TypedParts DEF TurnTyped
  <2>2. asked'[holder'].conn = c /\ holder' = holder
    BY <1>2, <2>1, RefreshedEffect DEF Refreshed, Asking
  <2>3. UNCHANGED rowVars /\ stage' = "assign"
    BY <1>2 DEF Refreshed
  <2>4. c # NoConn => exists[c] = "live" /\ (draft'.known <=> key[c] # NoPeer)
                      /\ draft'.ip = ip[c] /\ draft'.marked = marked[c]
    <3> SUFFICES ASSUME c # NoConn
                 PROVE  /\ exists[c] = "live" /\ (draft'.known <=> key[c] # NoPeer)
                        /\ draft'.ip = ip[c] /\ draft'.marked = marked[c]
      OBVIOUS
    <3>1. /\ c \in Live
          /\ draft'.known = InRow(c) /\ draft'.ip = ip[c] /\ draft'.marked = RegenerationRequired(c)
      BY <1>2, RefreshedEffect
    <3>2. RegenerationRequired(c) = marked[c]
      BY <3>1, TypedParts DEF Live, RegenerationRequired, RowsTyped
    <3> QED BY <3>1, <3>2 DEF Live, InRow
  <2>5. c = NoConn => draft'.ip = NoIP
    BY <1>2, RefreshedEffect
  <2> QED BY <2>2, <2>3, <2>4, <2>5 DEF DraftCurrent, rowVars
<1>3. CASE Assigned
  <2>1. UNCHANGED <<rowVars, asked, holder>> /\ stage = "assign" /\ draft \in Draft
    BY <1>3, TypedParts DEF Assigned, TurnTyped
  <2>2. /\ draft'.ip = draft.ip /\ draft'.marked = draft.marked /\ draft'.known = draft.known
        /\ Recorded => draft'.chosen = draft.ip
    BY <1>3, <2>1, AssignedEffect DEF Draft
  <2>3. Recorded' = Recorded
    BY <2>2 DEF Recorded
  <2> QED BY <2>1, <2>2, <2>3 DEF DraftCurrent, rowVars
<1>4. ~Locked /\ ~Resolved /\ ~Reserved
  BY SettleLeaves DEF Locked, Resolved, Reserved, Settle
<1> QED BY <1>1, <1>2, <1>3, <1>4, StepKinds

\* A recorded address of the pool is never replaced by another (AddressStable): what
\* an answer writes is what it found recorded, and a restart writes only where
\* nothing was (client_config.go:616-646, database/vpn.go:440-486).
THEOREM AddressesAreStable == LeasesSpec => AddressStable
<1> DEFINE Stable == \A c \in Conns : ip[c] \in Pool /\ ip'[c] # NoIP => ip'[c] = ip[c]
<1>1. LeasesInit => DraftCurrent
  BY DEF LeasesInit, DraftCurrent
<1>2. Typed /\ DraftCurrent /\ [LeasesNext]_leaseVars => Stable
  <2> SUFFICES ASSUME Typed, DraftCurrent, [LeasesNext]_leaseVars,
                      NEW c \in Conns, ip[c] \in Pool, ip'[c] # NoIP
               PROVE  ip'[c] = ip[c]
    OBVIOUS
  <2>1. ip \in [Conns -> Pool \cup OldIPs \cup {NoIP}] /\ ip[c] # NoIP
        /\ key[c] # NoPeer /\ ~marked[c] /\ exists[c] = "live"
    BY TypedParts, NullAssumption DEF RowsTyped
  <2>2. ASSUME NEW C, NEW R, Quarantine(C, R) PROVE ip'[c] = ip[c]
    BY <2>2 DEF Quarantine
  <2>3. CASE ResolvePeerClaims \/ ReserveClaimedIP
    BY <2>2, <2>3 DEF ResolvePeerClaims, ReserveClaimedIP, QuarantineAll
  <2>4. CASE InvalidateSessions
    <3>1. ~Claims[c].legacy
      BY <2>1 DEF Claims, NoClaim
    <3> QED BY <2>4, <3>1 DEF InvalidateSessions, rowVars
  <2>5. CASE Persist
    <3>1. CASE UNCHANGED rowVars
      BY <3>1 DEF rowVars
    <3>2. ASSUME NEW d \in Target, Store(d), c = d PROVE ip'[c] = ip[c]
      <4>1. ip'[c] = draft.chosen
        BY <2>1, <3>2 DEF Store
      <4>2. asked[holder].conn = c
        BY <2>1, <3>2 DEF Target, Live
      <4>3. c # NoConn
        BY ConnsAssumption DEF NoConn
      <4>4. draft.ip = ip[c] /\ draft.marked = marked[c]
        BY <2>1, <2>5, <4>2, <4>3 DEF DraftCurrent, Persist
      <4>5. Recorded
        BY <2>1, <4>4 DEF Recorded
      <4> QED BY <2>5, <4>1, <4>4, <4>5 DEF DraftCurrent, Persist
    <3>3. ASSUME NEW d \in Target, Store(d), c # d PROVE ip'[c] = ip[c]
      BY <2>1, <3>3 DEF Store
    <3> QED BY <2>5, <3>1, <3>2, <3>3 DEF Persist
  <2>6. CASE ip' = ip
    BY <2>6
  <2>7. ASSUME NEW d \in Conns, DeleteConnection(d) PROVE ip'[c] = ip[c]
    BY <2>1, <2>7 DEF DeleteConnection
  <2>8. GiveUp => ip' = ip
    BY DEF GiveUp, rowVars
  <2> QED
    BY <2>3, <2>4, <2>5, <2>6, <2>7, <2>8
       DEF LeasesNext, leaseVars, rowVars, AddConnection, Connect, Prepare, BeginRender, BeginStart,
           Lock, Refresh, AssignIP, Choose, CloseSession, ReleaseClient, ReleaseUnpersistedLease
<1> HIDE DEF Stable
<1>3. Stable => [Stable]_leaseVars
  OBVIOUS
<1>4. LeasesSpec => [][Stable]_leaseVars
  BY <1>1, <1>2, <1>3, InitTyped, StepTyped, StepKeepsDraft, PTL DEF LeasesSpec
<1> QED BY <1>4 DEF AddressStable, Stable

-----------------------------------------------------------------------------
(* Keys, when no two rows of the tables share one.                          *)

\* No two rows share a key.
KeysApart == \A c, d \in Conns : c # d /\ key[c] = key[d] => key[c] = NoPeer

\* No two claims that are not settled share a key.
ClaimsApart ==
    stage \notin {"free", "stopped"} =>
        \A c, d \in Claimants : claim[c].key = claim[d].key => c = d

\* The keys of a request are its connection's, if they are anyone's; a request that
\* found them in the row finds them there as long as the row is there, and the
\* holder of the lock answers with the keys in the row.
AskedWell(r) ==
    LET c == asked[r].conn
        k == asked[r].key
    IN  asked[r] # Idle =>
          /\ c # NoConn => exists[c] # "unborn"
          /\ \A d \in Conns : key[d] = k => d = c
          /\ \A q \in Requests \ {r} : asked[q].key = k => asked[q].conn = c /\ c # NoConn
          /\ asked[r].known => c # NoConn /\ (exists[c] = "live" => key[c] = k)
          /\ /\ r = holder /\ stage \in {"assign", "persist"}
             /\ c # NoConn
             => key[c] \in {NoPeer, k}

Apart == KeysApart /\ ClaimsApart /\ \A r \in Requests : AskedWell(r)

\* No key is retired then: no row shares it (peer_ip_recovery.go:231-294).
LEMMA NothingRetired ==
  ASSUME Typed, Apart, stage \in {"peers", "addresses"}
  PROVE  Inconsistent = {} /\ \A a : Retired(a) = {}
<1>1. \A c, d \in Claimants : claim[c].key = claim[d].key => c = d
  BY DEF Apart, ClaimsApart
<1>2. ASSUME NEW c \in Inconsistent PROVE FALSE
  <2>1. c \in Claimants /\ c \in Conns /\ claim[c].ip # claim[Foremost(SameKey(c))].ip
    BY <1>2 DEF Inconsistent, Claimants
  <2>2. SameKey(c) = {c}
    BY <1>1, <2>1 DEF SameKey
  <2>3. Foremost({c}) \in {c}
    BY <2>1, TypedParts, ForemostIsOne DEF TurnTyped, Claim
  <2> QED BY <2>1, <2>2, <2>3
<1>3. \A a : Retired(a) = {}
  BY <1>1 DEF Retired, Losers, Evicted, Rivals
<1> QED BY <1>2, <1>3

\* Then a row's key goes with the row, and only an answer gives it one.
LEMMA KeySteps ==
  ASSUME Typed, Apart, [LeasesNext]_leaseVars
  PROVE  \/ key' = key /\ exists' = exists
         \/ \E c \in Conns : AddConnection(c) \/ DeleteConnection(c)
         \/ Persist /\ \E c \in Target : Store(c)
<1>1. ASSUME NEW C, NEW R, Quarantine(C, R), R = {} PROVE key' = key /\ exists' = exists
  BY <1>1, TypedParts DEF Quarantine, RowsTyped
<1>2. CASE ResolvePeerClaims
  BY <1>1, <1>2, NothingRetired DEF ResolvePeerClaims, QuarantineAll
<1>3. CASE ReserveClaimedIP
  <2>1. PICK a : QuarantineAll(Losers(a), Retired(a), Rivals(a))
    BY <1>3 DEF ReserveClaimedIP, Losers, Retired, Rivals, Winner
  <2>2. Retired(a) = {}
    BY <1>3, NothingRetired DEF ReserveClaimedIP
  <2> QED BY <1>1, <2>1, <2>2 DEF QuarantineAll
<1>4. CASE Persist
  BY <1>4 DEF Persist, rowVars
<1> QED
  BY <1>2, <1>3, <1>4
     DEF LeasesNext, leaseVars, rowVars, Connect, Prepare, BeginRender, BeginStart, Lock, Refresh,
         GiveUp, AssignIP, Choose, InvalidateSessions, CloseSession, ReleaseClient,
         ReleaseUnpersistedLease

\* A request prepares, or takes over the keys in its row, or is answered; nothing else
\* changes what requests have read.
LEMMA AskedSteps ==
  ASSUME Typed, Typed', [LeasesNext]_leaseVars
  PROVE  \/ \E r \in Requests : Prepare(r)
         \/ Refreshed
         \/ /\ \A r \in Requests : asked'[r] \in {Idle, asked[r]}
            /\ stage' \in {"assign", "persist"} => holder' = holder /\ stage \in {"assign", "persist"}
<1> DEFINE Same == /\ \A r \in Requests : asked'[r] \in {Idle, asked[r]}
                   /\ stage' \in {"assign", "persist"} => holder' = holder /\ stage \in {"assign", "persist"}
           Goal == Same \/ Refreshed \/ \E r \in Requests : Prepare(r)
<1> SUFFICES Goal
  OBVIOUS
<1>1. Unlock => Goal
  BY DEF Unlock
<1>2. UNCHANGED <<asked, holder, stage>> => Goal
  OBVIOUS
<1>3. ASSUME NEW C, Settle(C) PROVE Goal
  BY <1>3, SettleLeaves DEF Settle
<1>4. ASSUME NEW h, Lock(h), UNCHANGED asked PROVE Goal
  BY <1>4 DEF Lock
<1>5. CASE Refresh
  BY <1>1, <1>5 DEF Refresh, GiveUp, Refreshed
<1>6. CASE AssignIP
  BY <1>1, <1>6 DEF AssignIP, GiveUp, Choose
<1>7. CASE ResolvePeerClaims \/ ReserveClaimedIP
  BY <1>1, <1>3, <1>7 DEF ResolvePeerClaims, ReserveClaimedIP, QuarantineAll
<1>8. CASE Persist \/ InvalidateSessions
  BY <1>1, <1>8 DEF Persist, InvalidateSessions
<1>9. CASE \/ \E c \in Conns : AddConnection(c) \/ Connect(c) \/ DeleteConnection(c)
           \/ \E k \in Peers : CloseSession(k) \/ ReleaseClient(k)
           \/ ReleaseUnpersistedLease \/ UNCHANGED leaseVars
  BY <1>2, <1>9
     DEF leaseVars, AddConnection, Connect, DeleteConnection, CloseSession, ReleaseClient,
         ReleaseUnpersistedLease, ReleaseOutside, turnVars
<1>10. ASSUME NEW h, Lock(h) PROVE Goal
  BY <1>4, <1>10 DEF Lock
<1> HIDE DEF Goal
<1>11. ASSUME NEW r \in Requests, Prepare(r) PROVE Goal
  BY <1>11 DEF Goal
<1> QED BY <1>5, <1>6, <1>7, <1>8, <1>9, <1>10, <1>11 DEF LeasesNext, BeginRender, BeginStart

\* A request that prepares generates keys that nothing refers to, or has those in its
\* row.
LEMMA PrepareApart ==
  ASSUME Typed, Apart, NEW r \in Requests, Prepare(r)
  PROVE  \A q \in Requests : AskedWell(q)'
<1>1. /\ asked \in [Requests -> Asking] /\ asked[r] = Idle /\ r # holder
      /\ UNCHANGED <<exists, key, holder, stage>>
      /\ \A q \in Requests : asked[q] # Idle => asked[q].key \in Peers
  BY TypedParts DEF Prepare, TurnTyped, rowVars, turnVars, LockHeld
<1>2. PICK k \in Peers, c \in Conns \cup {NoConn}, b \in BOOLEAN :
        /\ asked' = [asked EXCEPT ![r] = [conn |-> c, key |-> k, known |-> b]]
        /\ c # NoConn => exists[c] = "live"
        /\ \/ Fresh(k) /\ ~b
           \/ c # NoConn /\ key[c] = k /\ b
  <2>1. CASE \E k \in Peers : /\ Fresh(k)
                              /\ asked' = [asked EXCEPT ![r] = [conn |-> NoConn, key |-> k, known |-> FALSE]]
    BY <2>1
  <2>2. ASSUME NEW k \in Peers, NEW c \in Live,
               IF key[c] = NoPeer THEN Fresh(k) ELSE k = key[c],
               asked' = [asked EXCEPT ![r] = [conn |-> c, key |-> k, known |-> key[c] # NoPeer]]
        PROVE  \E j \in Peers, d \in Conns \cup {NoConn}, b \in BOOLEAN :
                 /\ asked' = [asked EXCEPT ![r] = [conn |-> d, key |-> j, known |-> b]]
                 /\ d # NoConn => exists[d] = "live"
                 /\ \/ Fresh(j) /\ ~b
                    \/ d # NoConn /\ key[d] = j /\ b
    <3>1. c \in Conns /\ exists[c] = "live" /\ c # NoConn
      BY ConnsAssumption DEF Live, NoConn
    <3>2. CASE key[c] = NoPeer
      BY <2>2, <3>1, <3>2
    <3>3. CASE key[c] # NoPeer
      BY <2>2, <3>1, <3>3
    <3> QED BY <3>2, <3>3
  <2> QED BY <2>1, <2>2 DEF Prepare
<1>3. /\ asked'[r] = [conn |-> c, key |-> k, known |-> b]
      /\ \A q \in Requests \ {r} : asked'[q] = asked[q]
  BY <1>1, <1>2
<1>4. ASSUME NEW q \in Requests \ {r}, asked[q].key = k
      PROVE  asked[q].conn = c /\ c # NoConn /\ key[c] = k
  <2>1. ~Fresh(k) /\ asked[q] # Idle
    BY <1>4, NullAssumption DEF Fresh, Idle
  <2> QED BY <1>2, <1>4, <2>1 DEF Apart, AskedWell
<1>5. \A d \in Conns : key[d] = k => d = c
  BY <1>2, NullAssumption DEF Fresh, Apart, KeysApart
<1>6. AskedWell(r)'
  BY <1>1, <1>2, <1>3, <1>4, <1>5 DEF AskedWell
<1>7. ASSUME NEW q \in Requests \ {r} PROVE AskedWell(q)'
  <2> SUFFICES ASSUME asked[q] # Idle PROVE AskedWell(q)'
    BY <1>3 DEF AskedWell
  <2>1. AskedWell(q)
    BY DEF Apart
  <2>2. asked'[r].key = asked[q].key => asked'[r].conn = asked[q].conn /\ asked[q].conn # NoConn
    BY <1>3, <1>4
  <2> QED BY <1>1, <1>3, <2>1, <2>2 DEF AskedWell
<1> QED BY <1>6, <1>7

\* A request that finds keys in its row takes them over; a generated key is not in
\* any row then (client_config.go:416-431).
LEMMA RefreshApart ==
  ASSUME Typed, Apart, Refreshed
  PROVE  \A q \in Requests : AskedWell(q)'
<1> DEFINE c == asked[holder].conn
           j == asked[holder].key
           k == AdoptedKey(c)
<1>1. /\ holder \in Requests /\ c \in Conns \cup {NoConn} /\ k \in Peers
      /\ c # NoConn => c \in Live /\ c \in Conns
      /\ asked'[holder] = [asked[holder] EXCEPT !.key = k]
      /\ \A r \in Requests : r # holder => asked'[r] = asked[r]
      /\ UNCHANGED <<exists, key, holder>> /\ asked[holder] \in Asking
      /\ asked[holder] # Idle
  BY RefreshedEffect, TypedParts DEF Refreshed, rowVars, TurnTyped, LockHeld
<1>2. /\ asked'[holder].key = k /\ asked'[holder].conn = c
      /\ asked'[holder].known = asked[holder].known
  BY <1>1 DEF Asking
<1>3. AskedWell(holder)
  BY <1>1 DEF Apart
<1>4. \/ c # NoConn /\ key[c] = k /\ ~asked[holder].known
      \/ k = j /\ (c = NoConn \/ key[c] = NoPeer \/ asked[holder].known)
  BY DEF AdoptedKey, InRow
<1>5. \A d \in Conns : key[d] = k => d = c
  BY <1>1, <1>3, <1>4, NullAssumption DEF Apart, KeysApart, AskedWell
<1>6. ASSUME NEW q \in Requests \ {holder}, asked[q].key = k
      PROVE  asked[q].conn = c /\ c # NoConn
  <2>1. AskedWell(q) /\ asked[q] # Idle
    BY <1>1, <1>6, NullAssumption DEF Apart, Idle
  <2> QED BY <1>1, <1>3, <1>4, <1>6, <2>1 DEF AskedWell
<1>7. c # NoConn => key[c] \in {NoPeer, k}
  BY <1>1, <1>3, <1>4 DEF AskedWell, Live
<1>8. ASSUME NEW h \in Requests, h = holder PROVE AskedWell(h)'
  BY <1>1, <1>2, <1>3, <1>4, <1>5, <1>6, <1>7, <1>8 DEF AskedWell
<1>9. ASSUME NEW q \in Requests \ {holder} PROVE AskedWell(q)'
  <2> SUFFICES ASSUME asked[q] # Idle PROVE AskedWell(q)'
    BY <1>1 DEF AskedWell
  <2>1. AskedWell(q)
    BY DEF Apart
  <2>2. asked'[holder].key = asked[q].key => c = asked[q].conn /\ asked[q].conn # NoConn
    BY <1>2, <1>6
  <2> QED BY <1>1, <1>2, <2>1, <2>2 DEF AskedWell
<1> HIDE DEF c, j, k
<1> QED BY <1>8, <1>9

\* The keys that a row goes with are not read again for another.
LEMMA AnswersApart ==
  ASSUME Typed, Typed', Apart, [LeasesNext]_leaseVars,
         \A q \in Requests : asked'[q] \in {Idle, asked[q]},
         stage' \in {"assign", "persist"} => holder' = holder /\ stage \in {"assign", "persist"}
  PROVE  KeysApart' /\ \A r \in Requests : AskedWell(r)'
<1>1. /\ asked \in [Requests -> Asking] /\ key \in [Conns -> Peers \cup {NoPeer}]
      /\ exists \in [Conns -> {"unborn", "live", "gone"}]
      /\ \A q \in Requests : asked[q] # Idle => asked[q].key \in Peers
      /\ \A c \in Conns : exists[c] # "live" => key[c] = NoPeer
  BY TypedParts DEF TurnTyped, LockHeld, RowsTyped
<1>2. \A q \in Requests : asked'[q] # Idle =>
        /\ asked'[q] = asked[q] /\ AskedWell(q) /\ asked[q].key \in Peers
        /\ asked[q].conn \in Conns \cup {NoConn} /\ asked[q].known \in BOOLEAN
  BY <1>1 DEF Apart, Asking
<1>3. ASSUME NEW r \in Requests, NEW q \in Requests \ {r}, asked'[r] # Idle,
             asked'[q].key = asked'[r].key
      PROVE  asked'[q].conn = asked'[r].conn /\ asked'[r].conn # NoConn
  <2>1. asked'[q] # Idle
    BY <1>2, <1>3, NullAssumption DEF Idle
  <2> QED BY <1>2, <1>3, <2>1 DEF AskedWell
<1>4. CASE key' = key /\ exists' = exists
  <2>1. KeysApart'
    BY <1>4 DEF Apart, KeysApart
  <2>2. ASSUME NEW r \in Requests PROVE AskedWell(r)'
    BY <1>2, <1>3, <1>4 DEF AskedWell
  <2> QED BY <2>1, <2>2
<1>5. ASSUME NEW c \in Conns, AddConnection(c) \/ DeleteConnection(c)
      PROVE  KeysApart' /\ \A r \in Requests : AskedWell(r)'
  <2>1. /\ \A d \in Conns : key'[d] \in {NoPeer, key[d]}
        /\ \A d \in Conns : exists[d] # "unborn" => exists'[d] # "unborn"
        /\ \A d \in Conns : exists[d] # "unborn" /\ exists'[d] = "live" => exists[d] = "live" /\ key'[d] = key[d]
    BY <1>1, <1>5 DEF AddConnection, DeleteConnection, Live
  <2>2. KeysApart'
    BY <2>1 DEF Apart, KeysApart
  <2>3. ASSUME NEW r \in Requests PROVE AskedWell(r)'
    BY <1>2, <1>3, <2>1, NullAssumption DEF AskedWell
  <2> QED BY <2>2, <2>3
<1>6. ASSUME NEW c \in Target, Store(c), Persist
      PROVE  KeysApart' /\ \A r \in Requests : AskedWell(r)'
  <2> DEFINE k == asked[holder].key
  <2>1. /\ holder \in Requests /\ asked[holder] # Idle /\ k \in Peers /\ AskedWell(holder)
        /\ stage = "persist"
    BY <1>6 DEF Persist, Typed, LockHeld, Apart
  <2>2. /\ c \in Conns /\ c # NoConn
        /\ IF asked[holder].conn # NoConn THEN c = asked[holder].conn
           ELSE exists[c] = "unborn" /\ key[c] = NoPeer
    BY <1>1, <1>6, ConnsAssumption DEF Target, Live, NoConn
  <2>3. /\ key'[c] = k /\ \A d \in Conns : d # c => key'[d] = key[d]
        /\ exists'[c] = "live" /\ \A d \in Conns : d # c => exists'[d] = exists[d]
    BY <1>1, <1>6, <2>2 DEF Store
  <2>4. /\ asked'[holder] = Idle /\ stage' \in {"free", "stopped"}
    BY <1>6, <2>1 DEF Persist, Unlock
  <2>5. \A d \in Conns : key[d] = k => d = c
    BY <2>1, <2>2, ConnsAssumption DEF AskedWell, NoConn
  <2>6. KeysApart'
    BY <2>3, <2>5 DEF Apart, KeysApart
  <2>7. ASSUME NEW r \in Requests PROVE AskedWell(r)'
    <3> SUFFICES ASSUME asked'[r] # Idle PROVE AskedWell(r)'
      BY DEF AskedWell
    <3> DEFINE e == asked[r].conn
               j == asked[r].key
    <3>1. asked'[r] = asked[r] /\ AskedWell(r) /\ asked[r] # Idle /\ r # holder /\ j \in Peers
          /\ e \in Conns \cup {NoConn}
      BY <1>2, <2>4
    <3>2. k = j => e = asked[holder].conn /\ e # NoConn
      BY <2>1, <3>1 DEF AskedWell
    <3>3. \A d \in Conns : key'[d] = j => d = e
      BY <2>2, <2>3, <3>1, <3>2 DEF AskedWell
    <3>4. e # NoConn => exists'[e] # "unborn"
      BY <2>3, <3>1 DEF AskedWell
    <3>5. ASSUME asked[r].known, exists'[e] = "live" PROVE e # NoConn /\ key'[e] = j
      <4>1. e # NoConn /\ exists[e] # "unborn"
        BY <3>1, <3>5 DEF AskedWell
      <4>2. CASE e = c
        <5>1. c = asked[holder].conn /\ key[c] \in {NoPeer, k}
          BY <2>1, <2>2, <4>1, <4>2 DEF AskedWell
        <5>2. exists[c] = "live"
          BY <1>6, <2>2, <5>1 DEF Target, Live
        <5>3. key[c] = j
          BY <3>1, <3>5, <4>2, <5>2 DEF AskedWell
        <5> QED BY <2>3, <3>1, <4>1, <4>2, <5>1, <5>3, NullAssumption
      <4>3. CASE e # c
        BY <2>3, <3>1, <3>5, <4>1, <4>3 DEF AskedWell
      <4> QED BY <4>2, <4>3
    <3> QED BY <1>3, <2>4, <3>1, <3>3, <3>4, <3>5 DEF AskedWell
  <2> QED BY <2>6, <2>7
<1> QED BY <1>4, <1>5, <1>6, KeySteps

\* Claims that are read from rows that share no key share none, and settling some
\* leaves the others.
LEMMA StepKeepsClaimsApart ==
  ASSUME Typed, Typed', Apart, [LeasesNext]_leaseVars PROVE ClaimsApart'
<1> SUFFICES ASSUME stage' \notin {"free", "stopped"}, NEW c \in Claimants', NEW d \in Claimants',
                    claim'[c].key = claim'[d].key
             PROVE  c = d
  BY DEF ClaimsApart
<1>1. c \in Conns /\ d \in Conns /\ claim'[c].ip # NoIP /\ claim'[d].ip # NoIP
  BY DEF Claimants
<1>2. CASE Locked
  <2>1. \A e \in Conns : Claims[e].ip # NoIP => Claims[e].key = key[e] /\ key[e] # NoPeer
    BY DEF Claims, NoClaim
  <2> QED BY <1>1, <1>2, <2>1 DEF Locked, Apart, KeysApart
<1>3. ASSUME stage \notin {"free", "stopped"},
             \A e \in Conns : claim'[e].ip # NoIP => claim'[e] = claim[e]
      PROVE  c = d
  BY <1>1, <1>3 DEF Apart, ClaimsApart, Claimants
<1>4. CASE Quiet \/ Refreshed \/ Assigned
  BY <1>3, <1>4 DEF Quiet, Refreshed, Assigned
<1>5. ASSUME NEW C, Settle(C), stage \in {"peers", "addresses"} PROVE c = d
  <2>1. \A e \in Conns : claim'[e].ip # NoIP => claim'[e] = claim[e]
    BY <1>5 DEF Settle, NoClaim
  <2> QED BY <1>3, <1>5, <2>1
<1>6. CASE Resolved \/ Reserved
  BY <1>5, <1>6 DEF Resolved, Reserved
<1> QED BY <1>2, <1>4, <1>6, StepKinds

\* No step brings a key of one row to another.
LEMMA StepKeepsApart == Typed /\ Typed' /\ Apart /\ [LeasesNext]_leaseVars => Apart'
<1> SUFFICES ASSUME Typed, Typed', Apart, [LeasesNext]_leaseVars PROVE Apart'
  OBVIOUS
<1>1. ASSUME NEW r \in Requests, Prepare(r) PROVE KeysApart' /\ \A q \in Requests : AskedWell(q)'
  BY <1>1, PrepareApart DEF Apart, KeysApart, Prepare, rowVars
<1>2. CASE Refreshed
  BY <1>2, RefreshApart, StepKeepsClaimsApart DEF Apart, KeysApart, Refreshed, rowVars
<1> QED BY <1>1, <1>2, AskedSteps, AnswersApart, StepKeepsClaimsApart DEF Apart

\* At first nothing has been read.
LEMMA InitApart == LeasesInit /\ KeysApart => Apart
<1> SUFFICES ASSUME LeasesInit, KeysApart PROVE Apart
  OBVIOUS
<1>1. \A r \in Requests : asked[r] = Idle
  BY DEF LeasesInit
<1>2. ClaimsApart
  BY DEF LeasesInit, ClaimsApart
<1> QED BY <1>1, <1>2 DEF Apart, AskedWell

\* From tables in which no two rows share a key, the keys of a row are never
\* overwritten (KeyStable): of two requests that both found it without keys, the
\* second answers with those of the first (client_config.go:416-431).
THEOREM KeysAreStable == LeasesSpec /\ KeysApart => KeyStable
<1> DEFINE Stable == \A c \in Conns : key[c] # NoPeer /\ key'[c] # NoPeer => key'[c] = key[c]
<1>1. Typed /\ Apart /\ [LeasesNext]_leaseVars => Stable
  <2> SUFFICES ASSUME Typed, Apart, [LeasesNext]_leaseVars,
                      NEW c \in Conns, key[c] # NoPeer, key'[c] # NoPeer
               PROVE  key'[c] = key[c]
    OBVIOUS
  <2>1. key \in [Conns -> Peers \cup {NoPeer}] /\ exists[c] = "live"
    BY TypedParts DEF RowsTyped
  <2>2. ASSUME NEW d \in Conns, AddConnection(d) \/ DeleteConnection(d) PROVE key'[c] = key[c]
    BY <2>1, <2>2 DEF AddConnection, DeleteConnection
  <2>3. ASSUME NEW d \in Target, Store(d), Persist PROVE key'[c] = key[c]
    <3>1. CASE c = d
      <4>1. asked[holder].conn = c /\ c # NoConn
        BY <2>1, <3>1, ConnsAssumption DEF Target, Live, NoConn
      <4>2. /\ holder \in Requests /\ asked[holder] # Idle /\ stage = "persist"
        BY <2>3 DEF Persist, Typed, LockHeld
      <4>3. key[c] = asked[holder].key
        BY <4>1, <4>2 DEF Apart, AskedWell
      <4> QED BY <2>1, <2>3, <3>1, <4>3 DEF Store
    <3>2. CASE c # d
      BY <2>1, <2>3, <3>2 DEF Store
    <3> QED BY <3>1, <3>2
  <2> QED BY <2>2, <2>3, KeySteps
<1> HIDE DEF Stable
<1>2. Stable => [Stable]_leaseVars
  OBVIOUS
<1>3. LeasesSpec /\ KeysApart => [][Stable]_leaseVars
  BY <1>1, <1>2, InitTyped, StepTyped, InitApart, StepKeepsApart, PTL DEF LeasesSpec
<1> QED BY <1>3 DEF KeyStable, Stable

-----------------------------------------------------------------------------
(* What is recorded is leased.                                              *)

\* A settled row's address is leased to its key, unless the key has given its lease
\* up since the lock was taken.
SettledLeased ==
    stage \notin {"free", "stopped", "peers"} =>
        \A c \in Conns : Settled(c) /\ ip[c] \in Pool =>
            allocated[key[c]] = ip[c] \/ key[c] \in released

\* The winner of an address gets it or has it; who had another keeps that
\* (peer_ip_recovery.go:252-294).
LEMMA ReservedLeases ==
  ASSUME Typed, Typed', Recovering, SettledLeased, Reserved PROVE SettledLeased'
<1>1. PICK a : /\ IF Grantable(a, Winner(a)) /\ a \in Pool /\ IsFree(a)
                  THEN Reserve(a, Winner(a)) ELSE UNCHANGED ipamVars
               /\ Quarantine(Losers(a), Retired(a)) /\ Settle(Rivals(a))
  BY DEF Reserved
<1> DEFINE w == Winner(a)
           Gives == Grantable(a, w) /\ a \in Pool /\ IsFree(a)
<1>2. /\ key' = [c \in Conns |-> IF c \in Retired(a) THEN NoPeer ELSE key[c]]
      /\ ip' = [c \in Conns |-> IF c \in Losers(a) THEN NoIP ELSE ip[c]]
      /\ Claimants' = Claimants \ Rivals(a)
      /\ released' = released
  BY <1>1, SettleLeaves DEF Quarantine, Settle
<1>3. allocated \in [Peers -> Pool \cup {NoIP}] /\ MapsAgree /\ reverse \in [Pool -> Peers \cup {NoPeer}]
  BY DEF Typed, IpamInv, IpamTypeOK
<1>4. ASSUME NEW k \in Peers
      PROVE  \/ allocated'[k] = allocated[k]
             \/ k = w /\ Gives /\ allocated'[k] = a
  BY <1>1, <1>3 DEF Reserve, ipamVars
<1> SUFFICES ASSUME NEW c \in Conns, Settled(c)', ip'[c] \in Pool
             PROVE  allocated'[key'[c]] = ip'[c] \/ key'[c] \in released
  BY <1>2 DEF SettledLeased
<1>5. /\ c \notin Losers(a) /\ c \notin Retired(a) /\ ip'[c] = ip[c] /\ key'[c] = key[c]
      /\ ip[c] # NoIP /\ key[c] \in Peers
  BY <1>2, RecordedIsLive DEF Settled, Retired
<1>6. CASE c \notin Claimants
  <2>1. allocated[key[c]] = ip[c] \/ key[c] \in released
    BY <1>5, <1>6 DEF SettledLeased, Settled, Reserved
  <2>2. ip[c] \in Pool /\ ip[c] # NoIP
    BY <1>5
  <2>3. Gives /\ key[c] = w => allocated[w] \in {NoIP, a}
    BY DEF Grantable
  <2> QED BY <1>4, <1>5, <2>1, <2>2, <2>3
<1>7. CASE c \in Claimants
  <2>1. c \in Rivals(a) /\ claim[c].key = w /\ Grantable(a, w) /\ claim[c].ip = a
    BY <1>2, <1>5, <1>7 DEF Settled, Losers, Evicted, Rivals
  <2>2. key[c] = w /\ ip[c] = a /\ w \in Peers /\ a \in Pool
    BY <1>5, <1>7, <2>1, RecordedIsLive DEF Recovering, Reserved
  <2>3. CASE IsFree(a)
    BY <1>1, <1>3, <1>5, <2>1, <2>2, <2>3 DEF Reserve
  <2>4. CASE ~IsFree(a)
    <3>1. reverse[a] = w
      BY <2>1, <2>2, <2>4 DEF Grantable, IsFree
    <3>2. allocated[w] = a
      BY <1>3, <2>2, <3>1 DEF MapsAgree
    <3> QED BY <1>4, <1>5, <2>2, <3>2
  <2> QED BY <2>3, <2>4
<1> QED BY <1>6, <1>7

\* An answer changes no lease but that of its own key, which is in no other row.
LEMMA AnswerLeases ==
  ASSUME Typed, Typed', Apart, Apart', DraftCurrent, SettledLeased, Refreshed \/ Assigned
  PROVE  SettledLeased'
<1>1. /\ UNCHANGED <<rowVars, claim, released, holder>> /\ Claimants' = Claimants
      /\ stage \in {"refresh", "assign"} /\ holder \in Requests
      /\ allocated \in [Peers -> Pool \cup {NoIP}]
  BY DEF Refreshed, Assigned, Claimants, Typed, LockHeld, IpamInv, IpamTypeOK
<1> SUFFICES ASSUME NEW c \in Conns, Settled(c), ip[c] \in Pool,
                    allocated[key[c]] = ip[c], key[c] \in Peers
             PROVE  allocated'[key[c]] = ip[c] \/ key[c] \in released
  <2>1. \A c \in Conns : Settled(c)' => Settled(c) /\ key[c] \in Peers
    BY <1>1, RecordedIsLive DEF Settled, rowVars
  <2>2. \A c \in Conns : Settled(c) /\ ip[c] \in Pool =>
          allocated[key[c]] = ip[c] \/ key[c] \in released
    BY <1>1 DEF SettledLeased
  <2>3. ASSUME NEW c \in Conns, Settled(c)', ip'[c] \in Pool
        PROVE  allocated'[key'[c]] = ip'[c] \/ key'[c] \in released'
    BY <1>1, <2>1, <2>2, <2>3 DEF rowVars
  <2> QED BY <2>3 DEF SettledLeased
<1>2. /\ asked'[holder] # Idle
      /\ \A r \in Requests : AskedWell(r)'
      /\ key' = key /\ holder' = holder
  BY <1>1 DEF Typed, LockHeld, Apart, rowVars
<1>3. key[c] = asked'[holder].key => c = asked'[holder].conn
  BY <1>1, <1>2 DEF AskedWell
<1>4. CASE Refreshed
  <2> DEFINE e == asked[holder].conn
             k == AdoptedKey(e)
  <2>1. /\ asked[holder] \in Asking /\ asked'[holder] = [asked[holder] EXCEPT !.key = k]
        /\ IF RegenerationRequired(e) /\ allocated[k] # NoIP THEN Release(k)
           ELSE UNCHANGED ipamVars
    BY <1>1, <1>4, RefreshedEffect, TypedParts DEF TurnTyped
  <2>2. asked'[holder].key = k /\ asked'[holder].conn = e
    BY <2>1 DEF Asking
  <2>3. CASE key[c] = k
    <3>1. c = e /\ ~marked[c]
      BY <1>3, <2>2, <2>3, TypedParts, NullAssumption DEF RowsTyped
    <3> QED BY <2>1, <3>1 DEF RegenerationRequired, ipamVars
  <2>4. CASE key[c] # k
    BY <1>1, <2>1, <2>4 DEF Release, ipamVars
  <2> QED BY <2>3, <2>4
<1>5. CASE Assigned
  <2> DEFINE k == asked[holder].key
  <2>1. asked'[holder].key = k /\ asked'[holder].conn = asked[holder].conn /\ stage = "assign"
    BY <1>5 DEF Assigned
  <2>2. CASE key[c] = k
    <3>1. c = asked[holder].conn /\ c # NoConn /\ exists[c] = "live"
      BY <1>3, <2>1, <2>2, RecordedIsLive, ConnsAssumption DEF Settled, NoConn
    <3>2. draft.ip = ip[c]
      BY <2>1, <3>1 DEF DraftCurrent
    <3>3. ip[c] # NoIP
      BY DEF Settled
    <3> QED BY <1>1, <1>5, <2>2, <3>2, <3>3, AssignedEffect DEF Reserve, Allocate, ipamVars
  <2>3. CASE key[c] # k
    BY <1>1, <1>5, <2>3, AssignedEffect DEF Reserve, Allocate, ipamVars
  <2> QED BY <2>2, <2>3
<1> QED BY <1>4, <1>5

\* Every step leaves a settled address leased to its row's key, or remembers that the
\* key has given it up.
LEMMA StepLeases ==
  Typed /\ Typed' /\ Recovering /\ Apart /\ Apart' /\ DraftCurrent /\ SettledLeased
    /\ [LeasesNext]_leaseVars => SettledLeased'
<1> SUFFICES ASSUME Typed, Typed', Recovering, Apart, Apart', DraftCurrent, SettledLeased,
                    [LeasesNext]_leaseVars, stage' \notin {"free", "stopped", "peers"}
             PROVE  SettledLeased'
  BY DEF SettledLeased
<1>1. CASE Quiet
  <2> SUFFICES ASSUME NEW c \in Conns, Settled(c)', ip'[c] \in Pool
               PROVE  allocated'[key'[c]] = ip'[c] \/ key'[c] \in released'
    BY DEF SettledLeased
  <2>1. claim' = claim /\ stage' = stage /\ RowQuiet(c)
    BY <1>1 DEF Quiet
  <2>2. ip'[c] = ip[c] /\ key'[c] = key[c] /\ Settled(c)
    BY <2>1, NullAssumption DEF RowQuiet, Settled, Claimants
  <2>3. key[c] \in Peers /\ (allocated[key[c]] = ip[c] \/ key[c] \in released)
    BY <2>1, <2>2, RecordedIsLive DEF Settled, SettledLeased
  <2> QED BY <1>1, <2>1, <2>2, <2>3 DEF Quiet, LeaseQuiet
<1>2. CASE Resolved
  <2>1. \A c \in Conns : ~Settled(c)'
    <3>1. /\ ip' = [c \in Conns |-> IF c \in Inconsistent THEN NoIP ELSE ip[c]]
          /\ Claimants' = Claimants \ Inconsistent
          /\ \A c \in Conns : ~Settled(c)
      BY <1>2, SettleLeaves DEF Resolved, Quarantine, Recovering
    <3> QED BY <3>1 DEF Settled
  <2> QED BY <2>1 DEF SettledLeased
<1>3. ~Locked
  BY DEF Locked
<1> QED BY <1>1, <1>2, <1>3, ReservedLeases, AnswerLeases, StepKinds

\* The address of an answer is recorded for no key but its own, except keys that have
\* given up their leases since the lock was taken.
AnswerExclusive ==
    stage = "persist" => \A c \in Conns :
        ip[c] = draft.chosen => key[c] \in {asked[holder].key} \cup released

\* Until it is written, an answer's address comes to be recorded for no other key.
LEMMA StepKeepsExclusive ==
  Typed /\ Typed' /\ Recovering' /\ SettledLeased' /\ AnswerExclusive /\ [LeasesNext]_leaseVars
    => AnswerExclusive'
<1> SUFFICES ASSUME Typed, Typed', Recovering', SettledLeased', AnswerExclusive,
                    [LeasesNext]_leaseVars, stage' = "persist", NEW c \in Conns, ip'[c] = draft'.chosen
             PROVE  key'[c] \in {asked'[holder'].key} \cup released'
  BY DEF AnswerExclusive
<1>1. draft'.chosen \in Pool
  BY DEF Typed, LockHeld
<1>2. CASE Quiet
  <2>1. /\ stage = "persist" /\ draft' = draft /\ asked'[holder'] = asked[holder]
        /\ released \subseteq released' /\ RowQuiet(c)
    BY <1>2 DEF Quiet, LeaseQuiet, Typed, LockHeld
  <2>2. ip'[c] = ip[c] /\ key'[c] = key[c]
    BY <1>1, <2>1, NullAssumption DEF RowQuiet
  <2> QED BY <2>1, <2>2 DEF AnswerExclusive
<1>3. CASE Assigned
  <2> DEFINE k == asked[holder].key
  <2>1. asked'[holder'].key = k /\ k \in Peers
    BY <1>3, AssignedEffect DEF Assigned
  <2>2. allocated'[k] = draft'.chosen
    <3>1. MapsAgree /\ allocated \in [Peers -> Pool \cup {NoIP}]
      BY DEF Typed, IpamInv, IpamTypeOK
    <3> QED
      BY <1>1, <1>3, <2>1, <3>1, AssignedEffect DEF Reserve, Allocate, ipamVars, MapsAgree
  <2>3. ip'[c] # NoIP /\ Settled(c)'
    BY <1>1, NullAssumption DEF Settled, Recovering, Recovered
  <2>4. key'[c] \in Peers
    BY <2>3, TypedPartsNext DEF RowsTyped
  <2>5. allocated'[key'[c]] = ip'[c] \/ key'[c] \in released'
    BY <1>1, <2>3 DEF SettledLeased
  <2>6. MapsAgree'
    BY DEF Typed, IpamInv
  <2> QED BY <1>1, <2>1, <2>2, <2>4, <2>5, <2>6 DEF MapsAgree
<1>4. ~Locked /\ ~Resolved /\ ~Reserved /\ ~Refreshed
  BY SettleLeaves DEF Locked, Resolved, Reserved, Refreshed
<1> QED BY <1>2, <1>3, <1>4, StepKinds

\* What the two theorems below need to be inductive.
LeasesInv ==
    /\ Typed /\ Recovering /\ DraftCurrent /\ Apart /\ SettledLeased /\ AnswerExclusive

\* All of it holds throughout.
LEMMA LeasesInvAlways == LeasesSpec /\ KeysApart => []LeasesInv
<1>1. LeasesInit /\ KeysApart => LeasesInv
  BY InitTyped, InitApart
     DEF LeasesInv, LeasesInit, Recovering, Recovered, DraftCurrent, SettledLeased, AnswerExclusive
<1>2. LeasesInv /\ [LeasesNext]_leaseVars => LeasesInv'
  BY StepTyped, StepRecovers, StepKeepsDraft, StepKeepsApart, StepLeases, StepKeepsExclusive
     DEF LeasesInv
<1> QED BY <1>1, <1>2, PTL DEF LeasesSpec

\* From tables in which no two rows share a key: while the holder of assignmentMu
\* works on its answer every recorded address of the pool is leased to its row's key
\* (RecoveredIsLeased), unless a session's end or a deletion, which take no lock, gave
\* it up (client_config.go:334-361, session.go:422-445).
THEOREM RecoveredAreLeased == LeasesSpec /\ KeysApart => []RecoveredIsLeased
<1>1. LeasesInv => RecoveredIsLeased
  BY NullAssumption
     DEF LeasesInv, SettledLeased, RecoveredIsLeased, Recovered, Recovering, Settled
<1> QED BY <1>1, LeasesInvAlways, PTL

\* From such tables the address of an answer is recorded for no other key, but for
\* keys whose lease was given up behind the holder's back (GrantIsExclusive;
\* client_config.go:607-660).
THEOREM GrantsAreExclusive == LeasesSpec /\ KeysApart => []GrantIsExclusive
<1>1. LeasesInv => GrantIsExclusive
  BY DEF LeasesInv, AnswerExclusive, GrantIsExclusive
<1> QED BY <1>1, LeasesInvAlways, PTL
=============================================================================
