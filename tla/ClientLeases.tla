---------------------------- MODULE ClientLeases ----------------------------
(***************************************************************************)
(* The durable addresses of a user's portal connections                    *)
(* (vpn/client_config.go, vpn/peer_ip_recovery.go, database/vpn.go) on top *)
(* of the address manager of Ipam.  A connection's row names its key and   *)
(* its address; a row of an older release has its address only in its      *)
(* session's row (a legacy claim).  Every request for a configuration, and *)
(* the start of the service, holds assignmentMu and first repeats the      *)
(* recovery: claim every recorded address, quarantine the rows that        *)
(* cannot keep theirs.  Sessions that end and connections that are deleted *)
(* do not hold that lock.                                                  *)
(*                                                                         *)
(* Abstractions: a row's key and its private key come and go together; the *)
(* other parameters of a configuration (timing, I1) are left out;          *)
(* connections are numbered by creation time; the rows of one quarantine   *)
(* that are written before one of them fails may be any of its rows.       *)
(*                                                                         *)
(* An operator whose name ends in "Wrong" is its neighbour with a mistake  *)
(* the code could contain.  Nothing uses it.                               *)
(***************************************************************************)
EXTENDS Ipam

CONSTANTS Conns,     \* connections of the user, numbered in order of creation
          Requests,  \* requests for a configuration
          OldKeys,   \* keys the tables name when the process begins
          OldIPs,    \* addresses the tables name when the process begins
          MaxSessions, \* bound: sessions a behaviour may have
          SharedStaleKeys, \* may rows share a key and an address outside the pool?
          Service    \* holder of assignmentMu while the service starts

Nobody == NoPeer  \* nobody holds assignmentMu
NoConn == 0       \* a request of a user without a connection

ASSUME ConnsAssumption == Conns \subseteq Nat \ {0}
ASSUME TablesAssumption == OldKeys \subseteq Peers /\ MaxSessions \in Nat
ASSUME HolderAssumption == Service \notin Requests /\ Nobody \notin Requests \cup {Service}

VARIABLES exists,    \* exists[c]: "unborn", "live" or "gone"
          key,       \* key[c]: client_id of the row
          ip,        \* ip[c]: assigned_ip of the row
          marked,    \* marked[c]: the row asks for a new configuration
          session,   \* session[k]: address in the row of vpn_sessions
          online,    \* keys with a session in memory
          closing,   \* key whose session has ended, its lease not yet released
          deleting,  \* keys of deleted connections, not yet released
          admitted,  \* sessions so far, at most MaxSessions
          started,   \* Start has discarded the old sessions
          asked,     \* asked[r]: what r has read before the lock
          holder,    \* who holds assignmentMu
          stage,     \* what the holder does next
          claim,     \* claim[c]: the claims the holder has read and not settled
          draft,     \* what the holder has read and chosen for its answer
          released   \* history: keys released since assignmentMu was taken

rowVars == <<exists, key, ip, marked>>
sessionVars == <<session, online, closing, admitted>>
turnVars == <<holder, stage, claim, draft, released>>
leaseVars == <<ipamVars, rowVars, sessionVars, deleting, started, asked, turnVars>>

Live == {c \in Conns : exists[c] = "live"}

NoClaim == [key |-> NoPeer, ip |-> NoIP, legacy |-> FALSE]
Idle == [conn |-> NoConn, key |-> NoPeer, known |-> FALSE]
NoDraft == [known |-> FALSE, ip |-> NoIP, marked |-> FALSE, had |-> FALSE, chosen |-> NoIP]

\* A key nothing refers to: what GenerateCurve25519KeyPair returns.
Fresh(k) ==
    /\ \A c \in Conns : key[c] # k
    /\ \A r \in Requests : asked[r].key # k
    /\ allocated[k] = NoIP /\ session[k] = NoIP /\ k \notin deleting /\ closing # k

\* An inner join with the sessions: a durable address counts only while its
\* key has a session row.
ClaimsWrong ==
    [c \in Conns |->
        IF exists[c] # "live" \/ key[c] = NoPeer THEN NoClaim
        ELSE IF session[key[c]] = NoIP THEN NoClaim
        ELSE IF ip[c] # NoIP THEN [key |-> key[c], ip |-> ip[c], legacy |-> FALSE]
        ELSE [key |-> key[c], ip |-> session[key[c]], legacy |-> TRUE]]

\* The claims readVPNClientIPAssignments returns: the row's own address, else
\* that of the session of its key.
Claims ==
    [c \in Conns |->
        IF exists[c] # "live" \/ key[c] = NoPeer THEN NoClaim
        ELSE IF ip[c] # NoIP THEN [key |-> key[c], ip |-> ip[c], legacy |-> FALSE]
        ELSE IF session[key[c]] # NoIP
             THEN [key |-> key[c], ip |-> session[key[c]], legacy |-> TRUE]
        ELSE NoClaim]

\* Init: tables that an earlier process, perhaps of an older release, left.
LeasesInit ==
    /\ IpamInit
    /\ \E n \in {0} \cup Conns : exists = [c \in Conns |-> IF c <= n THEN "live" ELSE "unborn"]
    /\ key \in [Conns -> OldKeys \cup {NoPeer}]
    /\ ip \in [Conns -> OldIPs \cup {NoIP}]
    /\ marked \in [Conns -> BOOLEAN]
    /\ session \in [Peers -> OldIPs \cup {NoIP}]
    /\ \A c \in Conns :
         /\ exists[c] = "unborn" => key[c] = NoPeer /\ ~marked[c]
         /\ ip[c] # NoIP => key[c] # NoPeer /\ ~marked[c]
    /\ \A c, d \in Conns :
         c # d /\ key[c] = key[d] /\ key[c] # NoPeer =>
            /\ ip[c] # NoIP
            /\ ip[c] \in Pool \/ SharedStaleKeys
    /\ \A k, j \in Peers :
         session[k] # NoIP => /\ k \in OldKeys
                              /\ k # j => session[j] # session[k]
    /\ online = {} /\ closing = NoPeer /\ admitted = 0 /\ deleting = {} /\ started = FALSE
    /\ asked = [r \in Requests |-> Idle]
    /\ holder = Nobody /\ stage = "free"
    /\ claim = [c \in Conns |-> NoClaim] /\ draft = NoDraft /\ released = {}

-----------------------------------------------------------------------------
(* Requests and the lock.                                                  *)

\* A pending connection: the handler inserts a row without a key.
AddConnection(c) ==
    /\ started
    /\ exists[c] = "unborn"
    /\ \A d \in Conns : d < c => exists[d] # "unborn"
    /\ exists' = [exists EXCEPT ![c] = "live"]
    /\ UNCHANGED <<ipamVars, key, ip, marked, sessionVars, deleting, started, asked, turnVars>>

\* What a request reads before it waits for the lock: its connection, if the
\* user has one, and its keys, generated when the row has none.
Prepare(r) ==
    /\ started /\ asked[r] = Idle
    /\ \E k \in Peers :
         \/ /\ Live = {}
            /\ Fresh(k)
            /\ asked' = [asked EXCEPT ![r] = [conn |-> NoConn, key |-> k, known |-> FALSE]]
         \/ \E c \in Live :
              /\ IF key[c] = NoPeer THEN Fresh(k) ELSE k = key[c]
              /\ asked' = [asked EXCEPT ![r] =
                             [conn |-> c, key |-> k, known |-> key[c] # NoPeer]]
    /\ UNCHANGED <<ipamVars, rowVars, sessionVars, deleting, started, turnVars>>

\* assignmentMu is taken and the recovery reads the recorded addresses.
Lock(h) ==
    /\ holder = Nobody
    /\ holder' = h
    /\ stage' = "peers"
    /\ claim' = Claims
    /\ released' = {}
    /\ UNCHANGED <<ipamVars, rowVars, sessionVars, deleting, started, asked, draft>>

BeginRender(r) == asked[r] # Idle /\ Lock(r)

BeginStart == ~started /\ stage = "free" /\ Lock(Service)

\* The deferred Unlock; the request it belongs to is answered.
Unlock ==
    /\ holder' = Nobody
    /\ stage' = IF started' THEN "free" ELSE "stopped"
    /\ claim' = [c \in Conns |-> NoClaim]
    /\ draft' = NoDraft
    /\ released' = {}
    /\ asked' = [r \in Requests |-> IF r = holder THEN Idle ELSE asked[r]]

-----------------------------------------------------------------------------
(* The recovery: reservePersistedClientIPs.                                *)

Claimants == {c \in Conns : claim[c].ip # NoIP}

\* sortAssignments: durable before legacy, then the older connection.
Precedes(c, d) ==
    \/ ~claim[c].legacy /\ claim[d].legacy
    \/ claim[c].legacy = claim[d].legacy /\ c <= d

Foremost(C) == CHOOSE c \in C : \A d \in C : Precedes(c, d)

SameKey(c) == {d \in Claimants : claim[d].key = claim[c].key}

\* Claims that disagree with the foremost claim of their key.
Inconsistent == {c \in Claimants : claim[c].ip # claim[Foremost(SameKey(c))].ip}

\* quarantinePersistedAssignment for the rows C, retiring the keys of R.
Quarantine(C, R) ==
    /\ key' = [c \in Conns |-> IF c \in R THEN NoPeer ELSE key[c]]
    /\ ip' = [c \in Conns |-> IF c \in C THEN NoIP ELSE ip[c]]
    /\ marked' = [c \in Conns |-> c \in C \/ marked[c]]
    /\ session' = [k \in Peers |->
                     IF \E c \in C : claim[c].legacy /\ claim[c].key = k
                     THEN NoIP ELSE session[k]]
    /\ UNCHANGED <<exists, online, closing, admitted>>

Settle(C) ==
    /\ claim' = [c \in Conns |-> IF c \in C THEN NoClaim ELSE claim[c]]
    /\ stage' = IF Claimants \ C # {} THEN "addresses"
                ELSE IF holder = Service THEN "invalidate" ELSE "refresh"
    /\ UNCHANGED <<holder, draft, released, asked>>

\* Every row of C is written, or a write fails (always when a row is gone)
\* and the holder gives up.
QuarantineAll(C, R, settled) ==
    \/ /\ C \subseteq Live
       /\ Quarantine(C, R)
       /\ Settle(settled)
    \/ \E done \in SUBSET (C \cap Live) :
         /\ C # {}
         /\ Quarantine(done, R \cap done)
         /\ Unlock

ResolvePeerClaims ==
    /\ stage = "peers"
    /\ UNCHANGED <<ipamVars, deleting, started>>
    /\ QuarantineAll(Inconsistent, Inconsistent, Inconsistent)

\* May the key w have the address a: it holds no other, and nobody holds a.
\* An address outside the pool is reserved for nobody and stays in the row.
Grantable(a, w) ==
    /\ allocated[w] \in {NoIP, a}
    /\ a \in Pool => reverse[a] \in {NoPeer, w}

\* The rows of rivals that lose their address to the key w; the mistake spares
\* those of other keys.
EvictedWrong(rivals, w, a) == {c \in rivals : claim[c].key = w /\ ~Grantable(a, w)}

Evicted(rivals, w, a) == {c \in rivals : claim[c].key # w \/ ~Grantable(a, w)}

\* The addresses are settled one after another: the key of the foremost claim
\* gets the address, the rows of all others are quarantined, and a key that
\* several of them share is retired.
ReserveClaimedIP ==
    /\ stage = "addresses"
    /\ UNCHANGED <<deleting, started>>
    /\ \E a \in {claim[c].ip : c \in Claimants} :
         LET rivals == {c \in Claimants : claim[c].ip = a}
             winner == claim[Foremost(rivals)].key
             evicted == Evicted(rivals, winner, a)
             shared == {c \in evicted : \E d \in rivals \ {c} : claim[d].key = claim[c].key}
         IN  /\ \A c \in Claimants : a <= claim[c].ip
             /\ IF Grantable(a, winner) /\ a \in Pool /\ IsFree(a)
                THEN Reserve(a, winner) ELSE UNCHANGED ipamVars
             /\ QuarantineAll(evicted, shared, rivals)

-----------------------------------------------------------------------------
(* A request under the lock.                                               *)

GiveUp == Unlock /\ UNCHANGED <<rowVars, sessionVars>>

InRow(c) == c # NoConn /\ key[c] # NoPeer

\* The keys the answer will have: those the request had read, else those that
\* meanwhile are in the row, else the generated ones.
AdoptedKeyWrong(c) == asked[holder].key

AdoptedKey(c) == IF InRow(c) /\ ~asked[holder].known THEN key[c] ELSE asked[holder].key

RegenerationRequiredWrong(c) == c # NoConn

RegenerationRequired(c) == c # NoConn /\ marked[c]

\* refreshAndAdoptPersistedConnection.  A connection that has disappeared, or
\* has appeared for a user that had none, ends the request.  A marked row
\* gives its key's lease up (resolveAssignedIP).
Refresh ==
    /\ stage = "refresh"
    /\ UNCHANGED <<deleting, started>>
    /\ LET c == asked[holder].conn
           k == AdoptedKey(c)
           marks == RegenerationRequired(c)
       IN  \/ /\ IF c = NoConn THEN Live # {} ELSE c \notin Live
              /\ GiveUp
              /\ UNCHANGED ipamVars
           \/ /\ IF c = NoConn THEN Live = {} ELSE c \in Live
              /\ draft' = [known |-> InRow(c),
                           ip |-> IF c = NoConn THEN NoIP ELSE ip[c],
                           marked |-> marks,
                           had |-> allocated[k] # NoIP,
                           chosen |-> NoIP]
              /\ asked' = [asked EXCEPT ![holder].key = k]
              /\ stage' = "assign"
              /\ IF marks /\ allocated[k] # NoIP
                 THEN Release(k) ELSE UNCHANGED ipamVars
              /\ UNCHANGED <<rowVars, sessionVars, holder, claim, released>>

Choose(a) ==
    /\ draft' = [draft EXCEPT !.chosen = a]
    /\ stage' = "persist"
    /\ UNCHANGED <<rowVars, sessionVars, asked, holder, claim, released>>

\* The row's own address is the answer's: its row is not marked, and it is in the
\* pool of the present subnet.
RecordedWrong == FALSE

Recorded == ~draft.marked /\ draft.ip \in Pool

\* resolveAssignedIP: the recorded address, which nobody else may hold, or an
\* address from the manager.
AssignIP ==
    /\ stage = "assign"
    /\ UNCHANGED <<deleting, started>>
    /\ LET k == asked[holder].key
       IN  \/ /\ Recorded
              /\ \/ IsFree(draft.ip) /\ Reserve(draft.ip, k) /\ Choose(draft.ip)
                 \/ reverse[draft.ip] = k /\ UNCHANGED ipamVars /\ Choose(draft.ip)
                 \/ reverse[draft.ip] \notin {NoPeer, k} /\ UNCHANGED ipamVars /\ GiveUp
           \/ /\ ~Recorded
              /\ \/ allocated[k] # NoIP /\ UNCHANGED ipamVars /\ Choose(allocated[k])
                 \/ Allocate(k) /\ Choose(allocated'[k])
                 \/ /\ allocated[k] = NoIP /\ Cardinality(Leases) = Total
                    /\ UNCHANGED ipamVars
                    /\ GiveUp

\* connectionNeedsUpdate
NeedsUpdate == ~draft.known \/ draft.ip # draft.chosen \/ draft.marked

Store(c) ==
    /\ exists' = [exists EXCEPT ![c] = "live"]
    /\ key' = [key EXCEPT ![c] = asked[holder].key]
    /\ ip' = [ip EXCEPT ![c] = draft.chosen]
    /\ marked' = [marked EXCEPT ![c] = FALSE]

\* The row the request writes: its own, or a new one for a user who still has
\* none.
Target ==
    IF asked[holder].conn # NoConn THEN {asked[holder].conn} \cap Live
    ELSE IF Live # {} THEN {}
    ELSE {c \in Conns : /\ exists[c] = "unborn"
                        /\ \A d \in Conns : d < c => exists[d] # "unborn"}

\* persistRenderedConnection, or nothing to write.  A write that fails gives a
\* new lease back, also when the row was stored and only the notification of
\* the synchroniser was refused.
Persist ==
    /\ stage = "persist"
    /\ UNCHANGED <<sessionVars, deleting, started>>
    /\ LET k == asked[holder].key
           giveBack == IF ~draft.had /\ allocated[k] # NoIP
                       THEN Release(k) ELSE UNCHANGED ipamVars
       IN  \/ ~NeedsUpdate /\ UNCHANGED <<ipamVars, rowVars>>
           \/ NeedsUpdate /\ giveBack /\ UNCHANGED rowVars
           \/ NeedsUpdate /\ \E c \in Target : Store(c) /\ (UNCHANGED ipamVars \/ giveBack)
    /\ Unlock

\* InvalidateVPNSessionsForRestart: in one transaction the legacy addresses
\* move into their rows and every session row goes.  Or it fails.
InvalidateSessions ==
    /\ stage = "invalidate"
    /\ \/ /\ ip' = [c \in Conns |-> IF Claims[c].legacy /\ ~marked[c]
                                    THEN Claims[c].ip ELSE ip[c]]
          /\ session' = [k \in Peers |-> NoIP]
          /\ started' = TRUE
       \/ UNCHANGED <<ip, session, started>>
    /\ Unlock
    /\ UNCHANGED <<ipamVars, exists, key, marked, online, closing, admitted, deleting>>

-----------------------------------------------------------------------------
(* What happens without the lock.                                          *)

\* A lease given back by somebody who does not hold assignmentMu.
ReleaseOutside(k) ==
    /\ IF allocated[k] # NoIP THEN Release(k) ELSE UNCHANGED ipamVars
    /\ released' = IF stage = "free" THEN {} ELSE released \cup {k}
    /\ UNCHANGED <<holder, stage, claim, draft>>

\* An admission: the session's address is the row's; another key's session row
\* with that address is cleared.
Connect(c) ==
    /\ started
    /\ ip[c] # NoIP /\ closing = NoPeer
    /\ admitted < MaxSessions /\ admitted' = admitted + 1
    /\ online' = online \cup {key[c]}
    /\ session' = [k \in Peers |-> IF k = key[c] THEN ip[c]
                                   ELSE IF session[k] = ip[c] THEN NoIP ELSE session[k]]
    /\ UNCHANGED <<ipamVars, rowVars, closing, deleting, started, asked, turnVars>>

\* A session ends: its row goes, and releaseUnpersistedLease reads one of the
\* rows with its key; an address recorded there stays leased.
CloseSession(k) ==
    /\ k \in online /\ closing = NoPeer
    /\ session' = [session EXCEPT ![k] = NoIP]
    /\ online' = online \ {k}
    /\ LET rows == {c \in Live : key[c] = k}
           keeps == {c \in rows : allocated[k] # NoIP /\ ip[c] = allocated[k]}
       IN  \/ keeps # {} /\ closing' = NoPeer
           \/ (rows \ keeps # {} \/ rows = {}) /\ closing' = k
    /\ UNCHANGED <<ipamVars, rowVars, admitted, deleting, started, asked, turnVars>>

ReleaseUnpersistedLease ==
    /\ closing # NoPeer
    /\ ReleaseOutside(closing)
    /\ closing' = NoPeer
    /\ UNCHANGED <<rowVars, session, online, admitted, deleting, started, asked>>

DeleteConnection(c) ==
    /\ started
    /\ c \in Live
    /\ exists' = [exists EXCEPT ![c] = "gone"]
    /\ key' = [key EXCEPT ![c] = NoPeer]
    /\ ip' = [ip EXCEPT ![c] = NoIP]
    /\ marked' = [marked EXCEPT ![c] = FALSE]
    /\ deleting' = deleting \cup ({key[c]} \ {NoPeer})
    /\ UNCHANGED <<ipamVars, sessionVars, started, asked, turnVars>>

\* The second half of a deletion: the session of the key ends, its lease goes.
ReleaseClient(k) ==
    /\ k \in deleting /\ closing = NoPeer
    /\ deleting' = deleting \ {k}
    /\ online' = online \ {k}
    /\ session' = IF k \in online THEN [session EXCEPT ![k] = NoIP] ELSE session
    /\ ReleaseOutside(k)
    /\ UNCHANGED <<rowVars, closing, admitted, started, asked>>

LeasesNext ==
    \/ \E c \in Conns : AddConnection(c) \/ Connect(c) \/ DeleteConnection(c)
    \/ \E r \in Requests : Prepare(r) \/ BeginRender(r)
    \/ BeginStart
    \/ ResolvePeerClaims
    \/ ReserveClaimedIP
    \/ Refresh
    \/ AssignIP
    \/ Persist
    \/ InvalidateSessions
    \/ \E k \in Peers : CloseSession(k) \/ ReleaseClient(k)
    \/ ReleaseUnpersistedLease

LeasesSpec == LeasesInit /\ [][LeasesNext]_leaseVars

-----------------------------------------------------------------------------
LeasesTypeOK ==
    /\ IpamTypeOK
    /\ exists \in [Conns -> {"unborn", "live", "gone"}]
    /\ key \in [Conns -> Peers \cup {NoPeer}]
    /\ ip \in [Conns -> Pool \cup OldIPs \cup {NoIP}]
    /\ marked \in [Conns -> BOOLEAN]
    /\ \A c \in Conns : /\ exists[c] # "live" => key[c] = NoPeer /\ ~marked[c]
                        /\ ip[c] # NoIP => key[c] # NoPeer /\ ~marked[c]
    /\ session \in [Peers -> Pool \cup OldIPs \cup {NoIP}]
    /\ online \subseteq Peers /\ deleting \subseteq Peers
    /\ closing \in Peers \cup {NoPeer}
    /\ admitted \in 0..MaxSessions
    /\ started \in BOOLEAN
    /\ asked \in [Requests -> [conn : Conns \cup {NoConn}, key : Peers \cup {NoPeer},
                               known : BOOLEAN]]
    /\ holder \in Requests \cup {Service, Nobody}
    /\ stage \in {"free", "peers", "addresses", "refresh", "assign", "persist",
                 "invalidate", "stopped"}
    /\ claim \in [Conns -> [key : Peers \cup {NoPeer}, ip : Pool \cup OldIPs \cup {NoIP},
                            legacy : BOOLEAN]]
    /\ draft \in [known : BOOLEAN, ip : Pool \cup OldIPs \cup {NoIP}, marked : BOOLEAN,
                  had : BOOLEAN, chosen : Pool \cup {NoIP}]
    /\ released \subseteq Peers

Recovered == stage \in {"refresh", "assign", "persist", "invalidate"}

\* Once a recovery is over, two rows that record an address share it exactly
\* when they share their key, whatever the tables held before and whichever
\* writes of the recovery failed (peer_ip_recovery.go:221-294).
RecoveryResolves ==
    Recovered => \A c, d \in Conns :
        ip[c] # NoIP /\ ip[d] # NoIP => (ip[c] = ip[d] <=> key[c] = key[d])

\* While the holder of assignmentMu works on its answer, every recorded address
\* of the pool is leased to its row's key, so no allocation can hand it out.
\* Only a session's end or a deletion, which do not take that lock, can have
\* given the lease up since (client_config.go:334-361, session.go:422-445).
RecoveredIsLeased ==
    Recovered => \A c \in Conns :
        ip[c] \in Pool => allocated[key[c]] = ip[c] \/ key[c] \in released

\* The address of an answer is recorded for no other key, except a key whose
\* lease was given up behind the holder's back (client_config.go:607-660).
GrantIsExclusive ==
    stage = "persist" => \A c \in Conns :
        ip[c] = draft.chosen => key[c] \in {asked[holder].key} \cup released

\* A recorded address of the pool is never replaced by another one: a row must
\* first have lost it to a quarantine, which asks its user for a new
\* configuration (client_config.go:616-646, peer_ip_recovery.go:16-52).
AddressStable ==
    [][\A c \in Conns : ip[c] \in Pool /\ ip'[c] # NoIP => ip'[c] = ip[c]]_leaseVars

\* The keys of a row are never overwritten by other keys: of two requests that
\* both found the row without keys, the second answers with those of the first
\* (client_config.go:416-431).
KeyStable ==
    [][\A c \in Conns : key[c] # NoPeer /\ key'[c] # NoPeer => key'[c] = key[c]]_leaseVars

=============================================================================
