----------------------------- MODULE PeerAccess -----------------------------
(***************************************************************************)
(* Who may send through the portal, and as whom (internal/vpn).  The       *)
(* durable connections say which peer key holds which address for which    *)
(* user.  The synchroniser's pass brings four runtime records to agree     *)
(* with them - the portal device's peers, the resolver's address owners,   *)
(* the routing sessions and the forwarder's routes - one device call or    *)
(* one session teardown at a time, each of which may fail, while the       *)
(* receive loop looks packets up, admits their owners and forwards them,   *)
(* commits change the durable rows, post-commit hooks tear sessions down   *)
(* and the idle sweep evicts them.                                         *)
(*                                                                         *)
(* A commit takes no runtime lock.  Service.mu is held across an           *)
(* admission, from the durable check to the registered route, and across   *)
(* every session teardown; everything else moves between any two steps.    *)
(*                                                                         *)
(* Abstracted: a lease is the address and the owner of an eligible row,    *)
(* the owner standing for the user and the connection id; rows that share  *)
(* a key or an address, which the pass leaves out, do not occur; the two   *)
(* durable reads of a pass are one; backends (a selection may fail, and    *)
(* Migrate leaves the one that was named; all are open); stateMu, since    *)
(* one loop handles packets;                                               *)
(* the sorted order in which a pass visits keys (any order here).  The     *)
(* notifications that start passes and report their outcome are PeerSync,  *)
(* so a pass may start here whenever none runs.                            *)
(*                                                                         *)
(* `covered`, `touched`, `blind` and `outrun` are history: the program     *)
(* does not keep them.                                                     *)
(***************************************************************************)
EXTENDS Integers, FiniteSets

CONSTANTS Peers,       \* peer public keys
          IPs,         \* assignable addresses of the portal subnet
          Leases,      \* the leases rows may hold: [ip |-> ..., owner |-> ...]
          SessionIDs,  \* session UUIDs; compared within one peer only
          MaxChanges,  \* bound: how many durable changes are committed
          MaxFaults,   \* bound: how many steps fail, peers are lost and sessions migrated
          Faults,      \* those of AllFaults that happen
          None

AllFaults == {"read", "status", "rows", "add", "remove", "verify", "lose", "select", "migrate"}

ASSUME AccessAssumption ==
    /\ IPs = {l.ip : l \in Leases}
    /\ MaxChanges \in Nat
    /\ MaxFaults \in Nat
    /\ Faults \subseteq AllFaults
ASSUME AccessFinite == IsFiniteSet(Peers)
ASSUME EnoughIDs ==   \* UUIDs: some id is in none of the four places that hold one
    /\ SessionIDs # {}
    /\ \A a, b, c, d \in SessionIDs : \E id \in SessionIDs : id \notin {a, b, c, d}

SessionOf == [id : SessionIDs, owner : {l.owner : l \in Leases}, ip : IPs]
RouteRecord == [id : SessionIDs, ip : IPs]

ASSUME NoneIsNothing ==
    None \notin Leases \cup IPs \cup Peers /\ None \notin SessionOf /\ None \notin RouteRecord

VARIABLES
    lease,     \* durable: the lease of each eligible portal connection
    device,    \* ClientAWGDevice.peers: the allowed address of a key
    resolver,  \* Resolver.byPeer and byIP: the published owner record of a key
    session,   \* SessionManager.sessionsByPeer
    route,     \* Forwarder.routesByPeer
    byIP,      \* Forwarder.routesByIP, the key of the route
    memo,      \* Router.sessions
    loop,      \* the receive loop: the packet it handles and where it stands
    hooks,     \* post-commit revocations not yet carried out
    swept,     \* sessions CheckTimeouts evicted and reapSession has not retired
    pass,      \* where the pass stands: it holds peerSync.mu unless "idle"
    want,      \* the desired peers the pass read
    retired,   \* the keys the pass retires
    revoke,    \* the keys whose session the pass has still to revoke
    remove,    \* the keys the pass has still to remove from the device
    add,       \* the keys the pass has still to add to the device
    failed,    \* a step of the pass failed
    changes, faults,           \* durable changes committed, faults so far
    covered, touched, blind,   \* history, see CoveredIsEnforced
    outrun     \* history: peers whose session was admitted from a record since withdrawn

durable == <<lease, hooks, changes>>
runtime == <<session, route, byIP, outrun>>
router == <<memo, loop>>
progress == <<want, retired, revoke, remove, add, failed>>
vars == <<lease, device, resolver, session, route, byIP, memo, loop, hooks, swept,
          pass, want, retired, revoke, remove, add, failed,
          changes, faults, covered, touched, blind, outrun>>

-----------------------------------------------------------------------------
NoRecord == [p \in Peers |-> None]

AtRest == [pc |-> "idle"]

\* Service.mu is free: the loop is not between its durable check and the route.
ServiceFree == loop.pc # "checked"

MayFail(step) == step \in Faults /\ faults < MaxFaults

Fails(step) == MayFail(step) /\ faults' = faults + 1

Holds(p, ip) == lease[p] # None /\ lease[p].ip = ip

Free(ip) == \A p \in Peers : ~Holds(p, ip)

\* ownershipAgrees: the same authorization, its address included.
Agrees(published, wanted) == published # None /\ published = wanted

\* Resolver.Lookup.
OwnersOf(ip) == {p \in Peers : resolver[p] # None /\ resolver[p].ip = ip}

RouteOf(p, id, ip) == [id |-> id, ip |-> ip]

\* HasSessionRouteWithReturnPath: the route is this session's, and answers for
\* its address.
HasSessionRoute(p, id, ip) ==
    /\ route[p] = RouteOf(p, id, ip)
    /\ byIP[ip] = p

RouteRetiredWrong(p, id) ==
    /\ route' = IF route[p] # None /\ route[p].id = id THEN [route EXCEPT ![p] = None] ELSE route
    /\ byIP' = byIP

\* BeginUnregisterSession: the route goes only if it is this session's, and with
\* it the address it still answers for.
RouteRetired(p, id) ==
    IF route[p] # None /\ route[p].id = id
    THEN /\ route' = [route EXCEPT ![p] = None]
         /\ byIP' = IF byIP[route[p].ip] = p
                    THEN [byIP EXCEPT ![route[p].ip] = None] ELSE byIP
    ELSE UNCHANGED <<route, byIP>>

\* RevokeUpstreamPeerSession, under Service.mu.
SessionRevoked(p) ==
    /\ ServiceFree
    /\ IF session[p] = None
       THEN UNCHANGED runtime
       ELSE /\ session' = [session EXCEPT ![p] = None]
            /\ outrun' = outrun \ {p}
            /\ RouteRetired(p, session[p].id)

\* The device holds the peers of these leases, and no other.
DeviceHas(leases) ==
    \A p \in Peers : device[p] = IF leases[p] = None THEN None ELSE leases[p].ip

\* NewIngressEngine: the first reconciliation succeeded, or there is no engine.
AccessInit ==
    /\ lease \in [Peers -> Leases \cup {None}]
    /\ \A p, q \in Peers : p # q /\ lease[p] # None => ~Holds(q, lease[p].ip)
    /\ device = [p \in Peers |-> IF lease[p] = None THEN None ELSE lease[p].ip]
    /\ resolver = lease
    /\ session = NoRecord /\ route = NoRecord /\ byIP = [i \in IPs |-> None]
    /\ memo = NoRecord /\ loop = AtRest
    /\ hooks = {} /\ swept = {}
    /\ pass = "idle" /\ want = NoRecord
    /\ retired = {} /\ revoke = {} /\ remove = {} /\ add = {} /\ failed = FALSE
    /\ changes = 0 /\ faults = 0
    /\ covered = Peers /\ touched = {} /\ blind = FALSE /\ outrun = {}

-----------------------------------------------------------------------------
(* Commits to the durable rows, and the hook a revoking commit runs.        *)

Commit(p, l) ==
    /\ changes < MaxChanges
    /\ changes' = changes + 1
    /\ lease' = [lease EXCEPT ![p] = l]
    /\ touched' = touched \cup {p}
    /\ covered' = covered \ {p}
    /\ UNCHANGED <<device, resolver, runtime, router, swept, pass, progress, faults, blind>>

\* A connection is issued, enabled again, or its user is.
Grant(p) ==
    /\ lease[p] = None
    /\ \E l \in Leases : Free(l.ip) /\ Commit(p, l)
    /\ UNCHANGED hooks

\* Disabled or deleted: the committing goroutine then runs the hook.
Withdraw(p) ==
    /\ lease[p] # None
    /\ Commit(p, None)
    /\ hooks' = hooks \cup {p}

\* The user expires or exhausts the traffic limit: nothing is committed, and
\* nobody is told.
Lapse(p) ==
    /\ lease[p] # None
    /\ Commit(p, None)
    /\ UNCHANGED hooks

\* The row moves to another owner or to another free address.
Change(p) ==
    /\ lease[p] # None
    /\ \E l \in Leases \ {lease[p]} : (l.ip = lease[p].ip \/ Free(l.ip)) /\ Commit(p, l)
    /\ UNCHANGED hooks

\* revokeDurableAccess looks for a session without Service.mu ...
HookFindsNothing(p) ==
    /\ p \in hooks
    /\ session[p] = None
    /\ hooks' = hooks \ {p}
    /\ UNCHANGED <<lease, device, resolver, runtime, router, swept, pass, progress,
                   changes, faults, covered, touched, blind>>

\* ... and has it torn down under Service.mu.
HookRevokes(p) ==
    /\ p \in hooks
    /\ SessionRevoked(p)
    /\ hooks' = hooks \ {p}
    /\ UNCHANGED <<lease, device, resolver, router, swept, pass, progress,
                   changes, faults, covered, touched, blind>>

-----------------------------------------------------------------------------
(* The idle sweep: the session goes first, the route under Service.mu.      *)

IdleEvict(p) ==
    /\ session[p] # None
    /\ \A s \in swept : s.peer # p   \* bound: one sweep of a peer at a time
    /\ session' = [session EXCEPT ![p] = None]
    /\ outrun' = outrun \ {p}
    /\ swept' = swept \cup {[peer |-> p, id |-> session[p].id]}
    /\ UNCHANGED <<durable, device, resolver, route, byIP, router, pass, progress,
                   faults, covered, touched, blind>>

\* A peer that was admitted again keeps the route of its new session.
ReapRoute(p) ==
    /\ ServiceFree
    /\ \E s \in swept :
         /\ s.peer = p
         /\ swept' = swept \ {s}
         /\ IF session[p] # None THEN UNCHANGED <<route, byIP>> ELSE RouteRetired(p, s.id)
    /\ UNCHANGED <<durable, device, resolver, session, outrun, router, pass, progress,
                   faults, covered, touched, blind>>

\* MigrateSession keeps the session and its route but moves them to a backend
\* that neither the memo nor an admission under way names: both are void.
Migrate(p) ==
    /\ ServiceFree
    /\ session[p] # None
    /\ Fails("migrate")
    /\ memo' = [memo EXCEPT ![p] = None]
    /\ loop' = IF loop.pc = "admitted" /\ loop.as = p THEN AtRest ELSE loop
    /\ UNCHANGED <<durable, device, resolver, runtime, swept, pass, progress,
                   covered, touched, blind>>

-----------------------------------------------------------------------------
(* The receive loop: ReceiveOutbound, HandlePacket, EnsureSession, submit.  *)

LoopOnly == UNCHANGED <<durable, device, resolver, swept, pass, progress, covered,
                        touched, blind>>

\* The device decrypted a packet: its source is the sender's allowed address.
Receive(p) ==
    /\ loop.pc = "idle"
    /\ device[p] # None
    /\ loop' = [pc |-> "received", ip |-> device[p]]
    /\ LoopOnly /\ UNCHANGED <<runtime, memo, faults>>

\* A packet whose owner was looked up.
Packet(where, p, l) == [pc |-> where, as |-> p, lease |-> l]

\* The memo certifies the owner and the route is still the memoised one.
MemoLive(p, l) ==
    /\ memo[p] # None
    /\ memo[p].ip = l.ip /\ memo[p].owner = l.owner
    /\ HasSessionRoute(p, memo[p].id, l.ip)

Looked(p, l) == Packet(IF MemoLive(p, l) THEN "submit" ELSE "admit", p, l)

Lookup ==
    /\ loop.pc = "received"
    /\ loop' \in IF OwnersOf(loop.ip) = {} THEN {AtRest}
                 ELSE {Looked(p, resolver[p]) : p \in OwnersOf(loop.ip)}
    /\ LoopOnly /\ UNCHANGED <<runtime, memo, faults>>

\* ensureBackendSessionForIngress takes Service.mu and reads the durable row
\* again: the published record must still be it.
AdmitCheck ==
    /\ loop.pc = "admit"
    /\ loop' = IF lease[loop.as] = loop.lease
               THEN Packet("checked", loop.as, loop.lease) ELSE AtRest
    /\ LoopOnly /\ UNCHANGED <<runtime, memo, faults>>

Reusable(p, l) ==
    /\ session[p] # None
    /\ session[p].owner = l.owner /\ session[p].ip = l.ip
    /\ HasSessionRoute(p, session[p].id, l.ip)

Admitted(id) ==
    loop' = [pc |-> "admitted", as |-> loop.as, lease |-> loop.lease, id |-> id]

AdmitReuse ==
    /\ loop.pc = "checked"
    /\ Reusable(loop.as, loop.lease)
    /\ Admitted(session[loop.as].id)
    /\ LoopOnly /\ UNCHANGED <<runtime, memo, faults>>

InUse(p, id) ==
    \/ session[p] # None /\ session[p].id = id
    \/ route[p] # None /\ route[p].id = id
    \/ memo[p] # None /\ memo[p].id = id
    \/ \E s \in swept : s.peer = p /\ s.id = id
FreshID(p) == CHOOSE id \in SessionIDs : ~InUse(p, id)

\* A session of the peer, and its route, are replaced.
AdmitFresh ==
    /\ loop.pc = "checked"
    /\ ~Reusable(loop.as, loop.lease)
    /\ LET p == loop.as
           ip == loop.lease.ip
           id == FreshID(p)
           old == route[p]
           dropped == IF old # None /\ byIP[old.ip] = p
                      THEN [byIP EXCEPT ![old.ip] = None] ELSE byIP
       IN  /\ session' = [session EXCEPT ![p] = [id |-> id, owner |-> loop.lease.owner, ip |-> ip]]
           /\ route' = [route EXCEPT ![p] = RouteOf(p, id, ip)]
           /\ byIP' = [dropped EXCEPT ![ip] = p]
           /\ outrun' = IF resolver[p] = loop.lease THEN outrun \ {p} ELSE outrun \cup {p}
           /\ Admitted(id)
    /\ LoopOnly /\ UNCHANGED <<memo, faults>>

\* No backend can be selected: nothing was created yet.
AdmitRefused ==
    /\ loop.pc = "checked"
    /\ ~Reusable(loop.as, loop.lease)
    /\ Fails("select")
    /\ loop' = AtRest
    /\ LoopOnly /\ UNCHANGED <<runtime, memo>>

ConfirmWrong(p, id, ip) ==
    /\ route' = [route EXCEPT ![p] = RouteOf(p, id, ip)]
    /\ byIP' = [byIP EXCEPT ![ip] = p]

\* ownedRoutes.TryRegisterSessionWithLimit: never recreates a route that a
\* teardown took away after the admission released Service.mu.
Confirm(p, id, ip) ==
    /\ HasSessionRoute(p, id, ip)
    /\ UNCHANGED <<route, byIP>>

\* registerLocked and the memo, or the packet is dropped.
Register ==
    /\ loop.pc = "admitted"
    /\ LET p == loop.as
           l == loop.lease
       IN  \/ /\ Confirm(p, loop.id, l.ip)
              /\ memo' = [memo EXCEPT ![p] = [id |-> loop.id, owner |-> l.owner, ip |-> l.ip]]
              /\ loop' = Packet("submit", p, l)
           \/ /\ ~HasSessionRoute(p, loop.id, l.ip)
              /\ loop' = AtRest
              /\ UNCHANGED <<route, byIP, memo>>
    /\ LoopOnly /\ UNCHANGED <<session, outrun, faults>>

Submit ==
    /\ loop.pc = "submit"
    /\ loop' = AtRest
    /\ LoopOnly /\ UNCHANGED <<runtime, memo, faults>>

-----------------------------------------------------------------------------
(* One pass of the synchroniser: reconcileNow.                              *)

PassOnly == UNCHANGED <<durable, router, swept>>

Closed(ok) ==
    /\ pass' = "idle"
    /\ want' = NoRecord
    /\ retired' = {} /\ revoke' = {} /\ remove' = {} /\ add' = {}
    /\ failed' = FALSE
    /\ covered' = IF ok THEN Peers \ touched ELSE covered

\* desired: the durable rows, or nothing is authorised at all.
PassRead ==
    /\ pass = "idle"
    /\ touched' = {}
    /\ \/ /\ pass' = "status"
          /\ want' = lease
          /\ UNCHANGED <<resolver, retired, revoke, remove, add, failed, faults, covered, blind>>
       \/ /\ Fails("read")
          /\ resolver' = NoRecord
          /\ blind' = TRUE
          /\ UNCHANGED <<pass, progress, covered>>
    /\ PassOnly /\ UNCHANGED <<device, runtime>>

Wanted(p, ip) == want[p] # None /\ want[p].ip = ip

\* Present on the device, but not as desired.
Drifted == {p \in Peers : device[p] # None /\ ~Wanted(p, device[p])}

UnchangedOwnerWrong(p) == TRUE

\* ownershipUnchanged: a key the resolver does not track has no previous owner.
UnchangedOwner(p) ==
    \A q \in OwnersOf(want[p].ip) : q = p /\ Agrees(resolver[q], want[p])

InPlace(p) == device[p] # None /\ Wanted(p, device[p])
Handoffs == {p \in Peers : InPlace(p) /\ ~UnchangedOwner(p)}
Stable == {p \in Peers : InPlace(p) /\ UnchangedOwner(p)}

\* The addresses of retired records, and those of peers still to be installed
\* or handed over: none may be looked up until the pass publishes.
TransitionIPs ==
    {resolver[p].ip : p \in {q \in Drifted : resolver[q] # None}}
        \cup {want[p].ip : p \in {q \in Peers : want[q] # None} \ Stable}

InTransitionWrong == UNION {OwnersOf(want[p].ip) : p \in Handoffs}

InTransition == Drifted \cup UNION {OwnersOf(ip) : ip \in TransitionIPs}

Withdrawn(gone) == [p \in Peers |-> IF p \in gone THEN None ELSE resolver[p]]

\* Status, the classification of the device's peers, and the withdrawal of
\* every address in transition before anything is torn down.
PassClassify ==
    /\ pass = "status"
    /\ pass' = "repair"
    /\ retired' = Drifted
    /\ revoke' = Drifted \cup Handoffs
    /\ remove' = Drifted
    /\ add' = {p \in Peers : want[p] # None /\ ~InPlace(p)}
    /\ resolver' = Withdrawn(InTransition)
    /\ PassOnly /\ UNCHANGED <<device, runtime, want, failed, faults, covered, touched, blind>>

\* failClosedWithoutStatus: what the durable rows no longer support is
\* withdrawn, and the sessions it backed are then revoked.
PassNarrow ==
    LET gone == {p \in Peers : resolver[p] # None /\ ~Agrees(resolver[p], want[p])}
    IN  /\ pass = "status"
        /\ Fails("status")
        /\ pass' = "narrow"
        /\ resolver' = Withdrawn(gone)
        /\ revoke' = gone
        /\ failed' = TRUE
        /\ PassOnly /\ UNCHANGED <<device, runtime, want, retired, remove, add,
                                   covered, touched, blind>>

\* revokeSession, in every phase that tears sessions down.
PassRevoke(p) ==
    /\ p \in revoke
    /\ SessionRevoked(p)
    /\ revoke' = revoke \ {p}
    /\ PassOnly /\ UNCHANGED <<device, resolver, pass, want, retired, remove, add, failed,
                               faults, covered, touched, blind>>

\* removeDriftedPeers: a key that vanished since Status is an error too.
PassRemove(p) ==
    /\ pass = "repair"
    /\ p \in remove \ revoke
    /\ remove' = remove \ {p}
    /\ \/ /\ device[p] # None
          /\ device' = [device EXCEPT ![p] = None]
          /\ UNCHANGED <<failed, faults>>
       \/ /\ device[p] = None
          /\ failed' = TRUE
          /\ UNCHANGED <<device, faults>>
       \/ /\ Fails("remove")
          /\ failed' = TRUE
          /\ UNCHANGED device
    /\ PassOnly /\ UNCHANGED <<resolver, runtime, pass, want, retired, revoke, add,
                               covered, touched, blind>>

\* AddPeer refuses a key it has and an address another key has.
Installable(p) ==
    /\ device[p] = None
    /\ \A q \in Peers : device[q] # want[p].ip

\* addMissingPeers.
PassAdd(p) ==
    /\ pass = "repair"
    /\ revoke = {} /\ remove = {}
    /\ p \in add
    /\ add' = add \ {p}
    /\ \/ /\ Installable(p)
          /\ device' = [device EXCEPT ![p] = want[p].ip]
          /\ UNCHANGED <<failed, faults>>
       \/ /\ ~Installable(p)
          /\ failed' = TRUE
          /\ UNCHANGED <<device, faults>>
       \/ /\ Fails("add")
          /\ failed' = TRUE
          /\ UNCHANGED device
    /\ PassOnly /\ UNCHANGED <<resolver, runtime, pass, want, retired, revoke, remove,
                               covered, touched, blind>>

\* verifyPeers.
PassVerify ==
    /\ pass = "repair"
    /\ revoke = {} /\ remove = {} /\ add = {}
    /\ pass' = "verified"
    /\ \/ /\ failed' = (failed \/ ~DeviceHas(want))
          /\ UNCHANGED faults
       \/ /\ Fails("verify")
          /\ failed' = TRUE
    /\ PassOnly /\ UNCHANGED <<device, resolver, runtime, want, retired, revoke, remove, add,
                               covered, touched, blind>>

OrphansWrong == {p \in Peers : want[p] = None /\ device[p] # None}

\* Live portal sessions whose peer is not desired, whatever the device holds;
\* those the pass retired are revoked already.
Orphans == {p \in Peers : want[p] = None /\ session[p] # None} \ retired

\* cleanupOrphanedRouting, which cannot list them when its read fails.
PassOrphans ==
    /\ pass = "verified"
    /\ pass' = "orphans"
    /\ \/ /\ revoke' = Orphans
          /\ UNCHANGED <<failed, faults>>
       \/ /\ Fails("rows")
          /\ failed' = TRUE
          /\ UNCHANGED revoke
    /\ PassOnly /\ UNCHANGED <<device, resolver, runtime, want, retired, remove, add,
                               covered, touched, blind>>

\* Ownership is published once every step has succeeded.
PassEnd ==
    /\ pass \in {"narrow", "orphans"}
    /\ revoke = {}
    /\ resolver' = IF failed THEN resolver ELSE want
    /\ Closed(~failed)
    /\ PassOnly /\ UNCHANGED <<device, runtime, faults, touched, blind>>

\* The device loses a peer behind the synchroniser's back.
LosePeer(p) ==
    /\ device[p] # None
    /\ Fails("lose")
    /\ device' = [device EXCEPT ![p] = None]
    /\ blind' = TRUE
    /\ UNCHANGED <<durable, resolver, runtime, router, swept, pass, progress,
                   covered, touched>>

-----------------------------------------------------------------------------
PassStep ==
    \/ PassRead \/ PassClassify \/ PassNarrow \/ PassVerify \/ PassOrphans \/ PassEnd
    \/ \E p \in Peers : PassRevoke(p) \/ PassRemove(p) \/ PassAdd(p)

LoopStep ==
    \/ Lookup \/ AdmitCheck \/ AdmitReuse \/ AdmitFresh \/ AdmitRefused \/ Register \/ Submit

Housekeeping(p) == HookFindsNothing(p) \/ HookRevokes(p) \/ ReapRoute(p)

Environment(p) ==
    \/ Grant(p) \/ Withdraw(p) \/ Lapse(p) \/ Change(p)
    \/ Receive(p) \/ IdleEvict(p) \/ Migrate(p) \/ LosePeer(p)

AccessNext ==
    \/ PassStep
    \/ LoopStep
    \/ \E p \in Peers : Housekeeping(p) \/ Environment(p)

AccessSpec == AccessInit /\ [][AccessNext]_vars

\* The peerSyncLoop ticker starts passes for ever, and a pass waits for nothing
\* but Service.mu, which Go hands over in order; the receive loop and the reaper
\* run.  Packets, commits, evictions and faults need not happen.
FairAccessSpec ==
    /\ AccessSpec
    /\ SF_vars(PassStep)
    /\ WF_vars(LoopStep)
    /\ \A p \in Peers : SF_vars(ReapRoute(p))

-----------------------------------------------------------------------------
PassPhases == {"idle", "status", "narrow", "repair", "verified", "orphans"}
LoopPhases == {"idle", "received", "admit", "checked", "admitted", "submit"}

LoopTypeOK ==
    /\ loop.pc \in LoopPhases
    /\ loop.pc = "received" => loop.ip \in IPs
    /\ loop.pc \in {"admit", "checked", "admitted", "submit"} =>
          loop.as \in Peers /\ loop.lease \in Leases
    /\ loop.pc = "admitted" => loop.id \in SessionIDs

(* Every record has the shape of what it stands for, a memo and a session    *)
(* carry a session id, and a pass that does not run has nothing left to do   *)
(* (internal/vpn/peer_sync.go, ingress/router.go).                           *)
AccessTypeOK ==
    /\ lease \in [Peers -> Leases \cup {None}]
    /\ device \in [Peers -> IPs \cup {None}]
    /\ resolver \in [Peers -> Leases \cup {None}]
    /\ session \in [Peers -> SessionOf \cup {None}]
    /\ route \in [Peers -> RouteRecord \cup {None}]
    /\ byIP \in [IPs -> Peers \cup {None}]
    /\ memo \in [Peers -> SessionOf \cup {None}]
    /\ LoopTypeOK
    /\ hooks \subseteq Peers
    /\ swept \subseteq [peer : Peers, id : SessionIDs]
    /\ pass \in PassPhases
    /\ want \in [Peers -> Leases \cup {None}]
    /\ \A s \in {retired, revoke, remove, add, covered, touched, outrun} : s \subseteq Peers
    /\ failed \in BOOLEAN /\ blind \in BOOLEAN
    /\ changes \in 0..MaxChanges /\ faults \in 0..MaxFaults
    /\ pass = "idle" => retired \cup revoke \cup remove \cup add = {} /\ ~failed

(* What the device lets a key send, the resolver attributes to no other key: *)
(* between any two steps of a pass, failed passes included, a fresh packet   *)
(* belongs to its sender or is dropped (reconcileNow withdraws an address    *)
(* before the device changes and publishes it after it is verified).         *)
Attribution ==
    \A p, q \in Peers :
        device[p] # None /\ resolver[q] # None /\ resolver[q].ip = device[p] => p = q

(* A peer whose durable row did not change since the last successful pass    *)
(* read it stays enforced, whatever packets, failed passes, evictions and    *)
(* device faults come later: the device lets it send from no other address,  *)
(* the resolver knows no other address or owner, and after a revocation      *)
(* there is no device peer and no record.  Nor does its session have another *)
(* address or owner, or outlive a revocation, but with two exceptions: where *)
(* a durable read has failed or the device has lost a peer, ever since the   *)
(* start (`blind`), as a pass then no longer knows the former owner of an    *)
(* address; and a session admitted from a record that was withdrawn while it *)
(* was under way (`outrun`).                                                 *)
CoveredIsEnforced ==
    \A p \in covered :
        /\ device[p] # None => Holds(p, device[p])
        /\ resolver[p] # None => resolver[p] = lease[p]
        /\ session[p] # None /\ ~blind /\ p \notin outrun =>
              /\ lease[p] # None
              /\ session[p].ip = lease[p].ip /\ session[p].owner = lease[p].owner

BeingReaped(p) == \E s \in swept : s.peer = p /\ route[p] # None /\ s.id = route[p].id

(* A route serves the live session it was registered for, or one the reaper  *)
(* is about to retire: a slow admission never brings back the route of a     *)
(* session that was revoked while it was under way (ownedRoutes).            *)
RouteServesSession ==
    \A p \in Peers : route[p] # None =>
        \/ session[p] # None /\ session[p].id = route[p].id
        \/ BeingReaped(p)

(* Packets for the address of an enforced peer are answered for no other     *)
(* peer, but for a route the reaper is about to retire, or one that an       *)
(* admission opened from a record withdrawn while it was under way: an       *)
(* address that was handed over takes its reverse entry with it              *)
(* (forwarder/routes.go).  Excepted is a service that has had a failed       *)
(* durable read or a device that lost a peer (`blind`), where the session of *)
(* a former owner, and so its entry, may be left standing.                   *)
AddressAnswersForHolder ==
    \A p \in covered : lease[p] # None /\ ~blind =>
        LET q == byIP[lease[p].ip] IN q # None /\ q # p => BeingReaped(q) \/ q \in outrun

Enforced(p) ==
    /\ resolver[p] = lease[p]
    /\ lease[p] = None => session[p] = None /\ route[p] = None

(* Once commits and faults stop, passes and reaper leave every peer enforced *)
(* for good, whatever the receive loop and the idle sweep still do.          *)
Converges == <>[](DeviceHas(lease) /\ \A p \in Peers : Enforced(p))
=============================================================================
