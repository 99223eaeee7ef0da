--------------------------- MODULE SessionGateway ---------------------------
(***************************************************************************)
(* The session core of the VPN service (internal/vpn): admission of a      *)
(* peer's packets onto a backend tunnel, idle reaping, revocation,         *)
(* disconnection, migration between backends, administrative disable with  *)
(* failover, the periodic reconciliation of the connection gauges, and a   *)
(* crash followed by a restart.                                            *)
(*                                                                         *)
(* Five records of one fact must move together: the in-memory session, its *)
(* database row, its forwarder route, the backend's connection gauge and   *)
(* the peer's sticky affinity.  Service.mu serialises the operations that  *)
(* move them; the idle sweep takes only the session manager's lock, health *)
(* status writes only the pool's, and the reconciler reads the database    *)
(* before it takes either.  An operation is one action when nothing those  *)
(* three do can fall inside it and matter; migrate, disable and disconnect *)
(* are split where it can, and `op` is then the operation that holds       *)
(* Service.mu.                                                             *)
(*                                                                         *)
(* Abstracted: addresses (one per peer), users (one per peer, so the       *)
(* per-user affinity follows the per-peer one), LastSeen (any live session *)
(* may be idle), StateVersion and lifecycleVersion (only whether they      *)
(* moved since they were read), which eligible backend the balancer picks. *)
(*                                                                         *)
(* An operator whose name ends in "Wrong" is its neighbour with a mistake  *)
(* the code could contain.  Nothing uses it: it is there to be put in the  *)
(* neighbour's place, to see that a property notices.                      *)
(***************************************************************************)
EXTENDS Integers, FiniteSets

CONSTANTS Peers,               \* peer public keys of provisioned connections
          Backends,            \* backend tunnels in the pool
          SessionIDs,          \* session UUIDs; compared within one peer only
          Families,            \* partition of Backends by protocol family
          MaxPeersPerBackend,  \* the configured admission limit of a backend
          MaxGauge,            \* bound: migrate and disable stop short of it
          Ops,                 \* the operations the environment invokes
          Faults,              \* the steps that may fail; "sessionRow" is any write of a
                               \* session's row, "migrateRow" a migration's first
          None                 \* no session, row, route, affinity, operation

AllOps == {"timeout", "revoke", "disconnect", "migrate", "disable", "enable",
           "probe", "expire", "reconcile", "restart"}
AllFaults == {"sessionRow", "migrateRow", "gaugeRow", "register"}

ASSUME GatewayAssumption ==
    /\ UNION Families = Backends
    /\ MaxPeersPerBackend \in Nat \ {0}
    /\ MaxGauge \in Nat
    /\ Ops \subseteq AllOps
    /\ Faults \subseteq AllFaults
ASSUME FamilyAssumption == \A F, G \in Families : F = G \/ F \cap G = {}
ASSUME FiniteAssumption == IsFiniteSet(Peers)
ASSUME NoneAssumption == None \notin Backends

Statuses == {"active", "handshake_blocked", "degraded"}

Placement == [id : SessionIDs, backend : Backends]
Timeout == [id : SessionIDs, backend : Backends, settled : BOOLEAN]

ASSUME NotAPlacement == None \notin Placement \cup Timeout

VARIABLES session,   \* SessionManager.sessionsByPeer
          row,       \* connected vpn_sessions row of the peer
          route,     \* Forwarder.routesByPeer
          affinity,  \* StickySessionManager.peerAffinity
          gauge,     \* BackendTunnel.ActiveConnections
          enabled,   \* BackendTunnel.Enabled
          status,    \* BackendTunnel.Status
          timedOut,  \* swept by CheckTimeouts, not yet reaped
          snapshot,  \* what reconcileConnectionCounts read
          op         \* the operation that holds Service.mu between its steps

vars == <<session, row, route, affinity, gauge, enabled, status, timedOut, snapshot, op>>

-----------------------------------------------------------------------------
On(where, b) == {p \in Peers : where[p] # None /\ where[p].backend = b}

Live(p) == session[p] # None

LiveAs(p, id) == Live(p) /\ session[p].id = id

Idle == op = None

\* Administratively enabled and runtime-active: may receive a session.
Eligible(b) == enabled[b] /\ status[b] = "active"

HasRoomWrong(b) == gauge[b] <= MaxPeersPerBackend

HasRoom(b) == gauge[b] < MaxPeersPerBackend

SameFamily(a, b) == \E F \in Families : a \in F /\ b \in F

\* A session is identified by a fresh UUID.
UsedIDs(p) == {r.id : r \in {session[p], row[p], route[p], timedOut[p]} \ {None}}
FreshIDs(p) == SessionIDs \ UsedIDs(p)
FreshID(p) == CHOOSE id \in FreshIDs(p) : TRUE

\* One connection leaves; the counter stops at zero.
Less(n) == IF n > 0 THEN n - 1 ELSE 0

Incremented(b) == [gauge EXCEPT ![b] = @ + 1]
Decremented(b) == [gauge EXCEPT ![b] = Less(@)]
TransferredWrong(from, to) == Incremented(to)
Transferred(from, to) == [Decremented(from) EXCEPT ![to] = @ + 1]

RowIs(p, id) == row[p] # None /\ row[p].id = id

\* DELETE FROM vpn_sessions WHERE id = ?, which may fail and is then ignored.
RowClosed(p, id) ==
    \/ row' = IF RowIs(p, id) THEN [row EXCEPT ![p] = None] ELSE row
    \/ "sessionRow" \in Faults /\ row' = row

RouteRetiredWrong(p, id) == route

\* The route goes only if it still belongs to that session.
RouteRetired(p, id) ==
    IF route[p] # None /\ route[p].id = id THEN [route EXCEPT ![p] = None] ELSE route

Redirected(p, b) ==
    IF route[p] = None THEN route ELSE [route EXCEPT ![p].backend = b]

\* lifecycleVersion advances: a reading taken before it may not be applied.
Bumped == IF snapshot = None THEN None ELSE [snapshot EXCEPT !.stale = TRUE]

GatewayInit ==
    /\ session = [p \in Peers |-> None]
    /\ row = [p \in Peers |-> None]
    /\ route = [p \in Peers |-> None]
    /\ affinity = [p \in Peers |-> None]
    /\ gauge = [b \in Backends |-> 0]
    /\ enabled = [b \in Backends |-> TRUE]
    /\ status = [b \in Backends |-> "active"]
    /\ timedOut = [p \in Peers |-> None]
    /\ snapshot = None
    /\ op = None

-----------------------------------------------------------------------------
(* Admission: ensureBackendSessionForIngress.                               *)

\* The live session keeps its backend while that one is viable and the route
\* is this session's.
Reusable(p) ==
    /\ Live(p)
    /\ enabled[session[p].backend]
    /\ status[session[p].backend] \in {"active", "handshake_blocked"}
    /\ route[p] = session[p]

AdmitReuse(p) ==
    /\ Idle
    /\ Reusable(p)
    /\ affinity' = [affinity EXCEPT ![p] = session[p].backend]
    /\ UNCHANGED <<session, row, route, gauge, enabled, status, timedOut, snapshot, op>>

\* The family of the session being replaced, else of the affinity, else any.
Candidates(p) ==
    {b \in Backends :
        /\ Eligible(b)
        /\ Live(p) => SameFamily(b, session[p].backend)
        /\ ~Live(p) /\ affinity[p] # None => SameFamily(b, affinity[p])}

\* The sticky backend if it may take one more, else one the balancer picks.
Selectable(p) ==
    LET open == {b \in Candidates(p) : HasRoom(b)}
    IN  IF affinity[p] \in open THEN {affinity[p]} ELSE open

\* The old session, if any, is replaced: the hook moves its count and route.
AdmitFresh(p) ==
    /\ Idle
    /\ ~Reusable(p)
    /\ FreshIDs(p) # {}
    /\ \E b \in Selectable(p) :
         LET new == [id |-> FreshID(p), backend |-> b]
         IN  /\ session' = [session EXCEPT ![p] = new]
             /\ row' = [row EXCEPT ![p] = new]
             /\ route' = [route EXCEPT ![p] = new]
             /\ affinity' = [affinity EXCEPT ![p] = b]
             /\ gauge' = IF Live(p) THEN Transferred(session[p].backend, b)
                                    ELSE Incremented(b)
    /\ snapshot' = Bumped
    /\ UNCHANGED <<enabled, status, timedOut, op>>

\* Only an affinity installed for the failed admission is taken back.
AffinityKept(p, b) ==
    IF affinity[p] = None THEN affinity ELSE [affinity EXCEPT ![p] = b]

\* The row of the new session cannot be written; the old session is gone.
AdmitNotPersisted(p) ==
    /\ "sessionRow" \in Faults
    /\ Idle
    /\ ~Reusable(p)
    /\ \E b \in Selectable(p) : affinity' = AffinityKept(p, b)
    /\ session' = [session EXCEPT ![p] = None]
    /\ IF Live(p) THEN RowClosed(p, session[p].id) /\ snapshot' = Bumped
                  ELSE UNCHANGED <<row, snapshot>>
    /\ UNCHANGED <<route, gauge, enabled, status, timedOut, op>>

\* The return path closed, or the forwarder is at its route limit: the new
\* session is closed again, and the old one's count is not given back.
AdmitNotRegistered(p) ==
    /\ "register" \in Faults
    /\ Idle
    /\ ~Reusable(p)
    /\ FreshIDs(p) # {}
    /\ \E b \in Selectable(p) :
         /\ affinity' = AffinityKept(p, b)
         /\ route' = IF Live(p) THEN Redirected(p, b) ELSE route
         /\ \/ row' = [row EXCEPT ![p] = None]
            \/ /\ "sessionRow" \in Faults
               /\ row' = [row EXCEPT ![p] = [id |-> FreshID(p), backend |-> b]]
    /\ session' = [session EXCEPT ![p] = None]
    /\ gauge' = IF Live(p) THEN Decremented(session[p].backend) ELSE gauge
    /\ snapshot' = Bumped
    /\ UNCHANGED <<enabled, status, timedOut, op>>

-----------------------------------------------------------------------------
(* Teardown.                                                                *)

\* The idle sweep: one goroutine, which reaps a whole sweep before the next.
CheckTimeouts ==
    /\ "timeout" \in Ops
    /\ \A p \in Peers : timedOut[p] = None
    /\ \E idle \in SUBSET {p \in Peers : Live(p)} :
       \E kept \in SUBSET (IF "sessionRow" \in Faults THEN idle ELSE {}) :
         /\ idle # {}
         /\ timedOut' = [p \in Peers |->
                IF p \in idle THEN [id |-> session[p].id, backend |-> session[p].backend,
                                    settled |-> FALSE]
                ELSE None]
         /\ session' = [p \in Peers |-> IF p \in idle THEN None ELSE session[p]]
         /\ row' = [p \in Peers |->
                IF p \in idle \ kept /\ RowIs(p, session[p].id)
                THEN None ELSE row[p]]
    /\ snapshot' = Bumped
    /\ UNCHANGED <<route, affinity, gauge, enabled, status, op>>

ReapedRouteWrong(p) == [route EXCEPT ![p] = None]

\* A peer admitted again meanwhile owns the route;
ReapedRoute(p) == IF Live(p) THEN route ELSE RouteRetired(p, timedOut[p].id)

ReapedGaugeWrong(p) == Decremented(timedOut[p].backend)

\* the old count still goes, unless a reconciliation that read the table after
\* the timeout has already dropped it (settled).
ReapedGauge(p) ==
    IF timedOut[p].settled THEN gauge ELSE Decremented(timedOut[p].backend)

Reap(p) ==
    /\ Idle
    /\ timedOut[p] # None
    /\ timedOut' = [timedOut EXCEPT ![p] = None]
    /\ IF LiveAs(p, timedOut[p].id)
       THEN UNCHANGED <<route, gauge>>
       ELSE /\ route' = ReapedRoute(p)
            /\ gauge' = ReapedGauge(p)
    /\ UNCHANGED <<session, row, affinity, enabled, status, snapshot, op>>

\* RevokeUpstreamPeerSession: a session the sweep took first is the reaper's.
Revoke(p) ==
    /\ "revoke" \in Ops
    /\ Idle
    /\ Live(p)
    /\ session' = [session EXCEPT ![p] = None]
    /\ RowClosed(p, session[p].id)
    /\ route' = RouteRetired(p, session[p].id)
    /\ affinity' = [affinity EXCEPT ![p] = None]
    /\ gauge' = Decremented(session[p].backend)
    /\ snapshot' = Bumped
    /\ UNCHANGED <<enabled, status, timedOut, op>>

\* DisconnectSession, DisconnectUser and ReleaseClient look the session up,
DisconnectFind(p) ==
    /\ "disconnect" \in Ops
    /\ Idle
    /\ Live(p)
    /\ op' = [kind |-> "disconnect", peer |-> p, found |-> session[p]]
    /\ UNCHANGED <<session, row, route, affinity, gauge, enabled, status, timedOut, snapshot>>

\* then close it and, whether or not it was still there, undo its placement.
DisconnectClose ==
    /\ op # None /\ op.kind = "disconnect"
    /\ LET p == op.peer
           id == op.found.id
       IN  /\ IF LiveAs(p, id)
              THEN /\ session' = [session EXCEPT ![p] = None]
                   /\ RowClosed(p, id)
                   /\ snapshot' = Bumped
              ELSE UNCHANGED <<session, row, snapshot>>
           /\ route' = RouteRetired(p, id)
           /\ affinity' = [affinity EXCEPT ![p] = None]
           /\ gauge' = Decremented(op.found.backend)
    /\ op' = None
    /\ UNCHANGED <<enabled, status, timedOut>>

-----------------------------------------------------------------------------
(* MigrateSession: route and memory, then the row, then the counters.       *)

MigrateMove(p, target) ==
    /\ "migrate" \in Ops
    /\ Idle
    /\ Live(p)
    /\ Eligible(target)
    /\ session[p].backend # target
    /\ SameFamily(session[p].backend, target)
    /\ gauge[target] < MaxGauge
    /\ op' = [kind |-> "moved", peer |-> p, found |-> session[p], target |-> target,
              routed |-> route[p] # None, changed |-> FALSE]
    /\ route' = Redirected(p, target)
    /\ session' = [session EXCEPT ![p].backend = target]
    /\ snapshot' = Bumped
    /\ UNCHANGED <<row, affinity, gauge, enabled, status, timedOut>>

SessionGivenBackWrong == session

SessionGivenBack ==
    IF LiveAs(op.peer, op.found.id)
    THEN [session EXCEPT ![op.peer].backend = op.found.backend] ELSE session

RouteGivenBack ==
    IF op.routed THEN Redirected(op.peer, op.found.backend) ELSE route

\* What rollbackMigration gives back to the session and the forwarder.
MigrateUndone ==
    /\ session' = SessionGivenBack
    /\ route' = RouteGivenBack
    /\ snapshot' = IF LiveAs(op.peer, op.found.id) THEN Bumped ELSE snapshot
    /\ op' = None
    /\ UNCHANGED <<affinity, gauge>>

MigratePersist ==
    /\ op # None /\ op.kind = "moved"
    /\ \/ /\ RowIs(op.peer, op.found.id)
          /\ row' = [row EXCEPT ![op.peer].backend = op.target]
          /\ op' = [op EXCEPT !.kind = "persisted"]
          /\ UNCHANGED <<session, route, affinity, gauge, snapshot>>
       \/ /\ ~RowIs(op.peer, op.found.id) \/ {"sessionRow", "migrateRow"} \cap Faults # {}
          /\ MigrateUndone
          /\ UNCHANGED row
    /\ UNCHANGED <<enabled, status, timedOut>>

\* TransferConnectionsIfActive rejects a target whose state moved meanwhile.
MigrateCommit ==
    /\ op # None /\ op.kind = "persisted"
    /\ IF Eligible(op.target) /\ ~op.changed
       THEN /\ gauge' = Transferred(op.found.backend, op.target)
            /\ affinity' = [affinity EXCEPT ![op.peer] = op.target]
            /\ snapshot' = Bumped
            /\ op' = None
            /\ UNCHANGED <<session, row, route>>
       ELSE /\ MigrateUndone
            /\ \/ row' = IF RowIs(op.peer, op.found.id)
                         THEN [row EXCEPT ![op.peer].backend = op.found.backend] ELSE row
               \/ "sessionRow" \in Faults /\ row' = row
    /\ UNCHANGED <<enabled, status, timedOut>>

-----------------------------------------------------------------------------
(* Administrative disable: the backend leaves the eligible set, then        *)
(* HandleFailover reads the session table and plans a target per peer, and  *)
(* finally moves affinities, rows, routes and counts.                       *)

OnBackend(b) == {p \in Peers : affinity[p] = b} \cup On(row, b)

FailoverTargetsWrong(b) == {t \in Backends \ {b} : Eligible(t) /\ HasRoom(t)}

FailoverTargets(b) ==
    {t \in Backends \ {b} : Eligible(t) /\ SameFamily(t, b) /\ HasRoom(t)}

DisableBackend(b) ==
    /\ "disable" \in Ops
    /\ Idle
    /\ \A t \in Backends : gauge[t] + Cardinality(Peers) <= MaxGauge
    /\ enabled' = [enabled EXCEPT ![b] = FALSE]
    /\ IF FailoverTargets(b) = {}
       THEN UNCHANGED op
       ELSE \E plan \in [OnBackend(b) -> FailoverTargets(b)] :
                op' = [kind |-> "failover", from |-> b, plan |-> plan,
                       sticky |-> {p \in Peers : affinity[p] = b},
                       found |-> [p \in On(row, b) |-> row[p]]]
    /\ UNCHANGED <<session, row, route, affinity, gauge, status, timedOut, snapshot>>

RoutesFollowWrong(moved) == route

RoutesFollow(moved) ==
    [p \in Peers |-> IF p \in moved /\ route[p] # None
                     THEN [route[p] EXCEPT !.backend = op.plan[p]] ELSE route[p]]

\* One decrement and one increment per move, in the order of the moves; no
\* target is the disabled backend itself.
CountsFollow(moved) ==
    [b \in Backends |->
        IF b # op.from THEN gauge[b] + Cardinality({p \in moved : op.plan[p] = b})
        ELSE IF gauge[b] > Cardinality(moved) THEN gauge[b] - Cardinality(moved)
        ELSE 0]

\* The rows are written back from what was read; a row that cannot be written
\* loses its move unless the peer's affinity already made it.
Failover ==
    /\ op # None /\ op.kind = "failover"
    /\ \E lost \in SUBSET (IF "sessionRow" \in Faults THEN DOMAIN op.found ELSE {}) :
         LET written == DOMAIN op.found \ lost
             moved == op.sticky \cup written
         IN  /\ row' = [p \in Peers |-> IF p \in written
                                        THEN [op.found[p] EXCEPT !.backend = op.plan[p]]
                                        ELSE row[p]]
             /\ route' = RoutesFollow(moved)
             /\ gauge' = CountsFollow(moved)
             /\ snapshot' = IF moved = {} THEN snapshot ELSE Bumped
    /\ affinity' = [p \in Peers |->
           IF p \in op.sticky /\ affinity[p] \in {op.from, None} THEN op.plan[p] ELSE affinity[p]]
    /\ op' = None
    /\ UNCHANGED <<session, enabled, status, timedOut>>

EnableBackend(b) ==
    /\ "enable" \in Ops
    /\ Idle
    /\ ~enabled[b]
    /\ enabled' = [enabled EXCEPT ![b] = TRUE]
    /\ UNCHANGED <<session, row, route, affinity, gauge, status, timedOut, snapshot, op>>

-----------------------------------------------------------------------------
(* What runs outside Service.mu.                                            *)

\* A health status write; ignored for a disabled backend.  It advances the
\* backend's StateVersion even when it repeats the status.
SetTunnelStatus(b, s) ==
    /\ "probe" \in Ops
    /\ enabled[b]
    /\ status' = [status EXCEPT ![b] = s]
    /\ op' = IF op # None /\ op.kind \in {"moved", "persisted"} /\ op.target = b
             THEN [op EXCEPT !.changed = TRUE] ELSE op
    /\ UNCHANGED <<session, row, route, affinity, gauge, enabled, timedOut, snapshot>>

\* The affinity outlives its TTL.
PruneExpired(p) ==
    /\ "expire" \in Ops
    /\ affinity[p] # None
    /\ affinity' = [affinity EXCEPT ![p] = None]
    /\ UNCHANGED <<session, row, route, gauge, enabled, status, timedOut, snapshot, op>>

ReadingWrong == [rows |-> [b \in Backends |-> Cardinality(On(row, b))], stale |-> TRUE]

Reading == [rows |-> [b \in Backends |-> Cardinality(On(row, b))], stale |-> FALSE]

ReconcileRead ==
    /\ "reconcile" \in Ops
    /\ snapshot = None
    /\ snapshot' = Reading
    /\ UNCHANGED <<session, row, route, affinity, gauge, enabled, status, timedOut, op>>

\* Applied only if no session lifecycle event fell between; every pending
\* timeout is then older than the reading.  Where the gauge could not be
\* persisted its new value stays but the reconciliation time does not move.
ReconcileApply ==
    /\ Idle
    /\ snapshot # None
    /\ snapshot' = None
    /\ IF snapshot.stale
       THEN UNCHANGED <<gauge, timedOut>>
       ELSE \E failed \in SUBSET (IF "gaugeRow" \in Faults
                                  THEN {b \in Backends : gauge[b] # snapshot.rows[b]} ELSE {}) :
              /\ gauge' = snapshot.rows
              /\ timedOut' = [p \in Peers |->
                     IF timedOut[p] # None /\ timedOut[p].backend \notin failed
                     THEN [timedOut[p] EXCEPT !.settled = TRUE] ELSE timedOut[p]]
    /\ UNCHANGED <<session, row, route, affinity, enabled, status, op>>

-----------------------------------------------------------------------------
(* Crash and restart: memory is gone, the database and the pool's enabled   *)
(* flags survive.  Service.Start discards every session row and zeroes the  *)
(* gauges in one transaction, and probes the backends, before it admits.    *)

StartupRowsWrong == row

StartupRows == [p \in Peers |-> None]

Restart ==
    /\ "restart" \in Ops
    /\ session' = [p \in Peers |-> None]
    /\ row' = StartupRows
    /\ route' = [p \in Peers |-> None]
    /\ affinity' = [p \in Peers |-> None]
    /\ gauge' = [b \in Backends |-> 0]
    /\ \E probed \in [Backends -> Statuses] :
         status' = [b \in Backends |-> IF enabled[b] THEN probed[b] ELSE status[b]]
    /\ timedOut' = [p \in Peers |-> None]
    /\ snapshot' = None
    /\ op' = None
    /\ UNCHANGED enabled

-----------------------------------------------------------------------------
Admit(p) == AdmitReuse(p) \/ AdmitFresh(p) \/ AdmitNotPersisted(p) \/ AdmitNotRegistered(p)

GatewayNext ==
    \/ \E p \in Peers : Admit(p) \/ Reap(p) \/ Revoke(p) \/ DisconnectFind(p) \/ PruneExpired(p)
    \/ \E p \in Peers, b \in Backends : MigrateMove(p, b)
    \/ \E b \in Backends : DisableBackend(b) \/ EnableBackend(b)
    \/ \E b \in Backends, s \in Statuses : SetTunnelStatus(b, s)
    \/ DisconnectClose \/ MigratePersist \/ MigrateCommit \/ Failover
    \/ CheckTimeouts \/ ReconcileRead \/ ReconcileApply \/ Restart

GatewaySpec == GatewayInit /\ [][GatewayNext]_vars

\* Service.mu is starvation-free, so whoever waits for it with something to do
\* gets it; the reaper and the hourly reconciler run for ever; an operation
\* that holds it goes on.  Nothing obliges the environment to do anything.
Fairness ==
    /\ \A p \in Peers : SF_vars(Reap(p))
    /\ WF_vars(ReconcileRead)
    /\ SF_vars(ReconcileApply)
    /\ WF_vars(DisconnectClose \/ MigratePersist \/ MigrateCommit \/ Failover)

FairGatewaySpec == GatewaySpec /\ Fairness

-----------------------------------------------------------------------------
Disconnecting == [kind : {"disconnect"}, peer : Peers, found : Placement]
Migrating == [kind : {"moved", "persisted"}, peer : Peers, found : Placement,
              target : Backends, routed : BOOLEAN, changed : BOOLEAN]
FailingOver ==
    {o \in [kind : {"failover"}, from : Backends, sticky : SUBSET Peers,
            plan : UNION {[S -> Backends] : S \in SUBSET Peers},
            found : UNION {[S -> Placement] : S \in SUBSET Peers}] :
        DOMAIN o.plan = o.sticky \cup DOMAIN o.found}
ASSUME NoneIsNoOperation == None \notin Disconnecting \cup Migrating \cup FailingOver

Readings == [rows : [Backends -> Nat], stale : BOOLEAN]
ASSUME NoneIsNoReading == None \notin Readings

GatewayTypeOK ==
    /\ session \in [Peers -> Placement \cup {None}]
    /\ row \in [Peers -> Placement \cup {None}]
    /\ route \in [Peers -> Placement \cup {None}]
    /\ affinity \in [Peers -> Backends \cup {None}]
    /\ gauge \in [Backends -> Nat]
    /\ enabled \in [Backends -> BOOLEAN]
    /\ status \in [Backends -> Statuses]
    /\ timedOut \in [Peers -> Timeout \cup {None}]
    /\ snapshot \in Readings \cup {None}
    /\ \/ op = None
       \/ op \in Disconnecting
       \/ op \in Migrating
       \/ op \in FailingOver

\* Timed-out sessions whose count the reaper has yet to give back.
Owed(b) == {p \in On(timedOut, b) : ~timedOut[p].settled}

\* A live session always has a forwarder route, and it is that session's own:
\* no late reap, disconnect or rollback takes the route of a session admitted
\* after the one it belongs to (forwarder/routes.go:197-234,
\* sessions_lifecycle.go:93-116 "route == "" while the session reports
\* connected").
SessionHasRoute ==
    \A p \in Peers : Live(p) => route[p] # None /\ route[p].id = session[p].id

\* A route belongs to a live session or to one the reaper still has to handle:
\* none is left behind (vpn_ingress.go:390-393 "whose failure leaves nothing
\* behind").
RouteHasOwner ==
    \A p \in Peers : route[p] # None =>
        \/ LiveAs(p, route[p].id)
        \/ timedOut[p] # None /\ timedOut[p].id = route[p].id

\* Every connected row names the peer's live session: a later reconciliation
\* never counts a dead one (session.go:191-195 "no orphan row for a dead
\* session ID survives").
RowHasSession == \A p \in Peers : row[p] # None => LiveAs(p, row[p].id)

\* Between operations memory, row and route place a session on the same
\* backend, also when a migration could not write the row and what the sweep
\* and the reconciler did between its steps (sessions_migration.go:77-79).
\* Excepted are services where a failover runs, which leaves the session in
\* memory where it was, and rollbacks that cannot write the row back.
PlacementsAgree ==
    Idle => \A p \in Peers : Live(p) => row[p] = session[p] /\ route[p] = session[p]

\* The route of a live session leads where its row or its affinity places it,
\* even when a failover moved them and left the in-memory session where it was
\* (backend_lifecycle.go:96-118).  The two themselves may part: a migration
\* rolled back after such a failover returns row and route to the backend in
\* memory and leaves the affinity, which a later failover moves on its own
\* (sessions_migration.go:49-75).
RouteIsRecorded ==
    Idle => \A p \in Peers : Live(p) =>
        row[p] = route[p] \/ affinity[p] \in {route[p].backend, None}

\* Where no migration is rolled back after a failover, which takes a disable, a
\* migration and a probe's write or a row that cannot be written, the route and
\* the row of a live session agree on the backend (backend_lifecycle.go:96-118).
RouteMatchesRow ==
    Idle => \A p \in Peers : Live(p) => row[p] = route[p]

\* The gauge of a backend is the number of its live sessions plus the
\* timed-out ones whose count the reaper has yet to give back: no replacement,
\* teardown or reconciliation counts a session twice or loses one
\* (vpn_ingress.go:303-323, service_lifecycle.go:221-224).
GaugeExact ==
    Idle => \A b \in Backends :
        gauge[b] = Cardinality(On(session, b)) + Cardinality(Owed(b))

\* The gauge never falls below the live sessions, so that admission cannot be
\* misled into exceeding the limit (pool.go:597-610).
GaugeCoversLive ==
    Idle => \A b \in Backends :
        gauge[b] >= Cardinality(On(session, b)) + Cardinality(Owed(b))

\* Admission never puts more sessions on a backend than its limit
\* (docs/architecture/vpn-service-state-ownership.md:179 and 188).
LiveWithinCap ==
    \A b \in Backends : Cardinality(On(session, b)) <= MaxPeersPerBackend

\* A migration that its session outlives ends with the memory, the route and
\* the row of the session on one backend: also when a probe or a disable made
\* the target ineligible after the row was written, and when an earlier
\* failover had moved row and route but not the session in memory
\* (sessions_migration.go:49-75, 156-184).  Excepted is the row alone, when a
\* migration could not write it and so leaves it as it was; a rollback that
\* cannot write the row back breaks the property.
MigrationIsWhole ==
    [][\A p \in Peers :
         /\ op # None /\ op.kind \in {"moved", "persisted"} /\ op.peer = p
         /\ op' = None
         /\ session'[p] # None /\ session'[p].id = op.found.id
         => /\ route'[p] = session'[p]
            /\ row'[p] = session'[p] \/ (op.kind = "moved" /\ row'[p] = row[p])]_vars

\* A reconciliation that is applied leaves every gauge exact, whatever the
\* drift before it and whatever happened since it read the session table
\* (service_lifecycle.go:232-334).
ReconcileRestores ==
    [][snapshot # None /\ ~snapshot.stale /\ snapshot' = None => GaugeExact']_vars

\* A session and its route stay within the protocol family the peer was first
\* served by, through replacement, migration and failover (vpn_ingress.go:212-228,
\* sessions_migration.go:124-141).
FamilyKept ==
    [][\A p \in Peers :
        /\ Live(p) /\ Live(p)' => SameFamily(session[p].backend, session'[p].backend)
        /\ Live(p) /\ route'[p] # None => SameFamily(session[p].backend, route'[p].backend)]_vars

\* A swept session's route goes unless its peer came back first
\* (ingress_engine.go:287-345, sessions_lifecycle.go:111-158).
SweptPeerReleased ==
    \A p \in Peers : timedOut[p] # None ~> (Live(p) \/ route[p] = None)

\* Once sessions stop coming and going, a gauge that an earlier race left wrong
\* becomes exact and stays so (service_lifecycle.go:221-226, 357-390).
DriftHeals ==
    <>[][UNCHANGED <<session, row>>]_vars => <>[]GaugeExact
=============================================================================
