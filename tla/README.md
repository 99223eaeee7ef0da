# A verification project for Amnezia Nexus

Amnezia Nexus is a self-hosted VPN gateway. Clients speak AmneziaWG to one
ingress endpoint; every client peer is bound to one of several backend tunnels
(AmneziaWG, VLESS or Naive) and its packets are forwarded through that tunnel.
A web panel administers servers, users and connections. This directory holds
TLA+ models of the part where the program's own state can go wrong, TLC
configurations that check them on small instances, and proofs checked by TLAPS.

## 1. Inventory of the system

| Component (under `src/internal`) | State it keeps | Operations | Hard behaviour | What makes it correct |
|---|---|---|---|---|
| `vpn/session` session manager | `sessionsByPeer`, `sessionsByID`, `lifecycleVersion` | create with replacement, adopt, close, update/rollback backend, idle sweep | the idle sweep takes only `sm.mu`, so it falls inside operations that hold `Service.mu` | one session per peer; a row exists only for a live session |
| `vpn` service: admission, teardown, migration, disable | none of its own; moves the five records below together under `Service.mu` | `EnsureBackendSessionForIngress`, `DisconnectSession`, `RevokeUpstreamPeerSession`, `ReleaseClient`, `reapIngressSession`, `MigrateSession`, `DisableBackend`, `EnableBackend` | several steps, each may fail; compensation; races with the sweep, with health writes and with the reconciler | session, row, route, gauge and affinity agree |
| `vpn` service: gauge reconciliation and start | `lastReconcileByTunnel` | `reconcileConnectionCounts`, hourly reconciler, `Start` | reads the table before it locks | an applied reconciliation makes gauges exact |
| `vpn/loadbalancer` | `peerAffinity`, `userAffinity` | `GetOrAssignBackend`, `HandleFailover`, prune | failover computes unlocked and re-checks | capacity limit on admission; failover stays in the protocol family |
| `vpn/tunnel` pool, prober, canary, self-healing, reconnect | tunnel records: status, enabled, gauge, `StateVersion`; failure, canary and success counts | status writes, enable/disable, counters, endpoint updates, probes, hooks, sweeps | three loops, the scheduler and an administrator write one row; a probe lasts seconds and attaches a device on its way | a stale probe never overwrites newer state; nobody is left disabled for ever; a disabled backend stays detached |
| `vpn` failover of a health-disabled backend | `pendingHealthFailovers` | `BackendHealthDisabled`, `RetryPendingHealthFailovers` | runs without a lock, against versions that move; no alternative yet | no session is forgotten on a dead backend |
| `vpn/forwarder` | routes by peer, IP and session; return paths; device registry | register, retire, redirect, packet delivery | retirement waits for deliveries in flight | a retired route receives no packet |
| `vpn/ipam` | `allocated`, `reverse`, `cursor` | `Allocate`, `Reserve`, `Release`, `ReleaseIP` | two maps for one fact, round-robin cursor | the maps are inverse of each other |
| `vpn` client configuration and IP leases | `user_connections.client_params` | create, renew, restore, recover legacy leases | memory and database must agree across failures | one address per connection |
| `vpn` peer synchronisation, `vpn/clientawg`, `vpn/ingress` | peers of the portal device, the resolver's owners, the admission memo | passes, post-commit revocation, packet admission | each step of a pass may fail; commits take no runtime lock; revocation races admission | a packet is attributed to its sender; what was revoked stays revoked |
| `vpn/dns`, `vpn/virtualtun`, `vpn/diagnostics*` | caches, counters | DNS proxying, sampling | bounded caches | — |
| `service/orchestrator` tunnel checks | failure counts of its own | `CheckBackendTunnelHealth` | writes the row the prober writes, on a version it listed before it probed | never revives or overwrites what is newer |
| rest of `service/orchestrator`, `reconciliation`, `supervisor`, `upstream`, `userops` | jobs, session limits | connection lifecycle, background tasks | retries, partial failure | — |
| `database` | SQLite tables | CRUD under `writeMu` | transactions | — |
| `manager/*` | remote servers over SSH | install, configure | remote commands that fail half-way | — |
| `policy`, `middleware`, `security`, `captcha`, `config`, `handlers`, `router`, `models`, `provider`, `web`, `cmd` | request handling, caches, files | web panel | rate limits, route cache | — |

The five records of one connection, and who writes them:

```
 client packet ─► ingress engine ─► admission ─┐
 idle sweep (sm.mu only) ──────────────────────┤    sessionsByPeer   (session manager)
 reap loop, revoke, disconnect, migrate ───────┼──► vpn_sessions     (database row)
 disable backend + failover ───────────────────┤    routesByPeer     (forwarder)
 health prober, scheduler (pool lock) ─ status ┤    ActiveConnections(pool gauge)
 gauge reconciler (reads rows unlocked) ───────┘    peerAffinity     (sticky map)
```

## 2. Plan

Written, in this order: `Ipam` (with the abstract `AddressLease`), `SessionGateway`,
`ReturnRoutes`, `PeerSync`, `ClientLeases` (which composes `Ipam` with the persisted
rows), `TunnelHealth`, `HealthFailover` (which composes `TunnelHealth` with the sessions
of its backend) and `PeerAccess`. Each has a module of proofs.

What could follow, in the order of what it would add:

1. `TunnelHealth` inside `SessionGateway`: the latter still lets any status be written
   at any time, a superset of the writes the prober can really make.
2. `PeerSync` as what `PeerAccess` implements: one pass of `PeerAccess` ends with the
   success or failure that `PeerSync` starts from.
3. Credential rotation (its remote commands fail half-way), the supervisor's bounded
   restarts, the roll-back of mass user operations.

A theorem still wanted: `PlacementsAgree` for a session whose backend fails over,
with memory left out as in section 8. `MigrationIsWhole` says it of what a migration
leaves behind, failed over or not.

## 3. Modules and the code they model

`PROJECT.json` maps every definition to its lines. An operator whose name ends in
`Wrong` (or `Unguarded`) is its neighbour with a plausible mistake; nothing uses
it, except that substituting it must break a property.

### Ipam and AddressLease (`vpn/ipam/ipam.go`)

`allocated`, `reverse` and `cursor` are the manager's two maps and its cursor; an
address is its offset in the subnet. `Allocate`, `Reserve`, `Release` and
`ReleaseIP` are the four locked methods with their early returns. `AddressLease`
promises an injective map from peers to addresses that changes by grants and
reclaims only; `Ipam` implements it with the mapping that reads `reverse`.

### ClientLeases (`vpn/client_config.go`, `vpn/peer_ip_recovery.go`, `database/vpn.go`)

`exists`, `key`, `ip` and `marked` are the rows of the user's portal connections
(`client_id`, `assigned_ip` and the two markers that ask for a new configuration);
`session` is the address in the session row of a key, from which older releases are
migrated; `allocated`, `reverse` and `cursor` come from `Ipam`. `holder` and `stage` are
`assignmentMu` and the point its holder has reached.

| Code | Actions |
|---|---|
| `addLoadBalancedConnection` | `AddConnection`, then a request |
| `GenerateClientConfig(ForConnection)` up to the lock | `Prepare`: the snapshot of the row, or generated keys |
| `reservePersistedClientIPs` | `BeginRender`/`BeginStart` (read the claims), `ResolvePeerClaims`, `ReserveClaimedIP` once per address |
| `refreshAndAdoptPersistedConnection` | `Refresh` |
| `resolveAssignedIP` | the release of a marked row's lease in `Refresh`, the rest in `AssignIP` |
| `persistRenderedConnection` | `Persist` |
| `Start`, `InvalidateVPNSessionsForRestart` | `BeginStart`, the recovery, `InvalidateSessions` |
| `CreateVPNSession` | `Connect` |
| `CloseSession`, `releaseUnpersistedLease` | `CloseSession` (row read), `ReleaseUnpersistedLease` |
| `UserDeleteConnectionHandler`, `ReleaseClient` | `DeleteConnection`, `ReleaseClient` |

The last three run without `assignmentMu`; `released` remembers what they gave back
while somebody held it. Every write of the recovery, of `Persist` and of the start may
fail. A start that fails ends the process (`main.go`), which is the stage `"stopped"`.

### SessionGateway (`vpn/session`, `vpn/*lifecycle.go`, `vpn/vpn_ingress.go`, `vpn/sessions_migration.go`, `vpn/loadbalancer`, `vpn/tunnel/pool.go`)

Five records of one connection: `session` (in memory), `row` (database), `route`
(forwarder), `gauge` (`ActiveConnections` of the backend) and `affinity`. `timedOut`
is what `CheckTimeouts` has returned and the reap loop has not handled, `snapshot`
is what the gauge reconciler has read, `op` is the operation that holds `Service.mu`
between its steps.

| Code | Actions |
|---|---|
| `ensureBackendSessionForIngress` | `AdmitReuse`, `AdmitFresh`, and `AdmitNotPersisted` / `AdmitNotRegistered` for the row or the route that cannot be made, with the code's compensations |
| `CheckTimeouts`, `reapIngressSession` | `CheckTimeouts` (any live session may be idle), `Reap` |
| `RevokeUpstreamPeerSession` | `Revoke` |
| `DisconnectSession` | `DisconnectFind`, `DisconnectClose`: the sweep may fall between |
| `MigrateSession` | `MigrateMove` (route and memory), `MigratePersist` (row), `MigrateCommit` (count, fenced by `StateVersion`); a row that cannot be written, or a target refused at the end, leads to the rollback, `MigrateUndone` (`SessionGivenBack`, `RouteGivenBack`) |
| `DisableBackend`, `HandleFailover` | `DisableBackend` (plan from the rows), `Failover` (write them back and move the counts) |
| `EnableBackend`, status writes, `PruneExpired` | `EnableBackend`, `SetTunnelStatus`, `PruneExpired` |
| `reconcileConnectionCounts` | `ReconcileRead`, `ReconcileApply` |
| crash, then `Start` | `Restart` |

An operation is one action when nothing that runs outside `Service.mu` can fall
inside it and matter, otherwise it is split at that point.

### ReturnRoutes (`vpn/forwarder`)

`route[g]` is the generation `g` of a registration; `byPeer` and `byIP` are the
forwarder's tables, `retired` the closed stop channels, `joined` the retirements
somebody has waited for. Each pump is a small machine (`pump[g]`): take a packet,
or wait for the notification; check under `f.mu` that the route is still the
peer's; take the write lock and look at the stop channel again; write. `Lookup` and
`Enqueue` are the two halves of a sender. `TryRegister`/`Bind` and `Install` split a
registration at the fence of the engine, which `Close` sets without `f.mu`.

### PeerSync (`vpn/peer_sync.go`, `database/peer_changes.go`)

Callers that commit an access change, the worker of each generation, and the engine
that starts and stops it, at the granularity of the locks and channels they share.
`ConfirmedMeansEnforced` is the promise of the module: a caller is told of success
only after a successful pass that has read its commit.

### PeerAccess (`vpn/peer_sync.go`, `vpn/peer_revoke.go`, `vpn/ingress`, `vpn/clientawg`, `vpn/forwarder`)

Who may send through the portal, and as whom. `lease` is the durable side: the address
and the owner of each peer's eligible row. Four runtime records follow it: `device`
(the portal device's peers), `resolver` (the published owners), `session`, and `route`
with its reverse table `byIP`; `memo` is the router's admission memo. `pass` and the
sets it still has to work off (`revoke`, `remove`, `add`) are a pass under way, `loop` is
the receive loop with the packet in its hands.

| Code | Actions |
|---|---|
| commits to connections and users; expiry | `Grant`, `Change`, `Withdraw`, `Lapse` (nothing is committed, so no hook) |
| post-commit `revokeDurableAccess` | `HookFindsNothing`, `HookRevokes` |
| `reconcileNow` | `PassRead`, `PassClassify` (status, withdrawal of addresses in transition), `PassRevoke`, `PassRemove`, `PassAdd`, `PassVerify`, `PassOrphans`, `PassEnd` (publication) |
| its fail-closed ends | the failing half of `PassRead`, `PassNarrow` |
| `ReceiveOutbound`, `HandlePacket`, `EnsureSession` | `Receive`, `Lookup`, `AdmitCheck` … `AdmitRefused` (under `Service.mu`), `Register`, `Submit` |
| `CheckTimeouts`, `reapSession` | `IdleEvict`, `ReapRoute` |
| `MigrateSession` | `Migrate` |
| the device loses a peer the pass had installed | `LosePeer` |

`Service.mu` is held exactly while the loop stands at `"checked"` and in every
teardown; commits take no runtime lock. `covered` is history: the peers whose row has
not changed since the last successful pass read it.

### TunnelHealth (`vpn/tunnel/health*.go`, `reconnect.go`, `pool.go`, `vpn/backend_enable.go`, `vpn/backend_lifecycle.go`)

One tunnel's row (`enabled`, `status`, `reason`), its device, the prober's three
counters and the order of its canaries, against three processes (the probing loop, the
reconnect manager and the self-healing sweep) and the check of the scheduler. `work[p]` is where each of them stands
and whether the version it read is still the pool's: every write that advances
`StateVersion` outdates everybody else, and that is all a version is compared for.

| Code | Actions |
|---|---|
| `ProbeAll`, `CheckAndReconnect`, `getInitialSnapshot` | `List`, `Snapshot`, `Superseded` |
| `ProbeTunnel`, `handleProbeFailure`, `handleHookFailure` | `ProbeFails`, `ProbeSucceeds`, `ProbeIsSlow`, `CountFailure`, `DropFailure`, `Hook`, `HookFails`, `HookRefused` |
| `probeCanary`, `acceptCanaryObservation`, `canaryObservationCurrent` | `ObserveReply`, `ObserveLoss`, `ObserveNothing`, `UseReply`, `UseLoss` |
| the writes | `Disable`, `CommitDisable`, `Notify`, `Reconcile`, `DisableAgain`, `MissAgain`, `Block`, `Degrade`, `Promote`, `Settle`, `NotWritten` |
| `SelfHealSweep` | `Target`, `HealProbe…`, `StartHook`, `HookEnds`, `HookAborts`, `HookNotRegistered`, `Recovered`, `Revive`, `Clear` |
| `CheckBackendTunnelHealth` of the orchestrator | `CheckAttaches`, `CheckPromotes`, `CheckDowngrades`, `CheckLoses`, `CheckMisses` |
| the administrator | `DisableBackend`; `EnableBackend` with `EnableNotRegistered`, `EnableAborts`, `FinishEnableBackend`; `MoveBackend` with `SyncDevice`; `Restart` |

`streak`, `proofs`, `leftover` and `halfEnabled` are history: the failures and the proofs
there really were, a count that an earlier recovery left behind, and an enable whose
row could not be written.

### HealthFailover (`vpn/backend_health_disable.go`, `vpn/health_failover_retry.go`)

Extends `TunnelHealth` with the sessions `pinned` to the backend, an `alternative`
backend that comes and goes, and the `debt` of a failover that could not be carried
out. The probe that commits a disable goes on, without a lock, as `NotifyFailover`,
`FindTargets`, `ListSessions`, `MoveSession` and `SettleDebt`; every self-healing sweep
ends with `RetryFailover`, the same steps, and `Recheck`. An
administrative disable (`DisableStep`) moves the sessions its own fail-over finds a target
for, which may be none; `AdminStep` is every other change of the row, checks of the
scheduler included. `strays` and `dropped` are history: sessions that no failover was told
of, because they were admitted after the backend had left service or left on it by an
administrative disable, and a failover refused because the version moved again.

## 4. The runs

| Run | Bounds | Question |
|---|---|---|
| `client_leases` | 2 connections, 2 requests, 2 sessions, 3 keys, a pool of 2 addresses and 1 foreign one | recovery, exclusive answers, stable addresses and keys, `AddressLease` |
| `gateway_admission` | 2 peers, 2 backends of one family | admission, sweep, revocation, health, expiry, reconciliation, restart: the gauge is exact, the limit holds, no orphan |
| `gateway_faults` | the same, with rows and registrations that fail | what survives failures |
| `gateway_failover` | 1 peer, 4 backends, 3 of them of one family, gauges stop at 3; symmetric | disable, fail over, enable, migrate, with health changes and sweeps between the steps: routes stay recorded and in the family, and a migration ends whole |
| `gateway_heal` | 2 peers, 2 backends, gauges stop at 2; gauge writes and the rows of migrations may fail | the races that leave a gauge wrong, and that it heals; placements through sweeps and rollbacks |
| `route_tables` | 2 peers, 2 addresses, 2 engines, 3 generations, pumps not started | tables, fence, budget |
| `route_pumps` | 1 peer, 1 sender, 2 generations | packets, writes, joins |
| `peer_sync` | 2 callers, 3 generation numbers | confirmation, counts, waits |
| `portal_access` | 2 peers, 2 addresses, 2 owners, 2 changes, 1 failing step of six kinds | what packets, revocations and half-finished passes may never do |
| `portal_converges` | 2 peers, 1 address, 2 owners, 2 changes, 1 fault or migration of nine kinds | once changes and faults cease, everything agrees for good |
| `tunnel_health` | thresholds 2 and 2, 1 administrative change or scheduled check, 3 faults of seven kinds | grace, damping, provenance, devices, and that the tunnel settles |
| `health_failover` | thresholds 1 and 1, 2 sessions, 2 changes, 2 faults | no session is forgotten, and debts are paid |

All gateway runs have `MaxPeersPerBackend = 1`: with two peers, in three of them, the limit is
then reached, exceeded and given back within a few steps. Four session IDs are enough
for `FreshIDs` never to be empty: a peer's session, row, route and timeout use at
most three when a fresh one is chosen, and reuse of a retired ID is harmless because
IDs are compared within one peer. `MaxGauge` stops migrations and fail-overs whose
target would pass it; lost decrements would otherwise let a gauge grow for ever.
Runs differ in `Ops` and `Faults` because the races of section 8 break, for example,
`GaugeExact` as soon as disconnection and the sweep run together: each run
allows the operations for which its properties hold, and `gateway_heal` allows the
racing ones and asks what still holds. `gateway_heal` lets the row write of a migration
fail (`migrateRow`, apart from `sessionRow`, the other row writes), so that the migration
is rolled back, before or after a sweep; `gateway_failover` rolls back because a probe or a
disable came between, which takes an ineligible target and so several backends. A
reconciliation is interesting where the gauge has drifted: `ReconcileRestores` is
proved with disconnections and migrations in play (section 6), and `DriftHeals` is the run
about it; where no drift can arise it would only repeat `GaugeExact`.

In `client_leases` two rows and two keys give every kind of collision between two
claims (one key with two addresses, two keys with one, durable against legacy,
shared and equal), in and outside the pool; the third key is what a request
generates, and with three keys the pool of two can be exhausted. Two requests can race
for one pending row, and for the first connection of a user who has none.
`MaxSessions` bounds admissions. The tables satisfy two assumptions: rows that share a
key each record an address and are not marked, as in the tables of the recovery's own
tests, and with `SharedStaleKeys = FALSE` that address is in the pool; section 8
says what happens otherwise.

In `gateway_failover` a family of three is what it takes to part the row from the route
(section 8: one backend to fail over from, one to migrate to and one to fail over to
again), and the family of one makes fail-over and migration find nothing to choose. One
peer is enough because a fail-over and a migration treat each peer by its own records;
the backends of a family are interchangeable, which the run uses as symmetry. Three generations of a route let a late teardown of
the first meet the third; two pumps of successive generations are all that can
contend for one peer, because a third starts only when the second is retired.
`route_tables` leaves the pumps unstarted, which the forwarder allows, since the
tables never read them. In `peer_sync` generation numbers advance at each start and
each stop, so three of them give two workers, one of which may still be inside
the pass of a stopped engine.

In `portal_access` two peers and two addresses let an address pass from one peer to the
other while the first gets another one, which takes a hand-over, a removal and an
addition in one pass; the second owner of the first address makes the owner change
under an unchanged address. Two changes make the pass meet rows newer than those it
read, and one fault stops it after any step. Larger instances were run once, without
error: one peer and address with six changes; two peers and one address with three
changes and no fault or one of any kind; two addresses with three changes, without
faults or with one of status or removal (13.8 million states); and the bounds of `portal_access`
with lost device peers (7.4 million) and with migrations too (8.9 million). Both occur
in `portal_converges`, where a migration makes an admission reuse a live session, and in
the theorems. With four changes and
two addresses the case of `outrun` in section 8 appears, which is why
`AddressAnswersForHolder` names it.

In `tunnel_health` a threshold of 2 separates one failure from enough of them, three
faults are one more than disable a tunnel, and one administrative change falls between
any two steps of the three processes. A check of the scheduler counts as a change, since
nothing but a counter would bound it. Two changes with three and with four faults were
run once, without checks and without error. In `health_failover` thresholds of 1 make the health a short
path to a disable and a recovery, so that the bound of faults is left for the
failover; the reconnect manager, which adds nothing to a failover, does not run. Two
changes are what it takes for an administrative disable to leave sessions behind and for
an enable to bring the backend back with them, which a retry of the failover may have
given up in between. Checks of the scheduler are left to the theorems there, and were run
once, without error.

The runs that set `CHECK_DEADLOCK FALSE` may come to rest: all generations are used,
every caller is answered, or the tunnel is disabled by hand and no administrative
change is left, so that its loops turn without finding anything to do.

## 5. Fairness

- `gateway_heal`: strong fairness of the reaper and of applying a reconciliation,
  which need `Service.mu` that others take again and again (Go's mutex hands over to a
  waiter that has starved for a millisecond); weak fairness of the steps of an
  operation that already holds it, and of the hourly reconciler, which runs for ever
  (`service_lifecycle.go:373-390`). Every peer's swept session is returned to the one
  reap loop of the engine (`ingress_engine.go:287-345`). Scheduling cannot promise
  that some reading of the reconciler is not overtaken by a lifecycle event:
  `DriftHeals` says what happens once sessions stop coming and going.
- `route_pumps`: pumps, retirements and a registration that holds `f.mu` run when they
  can, and the return callback is bounded (`return_path.go:17`). A pump and an engine
  that stops compete for `f.mu`, hence strong fairness. Nobody has to send a packet,
  stop an engine or retire a route.
- `peer_sync`: goroutines run and the calls of a pass return. Nothing is assumed of
  the engine's decisions to start and stop, nor of a waiter's timer: waiters are
  released without it.
- `portal_converges`: strong fairness of the pass, which a ticker starts for ever
  and which waits for nothing but `Service.mu`, and of the reaper, for the same mutex
  (which Go hands over to who has starved for a millisecond); weak fairness of the receive
  loop. Packets, commits, evictions and faults need not happen, and the hooks are not
  needed: the pass revokes what they would.
- `tunnel_health`: the probing loop and the self-healing loop run on timers and wait
  for nobody, hence weak fairness of each. A reply that the reconnect manager's canary
  overtakes between its arrival and its use is discarded; as that manager backs off and
  gives up after `MaxRetries`, it does not overtake every one, hence strong fairness of
  using a reply that is not overtaken. The reconnect manager itself need not run.
- `health_failover`: an admission that holds `Service.mu` ends; a probe and its failover
  run on; a self-healing sweep ends whatever it finds, and every sweep ends with the
  retry, hence strong fairness of `RetryFailover`. The backend need never answer a probe
  again (`StaysDead` is unbounded), and sessions need not leave.

## 6. What is proved

The proofs hold for every value of the constants that the named assumptions allow.
Each module proves its type invariant first and the rest relative to it.

- **Ipam.** `MapsAgree` is inductive with the types. The refinement maps each of
  the four operations to a grant, a reclaim or a stutter. `CountMeansRoom` follows
  from it: `reverse` is a bijection from the taken addresses to the counted leases.
- **SessionGateway.** Types for any sets, operations and faults: the part that needs
  an argument is that an operation split at a race resumes with what it found, and
  that a plan of a fail-over names a target for exactly the peers it moves.
  `SessionHasRoute` is inductive with the types: every teardown retires by session ID,
  and a new session has an ID that none of the peer's records carries.
  `RouteHasOwner` needs `SessionHasRoute` too, and is proved when a replacing
  admission does not fail half-way (`AdmissionSucceeds`), which is where the code
  itself gives it up (`session.go:243`). `RowHasSession` is proved without failed row
  deletions and without fail-over (`RowsFollowSessions`), the two ways section 8 and
  `session.go:436-438` show it fails.

  The properties of placement rest on `Sound`: every live session has its row
  (`LiveHasRow`, which nothing breaks), and what an operation found of a live session when
  it was split is still so (`InProgress`: between its steps only the sweep can take the
  session, and nobody can change it). From it `FamilyKept` follows for every step, as every
  move is chosen inside the family of what was found. `PlacementsAgree` adds, under
  `RowsFollowSessions` but for the row of a migration, which may fail, how far a migration
  has come: memory and route have moved, then the row. `MigrationIsWhole` needs `Sound`
  alone, as a rollback restores the three from what the migration found in memory; its one
  hypothesis is that the row of a rollback can be written. `RouteIsRecorded` follows each record through fail-over and roll-back; it needs
  that row writes do not fail while migrations run (`MigrationsPersist`): a migration that
  follows a fail-over and whose row cannot be written gives the route back to the backend in
  memory, while row and affinity stay where the fail-over put them.

  A gauge is related to the sizes of two sets, the live sessions of a backend and the
  swept ones whose count the reaper still owes (`Owed`); `OneDiffers` says how the size of
  such a set changes when the records of one peer do, and `GaugeStep` collects what each
  operation does to both sides. `GaugeCoversLive` and `LiveWithinCap` hold for any faults of
  rows and registrations and `GaugeExact` without failing rows, each for operations that are one
  critical section (`OperationsAreWhole`: no disconnection, migration or disable; section
  8 says how those break it). `ReconcileRestores` is proved for every operation but
  disable, as long as row and gauge writes succeed: `ReadingTrue` says that a reading which
  the lifecycle version has not outdated counts the rows as they are, unless a migration
  has just moved a row and will outdate it when it ends; and rows are then those of the
  live sessions. That the drift it repairs occurs is what distinguishes it from `GaugeExact`,
  whose hypothesis excludes disconnections and migrations.
- **ReturnRoutes.** `TablesAgree` is inductive with the types. Empty queues of retired
  routes and reachability rest on it: a sender enqueues only into the route the table
  holds. `JoinedIsSilent`, `NoLostWakeup` and `StoppedEngineUnrouted` are inductive with
  the types alone: a pump looks at the stop channel again under the write lock; a
  notification stays until it is taken; and a stop retires only after its fence and
  cannot overtake a registration that holds `f.mu`. `WithinBudget` needs `BudgetInv`: the
  routed peers, with the registration under way, are at most the limit in force, and each
  running route has the size in force, because a reconfiguration that would change the size
  is refused while any is routed; the size is capped so that limit times size is within
  the budget.
- **ClientLeases.** The composed specification implements `IpamSpec`, hence
  `AddressLease`: every step that touches the manager is one of its four operations or
  leaves it alone (`LeasesUseIpam`). `Recovering` says what a recovery has settled at each
  stage: claims settled so far share an address exactly when they share a key, and the rows
  say what the claims say; at its end this is `RecoveryResolves`, whatever the tables
  held and whichever writes failed. `AddressStable` needs only that a request's draft of
  a row is current while its holder has the lock (`DraftCurrent`). `KeyStable`,
  `RecoveredIsLeased` and `GrantIsExclusive` are proved for tables in which no two rows
  share a key (`KeysApart`): keys then stay apart through every step (`Apart`), so an address
  that the recovery leased to a row's key is that row's alone (`SettledLeased`), and the
  address a request reads, reserves or allocates is nobody else's (`AnswerExclusive`).
  Section 8 shows what three rows with one key can do; TLC checks two of them.
- **PeerSync.** Three steps. A pass reads the watermark before the durable state, so
  what it settles it has read; a watermark settled with success is therefore
  enforced; and a waiter reads an outcome only once its own notification
  is settled. Around them, counts, tokens and generations: a token or an active
  worker stands for every queued notification.

- **PeerAccess.** Four invariants on top of the types. `RouteKept`: a session that is
  replaced or torn down gives up its route in the same step, and the reaper knows those
  that the sweep left. `AttributionInv`: while a pass repairs, the addresses of whatever
  it will remove, add or hand over are out of the resolver, so that the device may change
  under it. `EnforcementInv` says, for a row that has not changed since the pass read
  it, what the pass still has to do: `WantCurrent` (what it read is the row), `RevokeQuiet` (no
  session of a withdrawn record outlives its turn), `PublishedDevice` and `PublishedWanted` (what
  is published is on the device and wanted); a pass that succeeds has nothing left, and
  that is `CoveredIsEnforced`. `ReturnInv` relates `byIP` to routes and sessions
  (`AnswersForRoute`, `RouteOfSession`, `HeldAlone`).
- **TunnelHealth.** `Sound` says what a process may rely on whose version is still the
  pool's (`Fits`): the backend is enabled; it has its device where one is needed; the
  status is `disabled` only for the healer and for who has just disabled it; a prober
  about to disable has counted the threshold since the last reset, and the healer past its
  damping has its proofs. Every write of one process outdates the others, so `Fits` has to
  be shown of the writer only; the check of the scheduler writes an available tunnel, to
  a status other than `disabled`, and outdates everybody; every step that takes the device away or disables the
  backend advances the version, so nobody else relies on it. `RecoverableWhenDisabled`,
  `DisabledIsDetached` and `ActiveIsAttached` are parts of `Sound`; `GracePeriod` and
  `FlapDamping` follow from it for every step, by the few that write those statuses.
- **HealthFailover.** `StrandedIsOwed` is not inductive: a session that stays pinned while
  an administrator disables the backend would be stranded by the enable that follows,
  which may bring the backend back `disabled` for its health. `OutOfServiceIsStray` closes
  that: what a backend out of service pins are `strays`, late admissions and whom the
  administrative disable left behind, and the property excepts those by name. The code
  cannot promise more of them: a retry drops their debt as soon as it sees the backend
  disabled by hand, and an enable does not bring it back (section 8). Each step of a failover then either leaves its process failing
  over, or records a debt, or has seen that nobody is pinned, or was refused (`dropped`).
  What is proved of a backend's health alone holds here too (`FailoverLosesNoTunnel`,
  `FailoverKeepsPatience`): `TunnelHealth` has as a parameter the places a process may be
  outside it (`Elsewhere`, empty in its own run), so that its lemmas apply to the steps it
  shares with `HealthFailover`; a failover writes nothing of the backend and relies on a
  version only while a failover is owed (`FailsOver`).

The assumptions on the constants are those the code gives: bounds and limits are natural
numbers; null values are none of the values they stand beside (`NoneAssumption`,
`NotAPlacement`, `NoneIsNoOperation`, `NoneIsNoReading`, `NullAssumption`, `NoneIsNothing`,
and `Nobody`, who is neither a session nor a process); a backend has one protocol
family (`FamilyAssumption`); IDs are fresh (`EnoughIDs`); tables of an earlier process name
known keys (`TablesAssumption`); the places `Elsewhere` are none of `TunnelHealth`'s own
(`ElsewhereAssumption`). TLC evaluates all of them in the runs.

## 7. What is only model-checked

Liveness: `SweptPeerReleased`, `DriftHeals`, `RetirementJoins`, `QueueIsServed`,
`WaitersReleased`, `Converges`, `HealthySettles` and `DebtPaid`. They hold under fairness, whose
`ENABLED` the prover does not handle.

Every invariant and every other action property of the runs is a theorem. Where a
theorem has a hypothesis, the runs reach beyond it in one case: `client_leases` starts from
tables in which two rows may share a key, which `KeysApart` excludes. Conversely the
theorems reach beyond the runs: any number of peers, backends, families, rows, requests,
generations, sessions and thresholds, and any set of operations and faults that the
hypothesis leaves. `RouteMatchesRow` is proved (`RoutesMatchRows`) where disable, migration
and a probe's writes are not all in play and row writes succeed, and `ReconcileRestores`
(`ReconciliationRestores`) where none of disable, row and gauge faults is; no run
checks these two.

## 8. What the properties except, and why

The models reproduce the following behaviour of the code; where a property would not
hold because of it, the property says so, or the run leaves the operation out.

Sessions and gauges:

- `DisconnectSession`, `DisconnectUser` and `ReleaseClient` decrement the gauge even when
  the sweep has taken the session before `CloseSession` (`sessions_lifecycle.go:192`); the
  reaper decrements it again. The gauge then lies below the live sessions and admission
  exceeds `MaxPeersPerBackend`. `RevokeUpstreamPeerSession` handles the same race.
- a fail-over moves route, row, count and affinity but not the in-memory session, so a
  later teardown decrements the disabled backend (`backend_lifecycle.go:115`);
- a migration begun after a fail-over, and refused when it commits because a probe has
  changed its target, is rolled back to the backend of the in-memory session, which is the
  one disabled before: route and row return there, the affinity stays where the migration
  found it. A second fail-over of that backend then finds the peer by one of the two and may
  move route or row alone (`sessions_migration.go:49-75`, `sticky.go:329-367`). `RouteIsRecorded`
  is what still holds; that route and row agree (`RouteMatchesRow`) is not;
- a migration begun after a fail-over whose row write fails gives the route back to the
  backend in memory and leaves row and affinity where the fail-over put them: `MigrationIsWhole`
  excepts the unwritten row. And the rollback of a migration whose target was refused writes
  the row back with its own statement; if that fails too, only an error is returned, and
  the row names the target while memory and route are at the source
  (`sessions_migration.go:59-62`);
- a fail-over writes back rows it read earlier, and so the row of a session that the
  sweep has closed meanwhile (`loadbalancer/sticky.go:533`), which lasts until the next
  start discards it: `RowHasSession` holds without fail-overs only;
- a gauge whose persistence fails in the teardown, a sweep between two steps of a
  migration, and a replacement that fails after the old session is gone each leave
  a gauge wrong until the next applied reconciliation (`gateway_heal` shows the first
  two heal).

Client configurations and leases:

- the recovery retires a key that two rows share, but the very request that triggered it
  still holds the keys it read before and stores them again (`client_config.go:422-431`
  replaces generated keys only), and releases the lease of the other row on the way. Two
  rows with one address of a former subnet, requested one after the other, are enough:
  `SharedStaleKeys = TRUE` lets TLC find it;
- when three rows of the initial tables share a key, and one of them is deleted, its lease
  is released and the address can go to another key. The recovery that follows retires the
  keys of the other two; a request that had read the shared key before then stores it again,
  over keys that another request has given the row meanwhile. `KeysApart` excludes this from
  the theorems;
- a session that ends decides whether its lease is durable from a row read before
  a request persists that address, and releases it all the same
  (`session.go:541-559`); the address can then be handed out twice, and the next
  recovery quarantines a row. `RecoveredIsLeased` and `GrantIsExclusive` except keys
  in `released` for this reason;
- a connection whose first configuration fails is deleted without releasing its
  client (`connections.go:354-359`), and so are the connections of a deleted user;
- a row that is written but whose notification of the synchroniser is refused is
  reported as a failure, and its new lease is released (`client_config.go:502-506`).

The return path:

- two comments describe a sender that is late for a retirement otherwise than the code.
  `routes.go:225-228` says that late senders "just fill the abandoned buffer and hit
  ErrQueueFull", and `forwarder.go:67-71` that `RouteBackendToClient` sends "after releasing
  the read lock". It does neither: it takes `f.mu` again for reading, requires that the
  route is still the one in the table, and sends under that lock (`pumps.go:158-168`);
  otherwise the packet is dropped with `ErrSessionNotRegistered`. So nothing reaches the
  buffer of a retired route, and `RetiredQueueEmpty` states what the code does; the comments
  promise less.

The synchroniser's notifications:

- the number of queued notifications of the synchroniser may fall to −1, because
  the token is sent outside the lock that counts (a stale token is then served
  first). Only a test seam reads it, and its comment calls it exact
  (`peer_sync.go:556-562`);
- detaching the listener does not wait for a notification in flight, since the
  slot's lock is released before the listener is called; the synchroniser refuses
  such a notification, and `WaitersReleased` covers it;
- a caller whose listener was detached after its notification was accepted is told
  of success (`unlistened` in the model). `ConfirmedMeansEnforced` excludes it.

Access to the portal:

- a packet that was decrypted before an address was handed over and is looked up after
  it is attributed to the new holder: `Attribution` is about device and resolver as they
  are, not about packets on their way between them;
- an admission compares the published record with the row as it is when it holds
  `Service.mu`. A record withdrawn by a pass while the admission was waiting, and given back
  by a later commit, is admitted although the pass that covers it has not run (an ABA of
  two commits during one slow admission): `outrun` names such sessions, and
  `CoveredIsEnforced` excepts them. Such an admission also takes the reverse entry of an
  address meanwhile granted to another peer, until that peer's own next packet takes it
  back (`AddressAnswersForHolder`);
- the previous owner of an address is only known from the resolver
  (`ownershipUnchanged`), which a failed durable read empties: the session of a former
  owner is then not torn down by the pass that follows (`peer_sync.go:850`), and neither is
  one whose peer the device had lost. `blind` marks runs with such a failure;
- `cleanupOrphanedRouting` lists sessions without `Service.mu`: a session that is admitted after
  the listing had its row when it was checked, so the row went later, and the session is
  left to the next pass.

Health and fail-over:

- `ProbeTunnel` probes the copy of the list with the version of a fresh snapshot, so a
  probe of the previous key or endpoint may conclude for the new one (`pool.go:731`,
  `pool.go:778`, `health.go:349`); and the retry of a missed disable adopts the version
  it finds, so failures of a former endpoint may disable the new one
  (`reconcileThresholdAutoDisable`). `GracePeriod` counts since the last reset, which an
  endpoint change makes after it has advanced the version;
- a failed registration of the portal peers declares an enabled tunnel degraded even
  when it is the healer that re-registers a health-disabled one
  (`backend_enable.go:302-307`); the reason of the row stays `health`;
- the success count is cleared when a disable is committed, a step after it is written:
  a count left in between shortens the next recovery. `FlapDamping` excepts `leftover`;
- an enable of a legacy row is two writes; if the second fails, the row is enabled,
  `disabled`, and without a reason, and neither prober nor healer looks at it until
  an administrator tries again (`backend_enable.go:454-463`): `halfEnabled`;
- a failover is refused when the version has moved since the disable it is for
  (`health.go:728`, `backend_health_disable.go`), for instance by an identity refresh,
  and no debt is recorded: `dropped`. The sessions then stay until the tunnel recovers,
  or they end;
- an admission that chose the backend before the disable and ends after the failover's
  listing of sessions is not moved: `strays`;
- an administrative disable only logs when its fail-over errs, for want of an
  alternative for instance, or skips a session: the session stays routed to the disabled backend
  (`backend_lifecycle.go:82-121`, `sticky.go:275-293`). If the backend was disabled for its
  health before and owed its sessions, the next retry finds it disabled by hand and drops
  the debt (`health_failover_retry.go:163-169`). An enable puts it back in service with
  those sessions pinned and, as the provenance is kept, `disabled` for its health:
  nobody owes them until it recovers or is disabled for its health again. They are `strays` too.

Documented debts: migration and fail-over may exceed `MaxPeersPerBackend`, and sticky
sessions bypass `MaxTotalPeers` (`vpn-service-state-ownership.md`).

## 9. Abstractions, and what is not modelled

- `SessionGateway`: which eligible backend the balancer picks is left open; the
  preference for a protocol family is over-approximated; a database read that
  fails in `HandleFailover`, the total-peers limit, the per-user affinity, draining
  and `LastSeen` are left out; the queue limits of the forwarder are in
  `ReturnRoutes`. Whether an operation's gauge writes reach the database is one
  fault (`gaugeRow`).
- `ClientLeases`: one user; timing parameters, I1, MTU and rendering; the key pair is
  one value, so a row with a key but no private key does not occur; addresses are
  settled in numerical order; of a quarantine that fails half-way any subset of rows
  may have been written; construction and start run the recovery once; requests come
  after the start, as `main.go` opens the panel after it.
- `ReturnRoutes`: backends, rate limits, accounting, `StopPumps`, the timeouts of
  retirement and routes without a return path.
- `PeerSync`: a pass succeeds or fails as a whole; passes without a notification
  (start-up, the periodic one) only enforce more and are left out; commit and the
  reading of the listener are one step; closing the stop channel and failing the
  outstanding notifications are one step; restarts reuse the object as the tests
  of issue 729 do, while production builds one per engine.
- `PeerAccess`: a lease stands for a whole row; rows that share a key or an address, which
  a pass leaves out, do not occur; the two durable reads of a pass are one; backends are
  open, and are told apart only in that `Migrate` leaves the one the memo and an admission
  name; drift of the portal's own configuration is the failing
  verification.
- `TunnelHealth`: `DisableBackend` is one action, as is the end of `EnableBackend`, since both
  hold `Service.mu` and every write of a probe inside them is refused by its version; a
  hook and what it counts, a swap and the reset of the success count that goes with it,
  and `verifyPreHookState` with the start of the hook are one step each; a healer gives up
  at its next look when the row has changed, but for the last one, after which it sends its
  canary all the same (`health_selfheal.go:313-330`). A check of the scheduler is one step
  for each thing it writes, because it writes nothing unless the version is the one it
  listed; its own counts of failures are left open, so that any outcome may follow a
  failure; the instant between its attachment of a device and the snapshot of its canary
  is not modelled. Sequence numbers of canaries are kept as the
  sets of those that began before. Latency, backoff and schedules are left open.
- `HealthFailover`: one backend; a listing of sessions and what is recorded of it are one
  step; rows and routes move with the sessions, as `SessionGateway` shows; the sessions that the
  scheduler migrates off a degraded tunnel leave as any other does (`SessionLeaves`).
- Not modelled: see the components with status `not_modelled` in `PROJECT.json`. Most of
  the source by size is there: the protocol managers install and configure remote
  servers over SSH, the devices and the virtual network stack wrap libraries, and
  handlers, router, database and upstream queries are request handling, templates and SQL
  without concurrent state of their own. The models cover the part of `internal/vpn`
  that keeps state, which is where interleavings, failures and restarts meet.

## 10. Running it

```
tlc -workers 2 -config GatewayAdmission.cfg MCGateway.tla
tlapm SessionGatewayProofs.tla
```

The longest runs, `portal_access` (4.4 million states), `gateway_failover` (3.5 million) and
`tunnel_health` (1.6 million, most of its time for liveness), take one to three
minutes each with two workers; the proofs of one module take one to a few minutes from
nothing, those of `SessionGatewayProofs` the longest.
