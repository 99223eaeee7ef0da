------------------------ MODULE SessionGatewayProofs ------------------------
(***************************************************************************)
(* What holds of the session core for every set of peers, backends and     *)
(* session IDs.                                                            *)
(*                                                                         *)
(* Whatever operations are invoked and steps fail: it is well typed, a     *)
(* live session has a route and a row of its own, and it stays within its  *)
(* protocol family.  These rest on LiveStep, which says what any step may  *)
(* do to the records of one live session, and on InProgress, which says    *)
(* that what an operation read before it let go of a lock is still so.     *)
(*                                                                         *)
(* Under hypotheses on what is invoked and what fails: routes and rows     *)
(* have owners, placements agree, a route leads where something records,   *)
(* gauges cover or equal what they count, no backend exceeds its limit,    *)
(* and a reconciliation restores the gauges.                               *)
(***************************************************************************)
EXTENDS SessionGateway, FiniteSetTheorems, TLAPS

-----------------------------------------------------------------------------
(* The helpers.                                                             *)

\* A counter that stops at zero stays a natural number (pool.go:611-630).
LEMMA LessIsNat == ASSUME NEW n \in Nat PROVE Less(n) \in Nat
  BY DEF Less

\* Counting connections on a backend yields a number (database/vpn.go:242-274).
LEMMA CountIsNat == ASSUME NEW S, S \subseteq Peers PROVE Cardinality(S) \in Nat
  BY FiniteAssumption, FS_Subset, FS_CardinalityType

\* Moving a count leaves the gauges natural numbers (pool.go:555-690).
LEMMA GaugeMoves ==
  ASSUME gauge \in [Backends -> Nat], NEW a \in Backends, NEW b \in Backends
  PROVE  /\ Incremented(a) \in [Backends -> Nat]
         /\ Decremented(a) \in [Backends -> Nat]
         /\ Transferred(a, b) \in [Backends -> Nat]
  BY LessIsNat DEF Incremented, Decremented, Transferred

\* A session created for a peer has an ID of its own (session.go:218-223).
LEMMA FreshIDIsFresh ==
  ASSUME NEW p \in Peers, FreshIDs(p) # {}
  PROVE  FreshID(p) \in SessionIDs \ UsedIDs(p)
  BY DEF FreshID, FreshIDs

\* A reading that an event has overtaken is still a reading
\* (service_lifecycle.go:215-219).
LEMMA BumpedType ==
  ASSUME snapshot \in Readings \cup {None} PROVE Bumped \in Readings \cup {None}
  BY DEF Bumped, Readings

\* What holds Service.mu is known by its kind.
LEMMA HolderType ==
  ASSUME GatewayTypeOK, op # None
  PROVE  /\ op.kind = "disconnect" => op \in Disconnecting
         /\ op.kind \in {"moved", "persisted"} => op \in Migrating
         /\ op.kind = "failover" => op \in FailingOver
  BY DEF GatewayTypeOK, Disconnecting, Migrating, FailingOver

\* Closing a row, retiring and redirecting a route keep the shape of the tables
\* (database/vpn.go:320-335, routes.go:201-253).
LEMMA TableMoves ==
  ASSUME GatewayTypeOK, NEW p \in Peers, NEW id, NEW b \in Backends
  PROVE  /\ RowClosed(p, id) => row' \in [Peers -> Placement \cup {None}]
         /\ RouteRetired(p, id) \in [Peers -> Placement \cup {None}]
         /\ Redirected(p, b) \in [Peers -> Placement \cup {None}]
<1>1. RowClosed(p, id) => row' \in [Peers -> Placement \cup {None}]
  BY DEF GatewayTypeOK, RowClosed, RowIs
<1>2. RouteRetired(p, id) \in [Peers -> Placement \cup {None}]
  BY DEF GatewayTypeOK, RouteRetired
<1>3. Redirected(p, b) \in [Peers -> Placement \cup {None}]
  <2>1. CASE route[p] = None
    BY <2>1 DEF GatewayTypeOK, Redirected
  <2>2. CASE route[p] # None
    <3>1. route[p] \in Placement
      BY <2>2 DEF GatewayTypeOK
    <3>2. [route[p] EXCEPT !.backend = b] \in Placement
      BY <3>1 DEF Placement
    <3> QED BY <2>2, <3>2 DEF GatewayTypeOK, Redirected
  <2> QED BY <2>1, <2>2
<1> QED BY <1>1, <1>2, <1>3

-----------------------------------------------------------------------------
(* Types.                                                                   *)

\* Memory and the data plane start empty (service_lifecycle.go:25-81).
LEMMA InitEstablishesType == GatewayInit => GatewayTypeOK
  BY DEF GatewayInit, GatewayTypeOK, Statuses

\* Admission, in whichever way it ends, keeps the types (vpn_ingress.go:122-364).
LEMMA AdmitKeepsType ==
  ASSUME GatewayTypeOK, NEW p \in Peers, Admit(p) PROVE GatewayTypeOK'
<1>1. CASE AdmitReuse(p)
  <2>1. session[p].backend \in Backends
    BY <1>1 DEF GatewayTypeOK, AdmitReuse, Reusable, Live, Placement
  <2> QED BY <1>1, <2>1 DEF GatewayTypeOK, AdmitReuse
<1>2. CASE AdmitFresh(p)
  <2> DEFINE new(b) == [id |-> FreshID(p), backend |-> b]
  <2>1. PICK b \in Selectable(p) :
          /\ session' = [session EXCEPT ![p] = new(b)]
          /\ row' = [row EXCEPT ![p] = new(b)]
          /\ route' = [route EXCEPT ![p] = new(b)]
          /\ affinity' = [affinity EXCEPT ![p] = b]
          /\ gauge' = IF Live(p) THEN Transferred(session[p].backend, b) ELSE Incremented(b)
    BY <1>2 DEF AdmitFresh
  <2>2. b \in Backends
    BY <2>1 DEF Selectable, Candidates
  <2>3. new(b) \in Placement
    BY <1>2, <2>2, FreshIDIsFresh DEF Placement, AdmitFresh
  <2>4. gauge' \in [Backends -> Nat]
    <3>1. Live(p) => session[p].backend \in Backends
      BY DEF GatewayTypeOK, Live, Placement
    <3>2. gauge \in [Backends -> Nat]
      BY DEF GatewayTypeOK
    <3> QED BY <2>1, <2>2, <3>1, <3>2, GaugeMoves
  <2>5. snapshot' \in Readings \cup {None}
    BY <1>2, BumpedType DEF GatewayTypeOK, AdmitFresh
  <2> HIDE DEF new
  <2>6. /\ session' \in [Peers -> Placement \cup {None}]
        /\ row' \in [Peers -> Placement \cup {None}]
        /\ route' \in [Peers -> Placement \cup {None}]
        /\ affinity' \in [Peers -> Backends \cup {None}]
    BY <2>1, <2>2, <2>3 DEF GatewayTypeOK
  <2> QED BY <1>2, <2>4, <2>5, <2>6 DEF GatewayTypeOK, AdmitFresh
<1>3. CASE AdmitNotPersisted(p)
  <2>1. PICK b \in Selectable(p) : affinity' = AffinityKept(p, b)
    BY <1>3 DEF AdmitNotPersisted
  <2>2. affinity' \in [Peers -> Backends \cup {None}]
    BY <2>1 DEF GatewayTypeOK, AffinityKept, Selectable, Candidates
  <2>3. session' \in [Peers -> Placement \cup {None}]
    BY <1>3 DEF GatewayTypeOK, AdmitNotPersisted
  <2>4. row' \in [Peers -> Placement \cup {None}]
    BY <1>3 DEF GatewayTypeOK, AdmitNotPersisted, RowClosed, RowIs
  <2>5. snapshot' \in Readings \cup {None}
    BY <1>3, BumpedType DEF GatewayTypeOK, AdmitNotPersisted
  <2> QED BY <1>3, <2>2, <2>3, <2>4, <2>5 DEF GatewayTypeOK, AdmitNotPersisted
<1>4. CASE AdmitNotRegistered(p)
  <2>1. PICK b \in Selectable(p) :
          /\ affinity' = AffinityKept(p, b)
          /\ route' = IF Live(p) THEN Redirected(p, b) ELSE route
          /\ \/ row' = [row EXCEPT ![p] = None]
             \/ row' = [row EXCEPT ![p] = [id |-> FreshID(p), backend |-> b]]
    BY <1>4 DEF AdmitNotRegistered
  <2>2. b \in Backends
    BY <2>1 DEF Selectable, Candidates
  <2>3. affinity' \in [Peers -> Backends \cup {None}]
    BY <2>1, <2>2 DEF GatewayTypeOK, AffinityKept
  <2>4. route' \in [Peers -> Placement \cup {None}]
    BY <2>1, <2>2, TableMoves DEF GatewayTypeOK
  <2>5. row' \in [Peers -> Placement \cup {None}]
    <3>1. [id |-> FreshID(p), backend |-> b] \in Placement
      BY <1>4, <2>2, FreshIDIsFresh DEF Placement, AdmitNotRegistered
    <3> QED BY <2>1, <3>1 DEF GatewayTypeOK
  <2>6. session' \in [Peers -> Placement \cup {None}]
    BY <1>4 DEF GatewayTypeOK, AdmitNotRegistered
  <2>7. gauge' \in [Backends -> Nat]
    BY <1>4, GaugeMoves DEF GatewayTypeOK, AdmitNotRegistered, Live, Placement
  <2>8. snapshot' \in Readings \cup {None}
    BY <1>4, BumpedType DEF GatewayTypeOK, AdmitNotRegistered
  <2> QED BY <1>4, <2>3, <2>4, <2>5, <2>6, <2>7, <2>8 DEF GatewayTypeOK, AdmitNotRegistered
<1> QED BY <1>1, <1>2, <1>3, <1>4 DEF Admit

\* Sweeping, reaping, revoking and disconnecting keep the types
\* (session.go:503-536, sessions_lifecycle.go:111-255).
LEMMA TeardownKeepsType ==
  ASSUME GatewayTypeOK,
         CheckTimeouts \/ DisconnectClose
           \/ \E p \in Peers : Reap(p) \/ Revoke(p) \/ DisconnectFind(p)
  PROVE  GatewayTypeOK'
<1>1. CASE CheckTimeouts
  <2>1. PICK idle \in SUBSET {p \in Peers : Live(p)},
             kept \in SUBSET {p \in Peers : Live(p)} :
          /\ timedOut' = [p \in Peers |->
                 IF p \in idle THEN [id |-> session[p].id, backend |-> session[p].backend,
                                     settled |-> FALSE]
                 ELSE None]
          /\ session' = [p \in Peers |-> IF p \in idle THEN None ELSE session[p]]
          /\ row' = [p \in Peers |->
                 IF p \in idle \ kept /\ RowIs(p, session[p].id)
                 THEN None ELSE row[p]]
    BY <1>1 DEF CheckTimeouts
  <2>2. \A p \in idle : [id |-> session[p].id, backend |-> session[p].backend,
                         settled |-> FALSE] \in Timeout
    BY DEF GatewayTypeOK, Live, Placement, Timeout
  <2>3. timedOut' \in [Peers -> Timeout \cup {None}]
    BY <2>1, <2>2
  <2>4. /\ session' \in [Peers -> Placement \cup {None}]
        /\ row' \in [Peers -> Placement \cup {None}]
    BY <2>1 DEF GatewayTypeOK
  <2>5. snapshot' \in Readings \cup {None}
    BY <1>1, BumpedType DEF GatewayTypeOK, CheckTimeouts
  <2> QED BY <1>1, <2>3, <2>4, <2>5 DEF GatewayTypeOK, CheckTimeouts
<1>2. CASE DisconnectClose
  <2>1. op \in Disconnecting
    BY <1>2, HolderType DEF DisconnectClose
  <2>2. op.peer \in Peers /\ op.found \in Placement
    BY <2>1 DEF Disconnecting
  <2>3. op.found.backend \in Backends
    BY <2>2 DEF Placement
  <2>4. /\ session' \in [Peers -> Placement \cup {None}]
        /\ affinity' \in [Peers -> Backends \cup {None}]
    BY <1>2 DEF GatewayTypeOK, DisconnectClose
  <2>5. row' \in [Peers -> Placement \cup {None}]
    BY <1>2, <2>2, <2>3, TableMoves DEF GatewayTypeOK, DisconnectClose
  <2>6. route' \in [Peers -> Placement \cup {None}]
    BY <1>2, <2>2, <2>3, TableMoves DEF DisconnectClose
  <2>7. gauge' \in [Backends -> Nat]
    BY <1>2, <2>3, GaugeMoves DEF GatewayTypeOK, DisconnectClose
  <2>8. snapshot' \in Readings \cup {None}
    BY <1>2, BumpedType DEF GatewayTypeOK, DisconnectClose
  <2> QED BY <1>2, <2>4, <2>5, <2>6, <2>7, <2>8 DEF GatewayTypeOK, DisconnectClose
<1>3. ASSUME NEW p \in Peers, Reap(p) PROVE GatewayTypeOK'
  <2>1. timedOut[p] \in Timeout
    BY <1>3 DEF GatewayTypeOK, Reap
  <2>2. timedOut[p].backend \in Backends
    BY <2>1 DEF Timeout
  <2>3. timedOut' \in [Peers -> Timeout \cup {None}]
    BY <1>3 DEF GatewayTypeOK, Reap
  <2>4. route' \in [Peers -> Placement \cup {None}]
    <3>1. RouteRetired(p, timedOut[p].id) \in [Peers -> Placement \cup {None}]
      BY <2>2, TableMoves
    <3> QED BY <1>3, <3>1 DEF GatewayTypeOK, Reap, ReapedRoute
  <2>5. gauge' \in [Backends -> Nat]
    BY <1>3, <2>2, GaugeMoves DEF GatewayTypeOK, Reap, ReapedGauge
  <2> QED BY <1>3, <2>3, <2>4, <2>5 DEF GatewayTypeOK, Reap
<1>4. ASSUME NEW p \in Peers, Revoke(p) PROVE GatewayTypeOK'
  <2>1. session[p] \in Placement
    BY <1>4 DEF GatewayTypeOK, Revoke, Live
  <2>2. session[p].backend \in Backends
    BY <2>1 DEF Placement
  <2>3. /\ session' \in [Peers -> Placement \cup {None}]
        /\ affinity' \in [Peers -> Backends \cup {None}]
    BY <1>4 DEF GatewayTypeOK, Revoke
  <2>4. /\ row' \in [Peers -> Placement \cup {None}]
        /\ route' \in [Peers -> Placement \cup {None}]
    BY <1>4, <2>2, TableMoves DEF Revoke
  <2>5. gauge' \in [Backends -> Nat]
    BY <1>4, <2>2, GaugeMoves DEF GatewayTypeOK, Revoke
  <2>6. snapshot' \in Readings \cup {None}
    BY <1>4, BumpedType DEF GatewayTypeOK, Revoke
  <2> QED BY <1>4, <2>3, <2>4, <2>5, <2>6 DEF GatewayTypeOK, Revoke
<1>5. ASSUME NEW p \in Peers, DisconnectFind(p) PROVE GatewayTypeOK'
  <2>1. session[p] \in Placement
    BY <1>5 DEF GatewayTypeOK, DisconnectFind, Live
  <2>2. op' \in Disconnecting
    BY <1>5, <2>1 DEF DisconnectFind, Disconnecting
  <2> QED BY <1>5, <2>2 DEF GatewayTypeOK, DisconnectFind
<1> QED BY <1>1, <1>2, <1>3, <1>4, <1>5

\* Every step of a migration, and its rollback, keeps the types
\* (sessions_migration.go:49-198).
LEMMA MigrationKeepsType ==
  ASSUME GatewayTypeOK,
         MigratePersist \/ MigrateCommit
           \/ \E p \in Peers, target \in Backends : MigrateMove(p, target)
  PROVE  GatewayTypeOK'
<1>1. ASSUME NEW p \in Peers, NEW target \in Backends, MigrateMove(p, target)
      PROVE  GatewayTypeOK'
  <2>1. session[p] \in Placement
    BY <1>1 DEF GatewayTypeOK, MigrateMove, Live
  <2>2. op' \in Migrating
    BY <1>1, <2>1 DEF MigrateMove, Migrating
  <2>3. [session[p] EXCEPT !.backend = target] \in Placement
    BY <2>1 DEF Placement
  <2>4. session' \in [Peers -> Placement \cup {None}]
    BY <1>1, <2>3 DEF GatewayTypeOK, MigrateMove
  <2>5. route' \in [Peers -> Placement \cup {None}]
    BY <1>1, TableMoves DEF MigrateMove
  <2>6. snapshot' \in Readings \cup {None}
    BY <1>1, BumpedType DEF GatewayTypeOK, MigrateMove
  <2> QED BY <1>1, <2>2, <2>4, <2>5, <2>6 DEF GatewayTypeOK, MigrateMove
<1>2. ASSUME op \in Migrating
      PROVE  /\ op.peer \in Peers /\ op.target \in Backends
             /\ op.found \in Placement /\ op.found.backend \in Backends
  BY <1>2 DEF Migrating, Placement
<1>3. ASSUME op \in Migrating, MigrateUndone
      PROVE  /\ session' \in [Peers -> Placement \cup {None}]
             /\ route' \in [Peers -> Placement \cup {None}]
             /\ snapshot' \in Readings \cup {None}
             /\ op' = None
             /\ UNCHANGED <<affinity, gauge>>
  <2>1. session' \in [Peers -> Placement \cup {None}]
    <3>1. CASE LiveAs(op.peer, op.found.id)
      <4>1. session[op.peer] \in Placement
        BY <1>2, <1>3, <3>1 DEF GatewayTypeOK, LiveAs, Live
      <4>2. [session[op.peer] EXCEPT !.backend = op.found.backend] \in Placement
        BY <1>2, <1>3, <4>1 DEF Placement
      <4> QED BY <1>3, <3>1, <4>2 DEF GatewayTypeOK, MigrateUndone, SessionGivenBack
    <3>2. CASE ~LiveAs(op.peer, op.found.id)
      BY <1>3, <3>2 DEF GatewayTypeOK, MigrateUndone, SessionGivenBack
    <3> QED BY <3>1, <3>2
  <2>2. route' \in [Peers -> Placement \cup {None}]
    BY <1>2, <1>3, TableMoves DEF GatewayTypeOK, MigrateUndone, SessionGivenBack, RouteGivenBack
  <2>3. snapshot' \in Readings \cup {None}
    BY <1>3, BumpedType DEF GatewayTypeOK, MigrateUndone, SessionGivenBack
  <2> QED BY <1>3, <2>1, <2>2, <2>3 DEF MigrateUndone, SessionGivenBack
<1>4. ASSUME op \in Migrating, RowIs(op.peer, op.found.id), NEW b \in Backends
      PROVE  [row EXCEPT ![op.peer].backend = b] \in [Peers -> Placement \cup {None}]
  <2>1. row[op.peer] \in Placement
    BY <1>2, <1>4 DEF GatewayTypeOK, RowIs
  <2>2. [row[op.peer] EXCEPT !.backend = b] \in Placement
    BY <2>1 DEF Placement
  <2> QED BY <2>2 DEF GatewayTypeOK
<1>5. CASE MigratePersist
  <2>1. op \in Migrating
    BY <1>5, HolderType DEF MigratePersist
  <2>2. CASE /\ RowIs(op.peer, op.found.id)
             /\ row' = [row EXCEPT ![op.peer].backend = op.target]
             /\ op' = [op EXCEPT !.kind = "persisted"]
             /\ UNCHANGED <<session, route, affinity, gauge, snapshot>>
    <3>1. op' \in Migrating
      BY <2>1, <2>2 DEF Migrating
    <3>2. row' \in [Peers -> Placement \cup {None}]
      BY <1>2, <1>4, <2>1, <2>2
    <3> QED BY <1>5, <2>2, <3>1, <3>2 DEF GatewayTypeOK, MigratePersist
  <2>3. CASE MigrateUndone /\ UNCHANGED row
    BY <1>3, <1>5, <2>1, <2>3 DEF GatewayTypeOK, MigratePersist
  <2> QED BY <1>5, <2>2, <2>3 DEF MigratePersist
<1>6. CASE MigrateCommit
  <2>1. op \in Migrating
    BY <1>6, HolderType DEF MigrateCommit
  <2>2. CASE Eligible(op.target) /\ ~op.changed
    <3>1. gauge' \in [Backends -> Nat]
      BY <1>2, <1>6, <2>1, <2>2, GaugeMoves DEF GatewayTypeOK, MigrateCommit
    <3>2. affinity' \in [Peers -> Backends \cup {None}]
      BY <1>2, <1>6, <2>1, <2>2 DEF GatewayTypeOK, MigrateCommit
    <3>3. snapshot' \in Readings \cup {None}
      BY <1>6, <2>2, BumpedType DEF GatewayTypeOK, MigrateCommit
    <3> QED BY <1>6, <2>2, <3>1, <3>2, <3>3 DEF GatewayTypeOK, MigrateCommit
  <2>3. CASE ~(Eligible(op.target) /\ ~op.changed)
    <3>1. MigrateUndone
      BY <1>6, <2>3 DEF MigrateCommit
    <3>2. row' \in [Peers -> Placement \cup {None}]
      BY <1>2, <1>4, <1>6, <2>1, <2>3 DEF GatewayTypeOK, MigrateCommit
    <3> QED BY <1>3, <1>6, <2>1, <3>1, <3>2 DEF GatewayTypeOK, MigrateCommit
  <2> QED BY <2>2, <2>3
<1> QED BY <1>1, <1>5, <1>6

\* A disable plans a target for every peer on the backend
\* (backend_lifecycle.go:36-99, sticky.go:447-529).
LEMMA DisableKeepsType ==
  ASSUME GatewayTypeOK, NEW b \in Backends, DisableBackend(b) PROVE GatewayTypeOK'
<1>1. CASE FailoverTargets(b) = {}
  BY <1>1 DEF GatewayTypeOK, DisableBackend
<1>2. CASE FailoverTargets(b) # {}
  <2> DEFINE sticky == {p \in Peers : affinity[p] = b}
             found == [p \in On(row, b) |-> row[p]]
  <2>1. PICK plan \in [OnBackend(b) -> FailoverTargets(b)] :
          op' = [kind |-> "failover", from |-> b, plan |-> plan,
                 sticky |-> sticky, found |-> found]
    BY <1>2 DEF DisableBackend
  <2>2. sticky \in SUBSET Peers /\ On(row, b) \in SUBSET Peers
    BY DEF On
  <2>3. found \in [On(row, b) -> Placement]
    BY DEF GatewayTypeOK, On
  <2>4. plan \in [sticky \cup On(row, b) -> Backends]
    BY <2>1 DEF OnBackend, FailoverTargets
  <2>5. DOMAIN plan = sticky \cup DOMAIN found
    BY <2>4
  <2>6. plan \in UNION {[S -> Backends] : S \in SUBSET Peers}
    <3>1. sticky \cup On(row, b) \in SUBSET Peers
      BY <2>2
    <3> HIDE DEF sticky
    <3> QED BY <2>4, <3>1
  <2>7. found \in UNION {[S -> Placement] : S \in SUBSET Peers}
    <3> HIDE DEF found
    <3> QED BY <2>2, <2>3
  <2>8. op' \in FailingOver
    <3> HIDE DEF sticky, found
    <3> QED BY <2>1, <2>2, <2>5, <2>6, <2>7 DEF FailingOver
  <2> QED BY <1>2, <2>8 DEF GatewayTypeOK, DisableBackend
<1> QED BY <1>1, <1>2

\* A failover has a target for each affinity and each row it read, and for no
\* other peer (sticky.go:495-529).
LEMMA PlanType ==
  ASSUME op \in FailingOver
  PROVE  /\ op.from \in Backends
         /\ op.sticky \in SUBSET Peers
         /\ DOMAIN op.plan = op.sticky \cup DOMAIN op.found
         /\ DOMAIN op.found \in SUBSET Peers
         /\ \A p \in DOMAIN op.found : op.found[p] \in Placement
         /\ \A p \in op.sticky \cup DOMAIN op.found : op.plan[p] \in Backends
<1>1. /\ op.from \in Backends
      /\ op.sticky \in SUBSET Peers
      /\ DOMAIN op.plan = op.sticky \cup DOMAIN op.found
  BY DEF FailingOver
<1>2. op.found \in UNION {[S -> Placement] : S \in SUBSET Peers}
  BY DEF FailingOver
<1>3. op.plan \in UNION {[S -> Backends] : S \in SUBSET Peers}
  BY DEF FailingOver
<1> QED BY <1>1, <1>2, <1>3

\* Rows, routes, affinities and counts follow the plan of a failover
\* (sticky.go:369-445, backend_lifecycle.go:104-121).
LEMMA FailoverKeepsType ==
  ASSUME GatewayTypeOK, Failover PROVE GatewayTypeOK'
<1>1. op \in FailingOver
  BY HolderType DEF Failover
<1>2. op.sticky \in SUBSET Peers
  BY <1>1, PlanType
<1>3. DOMAIN op.found \in SUBSET Peers /\ \A p \in DOMAIN op.found : op.found[p] \in Placement
  BY <1>1, PlanType
<1>4. \A p \in op.sticky \cup DOMAIN op.found : op.plan[p] \in Backends
  BY <1>1, PlanType
<1>5. PICK lost \in SUBSET DOMAIN op.found :
        /\ row' = [p \in Peers |-> IF p \in DOMAIN op.found \ lost
                                   THEN [op.found[p] EXCEPT !.backend = op.plan[p]]
                                   ELSE row[p]]
        /\ route' = RoutesFollow(op.sticky \cup (DOMAIN op.found \ lost))
        /\ gauge' = CountsFollow(op.sticky \cup (DOMAIN op.found \ lost))
        /\ snapshot' \in {snapshot, Bumped}
  BY DEF Failover
<1> DEFINE moved == op.sticky \cup (DOMAIN op.found \ lost)
<1>6. moved \subseteq Peers /\ \A p \in moved : op.plan[p] \in Backends
  BY <1>2, <1>3, <1>4
<1>7. row' \in [Peers -> Placement \cup {None}]
  <2>1. \A p \in DOMAIN op.found : [op.found[p] EXCEPT !.backend = op.plan[p]] \in Placement
    BY <1>3, <1>4 DEF Placement
  <2> QED BY <1>5, <2>1 DEF GatewayTypeOK
<1>8. route' \in [Peers -> Placement \cup {None}]
  <2>1. \A p \in moved : route[p] # None => [route[p] EXCEPT !.backend = op.plan[p]] \in Placement
    BY <1>6 DEF GatewayTypeOK, Placement
  <2> HIDE DEF moved
  <2>2. RoutesFollow(moved) \in [Peers -> Placement \cup {None}]
    BY <1>6, <2>1 DEF GatewayTypeOK, RoutesFollow
  <2> QED BY <1>5, <2>2 DEF moved
<1>9. gauge' \in [Backends -> Nat]
  <2>1. \A b \in Backends : Cardinality({p \in moved : op.plan[p] = b}) \in Nat
    BY <1>6, CountIsNat
  <2>2. Cardinality(moved) \in Nat
    BY <1>6, CountIsNat
  <2> HIDE DEF moved
  <2>3. CountsFollow(moved) \in [Backends -> Nat]
    BY <2>1, <2>2 DEF GatewayTypeOK, CountsFollow
  <2> QED BY <1>5, <2>3 DEF moved
<1>10. snapshot' \in Readings \cup {None}
  BY <1>5, BumpedType DEF GatewayTypeOK
<1>11. affinity' \in [Peers -> Backends \cup {None}]
  BY <1>4 DEF GatewayTypeOK, Failover
<1> QED BY <1>7, <1>8, <1>9, <1>10, <1>11 DEF GatewayTypeOK, Failover

\* Enabling, probing, expiry, reconciliation and restart keep the types
\* (pool.go:321-452, sticky.go:238-259, service_lifecycle.go:25-334).
LEMMA BackgroundKeepsType ==
  ASSUME GatewayTypeOK,
         ReconcileRead \/ ReconcileApply \/ Restart
           \/ (\E b \in Backends : EnableBackend(b))
           \/ (\E b \in Backends, s \in Statuses : SetTunnelStatus(b, s))
           \/ (\E p \in Peers : PruneExpired(p))
  PROVE  GatewayTypeOK'
<1>1. CASE ReconcileRead
  <2>1. \A b \in Backends : Cardinality(On(row, b)) \in Nat
    BY CountIsNat DEF On
  <2>2. Reading \in Readings
    BY <2>1 DEF Reading, Readings
  <2> QED BY <1>1, <2>2 DEF GatewayTypeOK, ReconcileRead
<1>2. CASE ReconcileApply
  <2>1. snapshot \in Readings
    BY <1>2 DEF GatewayTypeOK, ReconcileApply
  <2>2. gauge' \in [Backends -> Nat]
    BY <1>2, <2>1 DEF GatewayTypeOK, ReconcileApply, Readings
  <2>3. timedOut' \in [Peers -> Timeout \cup {None}]
    <3>1. CASE snapshot.stale
      BY <1>2, <3>1 DEF GatewayTypeOK, ReconcileApply
    <3>2. CASE ~snapshot.stale
      <4>1. PICK failed \in SUBSET Backends :
              timedOut' = [p \in Peers |->
                 IF timedOut[p] # None /\ timedOut[p].backend \notin failed
                 THEN [timedOut[p] EXCEPT !.settled = TRUE] ELSE timedOut[p]]
        BY <1>2, <3>2 DEF ReconcileApply
      <4>2. \A p \in Peers : timedOut[p] # None => [timedOut[p] EXCEPT !.settled = TRUE] \in Timeout
        BY DEF GatewayTypeOK, Timeout
      <4> QED BY <4>1, <4>2 DEF GatewayTypeOK
    <3> QED BY <3>1, <3>2
  <2> QED BY <1>2, <2>2, <2>3 DEF GatewayTypeOK, ReconcileApply
<1>3. CASE Restart
  BY <1>3 DEF GatewayTypeOK, Restart, StartupRows
<1>4. ASSUME NEW b \in Backends, EnableBackend(b) PROVE GatewayTypeOK'
  BY <1>4 DEF GatewayTypeOK, EnableBackend
<1>5. ASSUME NEW b \in Backends, NEW s \in Statuses, SetTunnelStatus(b, s) PROVE GatewayTypeOK'
  <2>1. CASE op # None /\ op.kind \in {"moved", "persisted"} /\ op.target = b
    <3>1. op \in Migrating
      BY <2>1, HolderType
    <3>2. op' \in Migrating
      BY <1>5, <2>1, <3>1 DEF SetTunnelStatus, Migrating
    <3> QED BY <1>5, <3>2 DEF GatewayTypeOK, SetTunnelStatus
  <2>2. CASE ~(op # None /\ op.kind \in {"moved", "persisted"} /\ op.target = b)
    BY <1>5, <2>2 DEF GatewayTypeOK, SetTunnelStatus
  <2> QED BY <2>1, <2>2
<1>6. ASSUME NEW p \in Peers, PruneExpired(p) PROVE GatewayTypeOK'
  BY <1>6 DEF GatewayTypeOK, PruneExpired
<1> QED BY <1>1, <1>2, <1>3, <1>4, <1>5, <1>6

\* No step of any actor leaves the types.
LEMMA StepKeepsType == GatewayTypeOK /\ [GatewayNext]_vars => GatewayTypeOK'
<1> SUFFICES ASSUME GatewayTypeOK, [GatewayNext]_vars PROVE GatewayTypeOK'
  OBVIOUS
<1>1. CASE UNCHANGED vars
  BY <1>1 DEF vars, GatewayTypeOK
<1>2. CASE GatewayNext
  BY <1>2, AdmitKeepsType, TeardownKeepsType, MigrationKeepsType, DisableKeepsType,
     FailoverKeepsType, BackgroundKeepsType DEF GatewayNext
<1> QED BY <1>1, <1>2

\* Every reachable state is well typed; in particular no gauge is ever negative,
\* whatever decrements race (pool.go:611-630).
THEOREM GatewayTypes == GatewaySpec => []GatewayTypeOK
  BY InitEstablishesType, StepKeepsType, PTL DEF GatewaySpec

-----------------------------------------------------------------------------
(* Routes and their owners.                                                 *)

\* Redirecting a peer keeps every route's owner (routes.go:237-253).
LEMMA RedirectKeepsOwners ==
  ASSUME GatewayTypeOK, NEW p \in Peers, NEW b \in Backends, NEW q \in Peers
  PROVE  /\ Redirected(p, b)[q] # None <=> route[q] # None
         /\ route[q] # None => Redirected(p, b)[q].id = route[q].id
<1>1. CASE route[p] = None
  BY <1>1 DEF Redirected
<1>2. CASE route[p] # None
  <2>1. route[p] \in Placement
    BY <1>2 DEF GatewayTypeOK
  <2>2. /\ [route[p] EXCEPT !.backend = b] \in Placement
        /\ [route[p] EXCEPT !.backend = b].id = route[p].id
    BY <2>1 DEF Placement
  <2>3. Redirected(p, b)[q] = IF q = p THEN [route[p] EXCEPT !.backend = b] ELSE route[q]
    BY <1>2 DEF GatewayTypeOK, Redirected
  <2> QED BY <1>2, <2>2, <2>3, NotAPlacement
<1> QED BY <1>1, <1>2

\* A failover redirects routes and changes no owner (backend_lifecycle.go:104-111).
LEMMA FailoverKeepsOwners ==
  ASSUME GatewayTypeOK, Failover, NEW q \in Peers
  PROVE  /\ route'[q] # None <=> route[q] # None
         /\ route[q] # None => route'[q].id = route[q].id
<1>1. PICK moved \in SUBSET (op.sticky \cup DOMAIN op.found) : route' = RoutesFollow(moved)
  BY DEF Failover
<1>2. \A p \in moved : op.plan[p] \in Backends
  BY <1>1, PlanType, HolderType DEF Failover
<1>3. CASE route[q] = None
  BY <1>1, <1>3 DEF RoutesFollow
<1>4. CASE route[q] # None
  <2>1. route[q] \in Placement
    BY <1>4 DEF GatewayTypeOK
  <2>2. CASE q \in moved
    <3>1. route'[q] = [route[q] EXCEPT !.backend = op.plan[q]]
      BY <1>1, <1>4, <2>2 DEF RoutesFollow
    <3>2. route'[q] \in Placement /\ route'[q].id = route[q].id
      BY <1>2, <2>1, <2>2, <3>1 DEF Placement
    <3> QED BY <1>4, <3>2, NotAPlacement
  <2>3. CASE q \notin moved
    BY <1>1, <2>3 DEF RoutesFollow
  <2> QED BY <2>2, <2>3
<1> QED BY <1>3, <1>4

\* A migration moves a session, its row and its route between backends, also on
\* the way back, and leaves all three IDs alone (sessions_migration.go:49-198).
LEMMA MigrationKeepsOwners ==
  ASSUME GatewayTypeOK, NEW q \in Peers,
         MigratePersist \/ MigrateCommit
           \/ \E p \in Peers, target \in Backends : MigrateMove(p, target)
  PROVE  /\ session'[q] # None <=> session[q] # None
         /\ session[q] # None => session'[q].id = session[q].id
         /\ route'[q] # None <=> route[q] # None
         /\ route[q] # None => route'[q].id = route[q].id
         /\ row'[q] # None <=> row[q] # None
         /\ row[q] # None => row'[q].id = row[q].id
         /\ timedOut' = timedOut
<1> DEFINE Goal == /\ session'[q] # None <=> session[q] # None
                   /\ session[q] # None => session'[q].id = session[q].id
                   /\ route'[q] # None <=> route[q] # None
                   /\ route[q] # None => route'[q].id = route[q].id
                   /\ row'[q] # None <=> row[q] # None
                   /\ row[q] # None => row'[q].id = row[q].id
                   /\ timedOut' = timedOut
<1>1. ASSUME NEW where, where \in [Peers -> Placement \cup {None}], NEW p \in Peers,
             where[p] # None, NEW b \in Backends
      PROVE  /\ [where EXCEPT ![p].backend = b][q] # None <=> where[q] # None
             /\ where[q] # None => [where EXCEPT ![p].backend = b][q].id = where[q].id
  <2>1. where[p] \in Placement
    BY <1>1
  <2>2. /\ [where[p] EXCEPT !.backend = b] \in Placement
        /\ [where[p] EXCEPT !.backend = b].id = where[p].id
    BY <1>1, <2>1 DEF Placement
  <2>3. [where EXCEPT ![p].backend = b][q] =
          IF q = p THEN [where[p] EXCEPT !.backend = b] ELSE where[q]
    BY <1>1
  <2> QED BY <1>1, <2>2, <2>3, NotAPlacement
<1>2. ASSUME NEW p \in Peers, NEW target \in Backends, MigrateMove(p, target) PROVE Goal
  <2>1. /\ session' = [session EXCEPT ![p].backend = target]
        /\ session[p] # None
        /\ route' = Redirected(p, target)
        /\ UNCHANGED <<row, timedOut>>
    BY <1>2 DEF MigrateMove, Live
  <2>2. /\ session'[q] # None <=> session[q] # None
        /\ session[q] # None => session'[q].id = session[q].id
    BY <1>1, <2>1 DEF GatewayTypeOK
  <2>3. /\ route'[q] # None <=> route[q] # None
        /\ route[q] # None => route'[q].id = route[q].id
    BY <2>1, RedirectKeepsOwners
  <2> QED BY <2>1, <2>2, <2>3
<1>3. ASSUME op \in Migrating PROVE op.peer \in Peers /\ op.target \in Backends
                                    /\ op.found.backend \in Backends
  BY <1>3 DEF Migrating, Placement
<1>4. ASSUME op \in Migrating, MigrateUndone
      PROVE  /\ session'[q] # None <=> session[q] # None
             /\ session[q] # None => session'[q].id = session[q].id
             /\ route'[q] # None <=> route[q] # None
             /\ route[q] # None => route'[q].id = route[q].id
  <2>1. /\ session'[q] # None <=> session[q] # None
        /\ session[q] # None => session'[q].id = session[q].id
    <3>1. CASE LiveAs(op.peer, op.found.id)
      <4>1. session' = [session EXCEPT ![op.peer].backend = op.found.backend]
        BY <1>4, <3>1 DEF MigrateUndone, SessionGivenBack
      <4>2. session[op.peer] # None
        BY <3>1 DEF LiveAs, Live
      <4> QED BY <1>1, <1>3, <1>4, <4>1, <4>2 DEF GatewayTypeOK
    <3>2. CASE ~LiveAs(op.peer, op.found.id)
      BY <1>4, <3>2 DEF MigrateUndone, SessionGivenBack
    <3> QED BY <3>1, <3>2
  <2>2. /\ route'[q] # None <=> route[q] # None
        /\ route[q] # None => route'[q].id = route[q].id
    <3>1. op.peer \in Peers /\ op.found.backend \in Backends
      BY <1>3, <1>4
    <3>2. /\ Redirected(op.peer, op.found.backend)[q] # None <=> route[q] # None
          /\ route[q] # None => Redirected(op.peer, op.found.backend)[q].id = route[q].id
      BY <3>1, RedirectKeepsOwners
    <3>3. route' \in {route, Redirected(op.peer, op.found.backend)}
      BY <1>4 DEF MigrateUndone, SessionGivenBack, RouteGivenBack
    <3> QED BY <3>2, <3>3
  <2> QED BY <2>1, <2>2
<1>5. ASSUME op \in Migrating, NEW b \in Backends, RowIs(op.peer, op.found.id),
             row' = [row EXCEPT ![op.peer].backend = b]
      PROVE  /\ row'[q] # None <=> row[q] # None
             /\ row[q] # None => row'[q].id = row[q].id
  BY <1>1, <1>3, <1>5 DEF GatewayTypeOK, RowIs
<1>6. CASE MigratePersist
  <2>1. op \in Migrating /\ timedOut' = timedOut
    BY <1>6, HolderType DEF MigratePersist
  <2>2. CASE MigrateUndone /\ row' = row
    BY <1>4, <2>1, <2>2
  <2>3. CASE /\ RowIs(op.peer, op.found.id)
             /\ row' = [row EXCEPT ![op.peer].backend = op.target]
             /\ UNCHANGED <<session, route>>
    BY <1>3, <1>5, <2>1, <2>3
  <2> QED BY <1>6, <2>2, <2>3 DEF MigratePersist
<1>7. CASE MigrateCommit
  <2>1. op \in Migrating /\ timedOut' = timedOut
    BY <1>7, HolderType DEF MigrateCommit
  <2>2. CASE UNCHANGED <<session, route, row>>
    BY <2>1, <2>2
  <2>3. CASE MigrateUndone /\ row' = row
    BY <1>4, <2>1, <2>3
  <2>4. CASE /\ MigrateUndone
             /\ RowIs(op.peer, op.found.id)
             /\ row' = [row EXCEPT ![op.peer].backend = op.found.backend]
    BY <1>3, <1>4, <1>5, <2>1, <2>4
  <2> QED BY <1>7, <2>2, <2>3, <2>4 DEF MigrateCommit
<1> QED BY <1>2, <1>6, <1>7

\* A live session keeps a route of its own through every step of every actor:
\* what a late reap, disconnect or rollback retires carries another ID.
LEMMA StepKeepsOwnRoute ==
  GatewayTypeOK /\ SessionHasRoute /\ [GatewayNext]_vars => SessionHasRoute'
<1> SUFFICES ASSUME GatewayTypeOK, SessionHasRoute, [GatewayNext]_vars, NEW q \in Peers, Live(q)'
             PROVE  route'[q] # None /\ route'[q].id = session'[q].id
  BY DEF SessionHasRoute, Live
<1>1. Live(q) => route[q] # None /\ route[q].id = session[q].id
  BY DEF SessionHasRoute
<1> DEFINE Same == /\ session'[q] # None => session[q] # None /\ session'[q].id = session[q].id
                   /\ route[q] # None => route'[q] # None /\ route'[q].id = route[q].id
<1>2. Same => route'[q] # None /\ route'[q].id = session'[q].id
  BY <1>1 DEF Live
<1>3. ASSUME NEW p \in Peers, Admit(p) PROVE route'[q] # None /\ route'[q].id = session'[q].id
  <2>1. CASE AdmitReuse(p)
    BY <1>2, <2>1 DEF AdmitReuse, Live
  <2>2. CASE AdmitFresh(p)
    <3>1. PICK b \in Selectable(p) :
            /\ session' = [session EXCEPT ![p] = [id |-> FreshID(p), backend |-> b]]
            /\ route' = [route EXCEPT ![p] = [id |-> FreshID(p), backend |-> b]]
      BY <2>2 DEF AdmitFresh
    <3>2. [id |-> FreshID(p), backend |-> b] \in Placement
      BY <2>2, FreshIDIsFresh DEF AdmitFresh, Placement, Selectable, Candidates
    <3>3. CASE q = p
      BY <3>1, <3>2, <3>3, NotAPlacement DEF GatewayTypeOK
    <3>4. CASE q # p
      BY <1>1, <3>1, <3>4 DEF GatewayTypeOK, Live
    <3> QED BY <3>3, <3>4
  <2>3. CASE AdmitNotPersisted(p)
    BY <1>2, <2>3 DEF AdmitNotPersisted, GatewayTypeOK
  <2>4. CASE AdmitNotRegistered(p)
    <3>1. PICK b \in Backends : route' = IF Live(p) THEN Redirected(p, b) ELSE route
      BY <2>4 DEF AdmitNotRegistered, Selectable, Candidates
    <3>2. route[q] # None => route'[q] # None /\ route'[q].id = route[q].id
      BY <3>1, RedirectKeepsOwners
    <3> QED BY <1>2, <2>4, <3>2 DEF AdmitNotRegistered, GatewayTypeOK
  <2> QED BY <1>3, <2>1, <2>2, <2>3, <2>4 DEF Admit
<1>4. ASSUME NEW p \in Peers, Reap(p) PROVE route'[q] # None /\ route'[q].id = session'[q].id
  <2>1. session' = session
    BY <1>4 DEF Reap
  <2>2. CASE Live(p)
    BY <1>2, <1>4, <2>1, <2>2 DEF Reap, ReapedRoute
  <2>3. CASE ~Live(p)
    <3>1. route' = RouteRetired(p, timedOut[p].id)
      BY <1>4, <2>3 DEF Reap, ReapedRoute, LiveAs
    <3>2. q # p
      BY <2>1, <2>3 DEF Live
    <3>3. route'[q] = route[q]
      BY <3>1, <3>2 DEF GatewayTypeOK, RouteRetired
    <3> QED BY <1>2, <2>1, <3>3
  <2> QED BY <2>2, <2>3
<1>5. ASSUME NEW p \in Peers, Revoke(p) PROVE route'[q] # None /\ route'[q].id = session'[q].id
  <2>1. session' = [session EXCEPT ![p] = None] /\ route' = RouteRetired(p, session[p].id)
    BY <1>5 DEF Revoke
  <2>2. q # p
    BY <2>1 DEF GatewayTypeOK, Live
  <2>3. route'[q] = route[q] /\ session'[q] = session[q]
    BY <2>1, <2>2 DEF GatewayTypeOK, RouteRetired
  <2> QED BY <1>2, <2>3
<1>6. CASE DisconnectClose
  <2> DEFINE p == op.peer
             id == op.found.id
  <2>1. p \in Peers
    BY <1>6, HolderType DEF DisconnectClose, Disconnecting
  <2>2. route' = RouteRetired(p, id)
    BY <1>6 DEF DisconnectClose
  <2>3. session' = IF LiveAs(p, id) THEN [session EXCEPT ![p] = None] ELSE session
    BY <1>6 DEF DisconnectClose
  <2> HIDE DEF p, id
  <2>4. CASE q # p
    <3>1. route'[q] = route[q] /\ session'[q] = session[q]
      BY <2>1, <2>2, <2>3, <2>4 DEF GatewayTypeOK, RouteRetired
    <3> QED BY <1>2, <3>1
  <2>5. CASE q = p
    <3>1. ~LiveAs(p, id)
      BY <2>1, <2>3, <2>5 DEF GatewayTypeOK, Live
    <3>2. session' = session /\ session[q].id # id
      BY <2>3, <2>5, <3>1 DEF LiveAs, Live
    <3>3. route'[q] = route[q]
      BY <1>1, <2>2, <2>5, <3>2 DEF GatewayTypeOK, RouteRetired, Live
    <3> QED BY <1>2, <3>2, <3>3
  <2> QED BY <2>4, <2>5
<1>7. CASE \/ MigratePersist \/ MigrateCommit
           \/ \E p \in Peers, target \in Backends : MigrateMove(p, target)
  BY <1>2, <1>7, MigrationKeepsOwners
<1>8. CASE Failover
  BY <1>2, <1>8, FailoverKeepsOwners DEF Failover
<1>9. CASE CheckTimeouts
  <2>1. session'[q] # None => session'[q] = session[q]
    BY <1>9 DEF CheckTimeouts
  <2> QED BY <1>2, <1>9, <2>1 DEF CheckTimeouts
<1>10. CASE Restart
  BY <1>10 DEF Restart, Live
<1>11. CASE UNCHANGED <<session, route>>
  BY <1>2, <1>11
<1> QED
  BY <1>3, <1>4, <1>5, <1>6, <1>7, <1>8, <1>9, <1>10, <1>11
     DEF GatewayNext, vars, PruneExpired, DisconnectFind, DisableBackend, EnableBackend,
         SetTunnelStatus, ReconcileRead, ReconcileApply

\* A live session always has a route, and it is its own (SessionHasRoute),
\* whatever operations are invoked, however they interleave with the sweep and
\* the reaper, and whatever fails (sessions_lifecycle.go:93-158).
THEOREM LiveSessionsAreRouted == GatewaySpec => []SessionHasRoute
<1>1. GatewayInit => SessionHasRoute
  BY DEF GatewayInit, SessionHasRoute, Live
<1> QED BY <1>1, InitEstablishesType, StepKeepsType, StepKeepsOwnRoute, PTL DEF GatewaySpec

-----------------------------------------------------------------------------
(* No route is orphaned unless an admission fails half-way.                 *)

\* The two failures that leave an old route behind: the replacement's row
\* cannot be written, or its route cannot be registered (session.go:243-253,
\* vpn_ingress.go:334-358).
AdmissionSucceeds == "sessionRow" \notin Faults /\ "register" \notin Faults

\* Every step leaves each route with its live session or with the reaper.
LEMMA StepKeepsOwner ==
  ASSUME AdmissionSucceeds
  PROVE  GatewayTypeOK /\ SessionHasRoute /\ RouteHasOwner /\ [GatewayNext]_vars
           => RouteHasOwner'
<1> SUFFICES ASSUME GatewayTypeOK, SessionHasRoute, RouteHasOwner, [GatewayNext]_vars,
                    NEW q \in Peers, route'[q] # None
             PROVE  \/ session'[q] # None /\ session'[q].id = route'[q].id
                    \/ timedOut'[q] # None /\ timedOut'[q].id = route'[q].id
  BY DEF RouteHasOwner, LiveAs, Live
<1> DEFINE Owned == \/ session'[q] # None /\ session'[q].id = route'[q].id
                    \/ timedOut'[q] # None /\ timedOut'[q].id = route'[q].id
           SessionStays == session[q] # None => session'[q] # None /\ session'[q].id = session[q].id
           RouteStays == route[q] # None /\ route'[q].id = route[q].id
           TimeoutStays == timedOut[q] # None => timedOut'[q] # None /\ timedOut'[q].id = timedOut[q].id
<1>1. route[q] # None => \/ session[q] # None /\ session[q].id = route[q].id
                         \/ timedOut[q] # None /\ timedOut[q].id = route[q].id
  BY DEF RouteHasOwner, LiveAs, Live
<1>2. session[q] # None => route[q] # None /\ route[q].id = session[q].id
  BY DEF SessionHasRoute, Live
<1>3. SessionStays /\ RouteStays /\ TimeoutStays => Owned
  BY <1>1
<1>4. ASSUME NEW p \in Peers, NEW id, route' = RouteRetired(p, id)
      PROVE  /\ RouteStays
             /\ q = p => route[q].id # id
  BY <1>4 DEF GatewayTypeOK, RouteRetired
<1>5. ASSUME NEW p \in Peers, Admit(p) PROVE Owned
  <2>1. CASE AdmitReuse(p)
    BY <1>3, <2>1 DEF AdmitReuse
  <2>2. CASE AdmitFresh(p)
    <3>1. PICK b \in Selectable(p) :
            /\ session' = [session EXCEPT ![p] = [id |-> FreshID(p), backend |-> b]]
            /\ route' = [route EXCEPT ![p] = [id |-> FreshID(p), backend |-> b]]
            /\ timedOut' = timedOut
      BY <2>2 DEF AdmitFresh
    <3>2. CASE q = p
      BY <3>1, <3>2 DEF GatewayTypeOK
    <3>3. CASE q # p
      BY <1>3, <3>1, <3>3 DEF GatewayTypeOK
    <3> QED BY <3>2, <3>3
  <2> QED BY <1>5, <2>1, <2>2 DEF Admit, AdmitNotPersisted, AdmitNotRegistered, AdmissionSucceeds
<1>6. ASSUME NEW p \in Peers, Reap(p) PROVE Owned
  <2>1. session' = session /\ timedOut' = [timedOut EXCEPT ![p] = None]
    BY <1>6 DEF Reap
  <2>2. CASE q # p
    <3>1. route'[q] = route[q]
      BY <1>6, <2>2 DEF Reap, ReapedRoute, RouteRetired, GatewayTypeOK
    <3> QED BY <1>3, <2>1, <2>2, <3>1 DEF GatewayTypeOK
  <2>3. CASE q = p /\ session[p] # None
    <3>1. route' = route
      BY <1>6, <2>3 DEF Reap, ReapedRoute, Live
    <3> QED BY <1>2, <2>1, <2>3, <3>1
  <2>4. CASE q = p /\ session[p] = None
    <3>1. route' = RouteRetired(p, timedOut[p].id)
      BY <1>6, <2>4 DEF Reap, ReapedRoute, LiveAs, Live
    <3> QED BY <1>1, <1>4, <2>4, <3>1
  <2> QED BY <2>2, <2>3, <2>4
<1>7. ASSUME NEW p \in Peers, Revoke(p) PROVE Owned
  <2>1. /\ session' = [session EXCEPT ![p] = None]
        /\ route' = RouteRetired(p, session[p].id)
        /\ timedOut' = timedOut
    BY <1>7 DEF Revoke
  <2>2. RouteStays /\ (q = p => route[q].id # session[q].id)
    BY <1>4, <2>1
  <2> QED BY <1>1, <2>1, <2>2 DEF GatewayTypeOK
<1>8. CASE DisconnectClose
  <2> DEFINE p == op.peer
             id == op.found.id
  <2>1. p \in Peers
    BY <1>8, HolderType DEF DisconnectClose, Disconnecting
  <2>2. route' = RouteRetired(p, id) /\ timedOut' = timedOut
    BY <1>8 DEF DisconnectClose
  <2>3. session' = IF LiveAs(p, id) THEN [session EXCEPT ![p] = None] ELSE session
    BY <1>8 DEF DisconnectClose
  <2> HIDE DEF p, id
  <2>4. RouteStays /\ (q = p => route[q].id # id)
    BY <1>4, <2>1, <2>2
  <2>5. CASE LiveAs(p, id)
    <3>1. q = p => session[q].id = id
      BY <2>5 DEF LiveAs
    <3> QED BY <1>1, <2>1, <2>2, <2>3, <2>4, <2>5, <3>1 DEF GatewayTypeOK
  <2>6. CASE ~LiveAs(p, id)
    BY <1>3, <2>2, <2>3, <2>4, <2>6
  <2> QED BY <2>5, <2>6
<1>9. CASE \/ MigratePersist \/ MigrateCommit
           \/ \E p \in Peers, target \in Backends : MigrateMove(p, target)
  BY <1>3, <1>9, MigrationKeepsOwners
<1>10. CASE Failover
  BY <1>3, <1>10, FailoverKeepsOwners DEF Failover
<1>11. CASE CheckTimeouts
  <2>1. PICK idle \in SUBSET Peers :
          /\ timedOut' = [p \in Peers |->
                 IF p \in idle THEN [id |-> session[p].id, backend |-> session[p].backend,
                                     settled |-> FALSE]
                 ELSE None]
          /\ session' = [p \in Peers |-> IF p \in idle THEN None ELSE session[p]]
          /\ route' = route
          /\ timedOut[q] = None
    BY <1>11 DEF CheckTimeouts
  <2>2. session[q] # None /\ session[q].id = route[q].id
    BY <1>1, <2>1
  <2>3. CASE q \in idle
    <3>1. timedOut'[q] = [id |-> session[q].id, backend |-> session[q].backend, settled |-> FALSE]
      BY <2>1, <2>3
    <3>2. timedOut'[q] \in Timeout
      BY <2>2, <3>1 DEF GatewayTypeOK, Placement, Timeout
    <3> QED BY <2>1, <2>2, <3>1, <3>2, NotAPlacement
  <2>4. CASE q \notin idle
    BY <2>1, <2>2, <2>4
  <2> QED BY <2>3, <2>4
<1>12. CASE ReconcileApply
  <2>1. session' = session /\ route' = route
    BY <1>12 DEF ReconcileApply
  <2>2. TimeoutStays
    <3>1. CASE timedOut'[q] = timedOut[q]
      BY <3>1
    <3>2. CASE timedOut[q] # None /\ timedOut'[q] = [timedOut[q] EXCEPT !.settled = TRUE]
      <4>1. timedOut[q] \in Timeout
        BY <3>2 DEF GatewayTypeOK
      <4>2. timedOut'[q] \in Timeout /\ timedOut'[q].id = timedOut[q].id
        BY <3>2, <4>1 DEF Timeout
      <4> QED BY <4>2, NotAPlacement
    <3> QED BY <1>12, <3>1, <3>2 DEF ReconcileApply
  <2> QED BY <1>3, <2>1, <2>2
<1>13. CASE Restart
  BY <1>13 DEF Restart
<1>14. CASE UNCHANGED <<session, route, timedOut>>
  BY <1>3, <1>14
<1> QED
  BY <1>5, <1>6, <1>7, <1>8, <1>9, <1>10, <1>11, <1>12, <1>13, <1>14
     DEF GatewayNext, vars, PruneExpired, DisconnectFind, DisableBackend, EnableBackend,
         SetTunnelStatus, ReconcileRead

\* Unless an admission fails half-way, no route outlives its session without the
\* reaper knowing (RouteHasOwner), whichever of disconnect, revoke, migration,
\* failover and sweep interleave (sessions_lifecycle.go:111-255).
THEOREM RoutesAreOwned ==
  ASSUME AdmissionSucceeds PROVE GatewaySpec => []RouteHasOwner
<1>1. GatewayInit => SessionHasRoute /\ RouteHasOwner
  BY DEF GatewayInit, SessionHasRoute, RouteHasOwner, Live
<1> QED BY <1>1, InitEstablishesType, StepKeepsType, StepKeepsOwnRoute, StepKeepsOwner,
           PTL DEF GatewaySpec

-----------------------------------------------------------------------------
(* No row survives its session unless it cannot be deleted or a failover    *)
(* writes it back.                                                          *)

\* Row writes succeed and no backend is disabled: the two ways a row of a dead
\* session comes about (session.go:436-438, sticky.go:533).
RowsFollowSessions == "sessionRow" \notin Faults /\ "disable" \notin Ops

\* No failover has been begun.
NoFailover == op # None => op.kind # "failover"

\* Only disabling a backend begins a failover (backend_lifecycle.go:36-99).
LEMMA StepKeepsNoFailover ==
  ASSUME RowsFollowSessions
  PROVE  GatewayTypeOK /\ NoFailover /\ [GatewayNext]_vars => NoFailover'
<1> SUFFICES ASSUME GatewayTypeOK, NoFailover, [GatewayNext]_vars PROVE NoFailover'
  OBVIOUS
<1>1. CASE op' = op \/ op' = None
  BY <1>1 DEF NoFailover
<1>2. ASSUME NEW p \in Peers, DisconnectFind(p) PROVE NoFailover'
  BY <1>2 DEF NoFailover, DisconnectFind
<1>3. ASSUME NEW p \in Peers, NEW target \in Backends, MigrateMove(p, target) PROVE NoFailover'
  BY <1>3 DEF NoFailover, MigrateMove
<1>4. CASE MigratePersist
  <2>1. op \in Migrating
    BY <1>4, HolderType DEF MigratePersist
  <2>2. [op EXCEPT !.kind = "persisted"].kind = "persisted"
    BY <2>1 DEF Migrating
  <2>3. op' = None \/ op' = [op EXCEPT !.kind = "persisted"]
    BY <1>4 DEF MigratePersist, MigrateUndone, SessionGivenBack
  <2> QED BY <2>2, <2>3 DEF NoFailover
<1>5. ASSUME NEW b \in Backends, NEW s \in Statuses, SetTunnelStatus(b, s) PROVE NoFailover'
  <2>1. CASE op # None /\ op.kind \in {"moved", "persisted"} /\ op.target = b
    <3>1. op \in Migrating
      BY <2>1, HolderType
    <3>2. [op EXCEPT !.changed = TRUE].kind = op.kind
      BY <3>1 DEF Migrating
    <3> QED BY <1>5, <2>1, <3>2 DEF SetTunnelStatus, NoFailover
  <2>2. CASE ~(op # None /\ op.kind \in {"moved", "persisted"} /\ op.target = b)
    BY <1>1, <1>5, <2>2 DEF SetTunnelStatus
  <2> QED BY <2>1, <2>2
<1>6. ASSUME NEW b \in Backends PROVE ~DisableBackend(b)
  BY DEF DisableBackend, RowsFollowSessions
<1> QED
  BY <1>1, <1>2, <1>3, <1>4, <1>5, <1>6
     DEF GatewayNext, vars, Admit, AdmitReuse, AdmitFresh, AdmitNotPersisted,
         AdmitNotRegistered, Reap, Revoke, PruneExpired, EnableBackend, DisconnectClose,
         MigrateCommit, MigrateUndone, SessionGivenBack, Failover, CheckTimeouts, ReconcileRead,
         ReconcileApply, Restart

\* Under the same two conditions every write or deletion of a row goes with the
\* session it is of, so that RowHasSession is inductive.
LEMMA StepKeepsRowOwner ==
  ASSUME RowsFollowSessions
  PROVE  GatewayTypeOK /\ NoFailover /\ RowHasSession /\ [GatewayNext]_vars => RowHasSession'
<1> SUFFICES ASSUME GatewayTypeOK, NoFailover, RowHasSession, [GatewayNext]_vars,
                    NEW q \in Peers, row'[q] # None
             PROVE  session'[q] # None /\ session'[q].id = row'[q].id
  BY DEF RowHasSession, LiveAs, Live
<1> DEFINE Kept == session'[q] # None /\ session'[q].id = row'[q].id
<1>1. row[q] # None => session[q] # None /\ session[q].id = row[q].id
  BY DEF RowHasSession, LiveAs, Live
<1>2. session'[q] = session[q] /\ row'[q] = row[q] => Kept
  BY <1>1
<1>3. ASSUME NEW p \in Peers, NEW id, RowClosed(p, id)
      PROVE  /\ row'[q] = row[q]
             /\ q = p => row[q].id # id
  BY <1>3 DEF GatewayTypeOK, RowClosed, RowIs, RowsFollowSessions
<1>4. ASSUME NEW p \in Peers, Admit(p) PROVE Kept
  <2>1. CASE AdmitReuse(p)
    BY <1>2, <2>1 DEF AdmitReuse
  <2>2. CASE AdmitFresh(p)
    <3>1. PICK b \in Selectable(p) :
            /\ session' = [session EXCEPT ![p] = [id |-> FreshID(p), backend |-> b]]
            /\ row' = [row EXCEPT ![p] = [id |-> FreshID(p), backend |-> b]]
      BY <2>2 DEF AdmitFresh
    <3>2. CASE q = p
      BY <3>1, <3>2 DEF GatewayTypeOK
    <3>3. CASE q # p
      BY <1>2, <3>1, <3>3 DEF GatewayTypeOK
    <3> QED BY <3>2, <3>3
  <2>3. CASE AdmitNotPersisted(p)
    BY <2>3 DEF AdmitNotPersisted, RowsFollowSessions
  <2>4. CASE AdmitNotRegistered(p)
    <3>1. row' = [row EXCEPT ![p] = None] /\ session' = [session EXCEPT ![p] = None]
      BY <2>4 DEF AdmitNotRegistered, RowsFollowSessions
    <3> QED BY <1>2, <3>1 DEF GatewayTypeOK
  <2> QED BY <1>4, <2>1, <2>2, <2>3, <2>4 DEF Admit
<1>5. ASSUME NEW p \in Peers, Revoke(p) PROVE Kept
  <2>1. session' = [session EXCEPT ![p] = None] /\ RowClosed(p, session[p].id)
    BY <1>5 DEF Revoke
  <2>2. row'[q] = row[q] /\ (q = p => row[q].id # session[q].id)
    BY <1>3, <2>1
  <2> QED BY <1>1, <2>1, <2>2 DEF GatewayTypeOK
<1>6. CASE DisconnectClose
  <2> DEFINE p == op.peer
             id == op.found.id
  <2>1. p \in Peers
    BY <1>6, HolderType DEF DisconnectClose, Disconnecting
  <2>2. IF LiveAs(p, id)
        THEN session' = [session EXCEPT ![p] = None] /\ RowClosed(p, id)
        ELSE UNCHANGED <<session, row>>
    BY <1>6 DEF DisconnectClose
  <2> HIDE DEF p, id
  <2>3. CASE LiveAs(p, id)
    <3>1. row'[q] = row[q] /\ (q = p => row[q].id # id)
      BY <1>3, <2>1, <2>2, <2>3
    <3>2. q = p => session[q].id = id
      BY <2>3 DEF LiveAs
    <3> QED BY <1>1, <2>1, <2>2, <2>3, <3>1, <3>2 DEF GatewayTypeOK
  <2>4. CASE ~LiveAs(p, id)
    BY <1>2, <2>2, <2>4
  <2> QED BY <2>3, <2>4
<1>7. CASE \/ MigratePersist \/ MigrateCommit
           \/ \E p \in Peers, target \in Backends : MigrateMove(p, target)
  BY <1>1, <1>7, MigrationKeepsOwners
<1>8. ~Failover
  BY DEF Failover, NoFailover
<1>9. CASE CheckTimeouts
  <2>1. PICK idle \in SUBSET {p \in Peers : Live(p)} :
          \E kept \in SUBSET (IF "sessionRow" \in Faults THEN idle ELSE {}) :
            /\ session' = [p \in Peers |-> IF p \in idle THEN None ELSE session[p]]
            /\ row' = [p \in Peers |->
                 IF p \in idle \ kept /\ RowIs(p, session[p].id) THEN None ELSE row[p]]
    BY <1>9 DEF CheckTimeouts
  <2>2. PICK kept \in SUBSET (IF "sessionRow" \in Faults THEN idle ELSE {}) :
            /\ session' = [p \in Peers |-> IF p \in idle THEN None ELSE session[p]]
            /\ row' = [p \in Peers |->
                 IF p \in idle \ kept /\ RowIs(p, session[p].id) THEN None ELSE row[p]]
    BY <2>1
  <2>3. kept = {}
    BY <2>2 DEF RowsFollowSessions
  <2>4. session'[q] = IF q \in idle THEN None ELSE session[q]
    BY <2>2
  <2>5. row'[q] = IF q \in idle /\ RowIs(q, session[q].id) THEN None ELSE row[q]
    BY <2>2, <2>3
  <2>6. q \notin idle
    BY <1>1, <2>5 DEF RowIs
  <2> QED BY <1>1, <2>4, <2>5, <2>6
<1>10. CASE Restart
  BY <1>10 DEF Restart, StartupRows
<1>11. CASE UNCHANGED <<session, row>>
  BY <1>2, <1>11
<1> QED
  BY <1>4, <1>5, <1>6, <1>7, <1>8, <1>9, <1>10, <1>11
     DEF GatewayNext, vars, Reap, PruneExpired, DisconnectFind, DisableBackend, EnableBackend,
         SetTunnelStatus, ReconcileRead, ReconcileApply

\* As long as rows can be written and no failover runs, every connected row
\* names the peer's live session (RowHasSession), across sweeps, replacements,
\* migrations and restarts (session.go:191-216, database/vpn.go:343-390).
THEOREM RowsHaveSessions ==
  ASSUME RowsFollowSessions PROVE GatewaySpec => []RowHasSession
<1>1. GatewayInit => NoFailover /\ RowHasSession
  BY DEF GatewayInit, NoFailover, RowHasSession
<1> QED BY <1>1, InitEstablishesType, StepKeepsType, StepKeepsNoFailover, StepKeepsRowOwner,
           PTL DEF GatewaySpec

-----------------------------------------------------------------------------
(* What a step may do to a live session.                                    *)

\* The same session on another backend.
Moved(placement, b) == [placement EXCEPT !.backend = b]

\* A placement moved between backends keeps its session
\* (sessions_migration.go:69-75, routes.go:237-253).
LEMMA MovedIsPlacement ==
  ASSUME NEW placement \in Placement, NEW b \in Backends
  PROVE  /\ Moved(placement, b) \in Placement
         /\ Moved(placement, b).id = placement.id
         /\ Moved(placement, b).backend = b
         /\ Moved(placement, b) # None
  BY NotAPlacement DEF Moved, Placement

\* Two placements of one session on one backend are one.
LEMMA SamePlacement ==
  ASSUME NEW a \in Placement, NEW b \in Placement, a.id = b.id
  PROVE  /\ a.backend = b.backend => a = b
         /\ \A t \in Backends : Moved(a, t) = Moved(b, t)
  BY DEF Moved, Placement

\* The table with one placement moved.
LEMMA MoveOne ==
  ASSUME NEW where \in [Peers -> Placement \cup {None}], NEW p \in Peers, NEW b,
         NEW q \in Peers
  PROVE  [where EXCEPT ![p].backend = b][q] = IF q = p THEN Moved(where[q], b) ELSE where[q]
  BY DEF Moved

\* The routes with one redirected.
LEMMA RedirectOne ==
  ASSUME GatewayTypeOK, NEW p \in Peers, NEW b, NEW q \in Peers
  PROVE  Redirected(p, b)[q] = IF q = p /\ route[q] # None THEN Moved(route[q], b) ELSE route[q]
<1>1. route \in [Peers -> Placement \cup {None}]
  BY DEF GatewayTypeOK
<1> QED BY <1>1, MoveOne DEF Redirected

\* The operation in progress migrates q; or it is a failover.
Migrates(q) == op # None /\ op.kind \in {"moved", "persisted"} /\ op.peer = q
FailsOver == op # None /\ op.kind = "failover"

Unmoved(q) == Live(q) /\ session'[q] = session[q] /\ row'[q] = row[q] /\ route'[q] = route[q]

LeftAlone(q) ==
    /\ Unmoved(q)
    /\ affinity'[q] \in {affinity[q], None}
    /\ \/ op' = op
       \/ ~Migrates(q) /\ ~Migrates(q)' /\ ~FailsOver'

Overtaken(q) ==
    /\ Unmoved(q)
    /\ affinity'[q] = affinity[q]
    /\ "probe" \in Ops
    /\ Migrates(q)
    /\ op' = [op EXCEPT !.changed = TRUE]

Planned(q) ==
    /\ "disable" \in Ops
    /\ Idle
    /\ Unmoved(q)
    /\ affinity'[q] = affinity[q]
    /\ FailsOver'
    /\ op'.sticky \cup DOMAIN op'.found = DOMAIN op'.plan
    /\ \A p \in DOMAIN op'.plan : op'.plan[p] \in Backends /\ SameFamily(op'.plan[p], op'.from)
    /\ q \in op'.sticky <=> affinity[q] = op'.from
    /\ q \in DOMAIN op'.found <=> row[q] # None /\ row[q].backend = op'.from
    /\ q \in DOMAIN op'.found => op'.found[q] = row[q]

Reused(q) ==
    /\ Idle /\ op' = op
    /\ Unmoved(q)
    /\ route[q] = session[q]
    /\ affinity'[q] = session[q].backend

Renewed(q) ==
    /\ Idle /\ op' = op
    /\ \E b \in Selectable(q), id \in SessionIDs \ UsedIDs(q) :
         /\ session'[q] = [id |-> id, backend |-> b]
         /\ row'[q] = session'[q]
         /\ route'[q] = session'[q]
         /\ affinity'[q] = b

MoveBegun(q) ==
    /\ "migrate" \in Ops
    /\ Idle
    /\ Live(q)
    /\ \E target \in Backends :
         /\ Eligible(target)
         /\ SameFamily(session[q].backend, target)
         /\ op' = [kind |-> "moved", peer |-> q, found |-> session[q], target |-> target,
                   routed |-> route[q] # None, changed |-> FALSE]
         /\ session'[q] = Moved(session[q], target)
         /\ route'[q] = IF route[q] # None THEN Moved(route[q], target) ELSE None
    /\ row'[q] = row[q]
    /\ affinity'[q] = affinity[q]

MovePersisted(q) ==
    /\ Migrates(q) /\ op.kind = "moved" /\ op' = [op EXCEPT !.kind = "persisted"]
    /\ RowIs(q, op.found.id)
    /\ row'[q] = Moved(row[q], op.target)
    /\ session'[q] = session[q] /\ route'[q] = route[q] /\ affinity'[q] = affinity[q]
    /\ Live(q)

MoveUndone(q) ==
    /\ Migrates(q) /\ op' = None
    /\ Live(q)
    /\ session'[q] = IF session[q].id = op.found.id
                     THEN Moved(session[q], op.found.backend) ELSE session[q]
    /\ route'[q] = IF op.routed /\ route[q] # None
                   THEN Moved(route[q], op.found.backend) ELSE route[q]
    /\ affinity'[q] = affinity[q]
    /\ session[q].id = op.found.id => snapshot' = Bumped
    /\ \/ op.kind = "moved" /\ ~RowIs(q, op.found.id) /\ row'[q] = row[q]
       \/ "sessionRow" \in Faults /\ row'[q] = row[q]
       \/ "migrateRow" \in Faults /\ op.kind = "moved" /\ row'[q] = row[q]
       \/ /\ op.kind = "persisted"
          /\ ~(Eligible(op.target) /\ ~op.changed)
          /\ row'[q] = IF RowIs(q, op.found.id) THEN Moved(row[q], op.found.backend) ELSE row[q]

MoveCommitted(q) ==
    /\ Migrates(q) /\ op.kind = "persisted" /\ op' = None
    /\ Unmoved(q)
    /\ affinity'[q] = op.target
    /\ snapshot' = Bumped

FailedOver(q) ==
    /\ FailsOver /\ op' = None
    /\ Live(q) /\ session'[q] = session[q]
    /\ q \in DOMAIN op.plan
    /\ route'[q] = IF route[q] # None THEN Moved(route[q], op.plan[q]) ELSE None
    /\ affinity'[q] = IF q \in op.sticky /\ affinity[q] \in {op.from, None}
                      THEN op.plan[q] ELSE affinity[q]
    /\ \/ q \in DOMAIN op.found /\ row'[q] = Moved(op.found[q], op.plan[q])
       \/ q \in op.sticky /\ q \notin DOMAIN op.found /\ row'[q] = row[q]
       \/ q \in op.sticky /\ "sessionRow" \in Faults /\ row'[q] = row[q]

LiveStepEffect(q) ==
    \/ LeftAlone(q) \/ Overtaken(q) \/ Planned(q) \/ Reused(q) \/ Renewed(q)
    \/ MoveBegun(q) \/ MovePersisted(q) \/ MoveUndone(q) \/ MoveCommitted(q) \/ FailedOver(q)


\* Admission renews a session or leaves it alone (vpn_ingress.go:122-364).
LEMMA AdmitEffect ==
  ASSUME GatewayTypeOK, NEW q \in Peers, Live(q)', NEW p \in Peers, Admit(p)
  PROVE  LiveStepEffect(q)
<1>1. CASE AdmitReuse(p)
  <2>1. CASE q = p
    <3>1. Reused(q)
      BY <1>1, <2>1 DEF AdmitReuse, Reusable, Reused, Unmoved, Live, GatewayTypeOK
    <3> QED BY <3>1 DEF LiveStepEffect
  <2>2. CASE q # p
    <3>1. LeftAlone(q)
      BY <1>1, <2>2 DEF AdmitReuse, LeftAlone, Unmoved, Live, GatewayTypeOK
    <3> QED BY <3>1 DEF LiveStepEffect
  <2> QED BY <2>1, <2>2
<1>2. CASE AdmitFresh(p)
  <2>1. PICK b \in Selectable(p) :
          /\ session' = [session EXCEPT ![p] = [id |-> FreshID(p), backend |-> b]]
          /\ row' = [row EXCEPT ![p] = [id |-> FreshID(p), backend |-> b]]
          /\ route' = [route EXCEPT ![p] = [id |-> FreshID(p), backend |-> b]]
          /\ affinity' = [affinity EXCEPT ![p] = b]
    BY <1>2 DEF AdmitFresh
  <2>2. FreshID(p) \in SessionIDs \ UsedIDs(p)
    BY <1>2, FreshIDIsFresh DEF AdmitFresh
  <2>3. CASE q = p
    <3>1. Renewed(q)
      BY <1>2, <2>1, <2>2, <2>3 DEF AdmitFresh, Renewed, GatewayTypeOK
    <3> QED BY <3>1 DEF LiveStepEffect
  <2>4. CASE q # p
    <3>1. LeftAlone(q)
      BY <1>2, <2>1, <2>4 DEF AdmitFresh, LeftAlone, Unmoved, Live, GatewayTypeOK
    <3> QED BY <3>1 DEF LiveStepEffect
  <2> QED BY <2>3, <2>4
<1>3. CASE AdmitNotPersisted(p) \/ AdmitNotRegistered(p)
  <2>1. session' = [session EXCEPT ![p] = None] /\ op' = op
    BY <1>3 DEF AdmitNotPersisted, AdmitNotRegistered
  <2>2. q # p
    BY <2>1 DEF Live, GatewayTypeOK
  <2>3. session'[q] = session[q] /\ Live(q)
    BY <2>1, <2>2 DEF Live, GatewayTypeOK
  <2>4. route'[q] = route[q]
    BY <1>3, <2>2, RedirectOne DEF AdmitNotPersisted, AdmitNotRegistered, Selectable, Candidates
  <2>5. row'[q] = row[q]
    BY <1>3, <2>2 DEF AdmitNotPersisted, AdmitNotRegistered, RowClosed, GatewayTypeOK
  <2>6. affinity'[q] = affinity[q]
    BY <1>3, <2>2 DEF AdmitNotPersisted, AdmitNotRegistered, AffinityKept, GatewayTypeOK
  <2>7. LeftAlone(q)
    BY <2>1, <2>3, <2>4, <2>5, <2>6 DEF LeftAlone, Unmoved
  <2> QED BY <2>7 DEF LiveStepEffect
<1> QED BY <1>1, <1>2, <1>3 DEF Admit

\* A session that outlives a sweep, a reap, a revocation or a disconnection is
\* not the one that was torn down (sessions_lifecycle.go:111-255).
LEMMA TeardownEffect ==
  ASSUME GatewayTypeOK, SessionHasRoute, NEW q \in Peers, Live(q)',
         CheckTimeouts \/ DisconnectClose
           \/ \E p \in Peers : Reap(p) \/ Revoke(p) \/ DisconnectFind(p)
  PROVE  LeftAlone(q)
<1>1. Live(q) => route[q] # None /\ route[q].id = session[q].id
  BY DEF SessionHasRoute
<1>2. ASSUME NEW p \in Peers, NEW id, route' = RouteRetired(p, id),
             q = p => Live(q) /\ session[q].id # id
      PROVE  route'[q] = route[q]
  BY <1>1, <1>2 DEF RouteRetired, GatewayTypeOK
<1>3. CASE CheckTimeouts
  <2>1. session'[q] = session[q] /\ row'[q] = row[q]
    BY <1>3 DEF CheckTimeouts, Live
  <2> QED BY <1>3, <2>1 DEF CheckTimeouts, LeftAlone, Unmoved, Live
<1>4. CASE DisconnectClose
  <2> DEFINE p == op.peer
             id == op.found.id
  <2>1. p \in Peers
    BY <1>4, HolderType DEF DisconnectClose, Disconnecting
  <2>2. /\ route' = RouteRetired(p, id)
        /\ affinity' = [affinity EXCEPT ![p] = None]
        /\ IF LiveAs(p, id)
           THEN session' = [session EXCEPT ![p] = None] /\ RowClosed(p, id)
           ELSE session' = session /\ row' = row
        /\ op # None /\ op.kind = "disconnect" /\ op' = None
    BY <1>4 DEF DisconnectClose
  <2> HIDE DEF p, id
  <2>3. q = p => ~LiveAs(p, id)
    BY <2>2 DEF Live, GatewayTypeOK
  <2>4. session'[q] = session[q] /\ row'[q] = row[q] /\ Live(q)
    BY <2>1, <2>2, <2>3 DEF Live, RowClosed, GatewayTypeOK
  <2>5. route'[q] = route[q]
    BY <1>2, <2>1, <2>2, <2>3, <2>4 DEF LiveAs
  <2>6. affinity'[q] \in {affinity[q], None}
    BY <2>2 DEF GatewayTypeOK
  <2> QED BY <2>2, <2>4, <2>5, <2>6 DEF LeftAlone, Unmoved, Migrates, FailsOver
<1>5. ASSUME NEW p \in Peers, Reap(p) PROVE LeftAlone(q)
  <2>1. UNCHANGED <<session, row, affinity, op>> /\ Live(q)
    BY <1>5 DEF Reap, Live
  <2>2. route' = route \/ (~Live(p) /\ route' = RouteRetired(p, timedOut[p].id))
    BY <1>5 DEF Reap, ReapedRoute
  <2>3. route'[q] = route[q]
    BY <1>2, <2>1, <2>2
  <2> QED BY <2>1, <2>3 DEF LeftAlone, Unmoved
<1>6. ASSUME NEW p \in Peers, Revoke(p) PROVE LeftAlone(q)
  <2>1. /\ session' = [session EXCEPT ![p] = None]
        /\ RowClosed(p, session[p].id)
        /\ route' = RouteRetired(p, session[p].id)
        /\ affinity' = [affinity EXCEPT ![p] = None]
        /\ op' = op
    BY <1>6 DEF Revoke
  <2>2. q # p
    BY <2>1 DEF Live, GatewayTypeOK
  <2> QED BY <2>1, <2>2 DEF LeftAlone, Unmoved, Live, RowClosed, RouteRetired, GatewayTypeOK
<1>7. ASSUME NEW p \in Peers, DisconnectFind(p) PROVE LeftAlone(q)
  BY <1>7 DEF DisconnectFind, LeftAlone, Unmoved, Live, Migrates, FailsOver, Idle
<1> QED BY <1>3, <1>4, <1>5, <1>6, <1>7


\* Each step of a migration moves the session it is about and no other
\* (sessions_migration.go:49-198).
LEMMA MigrationEffect ==
  ASSUME GatewayTypeOK, NEW q \in Peers, Live(q)',
         MigratePersist \/ MigrateCommit
           \/ \E p \in Peers, target \in Backends : MigrateMove(p, target)
  PROVE  LiveStepEffect(q)
<1>1. ASSUME NEW p \in Peers, NEW target \in Backends, MigrateMove(p, target)
      PROVE  LiveStepEffect(q)
  <2>1. /\ session' = [session EXCEPT ![p].backend = target]
        /\ route' = Redirected(p, target)
        /\ row' = row /\ affinity' = affinity
        /\ Live(p)
        /\ Idle
    BY <1>1 DEF MigrateMove
  <2>2. /\ session'[q] = IF q = p THEN Moved(session[q], target) ELSE session[q]
        /\ route'[q] = IF q = p /\ route[q] # None THEN Moved(route[q], target) ELSE route[q]
    <3>1. session \in [Peers -> Placement \cup {None}]
      BY DEF GatewayTypeOK
    <3>2. session'[q] = IF q = p THEN Moved(session[q], target) ELSE session[q]
      BY <2>1, <3>1, MoveOne
    <3>3. route'[q] = IF q = p /\ route[q] # None THEN Moved(route[q], target) ELSE route[q]
      BY <2>1, RedirectOne
    <3> QED BY <3>2, <3>3
  <2>3. CASE q = p
    <3>1. MoveBegun(q)
      BY <1>1, <2>1, <2>2, <2>3 DEF MigrateMove, MoveBegun
    <3> QED BY <3>1 DEF LiveStepEffect
  <2>4. CASE q # p
    <3>1. LeftAlone(q)
      BY <1>1, <2>1, <2>2, <2>4
         DEF MigrateMove, LeftAlone, Unmoved, Live, Migrates, FailsOver, Idle
    <3> QED BY <3>1 DEF LiveStepEffect
  <2> QED BY <2>3, <2>4
<1>2. ASSUME op \in Migrating PROVE op.peer \in Peers
  BY <1>2 DEF Migrating
<1>3. ASSUME op \in Migrating, MigrateUndone, op # None
      PROVE  /\ Live(q)
             /\ session'[q] = IF q = op.peer /\ session[q].id = op.found.id
                              THEN Moved(session[q], op.found.backend) ELSE session[q]
             /\ route'[q] = IF q = op.peer /\ op.routed /\ route[q] # None
                            THEN Moved(route[q], op.found.backend) ELSE route[q]
             /\ affinity'[q] = affinity[q]
             /\ op' = None
             /\ LiveAs(op.peer, op.found.id) => snapshot' = Bumped
  <2>1. op.peer \in Peers
    BY <1>3 DEF Migrating
  <2>2. session' = IF LiveAs(op.peer, op.found.id)
                   THEN [session EXCEPT ![op.peer].backend = op.found.backend] ELSE session
    BY <1>3 DEF MigrateUndone, SessionGivenBack
  <2>3. /\ Live(q)
        /\ session'[q] = IF q = op.peer /\ session[q].id = op.found.id
                         THEN Moved(session[q], op.found.backend) ELSE session[q]
    <3>1. CASE LiveAs(op.peer, op.found.id)
      <4>1. session'[q] = IF q = op.peer THEN Moved(session[q], op.found.backend) ELSE session[q]
        <5>1. session \in [Peers -> Placement \cup {None}]
          BY DEF GatewayTypeOK
        <5>2. session' = [session EXCEPT ![op.peer].backend = op.found.backend]
          BY <2>2, <3>1
        <5> QED BY <2>1, <5>1, <5>2, MoveOne
      <4> QED BY <3>1, <4>1 DEF LiveAs, Live
    <3>2. CASE ~LiveAs(op.peer, op.found.id)
      BY <2>2, <3>2 DEF LiveAs, Live
    <3> QED BY <3>1, <3>2
  <2>4. route'[q] = IF q = op.peer /\ op.routed /\ route[q] # None
                    THEN Moved(route[q], op.found.backend) ELSE route[q]
    BY <1>3, <2>1, RedirectOne DEF MigrateUndone, SessionGivenBack, RouteGivenBack
  <2> QED BY <1>3, <2>3, <2>4 DEF MigrateUndone, SessionGivenBack
<1>4. CASE MigratePersist
  <2>1. op \in Migrating /\ op # None /\ op.kind = "moved"
    BY <1>4, HolderType DEF MigratePersist
  <2>2. CASE /\ RowIs(op.peer, op.found.id)
             /\ row' = [row EXCEPT ![op.peer].backend = op.target]
             /\ op' = [op EXCEPT !.kind = "persisted"]
             /\ UNCHANGED <<session, route, affinity, gauge, snapshot>>
    <3>1. row'[q] = IF q = op.peer THEN Moved(row[q], op.target) ELSE row[q]
      BY <1>2, <2>1, <2>2, MoveOne DEF GatewayTypeOK
    <3>2. op'.kind = "persisted" /\ op'.peer = op.peer
      BY <2>1, <2>2 DEF Migrating
    <3>3. CASE q = op.peer
      <4>1. MovePersisted(q)
        BY <2>1, <2>2, <3>1, <3>3 DEF MovePersisted, Migrates, Live
      <4> QED BY <4>1 DEF LiveStepEffect
    <3>4. CASE q # op.peer
      <4>1. LeftAlone(q)
        BY <2>2, <3>1, <3>2, <3>4 DEF LeftAlone, Unmoved, Live, Migrates, FailsOver
      <4> QED BY <4>1 DEF LiveStepEffect
    <3> QED BY <3>3, <3>4
  <2>3. CASE /\ ~RowIs(op.peer, op.found.id) \/ {"sessionRow", "migrateRow"} \cap Faults # {}
             /\ MigrateUndone
             /\ UNCHANGED row
    <3>1. CASE q = op.peer
      <4>1. MoveUndone(q)
        BY <1>3, <2>1, <2>3, <3>1 DEF MoveUndone, Migrates, LiveAs
      <4> QED BY <4>1 DEF LiveStepEffect
    <3>2. CASE q # op.peer
      <4>1. LeftAlone(q)
        BY <1>3, <2>1, <2>3, <3>2 DEF LeftAlone, Unmoved, Migrates, FailsOver
      <4> QED BY <4>1 DEF LiveStepEffect
    <3> QED BY <3>1, <3>2
  <2> QED BY <1>4, <2>2, <2>3 DEF MigratePersist
<1>5. CASE MigrateCommit
  <2>1. op \in Migrating /\ op # None /\ op.kind = "persisted"
    BY <1>5, HolderType DEF MigrateCommit
  <2>2. CASE Eligible(op.target) /\ ~op.changed
    <3>1. /\ affinity' = [affinity EXCEPT ![op.peer] = op.target]
          /\ op' = None
          /\ snapshot' = Bumped
          /\ UNCHANGED <<session, row, route>>
      BY <1>5, <2>2 DEF MigrateCommit
    <3>2. CASE q = op.peer
      <4>1. MoveCommitted(q)
        BY <2>1, <3>1, <3>2 DEF MoveCommitted, Unmoved, Migrates, Live, GatewayTypeOK
      <4> QED BY <4>1 DEF LiveStepEffect
    <3>3. CASE q # op.peer
      <4>1. LeftAlone(q)
        BY <3>1, <3>3 DEF LeftAlone, Unmoved, Migrates, FailsOver, Live, GatewayTypeOK
      <4> QED BY <4>1 DEF LiveStepEffect
    <3> QED BY <3>2, <3>3
  <2>3. CASE ~(Eligible(op.target) /\ ~op.changed)
    <3>1. /\ MigrateUndone
          /\ \/ row' = IF RowIs(op.peer, op.found.id)
                       THEN [row EXCEPT ![op.peer].backend = op.found.backend] ELSE row
             \/ "sessionRow" \in Faults /\ row' = row
      BY <1>5, <2>3 DEF MigrateCommit
    <3>2. \/ row'[q] = IF q = op.peer /\ RowIs(op.peer, op.found.id)
                       THEN Moved(row[q], op.found.backend) ELSE row[q]
          \/ "sessionRow" \in Faults /\ row'[q] = row[q]
      <4>1. row \in [Peers -> Placement \cup {None}] /\ op.peer \in Peers
        BY <1>2, <2>1 DEF GatewayTypeOK
      <4>2. [row EXCEPT ![op.peer].backend = op.found.backend][q]
              = IF q = op.peer THEN Moved(row[q], op.found.backend) ELSE row[q]
        BY <4>1, MoveOne
      <4> QED BY <3>1, <4>2
    <3>3. CASE q = op.peer
      <4>1. MoveUndone(q)
        BY <1>3, <2>1, <2>3, <3>1, <3>2, <3>3 DEF MoveUndone, Migrates, LiveAs
      <4> QED BY <4>1 DEF LiveStepEffect
    <3>4. CASE q # op.peer
      <4>1. LeftAlone(q)
        BY <1>3, <2>1, <3>1, <3>2, <3>4 DEF LeftAlone, Unmoved, Migrates, FailsOver
      <4> QED BY <4>1 DEF LiveStepEffect
    <3> QED BY <3>3, <3>4
  <2> QED BY <2>2, <2>3
<1> QED BY <1>1, <1>4, <1>5

\* A failover moves the sessions it has a plan for, with what it read of them
\* (sticky.go:369-445, backend_lifecycle.go:96-118).
LEMMA FailoverEffect ==
  ASSUME GatewayTypeOK, NEW q \in Peers, Live(q)',
         Failover \/ \E b \in Backends : DisableBackend(b)
  PROVE  LiveStepEffect(q)
<1>1. CASE Failover
  <2>1. PICK lost \in SUBSET (IF "sessionRow" \in Faults THEN DOMAIN op.found ELSE {}) :
          /\ row' = [p \in Peers |-> IF p \in DOMAIN op.found \ lost
                                     THEN [op.found[p] EXCEPT !.backend = op.plan[p]]
                                     ELSE row[p]]
          /\ route' = RoutesFollow(op.sticky \cup (DOMAIN op.found \ lost))
    BY <1>1 DEF Failover
  <2>2. DOMAIN op.plan = op.sticky \cup DOMAIN op.found
    BY <1>1, PlanType, HolderType DEF Failover
  <2> DEFINE written == q \in DOMAIN op.found \ lost
  <2>3. row'[q] = IF written THEN Moved(op.found[q], op.plan[q]) ELSE row[q]
    BY <2>1 DEF Moved
  <2>4. route'[q] = IF (q \in op.sticky \/ written) /\ route[q] # None
                    THEN Moved(route[q], op.plan[q]) ELSE route[q]
    BY <2>1 DEF RoutesFollow, Moved
  <2>5. affinity'[q] = IF q \in op.sticky /\ affinity[q] \in {op.from, None}
                       THEN op.plan[q] ELSE affinity[q]
    BY <1>1 DEF Failover
  <2>6. FailsOver /\ op' = None /\ session' = session /\ Live(q)
    BY <1>1 DEF Failover, FailsOver, Live
  <2>7. q \in DOMAIN op.found /\ ~written => "sessionRow" \in Faults
    BY <2>1
  <2>8. CASE q \in op.sticky \/ written
    <3>1. FailedOver(q)
      BY <2>2, <2>3, <2>4, <2>5, <2>6, <2>7, <2>8 DEF FailedOver
    <3> QED BY <3>1 DEF LiveStepEffect
  <2>9. CASE ~(q \in op.sticky \/ written)
    <3>1. LeftAlone(q)
      BY <2>3, <2>4, <2>5, <2>6, <2>9 DEF LeftAlone, Unmoved, Migrates, FailsOver
    <3> QED BY <3>1 DEF LiveStepEffect
  <2> QED BY <2>8, <2>9
<1>2. ASSUME NEW b \in Backends, DisableBackend(b) PROVE LiveStepEffect(q)
  <2>1. UNCHANGED <<session, row, route, affinity>> /\ Idle /\ "disable" \in Ops
    BY <1>2 DEF DisableBackend
  <2>2. Unmoved(q)
    BY <2>1 DEF Unmoved, Live
  <2>3. CASE op' = op
    BY <2>1, <2>2, <2>3 DEF LeftAlone, LiveStepEffect
  <2>4. CASE op' # op
    <3>1. PICK plan \in [OnBackend(b) -> FailoverTargets(b)] :
            op' = [kind |-> "failover", from |-> b, plan |-> plan,
                   sticky |-> {p \in Peers : affinity[p] = b},
                   found |-> [p \in On(row, b) |-> row[p]]]
      BY <1>2, <2>4 DEF DisableBackend
    <3>2. /\ op'.kind = "failover" /\ op'.from = b /\ op'.plan = plan
          /\ op'.sticky = {p \in Peers : affinity[p] = b}
          /\ op'.found = [p \in On(row, b) |-> row[p]]
      BY <3>1
    <3>3. op' # None
      BY <2>1, <2>4 DEF Idle
    <3>4. op'.sticky \cup DOMAIN op'.found = DOMAIN op'.plan
      BY <3>2 DEF OnBackend
    <3>5. \A p \in DOMAIN op'.plan : op'.plan[p] \in Backends /\ SameFamily(op'.plan[p], op'.from)
      BY <3>2 DEF FailoverTargets
    <3>6. /\ q \in op'.sticky <=> affinity[q] = op'.from
          /\ q \in DOMAIN op'.found <=> row[q] # None /\ row[q].backend = op'.from
          /\ q \in DOMAIN op'.found => op'.found[q] = row[q]
      BY <3>2 DEF On
    <3>7. Planned(q)
      BY <2>1, <2>2, <3>2, <3>3, <3>4, <3>5, <3>6 DEF Planned, FailsOver
    <3> QED BY <3>7 DEF LiveStepEffect
  <2> QED BY <2>3, <2>4
<1> QED BY <1>1, <1>2

\* Every step of every actor does one of these to a session that is live after it.
LEMMA LiveStep ==
  ASSUME GatewayTypeOK, SessionHasRoute, [GatewayNext]_vars, NEW q \in Peers, Live(q)'
  PROVE  LiveStepEffect(q)
<1>1. CASE UNCHANGED vars
  BY <1>1 DEF vars, LiveStepEffect, LeftAlone, Unmoved, Live
<1>2. CASE \E p \in Peers : Admit(p)
  BY <1>2, AdmitEffect
<1>3. CASE CheckTimeouts \/ DisconnectClose
             \/ \E p \in Peers : Reap(p) \/ Revoke(p) \/ DisconnectFind(p)
  BY <1>3, TeardownEffect DEF LiveStepEffect
<1>4. CASE MigratePersist \/ MigrateCommit
             \/ \E p \in Peers, target \in Backends : MigrateMove(p, target)
  BY <1>4, MigrationEffect
<1>5. CASE Failover \/ \E b \in Backends : DisableBackend(b)
  BY <1>5, FailoverEffect
<1>6. CASE ReconcileRead \/ ReconcileApply \/ (\E b \in Backends : EnableBackend(b))
  BY <1>6 DEF ReconcileRead, ReconcileApply, EnableBackend, LiveStepEffect, LeftAlone, Unmoved, Live
<1>7. CASE \E p \in Peers : PruneExpired(p)
  BY <1>7 DEF PruneExpired, LiveStepEffect, LeftAlone, Unmoved, Live, GatewayTypeOK
<1>8. ASSUME NEW b \in Backends, NEW s \in Statuses, SetTunnelStatus(b, s)
      PROVE  LiveStepEffect(q)
  <2>1. UNCHANGED <<session, row, route, affinity>> /\ "probe" \in Ops /\ Unmoved(q)
    BY <1>8 DEF SetTunnelStatus, Unmoved, Live
  <2>2. CASE op' = op
    BY <2>1, <2>2 DEF LiveStepEffect, LeftAlone
  <2>3. CASE op' # op
    <3>1. /\ op # None /\ op.kind \in {"moved", "persisted"}
          /\ op' = [op EXCEPT !.changed = TRUE]
      BY <1>8, <2>3 DEF SetTunnelStatus
    <3>2. op'.peer = op.peer /\ op'.kind = op.kind
      BY <3>1, HolderType DEF Migrating
    <3>3. CASE Migrates(q)
      BY <2>1, <3>1, <3>3 DEF LiveStepEffect, Overtaken
    <3>4. CASE ~Migrates(q)
      BY <2>1, <3>1, <3>2, <3>4 DEF LiveStepEffect, LeftAlone, Migrates, FailsOver
    <3> QED BY <3>3, <3>4
  <2> QED BY <2>2, <2>3
<1>9. ~Restart
  BY DEF Restart, Live
<1> QED BY <1>1, <1>2, <1>3, <1>4, <1>5, <1>6, <1>7, <1>8, <1>9 DEF GatewayNext

-----------------------------------------------------------------------------
(* A live session has a row.                                                *)

\* Every live session has a connected row of its own, whatever fails: the count
\* of rows that a reconciliation applies never misses one (session.go:204-259,
\* service_lifecycle.go:232-334).
LiveHasRow == \A p \in Peers : Live(p) => RowIs(p, session[p].id)

\* While an operation is at work on a live session, what the operation found of
\* it is still so: a migration has moved memory and route, then the row; a
\* failover has yet to touch the row that it read.
InProgress ==
    \A p \in Peers : Live(p) =>
        /\ Migrates(p) => /\ session[p] = Moved(op.found, op.target)
                          /\ route[p] = session[p]
                          /\ op.routed
                          /\ op.kind = "persisted" => row[p] = session[p]
        /\ FailsOver /\ p \in DOMAIN op.found => op.found[p] = row[p]

\* Tables hold placements, and a failover plans backends.
LEMMA TableTypes ==
  ASSUME GatewayTypeOK, NEW q \in Peers
  PROVE  /\ session[q] # None => session[q] \in Placement /\ session[q].backend \in Backends
         /\ row[q] # None => row[q] \in Placement /\ row[q].backend \in Backends
         /\ route[q] # None => route[q] \in Placement /\ route[q].backend \in Backends
         /\ Migrates(q) => /\ op.found \in Placement /\ op.found.backend \in Backends
                           /\ op.target \in Backends
         /\ FailsOver => /\ DOMAIN op.plan = op.sticky \cup DOMAIN op.found
                         /\ q \in DOMAIN op.plan => op.plan[q] \in Backends
                         /\ q \in DOMAIN op.found => op.found[q] \in Placement
<1>1. /\ session[q] # None => session[q] \in Placement
      /\ row[q] # None => row[q] \in Placement
      /\ route[q] # None => route[q] \in Placement
  BY DEF GatewayTypeOK
<1>2. Migrates(q) => op.found \in Placement /\ op.target \in Backends
  BY HolderType DEF Migrates, Migrating
<1>3. FailsOver => /\ DOMAIN op.plan = op.sticky \cup DOMAIN op.found
                   /\ q \in DOMAIN op.plan => op.plan[q] \in Backends
                   /\ q \in DOMAIN op.found => op.found[q] \in Placement
  BY HolderType, PlanType DEF FailsOver
<1>4. \A placement \in Placement : placement.backend \in Backends
  BY DEF Placement
<1> QED BY <1>1, <1>2, <1>3, <1>4

\* An operation that migrates nobody and fails nobody over is about no session.
LEMMA NotInProgress ==
  ASSUME NEW q \in Peers, Idle PROVE ~Migrates(q) /\ ~FailsOver
  BY DEF Idle, Migrates, FailsOver

\* No step takes the row of a session that outlives it, nor invalidates what the
\* operation in progress found of that session.
LEMMA StepKeepsInProgress ==
  GatewayTypeOK /\ GatewayTypeOK' /\ SessionHasRoute /\ LiveHasRow /\ InProgress /\ [GatewayNext]_vars
    => LiveHasRow' /\ InProgress'
<1> SUFFICES ASSUME GatewayTypeOK, GatewayTypeOK', SessionHasRoute, LiveHasRow, InProgress,
                    [GatewayNext]_vars, NEW q \in Peers, Live(q)'
             PROVE  /\ RowIs(q, session[q].id)'
                    /\ Migrates(q)' => /\ session'[q] = Moved(op'.found, op'.target)
                                       /\ route'[q] = session'[q]
                                       /\ op'.routed
                                       /\ op'.kind = "persisted" => row'[q] = session'[q]
                    /\ FailsOver' /\ q \in DOMAIN op'.found => op'.found[q] = row'[q]
  BY DEF LiveHasRow, InProgress
<1> DEFINE RowOK == row'[q] # None /\ row'[q].id = session'[q].id
           OpOK == /\ Migrates(q)' => /\ session'[q] = Moved(op'.found, op'.target)
                                      /\ route'[q] = session'[q]
                                      /\ op'.routed
                                      /\ op'.kind = "persisted" => row'[q] = session'[q]
                   /\ FailsOver' /\ q \in DOMAIN op'.found => op'.found[q] = row'[q]
<1> SUFFICES RowOK /\ OpOK
  BY DEF RowIs
<1>1. Live(q) => /\ row[q] # None /\ row[q].id = session[q].id
                 /\ route[q] # None /\ route[q].id = session[q].id
                 /\ Migrates(q) => /\ session[q] = Moved(op.found, op.target)
                                   /\ route[q] = session[q]
                                   /\ op.routed
                                   /\ op.kind = "persisted" => row[q] = session[q]
                 /\ FailsOver /\ q \in DOMAIN op.found => op.found[q] = row[q]
  BY DEF LiveHasRow, InProgress, SessionHasRoute, RowIs
<1>2. op' = None => OpOK
  BY DEF Migrates, FailsOver
<1>3. Idle /\ op' = op => op' = None
  BY DEF Idle
<1>4. CASE LeftAlone(q)
  BY <1>1, <1>4 DEF LeftAlone, Unmoved, Migrates, FailsOver
<1>5. CASE Overtaken(q)
  <2>1. op \in Migrating
    BY <1>5, HolderType DEF Overtaken, Migrates
  <2>2. /\ op'.kind = op.kind /\ op'.found = op.found /\ op'.target = op.target
        /\ op'.routed = op.routed
    BY <1>5, <2>1 DEF Overtaken, Migrating
  <2>3. ~FailsOver'
    BY <2>1, <2>2 DEF FailsOver, Migrating
  <2> QED BY <1>1, <1>5, <2>2, <2>3 DEF Overtaken, Unmoved
<1>6. CASE Planned(q)
  BY <1>1, <1>6 DEF Planned, Unmoved, FailsOver, Migrates
<1>7. CASE Reused(q)
  BY <1>1, <1>2, <1>3, <1>7 DEF Reused, Unmoved
<1>8. CASE Renewed(q)
  BY <1>2, <1>3, <1>8 DEF Renewed, Live
<1>9. CASE MoveBegun(q)
  <2>1. PICK target \in Backends :
          /\ op' = [kind |-> "moved", peer |-> q, found |-> session[q], target |-> target,
                    routed |-> route[q] # None, changed |-> FALSE]
          /\ session'[q] = Moved(session[q], target)
          /\ route'[q] = IF route[q] # None THEN Moved(route[q], target) ELSE None
          /\ row'[q] = row[q]
          /\ Live(q)
    BY <1>9 DEF MoveBegun
  <2>2. session[q] \in Placement /\ route[q] \in Placement
    BY <1>1, <2>1, TableTypes DEF Live
  <2>3. session'[q].id = session[q].id /\ route'[q] = session'[q]
    BY <1>1, <2>1, <2>2, MovedIsPlacement, SamePlacement
  <2>4. op'.kind = "moved" /\ op'.found = session[q] /\ op'.target = target /\ op'.routed
    BY <1>1, <2>1
  <2> QED BY <1>1, <2>1, <2>3, <2>4 DEF FailsOver
<1>10. CASE MovePersisted(q)
  <2>1. op \in Migrating
    BY <1>10, HolderType DEF MovePersisted, Migrates
  <2>2. /\ op'.kind = "persisted" /\ op'.found = op.found /\ op'.target = op.target
        /\ op'.routed = op.routed
    BY <1>10, <2>1 DEF MovePersisted, Migrating
  <2>3. /\ row[q] \in Placement /\ op.found \in Placement /\ op.target \in Backends
        /\ row[q].id = op.found.id
    BY <1>10, TableTypes DEF MovePersisted, RowIs
  <2>4. row'[q] = Moved(op.found, op.target) /\ row'[q] # None
    BY <1>10, <2>3, SamePlacement, MovedIsPlacement DEF MovePersisted
  <2> QED BY <1>1, <1>10, <2>2, <2>4 DEF MovePersisted, FailsOver
<1>11. CASE MoveUndone(q)
  <2>1. session[q] \in Placement /\ row[q] \in Placement /\ op.found.backend \in Backends
    BY <1>1, <1>11, TableTypes DEF MoveUndone, Live
  <2>2. session'[q].id = session[q].id
    BY <1>11, <2>1, MovedIsPlacement DEF MoveUndone
  <2>3. row'[q] # None /\ row'[q].id = row[q].id
    BY <1>1, <1>11, <2>1, MovedIsPlacement DEF MoveUndone
  <2> QED BY <1>1, <1>2, <1>11, <2>2, <2>3 DEF MoveUndone
<1>12. CASE MoveCommitted(q)
  BY <1>1, <1>2, <1>12 DEF MoveCommitted, Unmoved
<1>13. CASE FailedOver(q)
  <2>1. op.plan[q] \in Backends /\ (q \in DOMAIN op.found => op.found[q] \in Placement)
    BY <1>13, TableTypes DEF FailedOver
  <2>2. RowOK
    BY <1>1, <1>13, <2>1, MovedIsPlacement DEF FailedOver
  <2> QED BY <1>2, <1>13, <2>2 DEF FailedOver
<1> HIDE DEF RowOK, OpOK
<1> QED
  BY <1>4, <1>5, <1>6, <1>7, <1>8, <1>9, <1>10, <1>11, <1>12, <1>13, LiveStep DEF LiveStepEffect

\* The four facts about a live session's records that hold whatever operations
\* are invoked and whatever fails.
Sound == GatewayTypeOK /\ SessionHasRoute /\ LiveHasRow /\ InProgress

\* The service starts without sessions, and no step of any actor unsettles them.
LEMMA SoundAlways == (GatewayInit => Sound) /\ (Sound /\ [GatewayNext]_vars => Sound')
<1>1. GatewayInit => SessionHasRoute /\ LiveHasRow /\ InProgress
  BY DEF GatewayInit, SessionHasRoute, LiveHasRow, InProgress, Live
<1> QED BY <1>1, InitEstablishesType, StepKeepsType, StepKeepsOwnRoute, StepKeepsInProgress DEF Sound

\* A live session has its connected row (LiveHasRow), whatever is invoked, fails
\* or interleaves (session.go:204-259, sticky.go:410-445).
THEOREM LiveSessionsHaveRows == GatewaySpec => []LiveHasRow
<1>1. Sound => LiveHasRow
  BY DEF Sound
<1> QED BY <1>1, SoundAlways, PTL DEF GatewaySpec

-----------------------------------------------------------------------------
(* Families.                                                                *)

\* The protocol family is an equivalence on backends: a tunnel has one protocol
\* (models/vpn.go, sessions_migration.go:124-141).
LEMMA FamilyIsEquivalence ==
  /\ \A a \in Backends : SameFamily(a, a)
  /\ \A a, b : SameFamily(a, b) => SameFamily(b, a)
  /\ \A a, b, c : SameFamily(a, b) /\ SameFamily(b, c) => SameFamily(a, c)
<1>1. \A a \in Backends : SameFamily(a, a)
  BY GatewayAssumption DEF SameFamily
<1>2. \A a, b : SameFamily(a, b) => SameFamily(b, a)
  BY DEF SameFamily
<1>3. ASSUME NEW a, NEW b, NEW c, SameFamily(a, b), SameFamily(b, c) PROVE SameFamily(a, c)
  <2>1. PICK F \in Families : a \in F /\ b \in F
    BY <1>3 DEF SameFamily
  <2>2. PICK G \in Families : b \in G /\ c \in G
    BY <1>3 DEF SameFamily
  <2>3. F = G
    BY <2>1, <2>2, FamilyAssumption
  <2> QED BY <2>1, <2>2, <2>3 DEF SameFamily
<1> QED BY <1>1, <1>2, <1>3

\* Everything that could place a live session is of the family it is on: its row,
\* route and affinity, the backend a migration found it on, and the target a
\* failover has planned for it.
InFamily(q) ==
    Live(q) =>
        /\ SameFamily(session[q].backend, row[q].backend)
        /\ SameFamily(session[q].backend, route[q].backend)
        /\ affinity[q] # None => SameFamily(session[q].backend, affinity[q])
        /\ Migrates(q) => SameFamily(session[q].backend, op.found.backend)
        /\ FailsOver /\ q \in DOMAIN op.plan => SameFamily(session[q].backend, op.plan[q])

\* A session that is live before and after a step stays in its family, and so does
\* all that could place it.
LEMMA StepKeepsFamily ==
  ASSUME Sound, Sound', [GatewayNext]_vars, NEW q \in Peers, InFamily(q), Live(q)'
  PROVE  /\ InFamily(q)'
         /\ Live(q) => SameFamily(session[q].backend, session'[q].backend)
<1> DEFINE home == session'[q].backend
           Placed == /\ SameFamily(home, row'[q].backend)
                     /\ SameFamily(home, route'[q].backend)
                     /\ affinity'[q] # None => SameFamily(home, affinity'[q])
           OpOK == /\ Migrates(q)' => SameFamily(home, op'.found.backend)
                   /\ FailsOver' /\ q \in DOMAIN op'.plan => SameFamily(home, op'.plan[q])
           Stays == Live(q) => SameFamily(session[q].backend, home)
<1> SUFFICES Placed /\ OpOK /\ Stays
  BY DEF InFamily
<1>1. Live(q) => /\ SameFamily(session[q].backend, row[q].backend)
                 /\ SameFamily(session[q].backend, route[q].backend)
                 /\ affinity[q] # None => SameFamily(session[q].backend, affinity[q])
                 /\ Migrates(q) => SameFamily(session[q].backend, op.found.backend)
                 /\ FailsOver /\ q \in DOMAIN op.plan => SameFamily(session[q].backend, op.plan[q])
  BY DEF InFamily
<1>2. Live(q) => /\ session[q] \in Placement /\ session[q].backend \in Backends
                 /\ row[q] \in Placement /\ row[q].id = session[q].id
                 /\ route[q] \in Placement /\ route[q].id = session[q].id
                 /\ Migrates(q) => /\ session[q] = Moved(op.found, op.target)
                                   /\ route[q] = session[q]
                 /\ FailsOver /\ q \in DOMAIN op.found => op.found[q] = row[q]
  BY TableTypes DEF Sound, LiveHasRow, InProgress, SessionHasRoute, RowIs, Live
<1>3. /\ session'[q] # None /\ home \in Backends
      /\ row'[q] # None /\ route'[q] # None
  <2>1. session'[q] \in Placement
    BY DEF Sound, GatewayTypeOK, Live
  <2> QED BY <2>1, NotAPlacement DEF Sound, LiveHasRow, SessionHasRoute, RowIs, Live, Placement
<1>4. op' = None => OpOK
  BY DEF Migrates, FailsOver
<1>5. session'[q] = session[q] => Stays
  BY <1>3, FamilyIsEquivalence DEF Live
<1>6. CASE LeftAlone(q)
  BY <1>1, <1>5, <1>6 DEF LeftAlone, Unmoved, Migrates, FailsOver
<1>7. CASE Overtaken(q)
  <2>1. op \in Migrating
    BY <1>7, HolderType DEF Overtaken, Migrates, Sound
  <2>2. op'.kind = op.kind /\ op'.found = op.found
    BY <1>7, <2>1 DEF Overtaken, Migrating
  <2>3. ~FailsOver'
    BY <2>1, <2>2 DEF FailsOver, Migrating
  <2> QED BY <1>1, <1>5, <1>7, <2>2, <2>3 DEF Overtaken, Unmoved
<1>8. CASE Planned(q)
  <2>1. Placed /\ Stays
    BY <1>1, <1>5, <1>8 DEF Planned, Unmoved
  <2>2. ~Migrates(q)'
    BY <1>8 DEF Planned, FailsOver, Migrates
  <2>3. ASSUME q \in DOMAIN op'.plan PROVE SameFamily(home, op'.plan[q])
    <3>1. affinity[q] = op'.from \/ row[q].backend = op'.from
      BY <1>8, <2>3 DEF Planned
    <3>2. op'.from # None
      BY <1>8, <2>3, GatewayAssumption, NoneAssumption DEF Planned, SameFamily
    <3>3. SameFamily(session[q].backend, op'.from) /\ session'[q] = session[q]
      BY <1>1, <1>8, <3>1, <3>2 DEF Planned, Unmoved
    <3>4. SameFamily(op'.plan[q], op'.from)
      BY <1>8, <2>3 DEF Planned
    <3> QED BY <3>3, <3>4, FamilyIsEquivalence
  <2> QED BY <2>1, <2>2, <2>3
<1>9. CASE Reused(q)
  BY <1>1, <1>2, <1>4, <1>5, <1>9, FamilyIsEquivalence DEF Reused, Unmoved, Idle
<1>10. CASE Renewed(q)
  <2>1. PICK b \in Selectable(q), id \in SessionIDs \ UsedIDs(q) :
          /\ session'[q] = [id |-> id, backend |-> b]
          /\ row'[q] = session'[q]
          /\ route'[q] = session'[q]
          /\ affinity'[q] = b
    BY <1>10 DEF Renewed
  <2>2. home = b
    BY <2>1
  <2>3. b \in Backends /\ (Live(q) => SameFamily(b, session[q].backend))
    BY <2>1 DEF Selectable, Candidates
  <2> QED BY <1>4, <1>10, <2>1, <2>2, <2>3, FamilyIsEquivalence DEF Renewed, Idle
<1>11. CASE MoveBegun(q)
  <2>1. PICK target \in Backends :
          /\ SameFamily(session[q].backend, target)
          /\ op' = [kind |-> "moved", peer |-> q, found |-> session[q], target |-> target,
                    routed |-> route[q] # None, changed |-> FALSE]
          /\ session'[q] = Moved(session[q], target)
          /\ route'[q] = IF route[q] # None THEN Moved(route[q], target) ELSE None
          /\ row'[q] = row[q] /\ affinity'[q] = affinity[q]
          /\ Live(q)
    BY <1>11 DEF MoveBegun
  <2>2. home = target /\ route'[q].backend = target
    BY <1>2, <1>3, <2>1, MovedIsPlacement
  <2>3. op'.found = session[q] /\ op'.kind = "moved"
    BY <2>1
  <2> QED BY <1>1, <1>3, <2>1, <2>2, <2>3, FamilyIsEquivalence DEF FailsOver
<1>12. CASE MovePersisted(q)
  <2>1. op \in Migrating
    BY <1>12, HolderType DEF MovePersisted, Migrates, Sound
  <2>2. op'.kind = "persisted" /\ op'.found = op.found
    BY <1>12, <2>1 DEF MovePersisted, Migrating
  <2>3. row'[q].backend = op.target /\ home = op.target
    BY <1>2, <1>12, <2>1, MovedIsPlacement DEF MovePersisted, Migrating
  <2> QED BY <1>1, <1>3, <1>5, <1>12, <2>2, <2>3, FamilyIsEquivalence DEF MovePersisted, FailsOver
<1>13. CASE MoveUndone(q)
  <2>1. Live(q) /\ Migrates(q) /\ op.found \in Placement /\ op.found.backend \in Backends
    BY <1>13, TableTypes DEF MoveUndone, Sound
  <2>2. op.target \in Backends /\ session[q].id = op.found.id
    BY <1>2, <2>1, TableTypes, MovedIsPlacement DEF Sound
  <2>3. home = op.found.backend
    BY <1>2, <1>13, <2>1, <2>2, MovedIsPlacement DEF MoveUndone
  <2>4. route'[q].backend \in {op.found.backend, route[q].backend}
    BY <1>2, <1>13, <2>1, MovedIsPlacement DEF MoveUndone
  <2>5. row'[q].backend \in {op.found.backend, row[q].backend}
    BY <1>2, <1>13, <2>1, MovedIsPlacement DEF MoveUndone
  <2> QED BY <1>1, <1>3, <1>4, <1>13, <2>1, <2>3, <2>4, <2>5, FamilyIsEquivalence DEF MoveUndone
<1>14. CASE MoveCommitted(q)
  <2>1. op.target \in Backends /\ op.found \in Placement
    BY <1>14, TableTypes DEF MoveCommitted, Sound
  <2>2. home = op.target
    BY <1>2, <1>14, <2>1, MovedIsPlacement DEF MoveCommitted, Unmoved
  <2> QED BY <1>1, <1>3, <1>4, <1>5, <1>14, <2>2, FamilyIsEquivalence DEF MoveCommitted, Unmoved
<1>15. CASE FailedOver(q)
  <2>1. op.plan[q] \in Backends /\ (q \in DOMAIN op.found => op.found[q] \in Placement)
    BY <1>15, TableTypes DEF FailedOver, Sound
  <2>2. row'[q].backend \in {op.plan[q], row[q].backend}
    BY <1>15, <2>1, MovedIsPlacement DEF FailedOver
  <2>3. route'[q].backend = op.plan[q]
    BY <1>2, <1>15, <2>1, NotAPlacement, MovedIsPlacement DEF FailedOver
  <2>4. SameFamily(session[q].backend, op.plan[q]) /\ session'[q] = session[q]
    BY <1>1, <1>15 DEF FailedOver
  <2> QED BY <1>1, <1>4, <1>5, <1>15, <2>2, <2>3, <2>4 DEF FailedOver
<1> HIDE DEF Placed, OpOK, Stays
<1> QED
  BY <1>6, <1>7, <1>8, <1>9, <1>10, <1>11, <1>12, <1>13, <1>14, <1>15, LiveStep
     DEF LiveStepEffect, Sound

\* When a session ends in a step its route stays, goes, or, where the admission
\* that replaced it failed, has been redirected within the family
\* (vpn_ingress.go:303-364, routes.go:201-253).
LEMMA EndedRoute ==
  ASSUME GatewayTypeOK, [GatewayNext]_vars, NEW q \in Peers, Live(q), ~Live(q)', route'[q] # None
  PROVE  \/ route'[q] = route[q]
         \/ route[q] # None /\ \E b \in Backends : /\ SameFamily(b, session[q].backend)
                                                  /\ route'[q] = Moved(route[q], b)
<1>1. session'[q] # session[q]
  BY DEF Live
<1>2. ASSUME NEW p \in Peers, NEW id, route' = RouteRetired(p, id) PROVE route'[q] = route[q]
  BY <1>2 DEF RouteRetired, GatewayTypeOK
<1>3. ASSUME NEW p \in Peers, AdmitNotRegistered(p)
      PROVE  \/ route'[q] = route[q]
             \/ route[q] # None /\ \E b \in Backends : /\ SameFamily(b, session[q].backend)
                                                      /\ route'[q] = Moved(route[q], b)
  <2>1. PICK b \in Selectable(p) : route' = IF Live(p) THEN Redirected(p, b) ELSE route
    BY <1>3 DEF AdmitNotRegistered
  <2>2. b \in Backends /\ (Live(p) => SameFamily(b, session[p].backend))
    BY <2>1 DEF Selectable, Candidates
  <2> QED BY <2>1, <2>2, RedirectOne
<1>4. ASSUME NEW p \in Peers, AdmitFresh(p) PROVE FALSE
  <2>1. PICK b \in Selectable(p) : session' = [session EXCEPT ![p] = [id |-> FreshID(p), backend |-> b]]
    BY <1>4 DEF AdmitFresh
  <2>2. session'[q] = [id |-> FreshID(p), backend |-> b] /\ q = p
    BY <1>1, <2>1 DEF GatewayTypeOK
  <2>3. [id |-> FreshID(p), backend |-> b] \in Placement
    BY <1>4, FreshIDIsFresh DEF AdmitFresh, Placement, Selectable, Candidates
  <2> QED BY <2>2, <2>3, NotAPlacement DEF Live
<1>5. ASSUME NEW p \in Peers, Admit(p) PROVE AdmitNotRegistered(p) \/ route' = route
  BY <1>4, <1>5 DEF Admit, AdmitReuse, AdmitNotPersisted
<1>6. DisconnectClose => op.peer \in Peers
  BY HolderType DEF DisconnectClose, Disconnecting
<1>7. ~MigratePersist /\ ~MigrateCommit /\ \A p \in Peers, b \in Backends : ~MigrateMove(p, b)
  BY <1>1, MigrationKeepsOwners DEF Live
<1>8. CASE DisconnectClose
  BY <1>2, <1>6, <1>8 DEF DisconnectClose
<1> QED
  BY <1>1, <1>2, <1>3, <1>5, <1>7, <1>8
     DEF GatewayNext, vars, Reap, Revoke, DisconnectFind, PruneExpired, DisableBackend,
         EnableBackend, SetTunnelStatus, Failover, CheckTimeouts, ReconcileRead,
         ReconcileApply, Restart

\* A session and its route stay in the protocol family the peer was first served
\* by (FamilyKept), through replacement, migration and its rollback, failover and
\* whatever fails on the way (vpn_ingress.go:212-228, sessions_migration.go:124-141).
THEOREM FamiliesAreKept == GatewaySpec => FamilyKept
<1> DEFINE AllInFamily == \A q \in Peers : InFamily(q)
           Kept == \A p \in Peers :
                     /\ Live(p) /\ Live(p)' => SameFamily(session[p].backend, session'[p].backend)
                     /\ Live(p) /\ route'[p] # None => SameFamily(session[p].backend, route'[p].backend)
<1>1. GatewayInit => AllInFamily
  BY DEF GatewayInit, InFamily, Live
<1>2. Sound /\ Sound' /\ AllInFamily /\ [GatewayNext]_vars => AllInFamily'
  <2> SUFFICES ASSUME Sound, Sound', AllInFamily, [GatewayNext]_vars, NEW q \in Peers
               PROVE  InFamily(q)'
    OBVIOUS
  <2>1. CASE Live(q)'
    BY <2>1, StepKeepsFamily
  <2>2. CASE ~Live(q)'
    BY <2>2 DEF InFamily
  <2> QED BY <2>1, <2>2
<1>3. Sound /\ Sound' /\ AllInFamily /\ [GatewayNext]_vars => Kept
  <2> SUFFICES ASSUME Sound, Sound', AllInFamily, [GatewayNext]_vars, NEW p \in Peers, Live(p)
               PROVE  /\ Live(p)' => SameFamily(session[p].backend, session'[p].backend)
                      /\ route'[p] # None => SameFamily(session[p].backend, route'[p].backend)
    OBVIOUS
  <2>1. CASE Live(p)'
    <3>1. SameFamily(session[p].backend, session'[p].backend) /\ InFamily(p)'
      BY <2>1, StepKeepsFamily
    <3>2. SameFamily(session'[p].backend, route'[p].backend)
      BY <2>1, <3>1 DEF InFamily
    <3> QED BY <3>1, <3>2, FamilyIsEquivalence
  <2>2. ASSUME ~Live(p)', route'[p] # None PROVE SameFamily(session[p].backend, route'[p].backend)
    <3>1. SameFamily(session[p].backend, route[p].backend) /\ route[p] # None /\ route[p] \in Placement
      BY TableTypes DEF InFamily, Sound, SessionHasRoute
    <3>2. CASE route'[p] = route[p]
      BY <3>1, <3>2
    <3>3. ASSUME NEW b \in Backends, SameFamily(b, session[p].backend), route'[p] = Moved(route[p], b)
          PROVE  SameFamily(session[p].backend, route'[p].backend)
      BY <3>1, <3>3, MovedIsPlacement, FamilyIsEquivalence
    <3> QED BY <2>2, <3>2, <3>3, EndedRoute DEF Sound
  <2> QED BY <2>1, <2>2
<1>4. Kept => [Kept]_vars
  OBVIOUS
<1> HIDE DEF AllInFamily, Kept
<1>5. GatewaySpec => [][Kept]_vars
  BY <1>1, <1>2, <1>3, <1>4, SoundAlways, PTL DEF GatewaySpec
<1> QED BY <1>5 DEF FamilyKept, Kept

-----------------------------------------------------------------------------
(* Where memory, row, route and affinity place a live session.              *)

\* Without a failover the three places of a session agree except while it is
\* being migrated, and then its row is where the migration found it or, once
\* written, where the other two are.
Together(q) ==
    Live(q) =>
        /\ ~Migrates(q) => row[q] = session[q] /\ route[q] = session[q]
        /\ Migrates(q) /\ op.kind = "moved" => row[q] = op.found

\* What is known of a session's records before and after any step of it.
LEMMA LiveRecords ==
  ASSUME Sound, NEW q \in Peers, Live(q)
  PROVE  /\ session[q] \in Placement /\ session[q].backend \in Backends
         /\ row[q] \in Placement /\ row[q].id = session[q].id
         /\ route[q] \in Placement /\ route[q].id = session[q].id /\ route[q] # None
         /\ RowIs(q, session[q].id)
         /\ Migrates(q) => /\ session[q] = Moved(op.found, op.target)
                           /\ op.found \in Placement /\ op.found.backend \in Backends
                           /\ op.target \in Backends
                           /\ session[q].id = op.found.id
                           /\ session[q].backend = op.target
                           /\ Moved(session[q], op.found.backend) = op.found
                           /\ route[q] = session[q]
                           /\ op.routed
                           /\ op.kind \in {"moved", "persisted"}
                           /\ op.kind = "persisted" => row[q] = session[q]
         /\ FailsOver => /\ q \in DOMAIN op.found => op.found[q] = row[q]
                         /\ q \in DOMAIN op.plan => op.plan[q] \in Backends
                         /\ DOMAIN op.plan = op.sticky \cup DOMAIN op.found
<1>1. /\ RowIs(q, session[q].id)
      /\ route[q] # None /\ route[q].id = session[q].id
      /\ Migrates(q) => /\ session[q] = Moved(op.found, op.target)
                        /\ route[q] = session[q]
                        /\ op.routed
                        /\ op.kind = "persisted" => row[q] = session[q]
      /\ FailsOver /\ q \in DOMAIN op.found => op.found[q] = row[q]
  BY DEF Sound, LiveHasRow, SessionHasRoute, InProgress
<1>2. /\ session[q] \in Placement /\ row[q] \in Placement /\ route[q] \in Placement
      /\ session[q].backend \in Backends
      /\ Migrates(q) => /\ op.found \in Placement /\ op.found.backend \in Backends
                        /\ op.target \in Backends
      /\ FailsOver => /\ q \in DOMAIN op.plan => op.plan[q] \in Backends
                      /\ DOMAIN op.plan = op.sticky \cup DOMAIN op.found
  BY <1>1, TableTypes DEF Sound, Live, RowIs
<1>3. ASSUME Migrates(q)
      PROVE  /\ session[q].id = op.found.id
             /\ session[q].backend = op.target
             /\ Moved(session[q], op.found.backend) = op.found
  BY <1>1, <1>2, <1>3, MovedIsPlacement, SamePlacement
<1>4. Migrates(q) => op.kind \in {"moved", "persisted"}
  BY DEF Migrates
<1> QED BY <1>1, <1>2, <1>3, <1>4 DEF RowIs

\* A migration of a live session is rolled back to exactly what it found, also in the row
\* if that was written, and then because of its target (sessions_migration.go:49-75).
LEMMA UndoneToFound ==
  ASSUME Sound, NEW q \in Peers, MoveUndone(q), "sessionRow" \notin Faults
  PROVE  /\ session'[q] = op.found /\ route'[q] = op.found
         /\ \/ /\ op.kind = "persisted" /\ row'[q] = op.found
               /\ ~(Eligible(op.target) /\ ~op.changed)
            \/ "migrateRow" \in Faults /\ op.kind = "moved" /\ row'[q] = row[q]
<1>1. /\ Live(q) /\ Migrates(q)
      /\ session'[q] = IF session[q].id = op.found.id
                       THEN Moved(session[q], op.found.backend) ELSE session[q]
      /\ route'[q] = IF op.routed /\ route[q] # None
                     THEN Moved(route[q], op.found.backend) ELSE route[q]
      /\ \/ op.kind = "moved" /\ ~RowIs(q, op.found.id)
         \/ "migrateRow" \in Faults /\ op.kind = "moved" /\ row'[q] = row[q]
         \/ /\ op.kind = "persisted"
            /\ ~(Eligible(op.target) /\ ~op.changed)
            /\ row'[q] = IF RowIs(q, op.found.id) THEN Moved(row[q], op.found.backend) ELSE row[q]
  BY DEF MoveUndone
<1> QED BY <1>1, LiveRecords

\* A begun migration has found what memory said of the session.
LEMMA MoveBegins ==
  ASSUME Sound, NEW q \in Peers, MoveBegun(q)
  PROVE  /\ Live(q)
         /\ "migrate" \in Ops
         /\ Migrates(q)' /\ op'.kind = "moved" /\ ~FailsOver'
         /\ op'.found = session[q]
         /\ ~op'.changed /\ Eligible(op'.target)
         /\ row'[q] = row[q] /\ affinity'[q] = affinity[q]
         /\ op'.peer = q
         /\ ~Migrates(q)
<1>1. PICK target \in Backends :
        /\ Eligible(target)
        /\ op' = [kind |-> "moved", peer |-> q, found |-> session[q], target |-> target,
                  routed |-> route[q] # None, changed |-> FALSE]
  BY DEF MoveBegun
<1>2. op' \in Migrating
  BY <1>1, TableTypes DEF Sound, Migrating, MoveBegun, Live
<1>3. op' # None
  BY <1>1, <1>2, NoneIsNoOperation
<1> QED BY <1>1, <1>3 DEF MoveBegun, Migrates, FailsOver, Idle

\* Neither a rollback nor anything that interleaves with a migration parts the
\* three places, as long as rows can be written and nothing fails over.
LEMMA StepKeepsTogether ==
  ASSUME RowsFollowSessions, Sound, Sound', NoFailover, [GatewayNext]_vars,
         NEW q \in Peers, Together(q), Live(q)'
  PROVE  Together(q)'
<1> DEFINE Goal == /\ ~Migrates(q)' => row'[q] = session'[q] /\ route'[q] = session'[q]
                   /\ Migrates(q)' /\ op'.kind = "moved" => row'[q] = op'.found
<1> SUFFICES Goal
  BY DEF Together
<1>1. Live(q) => /\ ~Migrates(q) => row[q] = session[q] /\ route[q] = session[q]
                 /\ Migrates(q) /\ op.kind = "moved" => row[q] = op.found
  BY DEF Together
<1>2. Idle /\ op' = op => ~Migrates(q) /\ ~Migrates(q)'
  BY DEF Idle, Migrates
<1>3. ~FailsOver /\ ~Planned(q)
  BY DEF NoFailover, FailsOver, Planned, RowsFollowSessions
<1>4. CASE LeftAlone(q)
  BY <1>1, <1>4 DEF LeftAlone, Unmoved, Migrates
<1>5. CASE Overtaken(q)
  <2>1. op'.kind = op.kind /\ op'.found = op.found /\ Migrates(q)'
    <3>1. op \in Migrating
      BY <1>5, HolderType DEF Overtaken, Migrates, Sound
    <3>2. op' \in Migrating /\ op'.kind = op.kind /\ op'.found = op.found /\ op'.peer = op.peer
      BY <1>5, <3>1 DEF Overtaken, Migrating
    <3> QED BY <1>5, <3>2, NoneIsNoOperation DEF Overtaken, Migrates
  <2> QED BY <1>1, <1>5, <2>1 DEF Overtaken, Unmoved
<1>6. CASE Reused(q)
  BY <1>1, <1>2, <1>6 DEF Reused, Unmoved
<1>7. CASE Renewed(q)
  BY <1>2, <1>7 DEF Renewed
<1>8. CASE MoveBegun(q)
  BY <1>1, <1>8, MoveBegins
<1>9. CASE MovePersisted(q)
  <2>1. op \in Migrating
    BY <1>9, HolderType DEF MovePersisted, Migrates, Sound
  <2>2. op'.kind = "persisted" /\ op' \in Migrating /\ op'.peer = op.peer
    BY <1>9, <2>1 DEF MovePersisted, Migrating
  <2>3. Migrates(q)'
    BY <1>9, <2>2, NoneIsNoOperation DEF MovePersisted, Migrates
  <2> QED BY <2>2, <2>3
<1>10. CASE MoveUndone(q)
  <2>1. op' = None /\ Live(q) /\ Migrates(q) /\ ~Migrates(q)'
    BY <1>10 DEF MoveUndone, Migrates
  <2>2. session'[q] = op.found /\ route'[q] = op.found
        /\ (row'[q] = op.found \/ (op.kind = "moved" /\ row'[q] = row[q]))
    BY <1>10, UndoneToFound DEF RowsFollowSessions
  <2> QED BY <1>1, <2>1, <2>2
<1>11. CASE MoveCommitted(q)
  BY <1>11, LiveRecords DEF MoveCommitted, Unmoved, Migrates
<1> HIDE DEF Goal
<1> QED
  BY <1>3, <1>4, <1>5, <1>6, <1>7, <1>8, <1>9, <1>10, <1>11, LiveStep
     DEF LiveStepEffect, Sound, FailedOver

\* As long as no failover runs and no write of a row but a migration's first fails,
\* memory, row and route place an idle service's sessions on the same backend
\* (PlacementsAgree), whichever step of a migration is refused and whatever the sweep
\* or a probe did between its steps (sessions_migration.go:49-198).
THEOREM PlacementsDoAgree ==
  ASSUME RowsFollowSessions PROVE GatewaySpec => []PlacementsAgree
<1> DEFINE AllTogether == \A q \in Peers : Together(q)
           IInv == Sound /\ NoFailover /\ AllTogether
<1>1. GatewayInit => NoFailover /\ AllTogether
  BY DEF GatewayInit, NoFailover, Together, Live
<1>2. Sound /\ Sound' /\ NoFailover /\ AllTogether /\ [GatewayNext]_vars => AllTogether'
  <2> SUFFICES ASSUME Sound, Sound', NoFailover, AllTogether, [GatewayNext]_vars, NEW q \in Peers
               PROVE  Together(q)'
    OBVIOUS
  <2>1. CASE Live(q)'
    BY <2>1, StepKeepsTogether
  <2>2. CASE ~Live(q)'
    BY <2>2 DEF Together
  <2> QED BY <2>1, <2>2
<1>3. Sound /\ NoFailover /\ [GatewayNext]_vars => NoFailover'
  BY StepKeepsNoFailover DEF Sound
<1>4. AllTogether => PlacementsAgree
  BY NotInProgress DEF Together, PlacementsAgree
<1> HIDE DEF AllTogether
<1> QED BY <1>1, <1>2, <1>3, <1>4, SoundAlways, PTL DEF GatewaySpec

\* As long as a rollback can write the row back, a migration that its session outlives
\* ends with memory, route and row of it on one backend (MigrationIsWhole), whatever
\* failed over before and whatever a probe or the sweep does between its steps
\* (sessions_migration.go:49-198).
THEOREM MigrationsAreWhole ==
  ASSUME "sessionRow" \notin Faults PROVE GatewaySpec => MigrationIsWhole
<1> DEFINE Ended(p) == /\ op # None /\ op.kind \in {"moved", "persisted"} /\ op.peer = p
                       /\ op' = None
                       /\ session'[p] # None /\ session'[p].id = op.found.id
           Whole(p) == /\ route'[p] = session'[p]
                       /\ row'[p] = session'[p] \/ (op.kind = "moved" /\ row'[p] = row[p])
           AllWhole == \A p \in Peers : Ended(p) => Whole(p)
<1>1. Sound /\ Sound' /\ [GatewayNext]_vars => AllWhole
  <2> SUFFICES ASSUME Sound, Sound', [GatewayNext]_vars, NEW q \in Peers, Ended(q)
               PROVE  Whole(q)
    OBVIOUS
  <2>1. Live(q)' /\ Migrates(q) /\ ~Idle /\ op \in Migrating
    BY HolderType DEF Live, Migrates, Idle, Sound
  <2>2. [op EXCEPT !.kind = "persisted"] # None /\ [op EXCEPT !.changed = TRUE] # None
    BY <2>1, NoneIsNoOperation DEF Migrating
  <2>3. MoveUndone(q) \/ MoveCommitted(q)
    BY <2>1, <2>2, LiveStep DEF LiveStepEffect, Sound, LeftAlone, Overtaken, Planned, Reused, Renewed,
       MoveBegun, MovePersisted, FailedOver, FailsOver, Idle, Migrates, Migrating
  <2>4. CASE MoveUndone(q)
    BY <2>4, UndoneToFound
  <2>5. CASE MoveCommitted(q)
    BY <2>1, <2>5, LiveRecords DEF MoveCommitted, Unmoved
  <2> QED BY <2>3, <2>4, <2>5
<1>2. AllWhole => [AllWhole]_vars
  OBVIOUS
<1> HIDE DEF AllWhole
<1>3. GatewaySpec => [][AllWhole]_vars
  BY <1>1, <1>2, SoundAlways, PTL DEF GatewaySpec
<1> QED BY <1>3 DEF MigrationIsWhole, AllWhole

-----------------------------------------------------------------------------
(* Failover.                                                                *)

\* A row is written or not, but not in the middle of a migration.
MigrationsPersist ==
    "migrate" \notin Ops \/ ("sessionRow" \notin Faults /\ "migrateRow" \notin Faults)

\* A migration is begun only if migrations are invoked, and onto a backend that
\* only a probe's write can make ineligible before it commits: enabling and
\* disabling wait for Service.mu (sessions_migration.go:124-141, pool.go:657-690).
MigrationUnhindered ==
    op # None /\ op.kind \in {"moved", "persisted"} =>
        /\ "migrate" \in Ops
        /\ "probe" \notin Ops => Eligible(op.target) /\ ~op.changed

\* How one step changes the operation that holds Service.mu.
LEMMA OpStep ==
  ASSUME GatewayTypeOK, [GatewayNext]_vars
  PROVE  \/ op' = op /\ (op = None \/ "probe" \in Ops \/ UNCHANGED <<enabled, status>>)
         \/ op' = None
         \/ op'.kind \in {"disconnect", "failover"}
         \/ \E p \in Peers, b \in Backends : MigrateMove(p, b)
         \/ /\ op \in Migrating
            /\ op' = [op EXCEPT !.kind = "persisted"]
            /\ UNCHANGED <<enabled, status>>
         \/ op \in Migrating /\ "probe" \in Ops /\ op' = [op EXCEPT !.changed = TRUE]
<1>1. CASE MigratePersist
  <2>1. op \in Migrating
    BY <1>1, HolderType DEF MigratePersist
  <2> QED BY <1>1, <2>1 DEF MigratePersist, MigrateUndone, SessionGivenBack
<1>2. CASE MigrateCommit
  BY <1>2 DEF MigrateCommit, MigrateUndone, SessionGivenBack
<1>3. ASSUME NEW b \in Backends, DisableBackend(b)
      PROVE  op = None /\ (op' = op \/ op'.kind = "failover")
  BY <1>3 DEF DisableBackend, Idle
<1>4. ASSUME NEW p \in Peers, DisconnectFind(p) PROVE op'.kind = "disconnect"
  BY <1>4 DEF DisconnectFind
<1>5. ASSUME NEW b \in Backends, NEW s \in Statuses, SetTunnelStatus(b, s)
      PROVE  "probe" \in Ops /\ (op' = op \/ (op \in Migrating /\ op' = [op EXCEPT !.changed = TRUE]))
  BY <1>5, HolderType DEF SetTunnelStatus
<1>6. ASSUME NEW b \in Backends, EnableBackend(b) PROVE op = None /\ op' = op
  BY <1>6 DEF EnableBackend, Idle
<1> QED
  BY <1>1, <1>2, <1>3, <1>4, <1>5, <1>6
     DEF GatewayNext, vars, Admit, AdmitReuse, AdmitFresh, AdmitNotPersisted,
         AdmitNotRegistered, Reap, Revoke, PruneExpired, DisconnectClose, Failover,
         CheckTimeouts, ReconcileRead, ReconcileApply, Restart

\* No step but a probe's hinders a migration between its steps.
LEMMA StepKeepsUnhindered ==
  GatewayTypeOK /\ MigrationUnhindered /\ [GatewayNext]_vars => MigrationUnhindered'
<1> SUFFICES ASSUME GatewayTypeOK, MigrationUnhindered, [GatewayNext]_vars
             PROVE  MigrationUnhindered'
  OBVIOUS
<1>1. CASE op' = op /\ (op = None \/ "probe" \in Ops \/ UNCHANGED <<enabled, status>>)
  BY <1>1 DEF MigrationUnhindered, Eligible
<1>2. CASE op' = None \/ op'.kind \in {"disconnect", "failover"}
  BY <1>2 DEF MigrationUnhindered
<1>3. ASSUME NEW p \in Peers, NEW b \in Backends, MigrateMove(p, b) PROVE MigrationUnhindered'
  BY <1>3 DEF MigrateMove, MigrationUnhindered, Eligible
<1>4. CASE op \in Migrating /\ op' = [op EXCEPT !.kind = "persisted"] /\ UNCHANGED <<enabled, status>>
  <2>1. op # None /\ op.kind \in {"moved", "persisted"}
    BY <1>4, NoneIsNoOperation DEF Migrating
  <2>2. op'.target = op.target /\ op'.changed = op.changed
    BY <1>4 DEF Migrating
  <2> QED BY <1>4, <2>1, <2>2 DEF MigrationUnhindered, Eligible
<1>5. CASE op \in Migrating /\ "probe" \in Ops /\ op' = [op EXCEPT !.changed = TRUE]
  <2>1. op # None /\ op.kind \in {"moved", "persisted"}
    BY <1>5, NoneIsNoOperation DEF Migrating
  <2> QED BY <1>5, <2>1 DEF MigrationUnhindered
<1> QED BY <1>1, <1>2, <1>3, <1>4, <1>5, OpStep

\* The route follows the row or, if a rolled-back migration has parted them, the
\* affinity; what a failover has planned by affinity is still placed there.
Recorded(q) ==
    Live(q) =>
        /\ ~Migrates(q) => row[q] = route[q] \/ affinity[q] \in {route[q].backend, None}
        /\ FailsOver /\ q \in op.sticky => affinity[q] \in {op.from, None}

\* A failover, a migration and its rollback leave each route with its row or
\* with its affinity.
LEMMA StepKeepsRecorded ==
  ASSUME MigrationsPersist, Sound, Sound', MigrationUnhindered, [GatewayNext]_vars,
         NEW q \in Peers, Recorded(q), Live(q)'
  PROVE  Recorded(q)'
<1> DEFINE Goal == /\ ~Migrates(q)' => row'[q] = route'[q] \/ affinity'[q] \in {route'[q].backend, None}
                   /\ FailsOver' /\ q \in op'.sticky => affinity'[q] \in {op'.from, None}
<1> SUFFICES Goal
  BY DEF Recorded
<1>1. Live(q) => /\ ~Migrates(q) => row[q] = route[q] \/ affinity[q] \in {route[q].backend, None}
                 /\ FailsOver /\ q \in op.sticky => affinity[q] \in {op.from, None}
  BY DEF Recorded
<1>2. Migrates(q) => "sessionRow" \notin Faults /\ "migrateRow" \notin Faults
  BY DEF Migrates, MigrationUnhindered, MigrationsPersist
<1>3. Idle /\ op' = op => ~Migrates(q) /\ ~FailsOver'
  BY DEF Idle, Migrates, FailsOver
<1>4. op' = None => ~FailsOver'
  BY DEF FailsOver
<1>5. ASSUME Migrates(q), op' = [op EXCEPT !.kind = "persisted"] \/ op' = [op EXCEPT !.changed = TRUE]
      PROVE  Migrates(q)' /\ ~FailsOver'
  <2>1. op \in Migrating
    BY <1>5, HolderType DEF Migrates, Sound
  <2>2. op' \in Migrating /\ op'.peer = op.peer
    BY <1>5, <2>1 DEF Migrating
  <2>3. op' # None /\ op'.kind \in {"moved", "persisted"}
    BY <2>2, NoneIsNoOperation DEF Migrating
  <2> QED BY <1>5, <2>2, <2>3 DEF Migrates, FailsOver
<1>6. CASE LeftAlone(q)
  BY <1>1, <1>6 DEF LeftAlone, Unmoved, Migrates, FailsOver
<1>7. CASE Overtaken(q)
  BY <1>5, <1>7 DEF Overtaken
<1>8. CASE Planned(q)
  BY <1>1, <1>8, NotInProgress DEF Planned, Unmoved
<1>9. CASE Reused(q)
  BY <1>3, <1>9 DEF Reused, Unmoved
<1>10. CASE Renewed(q)
  BY <1>3, <1>10 DEF Renewed
<1>11. CASE MoveBegun(q)
  BY <1>11, MoveBegins
<1>12. CASE MovePersisted(q)
  BY <1>5, <1>12 DEF MovePersisted
<1>13. CASE MoveUndone(q)
  BY <1>2, <1>4, <1>13, UndoneToFound DEF MoveUndone
<1>14. CASE MoveCommitted(q)
  <2>1. row'[q] = route'[q]
    BY <1>14, LiveRecords DEF MoveCommitted, Unmoved
  <2> QED BY <1>4, <1>14, <2>1 DEF MoveCommitted
<1>15. CASE FailedOver(q)
  <2>1. /\ Live(q) /\ FailsOver /\ op.plan[q] \in Backends
        /\ route'[q] = Moved(route[q], op.plan[q])
        /\ route[q] \in Placement /\ row[q] \in Placement /\ row[q].id = route[q].id
        /\ q \in DOMAIN op.found => op.found[q] = row[q]
    BY <1>15, LiveRecords DEF FailedOver
  <2>2. route'[q].backend = op.plan[q]
    BY <2>1, MovedIsPlacement
  <2>3. CASE q \in op.sticky
    BY <1>1, <1>4, <1>15, <2>1, <2>2, <2>3 DEF FailedOver
  <2>4. CASE q \notin op.sticky
    BY <1>4, <1>15, <2>1, <2>4, SamePlacement DEF FailedOver
  <2> QED BY <2>3, <2>4
<1> HIDE DEF Goal
<1> QED
  BY <1>6, <1>7, <1>8, <1>9, <1>10, <1>11, <1>12, <1>13, <1>14, <1>15, LiveStep
     DEF LiveStepEffect, Sound

\* Unless a row cannot be written in the middle of a migration, the route of every
\* live session of an idle service leads where its row or its affinity places it
\* (RouteIsRecorded), whatever fails over, migrates, rolls back or expires
\* (backend_lifecycle.go:96-118, sessions_migration.go:49-198).
THEOREM RoutesAreRecorded ==
  ASSUME MigrationsPersist PROVE GatewaySpec => []RouteIsRecorded
<1> DEFINE AllRecorded == \A q \in Peers : Recorded(q)
<1>1. GatewayInit => MigrationUnhindered /\ AllRecorded
  BY DEF GatewayInit, MigrationUnhindered, Recorded, Live
<1>2. Sound /\ Sound' /\ MigrationUnhindered /\ AllRecorded /\ [GatewayNext]_vars => AllRecorded'
  <2> SUFFICES ASSUME Sound, Sound', MigrationUnhindered, AllRecorded, [GatewayNext]_vars,
                      NEW q \in Peers
               PROVE  Recorded(q)'
    OBVIOUS
  <2>1. CASE Live(q)'
    BY <2>1, StepKeepsRecorded
  <2>2. CASE ~Live(q)'
    BY <2>2 DEF Recorded
  <2> QED BY <2>1, <2>2
<1>3. Sound /\ MigrationUnhindered /\ [GatewayNext]_vars => MigrationUnhindered'
  BY StepKeepsUnhindered DEF Sound
<1>4. AllRecorded => RouteIsRecorded
  BY NotInProgress DEF Recorded, RouteIsRecorded
<1> HIDE DEF AllRecorded
<1> QED BY <1>1, <1>2, <1>3, <1>4, SoundAlways, PTL DEF GatewaySpec

\* No migration is ever rolled back: rows can be written and no status changes
\* between the steps of one.
MigrationsComplete ==
    /\ "sessionRow" \notin Faults
    /\ "migrate" \notin Ops \/ ("probe" \notin Ops /\ "migrateRow" \notin Faults)

\* Then row, route and affinity stay together, and a failover that finds a session
\* by its affinity has found its row too.
Joined(q) ==
    Live(q) =>
        /\ ~Migrates(q) => row[q] = route[q] /\ affinity[q] \in {row[q].backend, None}
        /\ FailsOver =>
             /\ q \in op.sticky => q \in DOMAIN op.found /\ affinity[q] \in {op.from, None}
             /\ q \in DOMAIN op.found /\ q \notin op.sticky => affinity[q] = None

\* Where no migration is rolled back a failover moves all three or none.
LEMMA StepKeepsJoined ==
  ASSUME MigrationsComplete, Sound, Sound', MigrationUnhindered, [GatewayNext]_vars,
         NEW q \in Peers, Joined(q), Live(q)'
  PROVE  Joined(q)'
<1> DEFINE Goal == /\ ~Migrates(q)' => row'[q] = route'[q] /\ affinity'[q] \in {row'[q].backend, None}
                   /\ FailsOver' =>
                        /\ q \in op'.sticky => q \in DOMAIN op'.found /\ affinity'[q] \in {op'.from, None}
                        /\ q \in DOMAIN op'.found /\ q \notin op'.sticky => affinity'[q] = None
<1> SUFFICES Goal
  BY DEF Joined
<1>1. Live(q) => /\ ~Migrates(q) => row[q] = route[q] /\ affinity[q] \in {row[q].backend, None}
                 /\ FailsOver =>
                      /\ q \in op.sticky => q \in DOMAIN op.found /\ affinity[q] \in {op.from, None}
                      /\ q \in DOMAIN op.found /\ q \notin op.sticky => affinity[q] = None
  BY DEF Joined
<1>2. ~MoveUndone(q)
  <2> SUFFICES ASSUME MoveUndone(q) PROVE FALSE
    OBVIOUS
  <2>1. "migrate" \in Ops /\ ("probe" \notin Ops => Eligible(op.target) /\ ~op.changed)
    BY DEF MoveUndone, Migrates, MigrationUnhindered
  <2>2. ~(Eligible(op.target) /\ ~op.changed)
    BY <2>1, UndoneToFound DEF MigrationsComplete
  <2> QED BY <2>1, <2>2 DEF MigrationsComplete
<1>3. Idle /\ op' = op => ~Migrates(q) /\ ~FailsOver'
  BY DEF Idle, Migrates, FailsOver
<1>4. op' = None => ~FailsOver'
  BY DEF FailsOver
<1>5. ASSUME Migrates(q), op' = [op EXCEPT !.kind = "persisted"] \/ op' = [op EXCEPT !.changed = TRUE]
      PROVE  Migrates(q)' /\ ~FailsOver'
  <2>1. op \in Migrating
    BY <1>5, HolderType DEF Migrates, Sound
  <2>2. op' \in Migrating /\ op'.peer = op.peer
    BY <1>5, <2>1 DEF Migrating
  <2>3. op' # None /\ op'.kind \in {"moved", "persisted"}
    BY <2>2, NoneIsNoOperation DEF Migrating
  <2> QED BY <1>5, <2>2, <2>3 DEF Migrates, FailsOver
<1>6. CASE LeftAlone(q)
  BY <1>1, <1>6 DEF LeftAlone, Unmoved, Migrates, FailsOver
<1>7. CASE Overtaken(q)
  BY <1>5, <1>7 DEF Overtaken
<1>8. CASE Planned(q)
  <2>1. /\ row[q] = route[q] /\ affinity[q] \in {row[q].backend, None} /\ row[q] # None
        /\ affinity[q] = op'.from => affinity[q] # None
    <3>1. Live(q) /\ ~Migrates(q)
      BY <1>8, NotInProgress DEF Planned, Unmoved
    <3>2. op'.from \in Backends
      BY <1>8, HolderType, PlanType DEF Planned, FailsOver, Sound, FailingOver, GatewayTypeOK,
         Disconnecting, Migrating
    <3> QED BY <1>1, <3>1, <3>2, LiveRecords, NoneAssumption DEF RowIs
  <2> QED BY <1>8, <2>1 DEF Planned, Unmoved
<1>9. CASE Reused(q)
  BY <1>1, <1>3, <1>9 DEF Reused, Unmoved
<1>10. CASE Renewed(q)
  BY <1>3, <1>10 DEF Renewed
<1>11. CASE MoveBegun(q)
  BY <1>11, MoveBegins
<1>12. CASE MovePersisted(q)
  BY <1>5, <1>12 DEF MovePersisted
<1>13. CASE MoveCommitted(q)
  BY <1>4, <1>13, LiveRecords DEF MoveCommitted, Unmoved
<1>14. CASE FailedOver(q)
  <2>1. /\ Live(q) /\ FailsOver /\ op.plan[q] \in Backends
        /\ DOMAIN op.plan = op.sticky \cup DOMAIN op.found
        /\ route'[q] = Moved(route[q], op.plan[q])
        /\ row[q] \in Placement
        /\ q \in DOMAIN op.found => op.found[q] = row[q]
    BY <1>14, LiveRecords DEF FailedOver
  <2>2. row[q] = route[q] /\ q \in DOMAIN op.found
    BY <1>1, <1>14, <2>1 DEF FailedOver, FailsOver, Migrates
  <2>3. row'[q] = Moved(row[q], op.plan[q])
    BY <1>14, <2>1, <2>2 DEF FailedOver, MigrationsComplete
  <2>4. row'[q] = route'[q] /\ row'[q].backend = op.plan[q]
    BY <2>1, <2>2, <2>3, MovedIsPlacement
  <2>5. affinity'[q] \in {op.plan[q], None}
    BY <1>1, <1>14, <2>1, <2>2 DEF FailedOver
  <2> QED BY <1>4, <1>14, <2>4, <2>5 DEF FailedOver
<1> HIDE DEF Goal
<1> QED
  BY <1>2, <1>6, <1>7, <1>8, <1>9, <1>10, <1>11, <1>12, <1>13, <1>14, LiveStep
     DEF LiveStepEffect, Sound

\* Unless disable, migrate and what rolls a migration back, a probe's status write or a
\* failed write of the row, are all in play, the row and the route of every live session
\* of an idle service agree (RouteMatchesRow): it takes a migration rolled back after a
\* failover to part them
\* (backend_lifecycle.go:96-118, sessions_migration.go:49-75).
THEOREM RoutesMatchRows ==
  ASSUME "sessionRow" \notin Faults,
         ~({"disable", "migrate"} \subseteq Ops) \/ ("probe" \notin Ops /\ "migrateRow" \notin Faults)
  PROVE  GatewaySpec => []RouteMatchesRow
<1>1. ASSUME "disable" \notin Ops PROVE GatewaySpec => []RouteMatchesRow
  <2>1. RowsFollowSessions
    BY <1>1 DEF RowsFollowSessions
  <2>2. GatewaySpec => []PlacementsAgree
    BY <2>1, PlacementsDoAgree
  <2>3. PlacementsAgree => RouteMatchesRow
    BY DEF PlacementsAgree, RouteMatchesRow
  <2> QED BY <2>2, <2>3, PTL
<1>2. ASSUME MigrationsComplete PROVE GatewaySpec => []RouteMatchesRow
  <2> DEFINE AllJoined == \A q \in Peers : Joined(q)
  <2>1. GatewayInit => MigrationUnhindered /\ AllJoined
    BY DEF GatewayInit, MigrationUnhindered, Joined, Live
  <2>2. Sound /\ Sound' /\ MigrationUnhindered /\ AllJoined /\ [GatewayNext]_vars => AllJoined'
    <3> SUFFICES ASSUME Sound, Sound', MigrationUnhindered, AllJoined, [GatewayNext]_vars,
                        NEW q \in Peers
                 PROVE  Joined(q)'
      OBVIOUS
    <3>1. CASE Live(q)'
      BY <1>2, <3>1, StepKeepsJoined
    <3>2. CASE ~Live(q)'
      BY <3>2 DEF Joined
    <3> QED BY <3>1, <3>2
  <2>3. Sound /\ MigrationUnhindered /\ [GatewayNext]_vars => MigrationUnhindered'
    BY StepKeepsUnhindered DEF Sound
  <2>4. AllJoined => RouteMatchesRow
    BY NotInProgress DEF Joined, RouteMatchesRow
  <2> HIDE DEF AllJoined
  <2> QED BY <2>1, <2>2, <2>3, <2>4, SoundAlways, PTL DEF GatewaySpec
<1> QED BY <1>1, <1>2 DEF MigrationsComplete

-----------------------------------------------------------------------------
(* The gauges.                                                              *)

\* What the gauge of a backend should say.
Held(b) == Cardinality(On(session, b)) + Cardinality(Owed(b))

\* Every operation is one critical section: none looks up a session, a target or a
\* plan and acts on it in a later one.
OperationsAreWhole == {"disconnect", "migrate", "disable"} \cap Ops = {}

\* Sets of peers that differ in one peer differ in size accordingly.
LEMMA OneDiffers ==
  ASSUME NEW S \in SUBSET Peers, NEW T \in SUBSET Peers, NEW p, S \ {p} = T \ {p}
  PROVE  /\ Cardinality(S) \in Nat /\ Cardinality(T) \in Nat
         /\ p \in S => Cardinality(S) >= 1
         /\ Cardinality(T) = Cardinality(S) + (IF p \in T THEN 1 ELSE 0) - (IF p \in S THEN 1 ELSE 0)
<1>1. IsFiniteSet(S) /\ IsFiniteSet(T)
  BY FiniteAssumption, FS_Subset
<1>2. /\ Cardinality(S \ {p}) = IF p \in S THEN Cardinality(S) - 1 ELSE Cardinality(S)
      /\ Cardinality(T \ {p}) = IF p \in T THEN Cardinality(T) - 1 ELSE Cardinality(T)
  BY <1>1, FS_RemoveElement
<1>3. Cardinality(S) \in Nat /\ Cardinality(T) \in Nat /\ Cardinality(S \ {p}) \in Nat
  BY <1>1, CountIsNat
<1> QED BY <1>2, <1>3

\* Sweeping some of the sessions of a backend splits their number.
LEMMA SweptCount ==
  ASSUME NEW S \in SUBSET Peers, NEW T
  PROVE  /\ Cardinality(S) \in Nat /\ Cardinality(S \ T) \in Nat /\ Cardinality(S \cap T) \in Nat
         /\ Cardinality(S) = Cardinality(S \ T) + Cardinality(S \cap T)
<1>1. IsFiniteSet(S)
  BY FiniteAssumption, FS_Subset
<1>2. Cardinality(S \ T) = Cardinality(S) - Cardinality(S \cap T)
  BY <1>1, FS_Difference
<1>3. /\ Cardinality(S) \in Nat /\ Cardinality(S \ T) \in Nat /\ Cardinality(S \cap T) \in Nat
  BY CountIsNat
<1> QED BY <1>2, <1>3

\* What the tables count are numbers.
LEMMA HeldIsNat ==
  ASSUME NEW b
  PROVE  /\ On(session, b) \in SUBSET Peers /\ Owed(b) \in SUBSET Peers
         /\ On(row, b) \in SUBSET Peers
         /\ Cardinality(On(session, b)) \in Nat /\ Cardinality(Owed(b)) \in Nat
         /\ Held(b) \in Nat
<1>1. /\ On(session, b) \in SUBSET Peers /\ Owed(b) \in SUBSET Peers
      /\ On(row, b) \in SUBSET Peers
  BY DEF On, Owed
<1> QED BY <1>1, CountIsNat DEF Held

\* A decrement that finds something to decrement takes one away.
LEMMA DecrementCounts ==
  ASSUME gauge \in [Backends -> Nat], NEW a \in Backends, NEW t \in Backends, NEW b \in Backends
  PROVE  /\ Incremented(t)[b] = gauge[b] + (IF b = t THEN 1 ELSE 0)
         /\ gauge[a] >= 1 =>
              /\ Decremented(a)[b] = gauge[b] - (IF b = a THEN 1 ELSE 0)
              /\ Transferred(a, t)[b] = gauge[b] - (IF b = a THEN 1 ELSE 0) + (IF b = t THEN 1 ELSE 0)
  BY DEF Incremented, Decremented, Transferred, Less

Follows(b) == gauge'[b] - gauge[b] = Held(b)' - Held(b)

\* A backend that holds a session, or owes the count of one, has a gauge of one or more.
LEMMA CountedOnce ==
  ASSUME GatewayTypeOK, NEW p \in Peers, NEW b \in Backends, gauge[b] >= Held(b),
         p \in On(session, b) \cup Owed(b)
  PROVE  gauge[b] >= 1
<1>1. \A S \in SUBSET Peers : p \in S => Cardinality(S) >= 1
  BY OneDiffers
<1>2. gauge[b] \in Nat
  BY DEF GatewayTypeOK
<1> QED BY <1>1, <1>2, HeldIsNat DEF Held

\* The live sessions of a backend after the session of one peer has changed.
LEMMA SessionMoves ==
  ASSUME GatewayTypeOK, NEW p \in Peers, NEW new, session' = [session EXCEPT ![p] = new],
         timedOut' = timedOut, NEW b \in Backends
  PROVE  Held(b)' = Held(b) + (IF new # None /\ new.backend = b THEN 1 ELSE 0)
                            - (IF p \in On(session, b) THEN 1 ELSE 0)
<1>1. On(session, b) \ {p} = On(session', b) \ {p}
  BY DEF On, GatewayTypeOK
<1>2. p \in On(session', b) <=> new # None /\ new.backend = b
  BY DEF On, GatewayTypeOK
<1>3. On(session', b) \in SUBSET Peers
  BY DEF On
<1>4. Cardinality(On(session', b)) = Cardinality(On(session, b))
        + (IF new # None /\ new.backend = b THEN 1 ELSE 0)
        - (IF p \in On(session, b) THEN 1 ELSE 0)
  <2> DEFINE S == On(session, b)
             T == On(session', b)
  <2>1. S \in SUBSET Peers /\ T \in SUBSET Peers /\ S \ {p} = T \ {p}
    BY <1>1, <1>3, HeldIsNat
  <2> HIDE DEF S, T
  <2>2. Cardinality(T) = Cardinality(S) + (IF p \in T THEN 1 ELSE 0) - (IF p \in S THEN 1 ELSE 0)
    BY <2>1, OneDiffers
  <2> QED BY <1>2, <2>2 DEF S, T
<1>5. Owed(b)' = Owed(b)
  BY DEF Owed, On
<1>6. Held(b)' = Cardinality(On(session', b)) + Cardinality(Owed(b)')
  BY DEF Held, On
<1> QED BY <1>4, <1>5, <1>6, HeldIsNat DEF Held

\* Admission moves the gauges with the sessions; where the row of a replacement
\* cannot be written the old count stays behind (session.go:243-253,
\* vpn_ingress.go:303-364).
LEMMA AdmitCounts ==
  ASSUME GatewayTypeOK, \A b \in Backends : gauge[b] >= Held(b),
         NEW p \in Peers, Admit(p), NEW b \in Backends
  PROVE  \/ Follows(b)
         \/ "sessionRow" \in Faults /\ gauge'[b] = gauge[b] /\ Held(b)' <= Held(b)
<1> DEFINE a == session[p].backend
           gone == IF p \in On(session, b) THEN 1 ELSE 0
<1>0. ASSUME session' = [session EXCEPT ![p] = None], timedOut' = timedOut
      PROVE  Held(b)' = Held(b) - gone
  <2>1. Held(b)' = Held(b) + 0 - gone
    BY <1>0, SessionMoves, Zenon
  <2> QED BY <2>1, HeldIsNat
<1>1. Live(p) => a \in Backends /\ p \in On(session, a) /\ gauge[a] >= 1
  <2>1. Live(p) => a \in Backends /\ p \in On(session, a)
    BY TableTypes DEF Live, On
  <2> QED BY <2>1, CountedOnce
<1>2. p \in On(session, b) <=> Live(p) /\ a = b
  BY DEF On, Live
<1>3. gauge \in [Backends -> Nat]
  BY DEF GatewayTypeOK
<1>4. gauge[b] \in Nat /\ Held(b) \in Nat
  BY <1>3, HeldIsNat
<1>5. CASE AdmitReuse(p)
  <2>1. gauge' = gauge /\ Held(b)' = Held(b)
    BY <1>5 DEF AdmitReuse, Held, On, Owed
  <2> QED BY <1>4, <2>1 DEF Follows
<1>6. CASE AdmitFresh(p)
  <2>1. PICK t \in Selectable(p) :
          /\ session' = [session EXCEPT ![p] = [id |-> FreshID(p), backend |-> t]]
          /\ gauge' = IF Live(p) THEN Transferred(a, t) ELSE Incremented(t)
    BY <1>6 DEF AdmitFresh
  <2>2. t \in Backends
    BY <2>1 DEF Selectable, Candidates
  <2> DEFINE new == [id |-> FreshID(p), backend |-> t]
  <2>3. new # None /\ new.backend = t
    BY <1>6, <2>2, FreshIDIsFresh, NotAPlacement DEF AdmitFresh, Placement
  <2>4. session' = [session EXCEPT ![p] = new] /\ timedOut' = timedOut
    BY <1>6, <2>1 DEF AdmitFresh
  <2> HIDE DEF new
  <2>5. Held(b)' = Held(b) + (IF new # None /\ new.backend = b THEN 1 ELSE 0) - gone
    BY <2>4, SessionMoves
  <2>6. CASE Live(p)
    <3>1. gauge'[b] = gauge[b] - (IF b = a THEN 1 ELSE 0) + (IF b = t THEN 1 ELSE 0)
      BY <1>1, <1>3, <2>1, <2>2, <2>6, DecrementCounts
    <3> QED BY <1>2, <1>4, <2>3, <2>5, <2>6, <3>1 DEF Follows
  <2>7. CASE ~Live(p)
    <3>1. gauge'[b] = gauge[b] + (IF b = t THEN 1 ELSE 0)
      BY <1>3, <2>1, <2>2, <2>7, DecrementCounts
    <3> QED BY <1>2, <1>4, <2>3, <2>5, <2>7, <3>1 DEF Follows
  <2> QED BY <2>6, <2>7
<1>7. CASE AdmitNotPersisted(p)
  <2>1. /\ session' = [session EXCEPT ![p] = None]
        /\ timedOut' = timedOut /\ gauge' = gauge /\ "sessionRow" \in Faults
    BY <1>7 DEF AdmitNotPersisted
  <2>2. Held(b)' = Held(b) - gone
    BY <1>0, <2>1
  <2> QED BY <1>4, <2>1, <2>2
<1>8. CASE AdmitNotRegistered(p)
  <2>1. /\ session' = [session EXCEPT ![p] = None]
        /\ timedOut' = timedOut
        /\ gauge' = IF Live(p) THEN Decremented(a) ELSE gauge
    BY <1>8 DEF AdmitNotRegistered
  <2>2. Held(b)' = Held(b) - gone
    BY <1>0, <2>1
  <2>3. gauge'[b] = gauge[b] - (IF Live(p) /\ b = a THEN 1 ELSE 0)
    BY <1>1, <1>3, <1>4, <2>1, DecrementCounts
  <2> QED BY <1>2, <1>4, <2>2, <2>3 DEF Follows
<1> QED BY <1>5, <1>6, <1>7, <1>8 DEF Admit

\* Without a migration or a failover to wait for, nothing holds Service.mu between
\* two steps.
LEMMA StepStaysIdle ==
  ASSUME OperationsAreWhole, Idle, [GatewayNext]_vars PROVE Idle'
<1>1. /\ \A p \in Peers : ~DisconnectFind(p)
      /\ \A p \in Peers, b \in Backends : ~MigrateMove(p, b)
      /\ \A b \in Backends : ~DisableBackend(b)
  BY DEF OperationsAreWhole, DisconnectFind, MigrateMove, DisableBackend
<1>2. ~DisconnectClose /\ ~MigratePersist /\ ~MigrateCommit /\ ~Failover
  BY DEF Idle, DisconnectClose, MigratePersist, MigrateCommit, Failover
<1> QED
  BY <1>1, <1>2
     DEF GatewayNext, vars, Idle, Admit, AdmitReuse, AdmitFresh, AdmitNotPersisted,
         AdmitNotRegistered, Reap, Revoke, PruneExpired, EnableBackend, SetTunnelStatus,
         CheckTimeouts, ReconcileRead, ReconcileApply, Restart

\* The session a peer came back with is not the one that was swept
\* (session.go:218-223).
SweptIsGone ==
    \A p \in Peers : Live(p) /\ timedOut[p] # None => session[p].id # timedOut[p].id

\* A sweep names sessions that it has ended, and a later one has a fresh ID.
LEMMA StepKeepsSweptGone ==
  ASSUME Sound, Sound', OperationsAreWhole, Idle, SweptIsGone, [GatewayNext]_vars
  PROVE  SweptIsGone'
<1> SUFFICES ASSUME NEW q \in Peers, Live(q)', timedOut'[q] # None
             PROVE  session'[q].id # timedOut'[q].id
  BY DEF SweptIsGone
<1>1. /\ timedOut[q] # None
      /\ timedOut'[q].id = timedOut[q].id
  <2>1. CASE CheckTimeouts
    BY <2>1 DEF CheckTimeouts, Live
  <2>2. CASE ReconcileApply
    <3>1. timedOut'[q] = timedOut[q] \/ (timedOut[q] # None /\ timedOut'[q] = [timedOut[q] EXCEPT !.settled = TRUE])
      BY <2>2 DEF ReconcileApply
    <3>2. timedOut[q] # None => timedOut[q] \in Timeout
      BY DEF Sound, GatewayTypeOK
    <3>3. timedOut[q] # None /\ timedOut'[q].id = timedOut[q].id
      BY <3>1, <3>2 DEF Timeout
    <3> QED BY <3>3
  <2>3. CASE \E p \in Peers : Reap(p)
    <3>1. PICK p \in Peers : timedOut' = [timedOut EXCEPT ![p] = None] /\ session' = session
      BY <2>3 DEF Reap
    <3>2. q # p /\ timedOut'[q] = timedOut[q]
      BY <3>1 DEF Sound, GatewayTypeOK
    <3> QED BY <3>2
  <2>4. ~Restart
    BY DEF Restart, Live
  <2>5. CASE timedOut' = timedOut
    BY <2>5
  <2> QED
    BY <2>1, <2>2, <2>3, <2>4, <2>5
       DEF GatewayNext, vars, Admit, AdmitReuse, AdmitFresh, AdmitNotPersisted,
           AdmitNotRegistered, Revoke, PruneExpired, DisconnectFind, DisconnectClose, MigrateMove,
           MigratePersist, MigrateCommit, DisableBackend, Failover, EnableBackend,
           SetTunnelStatus, ReconcileRead
<1>2. CASE Renewed(q)
  <2>1. PICK b \in Selectable(q), id \in SessionIDs \ UsedIDs(q) :
          session'[q] = [id |-> id, backend |-> b]
    BY <1>2 DEF Renewed
  <2>2. timedOut[q].id \in UsedIDs(q)
    BY <1>1 DEF UsedIDs
  <2> QED BY <1>1, <2>1, <2>2
<1>3. CASE session'[q] = session[q]
  BY <1>1, <1>3 DEF SweptIsGone, Live
<1>4. Renewed(q) \/ session'[q] = session[q]
  BY LiveStep, NotInProgress
     DEF LiveStepEffect, LeftAlone, Overtaken, Planned, Reused, Unmoved, MoveBegun, MovePersisted,
         MoveUndone, MoveCommitted, FailedOver, Sound, OperationsAreWhole
<1> QED BY <1>2, <1>3, <1>4

\* A sweep moves the count of what it ends to what is owed (session.go:503-536).
LEMMA SweepCounts ==
  ASSUME GatewayTypeOK, CheckTimeouts, NEW b \in Backends
  PROVE  Follows(b)
<1>1. PICK idle \in SUBSET {p \in Peers : Live(p)} :
        /\ timedOut' = [p \in Peers |->
               IF p \in idle THEN [id |-> session[p].id, backend |-> session[p].backend,
                                   settled |-> FALSE]
               ELSE None]
        /\ session' = [p \in Peers |-> IF p \in idle THEN None ELSE session[p]]
        /\ gauge' = gauge
        /\ \A p \in Peers : timedOut[p] = None
  BY DEF CheckTimeouts
<1>2. On(session', b) = On(session, b) \ idle
  BY <1>1 DEF On
<1>3. Owed(b) = {}
  BY <1>1 DEF Owed, On
<1>4. Owed(b)' = On(session, b) \cap idle
  <2>1. ASSUME NEW p \in Peers
        PROVE  p \in Owed(b)' <=> p \in idle /\ session[p].backend = b
    <3>1. CASE p \in idle
      <4>1. timedOut'[p] = [id |-> session[p].id, backend |-> session[p].backend, settled |-> FALSE]
        BY <1>1, <3>1
      <4>2. timedOut'[p] \in Timeout
        BY <3>1, <4>1, TableTypes DEF Live, Timeout, Placement
      <4> QED BY <3>1, <4>1, <4>2, NotAPlacement DEF Owed, On
    <3>2. CASE p \notin idle
      BY <1>1, <3>2 DEF Owed, On
    <3> QED BY <3>1, <3>2
  <2>2. Owed(b)' \subseteq Peers
    BY DEF Owed, On
  <2> QED BY <2>1, <2>2 DEF On, Live
<1>5. /\ Cardinality(On(session, b)) \in Nat
      /\ Cardinality(On(session, b)) =
           Cardinality(On(session, b) \ idle) + Cardinality(On(session, b) \cap idle)
      /\ Cardinality(On(session, b) \ idle) \in Nat
      /\ Cardinality(On(session, b) \cap idle) \in Nat
  BY HeldIsNat, SweptCount
<1>6. Held(b) = Cardinality(On(session, b)) + 0
  BY <1>3, FS_EmptySet DEF Held
<1>7. Held(b)' = Cardinality(On(session, b) \ idle) + Cardinality(On(session, b) \cap idle)
  BY <1>2, <1>4 DEF Held, On
<1>8. gauge[b] \in Nat
  BY DEF GatewayTypeOK
<1> QED BY <1>1, <1>5, <1>6, <1>7, <1>8 DEF Follows

\* Reaping gives back what is owed, and only that (sessions_lifecycle.go:111-158).
LEMMA ReapCounts ==
  ASSUME GatewayTypeOK, SweptIsGone, \A b \in Backends : gauge[b] >= Held(b),
         NEW p \in Peers, Reap(p), NEW b \in Backends
  PROVE  Follows(b)
<1>1. /\ timedOut' = [timedOut EXCEPT ![p] = None] /\ session' = session
      /\ timedOut[p] \in Timeout /\ timedOut[p] # None
      /\ gauge' = ReapedGauge(p)
  BY DEF Reap, SweptIsGone, LiveAs, GatewayTypeOK
<1> DEFINE a == timedOut[p].backend
<1>2. a \in Backends /\ timedOut[p].settled \in BOOLEAN
  BY <1>1 DEF Timeout
<1>3. p \in Owed(b) <=> a = b /\ ~timedOut[p].settled
  BY <1>1 DEF Owed, On
<1>4. p \notin Owed(b)' /\ Owed(b) \ {p} = Owed(b)' \ {p} /\ Owed(b)' \in SUBSET Peers
  BY <1>1 DEF Owed, On, GatewayTypeOK
<1>5. Cardinality(Owed(b)') = Cardinality(Owed(b)) - (IF p \in Owed(b) THEN 1 ELSE 0)
  <2> DEFINE S == Owed(b)
             T == Owed(b)'
  <2>1. S \in SUBSET Peers /\ T \in SUBSET Peers /\ S \ {p} = T \ {p} /\ p \notin T
    BY <1>4, HeldIsNat
  <2> HIDE DEF S, T
  <2>2. /\ Cardinality(S) \in Nat
        /\ Cardinality(T) = Cardinality(S) + (IF p \in T THEN 1 ELSE 0) - (IF p \in S THEN 1 ELSE 0)
    BY <2>1, OneDiffers
  <2>3. Cardinality(T) = Cardinality(S) - (IF p \in S THEN 1 ELSE 0)
    BY <2>1, <2>2
  <2> QED BY <2>3 DEF S, T
<1>6. Held(b)' = Cardinality(On(session, b)) + Cardinality(Owed(b)')
  BY <1>1 DEF Held, On
<1>7. Held(b)' = Held(b) - (IF p \in Owed(b) THEN 1 ELSE 0)
  BY <1>5, <1>6, HeldIsNat DEF Held
<1>8. gauge \in [Backends -> Nat] /\ gauge[b] \in Nat
  BY DEF GatewayTypeOK
<1>9. gauge'[b] = gauge[b] - (IF p \in Owed(b) THEN 1 ELSE 0)
  <2>1. CASE timedOut[p].settled
    BY <1>1, <1>3, <1>8, <2>1 DEF ReapedGauge
  <2>2. CASE ~timedOut[p].settled
    <3>1. p \in Owed(a)
      BY <1>1, <1>2, <2>2 DEF Owed, On
    <3>2. gauge[a] >= 1
      BY <1>2, <3>1, CountedOnce
    <3>3. gauge'[b] = gauge[b] - (IF b = a THEN 1 ELSE 0)
      BY <1>1, <1>2, <1>8, <2>2, <3>2, DecrementCounts DEF ReapedGauge
    <3> QED BY <1>3, <2>2, <3>3
  <2> QED BY <2>1, <2>2
<1> QED BY <1>7, <1>8, <1>9, HeldIsNat DEF Follows

\* Revoking gives back the count of the session it ends (sessions_lifecycle.go:160-255).
LEMMA RevokeCounts ==
  ASSUME GatewayTypeOK, \A b \in Backends : gauge[b] >= Held(b),
         NEW p \in Peers, Revoke(p), NEW b \in Backends
  PROVE  Follows(b)
<1> DEFINE a == session[p].backend
           gone == IF p \in On(session, b) THEN 1 ELSE 0
<1>1. /\ session' = [session EXCEPT ![p] = None] /\ timedOut' = timedOut
      /\ gauge' = Decremented(a) /\ Live(p)
  BY DEF Revoke
<1>2. a \in Backends /\ p \in On(session, a) /\ (p \in On(session, b) <=> a = b)
  BY <1>1, TableTypes DEF Live, On
<1>3. gauge \in [Backends -> Nat] /\ gauge[b] \in Nat /\ Held(b) \in Nat
  BY HeldIsNat DEF GatewayTypeOK
<1>4. gauge[a] >= 1
  BY <1>2, CountedOnce
<1>5. gauge'[b] = gauge[b] - (IF b = a THEN 1 ELSE 0)
  BY <1>1, <1>2, <1>3, <1>4, DecrementCounts
<1>6. Held(b)' = Held(b) + 0 - gone
  BY <1>1, SessionMoves, Zenon
<1> QED BY <1>2, <1>3, <1>5, <1>6 DEF Follows

\* A reading that may still be applied.
Fresh == snapshot # None /\ ~snapshot.stale

\* An overtaken reading stays overtaken.
LEMMA BumpedIsStale ==
  ASSUME GatewayTypeOK, snapshot' = Bumped PROVE ~Fresh'
<1>1. CASE snapshot = None
  BY <1>1 DEF Bumped, Fresh
<1>2. CASE snapshot # None
  <2>1. snapshot \in Readings
    BY <1>2 DEF GatewayTypeOK
  <2>2. snapshot'.stale = TRUE
    BY <1>2, <2>1 DEF Bumped, Readings
  <2> QED BY <2>2 DEF Fresh
<1> QED BY <1>1, <1>2

\* While a reading may still be applied no session has come or gone since it was
\* taken, and no row but that of a session a migration is moving
\* (service_lifecycle.go:215-219, session.go:204-259).
LEMMA ReadingStep ==
  ASSUME GatewayTypeOK, [GatewayNext]_vars, Idle \/ (RowHasSession /\ NoFailover)
  PROVE  \/ ~Fresh'
         \/ snapshot' = Reading /\ session' = session /\ row' = row /\ op' = op
         \/ Fresh /\ snapshot' = snapshot /\ session' = session /\ row' = row
         \/ /\ Fresh /\ snapshot' = snapshot /\ session' = session
            /\ op \in Migrating /\ RowIs(op.peer, op.found.id)
            /\ op' = [op EXCEPT !.kind = "persisted"]
<1> DEFINE Same == snapshot' = snapshot /\ session' = session /\ row' = row
           Goal == \/ ~Fresh'
                   \/ snapshot' = Reading /\ session' = session /\ row' = row /\ op' = op
                   \/ Fresh /\ snapshot' = snapshot /\ session' = session /\ row' = row
                   \/ /\ Fresh /\ snapshot' = snapshot /\ session' = session
                      /\ op \in Migrating /\ RowIs(op.peer, op.found.id)
                      /\ op' = [op EXCEPT !.kind = "persisted"]
<1> SUFFICES Goal
  OBVIOUS
<1>1. Same => Goal
  BY DEF Fresh
<1>2. snapshot' = Bumped \/ snapshot' = None => Goal
  BY BumpedIsStale DEF Fresh
<1>3. ASSUME NEW p \in Peers, Admit(p) PROVE Goal
  <2>1. CASE AdmitReuse(p)
    BY <1>1, <2>1 DEF AdmitReuse
  <2>2. CASE AdmitFresh(p) \/ AdmitNotRegistered(p)
    BY <1>2, <2>2 DEF AdmitFresh, AdmitNotRegistered
  <2>3. CASE AdmitNotPersisted(p)
    <3>1. CASE Live(p)
      BY <1>2, <2>3, <3>1 DEF AdmitNotPersisted
    <3>2. CASE ~Live(p)
      <4>1. session' = session
        BY <2>3, <3>2 DEF AdmitNotPersisted, Live, GatewayTypeOK
      <4> QED BY <1>1, <2>3, <3>2, <4>1 DEF AdmitNotPersisted
    <3> QED BY <3>1, <3>2
  <2> QED BY <1>3, <2>1, <2>2, <2>3 DEF Admit
<1>4. CASE MigratePersist
  <2>1. op \in Migrating
    BY <1>4, HolderType DEF MigratePersist
  <2>2. CASE MigrateUndone /\ row' = row
    BY <1>1, <1>2, <2>2 DEF MigrateUndone, SessionGivenBack
  <2>3. CASE /\ RowIs(op.peer, op.found.id)
             /\ op' = [op EXCEPT !.kind = "persisted"]
             /\ UNCHANGED <<session, snapshot>>
    BY <2>1, <2>3 DEF Fresh
  <2> QED BY <1>4, <2>2, <2>3 DEF MigratePersist
<1>5. CASE MigrateCommit
  <2>1. op \in Migrating /\ op.peer \in Peers /\ ~Idle
    BY <1>5, HolderType DEF MigrateCommit, Migrating, Idle
  <2>2. CASE LiveAs(op.peer, op.found.id)
    BY <1>2, <1>5, <2>2 DEF MigrateCommit, MigrateUndone, SessionGivenBack
  <2>3. CASE ~LiveAs(op.peer, op.found.id)
    <3>1. ~RowIs(op.peer, op.found.id)
      BY <2>1, <2>3 DEF RowHasSession, RowIs
    <3> QED BY <1>1, <1>2, <1>5, <2>3, <3>1 DEF MigrateCommit, MigrateUndone, SessionGivenBack
  <2> QED BY <2>2, <2>3
<1>6. CASE ReconcileRead
  BY <1>6 DEF ReconcileRead
<1>7. ~Failover
  BY DEF Failover, NoFailover, Idle
<1>8. CASE DisconnectClose
  BY <1>1, <1>2, <1>8 DEF DisconnectClose
<1>9. ASSUME NEW p \in Peers, Reap(p) \/ DisconnectFind(p) \/ PruneExpired(p) PROVE Goal
  BY <1>1, <1>9 DEF Reap, DisconnectFind, PruneExpired
<1>10. ASSUME NEW p \in Peers, Revoke(p) PROVE Goal
  BY <1>2, <1>10 DEF Revoke
<1>11. ASSUME NEW b \in Backends, DisableBackend(b) \/ EnableBackend(b) \/ \E s \in Statuses : SetTunnelStatus(b, s)
       PROVE  Goal
  BY <1>1, <1>11 DEF DisableBackend, EnableBackend, SetTunnelStatus
<1>12. ASSUME NEW p \in Peers, NEW b \in Backends, MigrateMove(p, b) PROVE Goal
  BY <1>2, <1>12 DEF MigrateMove
<1>13. CASE CheckTimeouts \/ ReconcileApply \/ Restart
  BY <1>2, <1>13 DEF CheckTimeouts, ReconcileApply, Restart
<1>14. CASE UNCHANGED vars
  BY <1>1, <1>14 DEF vars
<1> HIDE DEF Goal
<1> QED
  BY <1>3, <1>4, <1>5, <1>6, <1>7, <1>8, <1>9, <1>10, <1>11, <1>12, <1>13, <1>14
     DEF GatewayNext

\* What a step does to a gauge that has not fallen behind: it follows the sessions,
\* or keeps the count of one whose row cannot be written, or is set to a reading.
LEMMA GaugeStep ==
  ASSUME OperationsAreWhole, "gaugeRow" \notin Faults, GatewayTypeOK, Idle, SweptIsGone,
         \A b \in Backends : gauge[b] >= Held(b), [GatewayNext]_vars, NEW b \in Backends
  PROVE  \/ Follows(b)
         \/ "sessionRow" \in Faults /\ gauge'[b] = gauge[b] /\ Held(b)' <= Held(b)
         \/ /\ Fresh /\ gauge'[b] = snapshot.rows[b]
            /\ Held(b)' = Cardinality(On(session, b))
         \/ gauge'[b] = 0 /\ Held(b)' = 0
<1>1. gauge[b] \in Nat /\ Held(b) \in Nat
  BY HeldIsNat DEF GatewayTypeOK
<1>2. UNCHANGED <<session, timedOut, gauge>> => Follows(b)
  BY <1>1 DEF Follows, Held, Owed, On
<1>3. CASE ReconcileApply
  <2>1. CASE snapshot.stale
    BY <1>2, <1>3, <2>1 DEF ReconcileApply
  <2>2. CASE ~snapshot.stale
    <3>1. /\ Fresh /\ gauge' = snapshot.rows /\ session' = session
          /\ timedOut' = [p \in Peers |->
                 IF timedOut[p] # None THEN [timedOut[p] EXCEPT !.settled = TRUE] ELSE timedOut[p]]
      BY <1>3, <2>2 DEF ReconcileApply, Fresh
    <3>2. Owed(b)' = {}
      <4> SUFFICES ASSUME NEW p \in Peers, timedOut'[p] # None PROVE timedOut'[p].settled = TRUE
        BY DEF Owed, On
      <4>1. timedOut[p] \in Timeout /\ timedOut'[p] = [timedOut[p] EXCEPT !.settled = TRUE]
        BY <3>1 DEF GatewayTypeOK
      <4> QED BY <4>1 DEF Timeout
    <3>3. Held(b)' = Cardinality(On(session, b)) + 0
      BY <3>1, <3>2, FS_EmptySet DEF Held, On
    <3> QED BY <3>1, <3>3, HeldIsNat
  <2> QED BY <2>1, <2>2
<1>4. CASE Restart
  <2>1. On(session', b) = {} /\ Owed(b)' = {} /\ gauge'[b] = 0
    BY <1>4 DEF Restart, Owed, On
  <2>2. Held(b)' = 0 + 0
    BY <2>1, FS_EmptySet DEF Held, On
  <2> QED BY <2>1, <2>2
<1>5. /\ \A p \in Peers : ~DisconnectFind(p)
      /\ \A p \in Peers, t \in Backends : ~MigrateMove(p, t)
      /\ \A t \in Backends : ~DisableBackend(t)
      /\ ~DisconnectClose /\ ~MigratePersist /\ ~MigrateCommit /\ ~Failover
  BY DEF OperationsAreWhole, DisconnectFind, MigrateMove, DisableBackend, Idle, DisconnectClose,
         MigratePersist, MigrateCommit, Failover
<1> QED
  BY <1>2, <1>3, <1>4, <1>5, AdmitCounts, SweepCounts, ReapCounts, RevokeCounts
     DEF GatewayNext, vars, PruneExpired, EnableBackend, SetTunnelStatus, ReconcileRead

\* Where every operation is whole, the row of a live session is where memory is.
RowsPlace == \A p \in Peers : Live(p) => row[p] = session[p]

\* A reading counts every live session.
ReadingCovers ==
    Fresh => \A b \in Backends : snapshot.rows[b] >= Cardinality(On(session, b))

\* What GaugeCoversLive needs to be inductive.
Covered ==
    /\ Sound /\ Idle /\ SweptIsGone /\ RowsPlace /\ ReadingCovers
    /\ \A b \in Backends : gauge[b] >= Held(b)

\* Only admission writes rows, and it writes what it puts in memory.
LEMMA StepKeepsRowsPlace ==
  ASSUME OperationsAreWhole, Sound, Idle, RowsPlace, [GatewayNext]_vars
  PROVE  RowsPlace'
<1> SUFFICES ASSUME NEW q \in Peers, Live(q)' PROVE row'[q] = session'[q]
  BY DEF RowsPlace
<1>1. LeftAlone(q) \/ Reused(q) \/ Renewed(q)
  BY LiveStep, NotInProgress
     DEF LiveStepEffect, Overtaken, Planned, MoveBegun, MovePersisted, MoveUndone, MoveCommitted,
         FailedOver, Sound, OperationsAreWhole
<1> QED BY <1>1 DEF RowsPlace, LeftAlone, Reused, Renewed, Unmoved

\* No step lets a gauge, or a reading that may yet be applied, fall below the sessions.
LEMMA StepKeepsCovered ==
  ASSUME OperationsAreWhole, "gaugeRow" \notin Faults, Covered, [GatewayNext]_vars
  PROVE  Covered'
<1>1. Sound' /\ Idle' /\ SweptIsGone' /\ RowsPlace'
  BY SoundAlways, StepStaysIdle, StepKeepsSweptGone, StepKeepsRowsPlace DEF Covered
<1>2. ReadingCovers'
  <2> SUFFICES ASSUME Fresh', NEW b \in Backends
               PROVE  snapshot'.rows[b] >= Cardinality(On(session', b))
    BY DEF ReadingCovers, On
  <2>1. op # None => op \notin Migrating
    BY DEF Covered, Idle
  <2>2. CASE snapshot' = Reading /\ session' = session
    <3>1. On(session, b) \subseteq On(row, b) /\ IsFiniteSet(On(row, b))
      BY FiniteAssumption, FS_Subset DEF Covered, RowsPlace, On, Live
    <3>2. Cardinality(On(session, b)) <= Cardinality(On(row, b))
      BY <3>1, FS_Subset
    <3>3. snapshot'.rows[b] = Cardinality(On(row, b))
      BY <2>2 DEF Reading
    <3>4. Cardinality(On(row, b)) \in Nat
      BY HeldIsNat, CountIsNat
    <3> QED BY <2>2, <3>2, <3>3, <3>4, HeldIsNat
  <2>3. CASE Fresh /\ snapshot' = snapshot /\ session' = session
    BY <2>3 DEF Covered, ReadingCovers
  <2> QED BY <2>2, <2>3, ReadingStep DEF Covered, Sound
<1>3. ASSUME NEW b \in Backends PROVE gauge'[b] >= Held(b)'
  <2>1. gauge[b] >= Held(b) /\ gauge[b] \in Nat /\ Held(b) \in Nat
    BY HeldIsNat DEF Covered, Sound, GatewayTypeOK
  <2>2. gauge'[b] \in Nat /\ Held(b)' \in Nat
    <3>1. gauge'[b] \in Nat
      BY <1>1 DEF Sound, GatewayTypeOK
    <3>2. On(session', b) \in SUBSET Peers /\ Owed(b)' \in SUBSET Peers
      BY DEF On, Owed
    <3>3. Held(b)' = Cardinality(On(session', b)) + Cardinality(Owed(b)')
      BY DEF Held, On
    <3> QED BY <3>1, <3>2, <3>3, CountIsNat
  <2>3. Fresh => snapshot.rows[b] >= Cardinality(On(session, b))
    BY DEF Covered, ReadingCovers
  <2> QED BY <2>1, <2>2, <2>3, GaugeStep DEF Follows, Covered, Sound
<1> QED BY <1>1, <1>2, <1>3 DEF Covered

\* Nothing is connected at the start.
LEMMA InitIsCovered == GatewayInit => Covered
<1> SUFFICES ASSUME GatewayInit PROVE Covered
  OBVIOUS
<1>1. Idle /\ SweptIsGone /\ RowsPlace /\ ReadingCovers
  BY DEF GatewayInit, Idle, SweptIsGone, RowsPlace, ReadingCovers, Fresh, Live
<1>2. ASSUME NEW b \in Backends PROVE gauge[b] = 0 /\ Held(b) = 0
  <2>1. On(session, b) = {} /\ Owed(b) = {}
    BY DEF GatewayInit, On, Owed
  <2>2. Held(b) = 0 + 0
    BY <2>1, FS_EmptySet DEF Held
  <2> QED BY <2>2 DEF GatewayInit
<1> QED BY <1>1, <1>2, SoundAlways DEF Covered

\* As long as operations are whole, no gauge falls below the sessions it stands for
\* (GaugeCoversLive), not even where rows cannot be written or routes registered
\* (pool.go:597-630, vpn_ingress.go:303-364).
THEOREM GaugesCoverSessions ==
  ASSUME OperationsAreWhole, "gaugeRow" \notin Faults
  PROVE  GatewaySpec => []GaugeCoversLive
<1>1. Covered => GaugeCoversLive
  BY DEF Covered, GaugeCoversLive, Held
<1>2. Covered /\ [GatewayNext]_vars => Covered'
  BY StepKeepsCovered
<1> QED BY <1>1, <1>2, InitIsCovered, PTL DEF GatewaySpec

\* Admission adds a session to no backend that is full.
LEMMA StepKeepsWithinCap ==
  ASSUME OperationsAreWhole, Covered, LiveWithinCap, [GatewayNext]_vars
  PROVE  LiveWithinCap'
<1> SUFFICES ASSUME NEW b \in Backends PROVE Cardinality(On(session', b)) <= MaxPeersPerBackend
  BY DEF LiveWithinCap, On
<1>1. /\ Cardinality(On(session, b)) <= MaxPeersPerBackend
      /\ Cardinality(On(session, b)) \in Nat /\ MaxPeersPerBackend \in Nat
  BY HeldIsNat, GatewayAssumption DEF LiveWithinCap
<1>2. CASE On(session', b) \subseteq On(session, b)
  <2>1. IsFiniteSet(On(session, b))
    BY HeldIsNat, FiniteAssumption, FS_Subset
  <2>2. Cardinality(On(session', b)) <= Cardinality(On(session, b))
    BY <1>2, <2>1, FS_Subset
  <2>3. Cardinality(On(session', b)) \in Nat
    BY <1>2, CountIsNat, HeldIsNat
  <2> QED BY <1>1, <2>2, <2>3
<1>3. ASSUME NEW p \in Peers, AdmitFresh(p), ~(On(session', b) \subseteq On(session, b))
      PROVE  Cardinality(On(session', b)) <= MaxPeersPerBackend
  <2>1. PICK t \in Selectable(p) :
          session' = [session EXCEPT ![p] = [id |-> FreshID(p), backend |-> t]]
    BY <1>3 DEF AdmitFresh
  <2>2. HasRoom(t)
    BY <2>1 DEF Selectable
  <2>3. t = b /\ p \notin On(session, b)
    BY <1>3, <2>1 DEF On, Sound, Covered, GatewayTypeOK
  <2>4. On(session, b) \ {p} = On(session', b) \ {p} /\ On(session', b) \in SUBSET Peers
    BY <2>1 DEF On, Sound, Covered, GatewayTypeOK
  <2> DEFINE S == On(session, b)
             T == On(session', b)
  <2>5. S \in SUBSET Peers /\ T \in SUBSET Peers /\ S \ {p} = T \ {p} /\ p \notin S
    BY <2>3, <2>4, HeldIsNat
  <2> HIDE DEF S, T
  <2>6. /\ Cardinality(S) \in Nat /\ Cardinality(T) \in Nat
        /\ Cardinality(T) <= Cardinality(S) + 1
    BY <2>5, OneDiffers
  <2>7. Cardinality(S) <= Held(b) /\ Held(b) <= gauge[b] /\ gauge[b] < MaxPeersPerBackend
    BY <2>2, <2>3, HeldIsNat DEF Held, Covered, HasRoom, S
  <2>8. gauge[b] \in Nat /\ Held(b) \in Nat
    BY HeldIsNat DEF Covered, Sound, GatewayTypeOK
  <2> QED BY <1>1, <2>6, <2>7, <2>8 DEF T
<1>4. ASSUME \A q \in Peers : Live(q)' => session'[q] = session[q]
      PROVE  On(session', b) \subseteq On(session, b)
  BY <1>4 DEF On, Live
<1>5. ASSUME NEW q \in Peers, Live(q)', session'[q] # session[q]
      PROVE  AdmitFresh(q)
  <2>1. ASSUME NEW p \in Peers, NEW new, session' = [session EXCEPT ![p] = new] PROVE q = p
    BY <1>5, <2>1 DEF Covered, Sound, GatewayTypeOK
  <2>2. ASSUME NEW p \in Peers, Admit(p) \/ Revoke(p) PROVE AdmitFresh(q)
    <3>1. session' # session /\ session' # [session EXCEPT ![q] = None]
      BY <1>5 DEF Live, Covered, Sound, GatewayTypeOK
    <3> QED
      BY <2>1, <2>2, <3>1
         DEF Admit, AdmitReuse, AdmitFresh, AdmitNotPersisted, AdmitNotRegistered, Revoke
  <2>3. /\ \A p \in Peers : ~DisconnectFind(p)
        /\ \A p \in Peers, t \in Backends : ~MigrateMove(p, t)
        /\ \A t \in Backends : ~DisableBackend(t)
        /\ ~DisconnectClose /\ ~MigratePersist /\ ~MigrateCommit /\ ~Failover
    BY DEF OperationsAreWhole, DisconnectFind, MigrateMove, DisableBackend, Idle, DisconnectClose,
           MigratePersist, MigrateCommit, Failover, Covered
  <2>4. ~CheckTimeouts /\ ~Restart
    BY <1>5 DEF CheckTimeouts, Restart, Live
  <2> QED
    BY <1>5, <2>2, <2>3, <2>4
       DEF GatewayNext, vars, Reap, PruneExpired, EnableBackend, SetTunnelStatus, ReconcileRead,
           ReconcileApply
<1> QED BY <1>2, <1>3, <1>4, <1>5

\* As long as operations are whole, admission puts no more sessions on a backend
\* than its limit (LiveWithinCap), whatever is swept, reaped, reconciled or fails
\* (docs/architecture/vpn-service-state-ownership.md:179, pool.go:597-610).
THEOREM SessionsStayWithinCap ==
  ASSUME OperationsAreWhole, "gaugeRow" \notin Faults
  PROVE  GatewaySpec => []LiveWithinCap
<1>1. GatewayInit => LiveWithinCap
  <2> SUFFICES ASSUME GatewayInit, NEW b \in Backends
               PROVE  Cardinality(On(session, b)) <= MaxPeersPerBackend
    BY DEF LiveWithinCap
  <2>1. On(session, b) = {}
    BY DEF GatewayInit, On
  <2> QED BY <2>1, FS_EmptySet, GatewayAssumption
<1>2. Covered /\ [GatewayNext]_vars => Covered'
  BY StepKeepsCovered
<1>3. Covered /\ LiveWithinCap /\ [GatewayNext]_vars => LiveWithinCap'
  BY StepKeepsWithinCap
<1> QED BY <1>1, <1>2, <1>3, InitIsCovered, PTL DEF GatewaySpec

\* A reading counts the live sessions and nothing else.
ReadingExact ==
    Fresh => \A b \in Backends : snapshot.rows[b] = Cardinality(On(session, b))

\* What GaugeExact needs to be inductive.
Exact ==
    /\ Covered /\ NoFailover /\ RowHasSession /\ ReadingExact
    /\ \A b \in Backends : gauge[b] = Held(b)

\* Where rows can be written too, no step makes a gauge or a reading too large.
LEMMA StepKeepsExact ==
  ASSUME OperationsAreWhole, Faults \subseteq {"register"}, Exact, [GatewayNext]_vars
  PROVE  Exact'
<1>1. RowsFollowSessions /\ "gaugeRow" \notin Faults /\ "sessionRow" \notin Faults
  BY DEF RowsFollowSessions, OperationsAreWhole
<1>2. Covered' /\ NoFailover' /\ RowHasSession'
  BY <1>1, StepKeepsCovered, StepKeepsNoFailover, StepKeepsRowOwner DEF Exact, Covered, Sound
<1>3. ReadingExact'
  <2> SUFFICES ASSUME Fresh', NEW b \in Backends
               PROVE  snapshot'.rows[b] = Cardinality(On(session', b))
    BY DEF ReadingExact, On
  <2>1. CASE snapshot' = Reading /\ session' = session
    <3>1. On(session, b) = On(row, b)
      BY DEF Exact, Covered, RowsPlace, RowHasSession, On, Live, LiveAs
    <3> QED BY <2>1, <3>1 DEF Reading
  <2>2. CASE Fresh /\ snapshot' = snapshot /\ session' = session
    BY <2>2 DEF Exact, ReadingExact
  <2> QED BY <2>1, <2>2, ReadingStep DEF Exact, Covered, Sound
<1>4. ASSUME NEW b \in Backends PROVE gauge'[b] = Held(b)'
  <2>1. gauge[b] = Held(b) /\ gauge[b] \in Nat
    BY DEF Exact, Covered, Sound, GatewayTypeOK
  <2>2. gauge'[b] \in Nat /\ Held(b)' \in Nat
    <3>1. gauge'[b] \in Nat
      BY <1>2 DEF Covered, Sound, GatewayTypeOK
    <3>2. On(session', b) \in SUBSET Peers /\ Owed(b)' \in SUBSET Peers
      BY DEF On, Owed
    <3>3. Held(b)' = Cardinality(On(session', b)) + Cardinality(Owed(b)')
      BY DEF Held, On
    <3> QED BY <3>1, <3>2, <3>3, CountIsNat
  <2>3. Fresh => snapshot.rows[b] = Cardinality(On(session, b))
    BY DEF Exact, ReadingExact
  <2> QED BY <1>1, <2>1, <2>2, <2>3, GaugeStep DEF Follows, Exact, Covered, Sound
<1> QED BY <1>2, <1>3, <1>4 DEF Exact

\* As long as operations are whole and rows can be written, every gauge is the number
\* of its live sessions and of the swept ones whose count the reaper has yet to give
\* back (GaugeExact), through replacements, refused registrations, revocations,
\* restarts and reconciliations that race the reaper (vpn_ingress.go:303-364,
\* sessions_lifecycle.go:111-255, service_lifecycle.go:215-334).
THEOREM GaugesAreExact ==
  ASSUME OperationsAreWhole, Faults \subseteq {"register"}
  PROVE  GatewaySpec => []GaugeExact
<1>1. GatewayInit => Exact
  <2> SUFFICES ASSUME GatewayInit PROVE Exact
    OBVIOUS
  <2>1. Covered /\ NoFailover /\ RowHasSession /\ ReadingExact
    BY InitIsCovered DEF GatewayInit, NoFailover, RowHasSession, ReadingExact, Fresh
  <2>2. ASSUME NEW b \in Backends PROVE gauge[b] = Held(b)
    <3>1. gauge[b] = 0 /\ gauge[b] >= Held(b) /\ Held(b) \in Nat
      BY <2>1, HeldIsNat DEF GatewayInit, Covered
    <3> QED BY <3>1
  <2> QED BY <2>1, <2>2 DEF Exact
<1>2. Exact => GaugeExact
  BY DEF Exact, GaugeExact, Held
<1>3. Exact /\ [GatewayNext]_vars => Exact'
  BY StepKeepsExact
<1> QED BY <1>1, <1>2, <1>3, PTL DEF GatewaySpec

\* A reading that may still be applied counts the rows, unless a migration has since
\* moved the row of a session that is still live: its end will overtake the reading.
ReadingTrue ==
    Fresh => \/ \A b \in Backends : snapshot.rows[b] = Cardinality(On(row, b))
             \/ op # None /\ op.kind = "persisted" /\ op.peer \in Peers /\ Live(op.peer)

\* A migration that has moved the row of a live session does not end without
\* overtaking the reading (sessions_migration.go:49-75, pool.go:657-690).
LEMMA PersistedGoesOn ==
  ASSUME Sound, NEW q \in Peers, op # None, op.kind = "persisted", op.peer = q, Live(q),
         session' = session, Fresh', [GatewayNext]_vars
  PROVE  op' # None /\ op'.kind = "persisted" /\ op'.peer = q
<1>1. Migrates(q) /\ ~Idle /\ Live(q)' /\ op \in Migrating /\ ~FailsOver
  BY HolderType DEF Migrates, Idle, Live, Sound, FailsOver
<1>2. LeftAlone(q) \/ Overtaken(q) \/ MoveUndone(q) \/ MoveCommitted(q)
  BY <1>1, LiveStep
     DEF LiveStepEffect, Planned, Reused, Renewed, MoveBegun, MovePersisted, FailedOver, Sound
<1>3. session[q].id = op.found.id
  BY <1>1, LiveRecords
<1>4. ~MoveUndone(q) /\ ~MoveCommitted(q)
  BY <1>3, BumpedIsStale DEF MoveUndone, MoveCommitted, Sound
<1>5. CASE LeftAlone(q)
  BY <1>1, <1>5 DEF LeftAlone
<1>6. CASE Overtaken(q)
  <2>1. op' \in Migrating /\ op'.kind = op.kind /\ op'.peer = op.peer
    BY <1>1, <1>6 DEF Overtaken, Migrating
  <2> QED BY <2>1, NoneIsNoOperation
<1> QED BY <1>2, <1>4, <1>5, <1>6

\* Every step leaves a reading true or overtakes it.
LEMMA StepKeepsReadingTrue ==
  ASSUME Sound, NoFailover, RowHasSession, ReadingTrue, [GatewayNext]_vars
  PROVE  ReadingTrue'
<1> SUFFICES ASSUME Fresh'
             PROVE  \/ \A b \in Backends : snapshot'.rows[b] = Cardinality(On(row', b))
                    \/ op' # None /\ op'.kind = "persisted" /\ op'.peer \in Peers
                       /\ session'[op'.peer] # None
  BY DEF ReadingTrue, On, Live
<1>1. CASE snapshot' = Reading /\ row' = row
  BY <1>1 DEF Reading, On
<1>2. CASE Fresh /\ snapshot' = snapshot /\ session' = session /\ row' = row
  <2>1. CASE \A b \in Backends : snapshot.rows[b] = Cardinality(On(row, b))
    BY <1>2, <2>1 DEF On
  <2>2. CASE op # None /\ op.kind = "persisted" /\ op.peer \in Peers /\ Live(op.peer)
    BY <1>2, <2>2, PersistedGoesOn DEF Live
  <2> QED BY <1>2, <2>1, <2>2 DEF ReadingTrue
<1>3. CASE /\ session' = session
           /\ op \in Migrating /\ RowIs(op.peer, op.found.id)
           /\ op' = [op EXCEPT !.kind = "persisted"]
  <2>1. op' \in Migrating /\ op'.kind = "persisted" /\ op'.peer = op.peer /\ op.peer \in Peers
    BY <1>3 DEF Migrating
  <2>2. session[op.peer] # None
    BY <1>3, <2>1 DEF RowIs, RowHasSession, LiveAs, Live
  <2> QED BY <1>3, <2>1, <2>2, NoneIsNoOperation
<1> QED BY <1>1, <1>2, <1>3, ReadingStep DEF Sound

\* As long as rows and gauges can be written and no failover runs, a reconciliation
\* that is applied leaves every gauge exact (ReconcileRestores): whatever drift
\* disconnections and migrations have left before it, and whatever came or went since
\* it read the table (service_lifecycle.go:215-334).
THEOREM ReconciliationRestores ==
  ASSUME RowsFollowSessions, "gaugeRow" \notin Faults
  PROVE  GatewaySpec => ReconcileRestores
<1> DEFINE AllTogether == \A q \in Peers : Together(q)
           IInv == Sound /\ NoFailover /\ RowHasSession /\ AllTogether /\ ReadingTrue
           Restores == snapshot # None /\ ~snapshot.stale /\ snapshot' = None => GaugeExact'
<1>1. GatewayInit => NoFailover /\ RowHasSession /\ AllTogether /\ ReadingTrue
  BY DEF GatewayInit, NoFailover, RowHasSession, Together, ReadingTrue, Fresh, Live
<1>2. Sound /\ Sound' /\ NoFailover /\ AllTogether /\ [GatewayNext]_vars => AllTogether'
  <2> SUFFICES ASSUME Sound, Sound', NoFailover, AllTogether, [GatewayNext]_vars, NEW q \in Peers
               PROVE  Together(q)'
    OBVIOUS
  <2>1. CASE Live(q)'
    BY <2>1, StepKeepsTogether
  <2>2. CASE ~Live(q)'
    BY <2>2 DEF Together
  <2> QED BY <2>1, <2>2
<1>3. Sound /\ NoFailover /\ RowHasSession /\ ReadingTrue /\ [GatewayNext]_vars
        => NoFailover' /\ RowHasSession' /\ ReadingTrue'
  BY StepKeepsNoFailover, StepKeepsRowOwner, StepKeepsReadingTrue DEF Sound
<1>4. Sound /\ RowHasSession /\ AllTogether /\ ReadingTrue /\ [GatewayNext]_vars => Restores
  <2> SUFFICES ASSUME Sound, RowHasSession, AllTogether, ReadingTrue, [GatewayNext]_vars,
                      Fresh, snapshot' = None
               PROVE  GaugeExact'
    BY DEF Fresh
  <2>1. ReconcileApply \/ Restart
    <3>1. snapshot \in Readings /\ Bumped \in Readings
      BY DEF Fresh, Bumped, Sound, GatewayTypeOK, Readings
    <3>2. snapshot' # snapshot /\ snapshot' # Bumped
      BY <3>1, NoneIsNoReading
    <3> QED
      BY <3>2
         DEF GatewayNext, vars, Fresh, Admit, AdmitReuse, AdmitFresh, AdmitNotPersisted,
             AdmitNotRegistered, Reap, Revoke, DisconnectFind, PruneExpired, MigrateMove,
             DisableBackend, EnableBackend, SetTunnelStatus, DisconnectClose, MigratePersist,
             MigrateCommit, MigrateUndone, SessionGivenBack, Failover, CheckTimeouts, ReconcileRead
  <2>2. SUFFICES ASSUME Idle', NEW b \in Backends
                 PROVE  gauge'[b] = Cardinality(On(session', b)) + Cardinality(Owed(b)')
    BY DEF GaugeExact, On
  <2>3. CASE Restart
    <3>1. On(session', b) = {} /\ Owed(b)' = {} /\ gauge'[b] = 0
      BY <2>3 DEF Restart, Owed, On
    <3>2. Cardinality(On(session', b)) = 0 /\ Cardinality(Owed(b)') = 0
      BY <3>1, FS_EmptySet
    <3> QED BY <3>1, <3>2
  <2>4. CASE ReconcileApply
    <3>1. /\ Idle /\ gauge' = snapshot.rows /\ session' = session
          /\ timedOut' = [p \in Peers |->
                 IF timedOut[p] # None THEN [timedOut[p] EXCEPT !.settled = TRUE] ELSE timedOut[p]]
      BY <2>4 DEF ReconcileApply, Fresh
    <3>2. Owed(b)' = {}
      <4> SUFFICES ASSUME NEW p \in Peers, timedOut'[p] # None PROVE timedOut'[p].settled = TRUE
        BY DEF Owed, On
      <4>1. timedOut[p] \in Timeout /\ timedOut'[p] = [timedOut[p] EXCEPT !.settled = TRUE]
        BY <3>1 DEF Sound, GatewayTypeOK
      <4> QED BY <4>1 DEF Timeout
    <3>3. gauge'[b] = Cardinality(On(row, b))
      BY <3>1 DEF ReadingTrue, Idle
    <3>4. On(row, b) = On(session, b)
      <4>1. \A p \in Peers : Live(p) => row[p] = session[p]
        BY <3>1 DEF Together, Idle, Migrates
      <4> QED BY <4>1 DEF RowHasSession, LiveAs, On, Live
    <3>5. Cardinality(On(session', b)) = Cardinality(On(session, b)) /\ Cardinality(Owed(b)') = 0
      BY <3>1, <3>2, FS_EmptySet
    <3>6. Cardinality(On(session, b)) \in Nat
      BY HeldIsNat
    <3> QED BY <3>3, <3>4, <3>5, <3>6
  <2> QED
    BY <2>1, <2>3, <2>4
<1> HIDE DEF AllTogether, Restores
<1>5. Restores => [Restores]_vars
  OBVIOUS
<1>6. GatewaySpec => [][Restores]_vars
  BY <1>1, <1>2, <1>3, <1>4, <1>5, SoundAlways, PTL DEF GatewaySpec
<1> QED BY <1>6 DEF ReconcileRestores, Restores

=============================================================================
