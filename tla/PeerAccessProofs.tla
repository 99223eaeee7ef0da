-------------------------- MODULE PeerAccessProofs --------------------------
(***************************************************************************)
(* For every set of peers, addresses, owners and session ids, every number *)
(* of changes and faults: the records keep their types, no key's packets   *)
(* are attributed to another, no route outlives its session, and a peer    *)
(* whose row did not change since a pass succeeded stays enforced.         *)
(***************************************************************************)
EXTENDS PeerAccess, TLAPS

-----------------------------------------------------------------------------
(* The helpers.                                                             *)

\* A lease is of an assignable address (peer_sync.go:716-770).
LEMMA LeaseFields == ASSUME NEW l \in Leases PROVE l.ip \in IPs /\ l.owner \in {m.owner : m \in Leases}
  BY AccessAssumption

\* One sweep of a peer is pending at a time: the bound of IdleEvict.
SweptOnce == \A s, t \in swept : s.peer = t.peer => s = t

\* The id of a new session is in use nowhere (session.go:218-223).
LEMMA FreshIDIsFresh ==
  ASSUME AccessTypeOK, SweptOnce, NEW p \in Peers
  PROVE  FreshID(p) \in SessionIDs /\ ~InUse(p, FreshID(p))
<1> DEFINE Named(id, r) == r # None => r.id = id
<1>1. \E a \in SessionIDs : Named(a, session[p])
  BY EnoughIDs DEF AccessTypeOK, SessionOf
<1>2. \E b \in SessionIDs : Named(b, route[p])
  BY EnoughIDs DEF AccessTypeOK, RouteRecord
<1>3. \E c \in SessionIDs : Named(c, memo[p])
  BY EnoughIDs DEF AccessTypeOK, SessionOf
<1>4. \E d \in SessionIDs : \A s \in swept : s.peer = p => s.id = d
  <2>1. CASE \E t \in swept : t.peer = p
    <3>1. PICK t \in swept : t.peer = p
      BY <2>1
    <3>2. t.id \in SessionIDs /\ \A s \in swept : s.peer = p => s.id = t.id
      BY <3>1 DEF AccessTypeOK, SweptOnce
    <3> QED BY <3>2
  <2>2. CASE ~\E t \in swept : t.peer = p
    BY <2>2, EnoughIDs
  <2> QED BY <2>1, <2>2
<1>5. PICK a \in SessionIDs, b \in SessionIDs, c \in SessionIDs, d \in SessionIDs :
        /\ Named(a, session[p]) /\ Named(b, route[p]) /\ Named(c, memo[p])
        /\ \A s \in swept : s.peer = p => s.id = d
  BY <1>1, <1>2, <1>3, <1>4
<1>6. PICK id \in SessionIDs : id \notin {a, b, c, d}
  BY EnoughIDs
<1>7. ~InUse(p, id)
  BY <1>5, <1>6 DEF InUse
<1> QED BY <1>6, <1>7 DEF FreshID

\* Retiring a route leaves routes and reverse entries (routes.go:208-234).
LEMMA RetiredType ==
  ASSUME AccessTypeOK, NEW p \in Peers, NEW id, RouteRetired(p, id)
  PROVE  /\ route' \in [Peers -> RouteRecord \cup {None}]
         /\ byIP' \in [IPs -> Peers \cup {None}]
<1>1. route[p] # None => route[p].ip \in IPs
  BY DEF AccessTypeOK, RouteRecord
<1> QED BY <1>1 DEF AccessTypeOK, RouteRetired

\* A teardown leaves sessions and routes (sessions_lifecycle.go:213-255).
LEMMA RevokedType ==
  ASSUME AccessTypeOK, NEW p \in Peers, SessionRevoked(p)
  PROVE  /\ session' \in [Peers -> SessionOf \cup {None}]
         /\ route' \in [Peers -> RouteRecord \cup {None}]
         /\ byIP' \in [IPs -> Peers \cup {None}]
         /\ outrun' \subseteq Peers
  BY RetiredType DEF AccessTypeOK, SessionRevoked, runtime

-----------------------------------------------------------------------------
(* Types.                                                                   *)

\* What a pass adds is what it read (peer_sync.go:1327-1349).
AddWanted == \A p \in add : want[p] # None

Typed == AccessTypeOK /\ SweptOnce /\ AddWanted

\* The state the loop starts from is well typed.
LEMMA InitTyped == AccessInit => Typed
<1> SUFFICES ASSUME AccessInit PROVE Typed OBVIOUS
<1>1. device \in [Peers -> IPs \cup {None}]
  BY LeaseFields DEF AccessInit
<1>2. LoopTypeOK
  BY DEF AccessInit, AtRest, LoopTypeOK, LoopPhases
<1>3. failed \in BOOLEAN /\ blind \in BOOLEAN
  BY DEF AccessInit
<1>4. changes \in 0..MaxChanges /\ faults \in 0..MaxFaults
  BY AccessAssumption DEF AccessInit
<1>5. /\ lease \in [Peers -> Leases \cup {None}] /\ resolver \in [Peers -> Leases \cup {None}]
      /\ session \in [Peers -> SessionOf \cup {None}] /\ route \in [Peers -> RouteRecord \cup {None}]
      /\ memo \in [Peers -> SessionOf \cup {None}] /\ want \in [Peers -> Leases \cup {None}]
      /\ byIP \in [IPs -> Peers \cup {None}]
  BY DEF AccessInit, NoRecord
<1>6. /\ hooks \subseteq Peers /\ swept \subseteq [peer : Peers, id : SessionIDs] /\ SweptOnce
      /\ pass \in PassPhases
      /\ \A s \in {retired, revoke, remove, add, covered, touched, outrun} : s \subseteq Peers
  BY DEF AccessInit, SweptOnce, PassPhases
<1>7. pass = "idle" => retired \cup revoke \cup remove \cup add = {} /\ ~failed
  BY DEF AccessInit
<1>8. AddWanted
  BY DEF AccessInit, AddWanted
<1> QED BY <1>1, <1>2, <1>3, <1>4, <1>5, <1>6, <1>7, <1>8 DEF Typed, AccessTypeOK

\* Commits, hooks and sweeps keep the types (peer_changes.go, peer_revoke.go).
LEMMA EnvironmentTyped ==
  ASSUME Typed, NEW p \in Peers, Housekeeping(p) \/ Environment(p)
  PROVE  Typed'
<1> USE DEF Typed, AddWanted, durable, runtime, router, progress, LoopTypeOK
<1>1. ASSUME NEW l \in Leases \cup {None}, Commit(p, l), hooks' \subseteq Peers PROVE Typed'
  BY <1>1, AccessAssumption DEF AccessTypeOK, Commit, SweptOnce
<1>2. CASE Grant(p)
  BY <1>1, <1>2 DEF Grant, AccessTypeOK
<1>3. CASE Withdraw(p)
  BY <1>1, <1>3 DEF Withdraw, AccessTypeOK
<1>4. CASE Lapse(p)
  BY <1>1, <1>4 DEF Lapse, AccessTypeOK
<1>5. CASE Change(p)
  BY <1>1, <1>5 DEF Change, AccessTypeOK
<1>6. CASE HookFindsNothing(p)
  BY <1>6 DEF HookFindsNothing, AccessTypeOK, SweptOnce
<1>7. CASE HookRevokes(p)
  BY <1>7, RevokedType DEF HookRevokes, AccessTypeOK, SweptOnce
<1>8. CASE IdleEvict(p)
  <2>1. session[p].id \in SessionIDs
    BY <1>8 DEF IdleEvict, AccessTypeOK, SessionOf
  <2>2. swept' \subseteq [peer : Peers, id : SessionIDs] /\ SweptOnce'
    BY <1>8, <2>1 DEF IdleEvict, AccessTypeOK, SweptOnce
  <2> QED BY <1>8, <2>2 DEF IdleEvict, AccessTypeOK
<1>9. CASE ReapRoute(p)
  <2>1. /\ route' \in [Peers -> RouteRecord \cup {None}]
        /\ byIP' \in [IPs -> Peers \cup {None}]
    BY <1>9, RetiredType DEF ReapRoute, AccessTypeOK
  <2>2. swept' \subseteq swept
    BY <1>9 DEF ReapRoute
  <2> QED BY <1>9, <2>1, <2>2 DEF ReapRoute, AccessTypeOK, SweptOnce
<1>10. CASE Receive(p)
  BY <1>10 DEF Receive, LoopOnly, AccessTypeOK, SweptOnce, LoopPhases
<1>11. CASE LosePeer(p)
  BY <1>11, AccessAssumption DEF LosePeer, Fails, MayFail, AccessTypeOK, SweptOnce
<1>12. CASE Migrate(p)
  <2>1. LoopTypeOK'
    BY <1>12 DEF Migrate, AtRest, AccessTypeOK, LoopPhases
  <2> QED BY <1>12, <2>1, AccessAssumption DEF Migrate, Fails, MayFail, AccessTypeOK, SweptOnce
<1> QED BY <1>2, <1>3, <1>4, <1>5, <1>6, <1>7, <1>8, <1>9, <1>10, <1>11, <1>12
        DEF Housekeeping, Environment

\* The receive loop keeps the types (ingress/router.go:183-321).
LEMMA LoopTyped == ASSUME Typed, LoopStep PROVE Typed'
<1> USE DEF Typed, AddWanted, durable, runtime, router, progress, LoopOnly, LoopTypeOK, LoopPhases, AtRest, Packet
<1>1. CASE Lookup
  <2>1. LoopTypeOK'
    BY <1>1 DEF Lookup, Looked, OwnersOf, AccessTypeOK
  <2> QED BY <1>1, <2>1 DEF Lookup, AccessTypeOK, SweptOnce
<1>2. CASE AdmitCheck
  BY <1>2 DEF AdmitCheck, AccessTypeOK, SweptOnce
<1>3. CASE AdmitReuse
  <2>1. session[loop.as].id \in SessionIDs
    BY <1>3 DEF AdmitReuse, Reusable, AccessTypeOK, SessionOf
  <2> QED BY <1>3, <2>1 DEF AdmitReuse, Admitted, AccessTypeOK, SweptOnce
<1>4. CASE AdmitFresh
  <2> DEFINE p == loop.as
             id == FreshID(p)
             l == loop.lease
  <2>1. p \in Peers /\ l \in Leases /\ l.ip \in IPs /\ l.owner \in {m.owner : m \in Leases}
    BY <1>4, LeaseFields DEF AdmitFresh, AccessTypeOK
  <2>2. id \in SessionIDs
    BY <2>1, FreshIDIsFresh
  <2>3. [id |-> id, owner |-> l.owner, ip |-> l.ip] \in SessionOf /\ RouteOf(p, id, l.ip) \in RouteRecord
    BY <2>1, <2>2 DEF SessionOf, RouteOf, RouteRecord
  <2>4. session' \in [Peers -> SessionOf \cup {None}] /\ route' \in [Peers -> RouteRecord \cup {None}]
    BY <1>4, <2>1, <2>3 DEF AdmitFresh, AccessTypeOK
  <2>5. byIP' \in [IPs -> Peers \cup {None}]
    BY <1>4, <2>1 DEF AdmitFresh, AccessTypeOK
  <2>6. LoopTypeOK'
    BY <1>4, <2>1, <2>2 DEF AdmitFresh, Admitted
  <2> QED BY <1>4, <2>4, <2>5, <2>6 DEF AdmitFresh, AccessTypeOK, SweptOnce
<1>5. CASE AdmitRefused
  BY <1>5, AccessAssumption DEF AdmitRefused, Fails, MayFail, AccessTypeOK, SweptOnce
<1>6. CASE Register
  <2>1. loop.as \in Peers /\ loop.lease \in Leases /\ loop.id \in SessionIDs
    BY <1>6 DEF Register, AccessTypeOK
  <2>2. [id |-> loop.id, owner |-> loop.lease.owner, ip |-> loop.lease.ip] \in SessionOf
    BY <2>1, LeaseFields DEF SessionOf
  <2> QED BY <1>6, <2>1, <2>2 DEF Register, Confirm, AccessTypeOK, SweptOnce
<1>7. CASE Submit
  BY <1>7 DEF Submit, AccessTypeOK, SweptOnce
<1> QED BY <1>1, <1>2, <1>3, <1>4, <1>5, <1>6, <1>7 DEF LoopStep

\* A pass keeps the types (peer_sync.go:832-1018).
LEMMA PassTyped == ASSUME Typed, PassStep PROVE Typed'
<1> USE DEF Typed, AddWanted, durable, runtime, router, progress, PassOnly, LoopTypeOK, PassPhases
<1> USE AccessAssumption DEF Fails, MayFail, SweptOnce
<1>0. failed \in BOOLEAN /\ blind \in BOOLEAN
  BY DEF AccessTypeOK
<1>1. CASE PassRead
  <2>1. failed' \in BOOLEAN /\ blind' \in BOOLEAN /\ failed' = failed
    BY <1>0, <1>1, Zenon DEF PassRead
  <2> QED BY <1>1, <2>1 DEF PassRead, NoRecord, AccessTypeOK
<1>2. CASE PassClassify
  <2>1. resolver' \in [Peers -> Leases \cup {None}]
    BY <1>2 DEF PassClassify, Withdrawn, AccessTypeOK
  <2>2. \A s \in {retired', revoke', remove', add'} : s \subseteq Peers
    BY <1>2 DEF PassClassify, Drifted, Handoffs, AccessTypeOK
  <2> QED BY <1>2, <2>1, <2>2 DEF PassClassify, AccessTypeOK
<1>3. CASE PassNarrow
  <2>1. resolver' \in [Peers -> Leases \cup {None}]
    BY <1>3 DEF PassNarrow, Withdrawn, AccessTypeOK
  <2>2. revoke' \subseteq Peers
    BY <1>3 DEF PassNarrow, AccessTypeOK
  <2>3. failed' \in BOOLEAN /\ blind' \in BOOLEAN
    BY <1>0, <1>3, Zenon DEF PassNarrow
  <2> QED BY <1>3, <2>1, <2>2, <2>3 DEF PassNarrow, AccessTypeOK
<1>4. CASE PassVerify
  <2>1. failed' \in BOOLEAN /\ blind' \in BOOLEAN
    BY <1>0, <1>4, Zenon DEF PassVerify
  <2> QED BY <1>4, <2>1 DEF PassVerify, AccessTypeOK
<1>5. CASE PassOrphans
  <2>1. failed' \in BOOLEAN /\ blind' \in BOOLEAN
    BY <1>0, <1>5, Zenon DEF PassOrphans
  <2> QED BY <1>5, <2>1 DEF PassOrphans, Orphans, AccessTypeOK
<1>6. CASE PassEnd
  <2>1. failed' \in BOOLEAN /\ ~failed' /\ blind' \in BOOLEAN
    BY <1>0, <1>6, Zenon DEF PassEnd, Closed
  <2>2. resolver' \in [Peers -> Leases \cup {None}] /\ covered' \subseteq Peers
    BY <1>6 DEF PassEnd, Closed, AccessTypeOK
  <2> QED BY <1>6, <2>1, <2>2 DEF PassEnd, Closed, NoRecord, AccessTypeOK
<1>7. ASSUME NEW p \in Peers, PassRevoke(p) PROVE Typed'
  <2>1. failed' \in BOOLEAN /\ blind' \in BOOLEAN /\ failed' = failed
    BY <1>0, <1>7, Zenon DEF PassRevoke
  <2>2. pass # "idle"
    BY <1>7 DEF PassRevoke, AccessTypeOK
  <2>3. /\ session' \in [Peers -> SessionOf \cup {None}]
        /\ route' \in [Peers -> RouteRecord \cup {None}]
        /\ byIP' \in [IPs -> Peers \cup {None}]
        /\ outrun' \subseteq Peers
    BY <1>7, RevokedType DEF PassRevoke
  <2> QED BY <1>7, <2>1, <2>2, <2>3 DEF PassRevoke, AccessTypeOK
<1>8. ASSUME NEW p \in Peers, PassRemove(p) PROVE Typed'
  <2>1. failed' \in BOOLEAN /\ blind' \in BOOLEAN
    BY <1>0, <1>8, Zenon DEF PassRemove
  <2>2. device' \in [Peers -> IPs \cup {None}] /\ faults' \in 0..MaxFaults
    BY <1>8 DEF PassRemove, AccessTypeOK
  <2> QED BY <1>8, <2>1, <2>2 DEF PassRemove, AccessTypeOK
<1>9. ASSUME NEW p \in Peers, PassAdd(p) PROVE Typed'
  <2>1. failed' \in BOOLEAN /\ blind' \in BOOLEAN
    BY <1>0, <1>9, Zenon DEF PassAdd
  <2>2. want[p].ip \in IPs
    BY <1>9, LeaseFields DEF PassAdd, AccessTypeOK
  <2>3. device' \in [Peers -> IPs \cup {None}] /\ faults' \in 0..MaxFaults
    BY <1>9, <2>2 DEF PassAdd, AccessTypeOK
  <2> QED BY <1>9, <2>1, <2>3 DEF PassAdd, AccessTypeOK
<1> QED BY <1>1, <1>2, <1>3, <1>4, <1>5, <1>6, <1>7, <1>8, <1>9 DEF PassStep

\* Every step keeps the types.
LEMMA StepTyped == Typed /\ [AccessNext]_vars => Typed'
<1> SUFFICES ASSUME Typed, [AccessNext]_vars PROVE Typed' OBVIOUS
<1>1. CASE UNCHANGED vars
  BY <1>1 DEF vars, Typed, AccessTypeOK, LoopTypeOK, SweptOnce, AddWanted
<1> QED BY <1>1, EnvironmentTyped, LoopTyped, PassTyped DEF AccessNext

\* Whatever comes between the steps of a pass, and whichever of them fail, every
\* record keeps its type (peer_sync.go:832-1018).
THEOREM AccessTypes == AccessSpec => []AccessTypeOK
<1>1. Typed => AccessTypeOK
  BY DEF Typed
<1> QED BY <1>1, InitTyped, StepTyped, PTL DEF AccessSpec

-----------------------------------------------------------------------------
(* Routes and sessions.                                                     *)

\* Inductive: the route of a live session is that session's own; the route of
\* a session that is gone waits for the reaper (sessions_lifecycle.go:111-158).
RouteKept ==
    \A p \in Peers : route[p] # None =>
        \/ session[p] # None /\ session[p].id = route[p].id
        \/ session[p] = None /\ \E s \in swept : s.peer = p /\ s.id = route[p].id

\* Revoking a session removes its route with it, or leaves another's.
LEMMA RevokedKeepsRoutes ==
  ASSUME AccessTypeOK, RouteKept, NEW p \in Peers, SessionRevoked(p), UNCHANGED swept
  PROVE  RouteKept'
<1>1. CASE session[p] = None
  BY <1>1 DEF SessionRevoked, runtime, RouteKept
<1>2. CASE session[p] # None
  BY <1>2 DEF SessionRevoked, RouteRetired, RouteKept, AccessTypeOK
<1> QED BY <1>1, <1>2

\* Every step keeps to it.
LEMMA StepKeepsRoutes == Typed /\ RouteKept /\ [AccessNext]_vars => RouteKept'
<1> SUFFICES ASSUME Typed, RouteKept, [AccessNext]_vars PROVE RouteKept' OBVIOUS
<1> USE DEF Typed, runtime
<1>1. CASE UNCHANGED <<session, route, swept>>
  BY <1>1 DEF RouteKept
<1>2. ASSUME NEW p \in Peers, HookRevokes(p) \/ PassRevoke(p) PROVE RouteKept'
  BY <1>2, RevokedKeepsRoutes DEF HookRevokes, PassRevoke, PassOnly
<1>3. ASSUME NEW p \in Peers, IdleEvict(p) PROVE RouteKept'
  <2> DEFINE t == [peer |-> p, id |-> session[p].id]
  <2>1. /\ session[p] # None /\ session' = [session EXCEPT ![p] = None]
        /\ swept' = swept \cup {t} /\ route' = route
    BY <1>3 DEF IdleEvict
  <2>2. t.peer = p /\ t.id = session[p].id
    OBVIOUS
  <2> HIDE DEF t
  <2> QED BY <2>1, <2>2 DEF RouteKept, AccessTypeOK
<1>4. ASSUME NEW p \in Peers, ReapRoute(p) PROVE RouteKept'
  <2>1. PICK s \in swept : /\ s.peer = p
                           /\ swept' = swept \ {s}
                           /\ IF session[p] # None THEN UNCHANGED <<route, byIP>>
                                                  ELSE RouteRetired(p, s.id)
    BY <1>4 DEF ReapRoute
  <2>2. session' = session
    BY <1>4 DEF ReapRoute
  <2>3. CASE session[p] # None
    BY <2>1, <2>2, <2>3 DEF RouteKept
  <2>4. CASE session[p] = None
    BY <2>1, <2>2, <2>4 DEF RouteKept, RouteRetired, AccessTypeOK
  <2> QED BY <2>3, <2>4
<1>5. CASE AdmitFresh
  <2> DEFINE p == loop.as
             r == RouteOf(p, FreshID(p), loop.lease.ip)
             n == [id |-> FreshID(p), owner |-> loop.lease.owner, ip |-> loop.lease.ip]
  <2>1. p \in Peers /\ FreshID(p) \in SessionIDs /\ loop.lease \in Leases
    BY <1>5, FreshIDIsFresh DEF AdmitFresh, AccessTypeOK, LoopTypeOK
  <2>2. n \in SessionOf
    BY <2>1, LeaseFields DEF SessionOf
  <2>3. n # None /\ n.id = r.id
    BY <2>2, NoneIsNothing DEF RouteOf
  <2>4. session' = [session EXCEPT ![p] = n] /\ route' = [route EXCEPT ![p] = r] /\ swept' = swept
    BY <1>5 DEF AdmitFresh, LoopOnly
  <2> QED BY <2>1, <2>3, <2>4 DEF RouteKept, AccessTypeOK
<1>6. CASE PassStep
  <2>1. CASE \E p \in Peers : PassRevoke(p)
    BY <1>2, <2>1
  <2>2. CASE ~\E p \in Peers : PassRevoke(p)
    <3>1. UNCHANGED <<session, route, swept>>
      BY <1>6, <2>2 DEF PassStep, PassRead, PassClassify, PassNarrow, PassVerify, PassOrphans,
                        PassEnd, PassRemove, PassAdd, PassOnly
    <3> QED BY <1>1, <3>1
  <2> QED BY <2>1, <2>2
<1>7. CASE LoopStep
  <2>1. CASE ~AdmitFresh
    <3>1. UNCHANGED <<session, route, swept>>
      BY <1>7, <2>1 DEF LoopStep, Lookup, AdmitCheck, AdmitReuse, AdmitRefused, Register, Confirm,
                        Submit, LoopOnly
    <3> QED BY <1>1, <3>1
  <2> QED BY <1>5, <2>1
<1>8. ASSUME NEW p \in Peers, Housekeeping(p) \/ Environment(p) PROVE RouteKept'
  <2>1. CASE HookRevokes(p) \/ IdleEvict(p) \/ ReapRoute(p)
    BY <1>2, <1>3, <1>4, <2>1
  <2>2. CASE HookFindsNothing(p) \/ Grant(p) \/ Withdraw(p) \/ Lapse(p) \/ Change(p)
             \/ Receive(p) \/ Migrate(p) \/ LosePeer(p)
    <3>1. UNCHANGED <<session, route, swept>>
      BY <2>2 DEF HookFindsNothing, Grant, Withdraw, Lapse, Change, Commit, Receive, Migrate, LosePeer,
                  LoopOnly
    <3> QED BY <1>1, <3>1
  <2> QED BY <1>8, <2>1, <2>2 DEF Housekeeping, Environment
<1>9. CASE UNCHANGED vars
  BY <1>1, <1>9 DEF vars
<1> QED BY <1>6, <1>7, <1>8, <1>9 DEF AccessNext

\* So a return route always serves a session that is live, or one that the idle sweep
\* is about to end (RouteServesSession; sessions_lifecycle.go:111-158).
THEOREM RoutesServeSessions == AccessSpec => []RouteServesSession
<1>1. AccessInit => RouteKept
  BY DEF AccessInit, RouteKept, NoRecord
<1>2. RouteKept => RouteServesSession
  BY DEF RouteKept, RouteServesSession, BeingReaped
<1> QED BY <1>1, <1>2, InitTyped, StepTyped, StepKeepsRoutes, PTL DEF AccessSpec

-----------------------------------------------------------------------------
(* Attribution.                                                             *)

\* No address is leased twice, and so none is wanted twice (peer_sync.go:716-770).
Distinct(leases) ==
    \A p, q \in Peers :
        leases[p] # None /\ leases[q] # None /\ leases[p].ip = leases[q].ip => p = q

\* Nobody is looked up at an address that is still to be installed
\* (peer_sync.go:942-955).
AddWithdrawn ==
    pass = "repair" =>
        \A p \in add : \A q \in Peers : resolver[q] # None => resolver[q].ip # want[p].ip

\* What is about to be published has been verified (peer_sync.go:1000-1014).
VerifiedDevice ==
    pass \in {"verified", "orphans"} /\ ~failed =>
        \A p \in Peers : device[p] # None => Wanted(p, device[p])

NarrowFails == pass = "narrow" => failed

AttributionInv ==
    /\ Distinct(lease) /\ Distinct(want)
    /\ AddWithdrawn /\ VerifiedDevice /\ NarrowFails
    /\ Attribution

\* It holds at first.
LEMMA InitAttributes == AccessInit => AttributionInv
<1> SUFFICES ASSUME AccessInit PROVE AttributionInv OBVIOUS
<1>1. Distinct(lease)
  BY DEF AccessInit, Distinct, Holds
<1>2. Distinct(want)
  BY DEF AccessInit, Distinct, NoRecord
<1>3. AddWithdrawn /\ VerifiedDevice /\ NarrowFails
  BY DEF AccessInit, AddWithdrawn, VerifiedDevice, NarrowFails
<1>4. Attribution
  BY <1>1 DEF AccessInit, Attribution, Distinct
<1> QED BY <1>1, <1>2, <1>3, <1>4 DEF AttributionInv

\* A step that moves neither device, resolver nor pass.
LEMMA QuietAttributes ==
  ASSUME AttributionInv, Distinct(lease)',
         UNCHANGED <<device, resolver, pass, want, add, failed>>
  PROVE  AttributionInv'
  BY DEF AttributionInv, Distinct, AddWithdrawn, VerifiedDevice, Wanted, NarrowFails, Attribution

\* Commits keep leases distinct (peer_changes.go:313-480).
LEMMA CommitKeepsDistinct ==
  ASSUME Typed, Distinct(lease), NEW p \in Peers,
         Grant(p) \/ Withdraw(p) \/ Lapse(p) \/ Change(p)
  PROVE  Distinct(lease)'
<1>1. CASE Grant(p) \/ Change(p)
  <2>1. PICK l \in Leases : /\ Commit(p, l)
                            /\ Free(l.ip) \/ (lease[p] # None /\ l.ip = lease[p].ip)
    BY <1>1 DEF Grant, Change
  <2>2. lease' = [lease EXCEPT ![p] = l]
    BY <2>1 DEF Commit
  <2> QED BY <2>1, <2>2 DEF Distinct, Free, Holds, Typed, AccessTypeOK
<1>2. CASE Withdraw(p) \/ Lapse(p)
  BY <1>2 DEF Withdraw, Lapse, Commit, Distinct, Typed, AccessTypeOK
<1> QED BY <1>1, <1>2

\* A pass keeps to it, whichever of its steps fails.
LEMMA PassAttributes == ASSUME Typed, AttributionInv, PassStep PROVE AttributionInv'
<1> USE DEF Typed, AttributionInv, PassOnly, durable
<1>0. failed \in BOOLEAN
  BY DEF AccessTypeOK
<1>1. CASE PassRead
  <2>1. UNCHANGED <<device, lease, add, failed>> /\ pass' \in {"idle", "status"}
    BY <1>1 DEF PassRead, progress, AccessTypeOK
  <2>2. Distinct(want)' /\ Distinct(lease)'
    BY <1>1, <2>1 DEF PassRead, progress, Distinct
  <2>3. Attribution'
    BY <1>1, <2>1 DEF PassRead, Attribution, NoRecord
  <2> QED BY <2>1, <2>2, <2>3 DEF AddWithdrawn, VerifiedDevice, NarrowFails
<1>2. CASE PassClassify
  <2>1. UNCHANGED <<device, lease, want>> /\ pass' = "repair"
    BY <1>2 DEF PassClassify
  <2>2. \A q \in Peers : resolver'[q] # None => resolver'[q] = resolver[q] /\ q \notin InTransition
    BY <1>2 DEF PassClassify, Withdrawn, AccessTypeOK
  <2>3. ASSUME NEW p \in add', NEW q \in Peers, resolver'[q] # None PROVE resolver'[q].ip # want[p].ip
    <3>1. p \in Peers /\ want[p] # None /\ p \notin Stable
      BY <1>2, <2>3 DEF PassClassify, Stable, InPlace
    <3>2. want[p].ip \in TransitionIPs
      BY <3>1 DEF TransitionIPs
    <3>3. q \notin OwnersOf(want[p].ip)
      BY <2>2, <2>3, <3>2 DEF InTransition
    <3> QED BY <2>2, <2>3, <3>3 DEF OwnersOf
  <2>4. AddWithdrawn'
    BY <2>1, <2>3 DEF AddWithdrawn
  <2>5. Attribution'
    BY <2>1, <2>2 DEF Attribution
  <2> QED BY <2>1, <2>4, <2>5 DEF Distinct, VerifiedDevice, NarrowFails
<1>3. CASE PassNarrow
  <2>1. UNCHANGED <<device, lease, want>> /\ pass' = "narrow" /\ failed'
    BY <1>3 DEF PassNarrow
  <2>2. \A q \in Peers : resolver'[q] # None => resolver'[q] = resolver[q]
    BY <1>3 DEF PassNarrow, Withdrawn, AccessTypeOK
  <2>3. Attribution'
    BY <2>1, <2>2 DEF Attribution
  <2> QED BY <2>1, <2>3 DEF Distinct, AddWithdrawn, VerifiedDevice, NarrowFails
<1>4. CASE PassVerify
  <2>1. UNCHANGED <<device, resolver, lease, want>> /\ pass' = "verified"
    BY <1>4 DEF PassVerify
  <2>2. ~failed' => DeviceHas(want)
    BY <1>0, <1>4, Zenon DEF PassVerify
  <2>3. VerifiedDevice'
    BY <2>1, <2>2 DEF VerifiedDevice, DeviceHas, Wanted
  <2> QED BY <2>1, <2>3 DEF Distinct, AddWithdrawn, NarrowFails, Attribution
<1>5. CASE PassOrphans
  <2>1. UNCHANGED <<device, resolver, lease, want>> /\ pass = "verified" /\ pass' = "orphans"
    BY <1>5 DEF PassOrphans
  <2>2. ~failed' => ~failed
    BY <1>0, <1>5, Zenon DEF PassOrphans
  <2>3. VerifiedDevice'
    BY <2>1, <2>2 DEF VerifiedDevice, Wanted
  <2> QED BY <2>1, <2>3 DEF Distinct, AddWithdrawn, NarrowFails, Attribution
<1>6. CASE PassEnd
  <2>1. /\ UNCHANGED <<device, lease>> /\ pass' = "idle" /\ want' = NoRecord
        /\ pass \in {"narrow", "orphans"}
        /\ resolver' = IF failed THEN resolver ELSE want
    BY <1>6 DEF PassEnd, Closed
  <2>2. CASE failed
    BY <2>1, <2>2 DEF Distinct, NoRecord, AddWithdrawn, VerifiedDevice, NarrowFails, Attribution
  <2>3. CASE ~failed
    <3>1. \A p \in Peers : device[p] # None => Wanted(p, device[p])
      BY <2>1, <2>3 DEF VerifiedDevice, NarrowFails
    <3>2. Attribution'
      BY <2>1, <2>3, <3>1 DEF Attribution, Distinct, Wanted
    <3> QED BY <2>1, <3>2 DEF Distinct, NoRecord, AddWithdrawn, VerifiedDevice, NarrowFails
  <2> QED BY <2>2, <2>3
<1>7. ASSUME NEW p \in Peers, PassRevoke(p) PROVE AttributionInv'
  BY <1>7, QuietAttributes DEF PassRevoke, Distinct
<1>8. ASSUME NEW p \in Peers, PassRemove(p) PROVE AttributionInv'
  <2>1. UNCHANGED <<resolver, lease, want, add, pass>> /\ pass = "repair"
    BY <1>8 DEF PassRemove
  <2>2. \A q \in Peers : device'[q] # None => device'[q] = device[q]
    BY <1>8 DEF PassRemove, AccessTypeOK
  <2> QED BY <2>1, <2>2 DEF Distinct, AddWithdrawn, VerifiedDevice, NarrowFails, Attribution
<1>9. ASSUME NEW p \in Peers, PassAdd(p) PROVE AttributionInv'
  <2>1. UNCHANGED <<resolver, lease, want, pass>> /\ pass = "repair" /\ p \in add /\ add' \subseteq add
    BY <1>9 DEF PassAdd
  <2>2. \A q \in Peers : device'[q] # None => device'[q] = device[q] \/ (q = p /\ device'[q] = want[p].ip)
    BY <1>9 DEF PassAdd, AccessTypeOK
  <2>3. \A q \in Peers : resolver[q] # None => resolver[q].ip # want[p].ip
    BY <2>1 DEF AddWithdrawn
  <2>4. Attribution'
    BY <2>1, <2>2, <2>3 DEF Attribution
  <2> QED BY <2>1, <2>4 DEF Distinct, AddWithdrawn, VerifiedDevice, NarrowFails
<1> QED BY <1>1, <1>2, <1>3, <1>4, <1>5, <1>6, <1>7, <1>8, <1>9 DEF PassStep

\* So does every other step.
LEMMA StepAttributes == Typed /\ AttributionInv /\ [AccessNext]_vars => AttributionInv'
<1> SUFFICES ASSUME Typed, AttributionInv, [AccessNext]_vars PROVE AttributionInv' OBVIOUS
<1>1. CASE PassStep
  BY <1>1, PassAttributes
<1>2. CASE LoopStep
  BY <1>2, QuietAttributes
     DEF LoopStep, Lookup, AdmitCheck, AdmitReuse, AdmitFresh, AdmitRefused, Register, Submit,
         LoopOnly, durable, progress, AttributionInv, Distinct
<1>3. ASSUME NEW p \in Peers, Grant(p) \/ Withdraw(p) \/ Lapse(p) \/ Change(p) PROVE AttributionInv'
  <2>1. Distinct(lease)'
    BY <1>3, CommitKeepsDistinct DEF AttributionInv
  <2>2. UNCHANGED <<device, resolver, pass, want, add, failed>>
    BY <1>3 DEF Grant, Withdraw, Lapse, Change, Commit, progress
  <2> QED BY <2>1, <2>2, QuietAttributes
<1>4. ASSUME NEW p \in Peers, Housekeeping(p) \/ Receive(p) \/ IdleEvict(p) \/ Migrate(p)
      PROVE  AttributionInv'
  BY <1>4, QuietAttributes
     DEF Housekeeping, HookFindsNothing, HookRevokes, ReapRoute, Receive, IdleEvict, Migrate,
         LoopOnly, durable, progress, AttributionInv, Distinct
<1>5. ASSUME NEW p \in Peers, LosePeer(p) PROVE AttributionInv'
  <2>1. UNCHANGED <<resolver, lease, want, add, pass, failed>>
    BY <1>5 DEF LosePeer, durable, progress
  <2>2. \A q \in Peers : device'[q] # None => device'[q] = device[q]
    BY <1>5 DEF LosePeer, Typed, AccessTypeOK
  <2> QED BY <2>1, <2>2
          DEF AttributionInv, Distinct, AddWithdrawn, VerifiedDevice, Wanted, NarrowFails, Attribution
<1>6. CASE UNCHANGED vars
  BY <1>6, QuietAttributes DEF vars, AttributionInv, Distinct
<1> QED BY <1>1, <1>2, <1>3, <1>4, <1>5, <1>6 DEF AccessNext, Environment

\* So between any two steps of a pass the address that the device lets a key send
\* from is known to the resolver for no other key (Attribution; peer_sync.go:832-
\* 1018).  It is about the two as they are at one time, and not about a packet that
\* was decrypted before an address was handed over and is looked up after it.
THEOREM PacketsAreAttributed == AccessSpec => []Attribution
<1>1. AttributionInv => Attribution
  BY DEF AttributionInv
<1> QED BY <1>1, InitTyped, StepTyped, InitAttributes, StepAttributes, PTL DEF AccessSpec

-----------------------------------------------------------------------------
(* Enforcement.                                                             *)

\* What has not changed since the pass read it is what the pass wants.
WantCurrent ==
    /\ covered \cap touched = {}
    /\ pass # "idle" => \A p \in Peers \ touched : want[p] = lease[p]

\* Outside its repairs a pass has no session left to revoke (peer_sync.go:963).
RevokeQuiet == pass \in {"idle", "status", "verified"} => revoke = {}

\* A published record is one the device enforces (peer_sync.go:1008-1014), and
\* is withdrawn before its peer is removed (peer_sync.go:926-955).
PublishedDevice ==
    /\ ~blind => \A p \in Peers : resolver[p] # None => device[p] = resolver[p].ip
    /\ pass = "repair" => \A p \in remove : resolver[p] = None

\* The records that survive the classification are as wanted, and what has
\* been verified is complete (peer_sync.go:904-970).
PublishedWanted ==
    /\ pass \in {"repair", "verified", "orphans"} /\ ~blind =>
          \A p \in Peers : resolver[p] # None => resolver[p] = want[p]
    /\ pass \in {"verified", "orphans"} /\ ~failed /\ ~blind => DeviceHas(want)

Matches(p, l) == l # None /\ session[p].ip = l.ip /\ session[p].owner = l.owner

\* A session is the published owner's, or about to be revoked.
SessionKnown ==
    ~blind => \A p \in Peers \ outrun :
        session[p] # None => p \in revoke \/ Matches(p, resolver[p])

\* CoveredIsEnforced, in its three parts.
DeviceCovered == \A p \in covered : device[p] # None => Holds(p, device[p])
ResolverCovered == \A p \in covered : resolver[p] # None => resolver[p] = lease[p]
SessionCovered ==
    ~blind => \A p \in covered \ outrun : session[p] # None => Matches(p, lease[p])

EnforcementInv ==
    /\ WantCurrent /\ RevokeQuiet /\ PublishedDevice /\ PublishedWanted /\ SessionKnown
    /\ DeviceCovered /\ ResolverCovered /\ SessionCovered

\* It holds at first.
LEMMA InitEnforces == AccessInit => EnforcementInv
<1> SUFFICES ASSUME AccessInit PROVE EnforcementInv OBVIOUS
<1>1. WantCurrent /\ RevokeQuiet
  BY DEF AccessInit, WantCurrent, RevokeQuiet
<1>2. PublishedDevice /\ PublishedWanted
  BY DEF AccessInit, PublishedDevice, PublishedWanted
<1>3. SessionKnown /\ SessionCovered
  BY DEF AccessInit, NoRecord, SessionKnown, SessionCovered
<1>4. DeviceCovered /\ ResolverCovered
  BY DEF AccessInit, DeviceCovered, ResolverCovered, Holds
<1> QED BY <1>1, <1>2, <1>3, <1>4 DEF EnforcementInv

\* A step that only ends sessions, or changes none of this.
LEMMA EndingEnforces ==
  ASSUME Typed, EnforcementInv,
         UNCHANGED <<lease, device, resolver, pass, want, remove, failed, covered, touched, blind>>,
         revoke' \subseteq revoke,
         \A p \in Peers : \/ session'[p] = None
                          \/ session'[p] = session[p] /\ (p \in revoke => p \in revoke')
                             /\ (p \in outrun => p \in outrun')
  PROVE  EnforcementInv'
<1> USE DEF EnforcementInv, Typed
<1>1. WantCurrent'
  BY DEF WantCurrent
<1>2. RevokeQuiet'
  BY DEF RevokeQuiet
<1>3. PublishedDevice' /\ PublishedWanted'
  BY DEF PublishedDevice, PublishedWanted, DeviceHas
<1>4. SessionKnown'
  BY DEF SessionKnown, Matches
<1>5. DeviceCovered' /\ ResolverCovered'
  BY DEF DeviceCovered, ResolverCovered, Holds
<1>6. SessionCovered'
  BY DEF SessionCovered, Matches, AccessTypeOK
<1> QED BY <1>1, <1>2, <1>3, <1>4, <1>5, <1>6

\* A revocation ends the peer's session and no other.
LEMMA RevokedEnds ==
  ASSUME Typed, NEW p \in Peers, SessionRevoked(p)
  PROVE  \A q \in Peers : \/ session'[q] = None
                          \/ q # p /\ session'[q] = session[q] /\ (q \in outrun => q \in outrun')
<1>1. CASE session[p] = None
  BY <1>1 DEF SessionRevoked, runtime
<1>2. CASE session[p] # None
  BY <1>2 DEF SessionRevoked, Typed, AccessTypeOK
<1> QED BY <1>1, <1>2

\* A commit takes its peer out of what is covered (peer_changes.go:282-480).
LEMMA CommitEnforces ==
  ASSUME Typed, EnforcementInv, NEW p \in Peers, NEW l \in Leases \cup {None}, Commit(p, l)
  PROVE  EnforcementInv'
<1> USE DEF EnforcementInv, Commit, runtime, progress
<1>1. /\ UNCHANGED <<device, resolver, session, outrun, pass, want, revoke, remove, failed, blind>>
      /\ covered' = covered \ {p} /\ touched' = touched \cup {p}
      /\ \A q \in Peers : q # p => lease'[q] = lease[q]
  BY DEF Typed, AccessTypeOK
<1>2. WantCurrent'
  BY <1>1 DEF WantCurrent
<1>3. RevokeQuiet' /\ SessionKnown'
  BY <1>1 DEF RevokeQuiet, SessionKnown, Matches
<1>4. PublishedDevice' /\ PublishedWanted'
  BY <1>1 DEF PublishedDevice, PublishedWanted, DeviceHas
<1>5. DeviceCovered' /\ ResolverCovered' /\ SessionCovered'
  BY <1>1 DEF DeviceCovered, ResolverCovered, SessionCovered, Holds, Matches, Typed, AccessTypeOK
<1> QED BY <1>2, <1>3, <1>4, <1>5

\* An admission from a record that is still published (vpn_ingress.go:297-363).
LEMMA AdmissionEnforces == ASSUME Typed, EnforcementInv, AdmitFresh PROVE EnforcementInv'
<1> DEFINE p == loop.as
           n == [id |-> FreshID(p), owner |-> loop.lease.owner, ip |-> loop.lease.ip]
<1> USE DEF EnforcementInv, LoopOnly, durable, progress
<1>1. /\ UNCHANGED <<lease, device, resolver, pass, want, revoke, remove, failed, covered, touched, blind>>
      /\ session' = [session EXCEPT ![p] = n]
      /\ outrun' = IF resolver[p] = loop.lease THEN outrun \ {p} ELSE outrun \cup {p}
  BY DEF AdmitFresh
<1>2. p \in Peers /\ loop.lease \in Leases /\ loop.lease # None
  BY NoneIsNothing DEF AdmitFresh, Typed, AccessTypeOK, LoopTypeOK
<1>3. n.ip = loop.lease.ip /\ n.owner = loop.lease.owner
  OBVIOUS
<1> HIDE DEF n, p
<1>4. \A q \in Peers : session'[q] = IF q = p THEN n ELSE session[q]
  BY <1>1 DEF Typed, AccessTypeOK
<1>5. WantCurrent' /\ RevokeQuiet' /\ DeviceCovered' /\ ResolverCovered'
  BY <1>1 DEF WantCurrent, RevokeQuiet, DeviceCovered, ResolverCovered, Holds
<1>6. PublishedDevice' /\ PublishedWanted'
  BY <1>1 DEF PublishedDevice, PublishedWanted, DeviceHas
<1>7. SessionKnown'
  BY <1>1, <1>2, <1>3, <1>4 DEF SessionKnown, Matches
<1>8. SessionCovered'
  BY <1>1, <1>2, <1>3, <1>4 DEF SessionCovered, ResolverCovered, Matches, Typed, AccessTypeOK
<1> QED BY <1>5, <1>6, <1>7, <1>8

\* What the classification leaves published is wanted as it is, and whatever it
\* withdraws has its session revoked (peer_sync.go:904-970).
LEMMA ClassifyKeepsWanted ==
  ASSUME Typed, AttributionInv, EnforcementInv, PassClassify, ~blind,
         NEW p \in Peers, resolver[p] # None
  PROVE  IF p \in InTransition THEN p \in revoke' ELSE resolver[p] = want[p]
<1> USE DEF Typed, AttributionInv, EnforcementInv
<1>1. device[p] = resolver[p].ip /\ device[p] # None
  BY LeaseFields, NoneIsNothing DEF PublishedDevice, AccessTypeOK
<1>2. CASE p \in Drifted
  BY <1>2 DEF PassClassify, InTransition
<1>3. CASE p \in Handoffs
  <2>1. p \in OwnersOf(want[p].ip) /\ want[p] # None /\ p \notin Stable
    BY <1>1, <1>3 DEF Handoffs, Stable, InPlace, Wanted, OwnersOf
  <2>2. p \in InTransition
    BY <2>1 DEF InTransition, TransitionIPs
  <2> QED BY <1>3, <2>2 DEF PassClassify
<1>4. CASE p \notin Drifted /\ p \notin Handoffs
  <2>1. p \in Stable /\ want[p] # None /\ want[p].ip = resolver[p].ip
    BY <1>1, <1>4 DEF Drifted, Handoffs, Stable, InPlace, Wanted
  <2>2. \A q \in Peers : resolver[q] # None /\ resolver[q].ip = resolver[p].ip =>
            q = p /\ resolver[q] = want[p]
    BY <2>1 DEF Stable, UnchangedOwner, OwnersOf, Agrees
  <2>3. \A q \in Drifted : resolver[q] # None => resolver[q].ip # resolver[p].ip
    BY <1>4, <2>2 DEF Drifted
  <2>4. \A q \in Peers : want[q] # None /\ q \notin Stable => want[q].ip # resolver[p].ip
    BY <2>1 DEF Distinct
  <2>5. resolver[p].ip \notin TransitionIPs
    BY <2>3, <2>4 DEF TransitionIPs
  <2>6. p \notin InTransition
    BY <1>4, <2>5 DEF InTransition, OwnersOf
  <2> QED BY <2>2, <2>6
<1> QED BY <1>2, <1>3, <1>4

\* A pass keeps what is covered enforced (peer_sync.go:832-1018).
LEMMA PassEnforces == ASSUME Typed, AttributionInv, EnforcementInv, PassStep PROVE EnforcementInv'
<1> USE DEF EnforcementInv, PassOnly, durable, runtime, progress
<1>0. failed \in BOOLEAN
  BY DEF Typed, AccessTypeOK
<1>1. CASE PassRead
  <2>1. /\ UNCHANGED <<lease, device, session, outrun, revoke, remove, failed, covered>>
        /\ touched' = {} /\ pass' \in {"idle", "status"} /\ revoke = {}
    BY <1>1 DEF PassRead, RevokeQuiet
  <2>2. \/ pass' = "status" /\ want' = lease /\ resolver' = resolver /\ blind' = blind
        \/ pass' = "idle" /\ resolver' = NoRecord /\ blind'
    BY <1>1 DEF PassRead
  <2>3. \A p \in Peers : resolver'[p] # None => resolver'[p] = resolver[p]
    BY <2>2 DEF NoRecord
  <2>4. WantCurrent' /\ RevokeQuiet'
    BY <2>1, <2>2 DEF WantCurrent, RevokeQuiet
  <2>5. PublishedDevice' /\ PublishedWanted'
    BY <2>1, <2>2 DEF PublishedDevice, PublishedWanted
  <2>6. SessionKnown' /\ SessionCovered'
    BY <2>1, <2>2 DEF SessionKnown, SessionCovered, Matches
  <2>7. DeviceCovered' /\ ResolverCovered'
    BY <2>1, <2>3 DEF DeviceCovered, ResolverCovered, Holds, Typed, AccessTypeOK
  <2> QED BY <2>4, <2>5, <2>6, <2>7
<1>2. CASE PassClassify
  <2>1. /\ UNCHANGED <<lease, device, session, outrun, want, covered, touched, blind>>
        /\ pass = "status" /\ pass' = "repair"
        /\ remove' = Drifted /\ revoke = {}
    BY <1>2 DEF PassClassify, RevokeQuiet
  <2>2. \A p \in Peers : resolver'[p] = IF p \in InTransition THEN None ELSE resolver[p]
    BY <1>2 DEF PassClassify, Withdrawn
  <2>3. \A p \in remove' : resolver'[p] = None
    BY <2>1, <2>2 DEF InTransition, Drifted
  <2>4. ASSUME NEW p \in Peers, resolver[p] # None, ~blind
        PROVE  IF p \in InTransition THEN p \in revoke' ELSE resolver[p] = want[p]
    BY <1>2, <2>4, ClassifyKeepsWanted
  <2>5. PublishedDevice'
    BY <2>1, <2>2, <2>3 DEF PublishedDevice
  <2>6. PublishedWanted'
    BY <2>1, <2>2, <2>4 DEF PublishedWanted
  <2>7. SessionKnown'
    BY <2>1, <2>2, <2>4 DEF SessionKnown, Matches
  <2>8. WantCurrent' /\ RevokeQuiet' /\ DeviceCovered' /\ ResolverCovered' /\ SessionCovered'
    BY <2>1, <2>2
       DEF WantCurrent, RevokeQuiet, DeviceCovered, ResolverCovered, SessionCovered, Holds, Matches,
           Typed, AccessTypeOK
  <2> QED BY <2>5, <2>6, <2>7, <2>8
<1>3. CASE PassNarrow
  <2> DEFINE gone == {p \in Peers : resolver[p] # None /\ ~Agrees(resolver[p], want[p])}
  <2>1. /\ UNCHANGED <<lease, device, session, outrun, want, remove, covered, touched, blind>>
        /\ pass = "status" /\ pass' = "narrow" /\ revoke = {} /\ revoke' = gone
    BY <1>3 DEF PassNarrow, RevokeQuiet
  <2>2. \A p \in Peers : resolver'[p] = IF p \in gone THEN None ELSE resolver[p]
    BY <1>3 DEF PassNarrow, Withdrawn
  <2> HIDE DEF gone
  <2>3. PublishedDevice' /\ PublishedWanted'
    BY <2>1, <2>2 DEF PublishedDevice, PublishedWanted
  <2>4. SessionKnown'
    BY <2>1, <2>2 DEF SessionKnown, Matches
  <2>5. WantCurrent' /\ RevokeQuiet' /\ DeviceCovered' /\ ResolverCovered' /\ SessionCovered'
    BY <2>1, <2>2
       DEF WantCurrent, RevokeQuiet, DeviceCovered, ResolverCovered, SessionCovered, Holds, Matches,
           Typed, AccessTypeOK
  <2> QED BY <2>3, <2>4, <2>5
<1>4. CASE PassVerify
  <2>1. /\ UNCHANGED <<lease, device, resolver, session, outrun, want, revoke, remove, covered, touched, blind>>
        /\ pass = "repair" /\ pass' = "verified" /\ revoke = {}
    BY <1>4 DEF PassVerify
  <2>2. ~failed' => DeviceHas(want)
    BY <1>0, <1>4, Zenon DEF PassVerify
  <2>3. PublishedDevice' /\ PublishedWanted'
    BY <2>1, <2>2 DEF PublishedDevice, PublishedWanted, DeviceHas
  <2>4. SessionKnown' /\ SessionCovered'
    BY <2>1 DEF SessionKnown, SessionCovered, Matches
  <2>5. WantCurrent' /\ RevokeQuiet' /\ DeviceCovered' /\ ResolverCovered'
    BY <2>1 DEF WantCurrent, RevokeQuiet, DeviceCovered, ResolverCovered, Holds
  <2> QED BY <2>3, <2>4, <2>5
<1>5. CASE PassOrphans
  <2>1. /\ UNCHANGED <<lease, device, resolver, session, outrun, want, remove, covered, touched, blind>>
        /\ pass = "verified" /\ pass' = "orphans" /\ revoke = {}
    BY <1>5 DEF PassOrphans, RevokeQuiet
  <2>2. ~failed' => ~failed
    BY <1>0, <1>5, Zenon DEF PassOrphans
  <2>3. PublishedDevice' /\ PublishedWanted'
    BY <2>1, <2>2 DEF PublishedDevice, PublishedWanted, DeviceHas
  <2>4. SessionKnown' /\ SessionCovered'
    BY <2>1 DEF SessionKnown, SessionCovered, Matches
  <2>5. WantCurrent' /\ RevokeQuiet' /\ DeviceCovered' /\ ResolverCovered'
    BY <2>1 DEF WantCurrent, RevokeQuiet, DeviceCovered, ResolverCovered, Holds
  <2> QED BY <2>3, <2>4, <2>5
<1>6. CASE PassEnd
  <2>1. /\ UNCHANGED <<lease, device, session, outrun, touched, blind>>
        /\ pass \in {"narrow", "orphans"} /\ pass' = "idle" /\ revoke = {} /\ revoke' = {} /\ remove' = {}
        /\ resolver' = IF failed THEN resolver ELSE want
        /\ covered' = IF ~failed THEN Peers \ touched ELSE covered
    BY <1>6 DEF PassEnd, Closed
  <2>2. WantCurrent' /\ RevokeQuiet' /\ PublishedWanted'
    BY <2>1 DEF WantCurrent, RevokeQuiet, PublishedWanted
  <2>3. CASE failed
    <3>1. resolver' = resolver /\ covered' = covered
      BY <2>1, <2>3
    <3> QED BY <2>1, <2>2, <3>1
         DEF PublishedDevice, SessionKnown, DeviceCovered, ResolverCovered, SessionCovered, Holds, Matches
  <2>4. CASE ~failed
    <3>1. pass = "orphans" /\ resolver' = want /\ covered' = Peers \ touched
      BY <2>1, <2>4 DEF AttributionInv, NarrowFails
    <3>2. \A p \in Peers : device[p] # None => Wanted(p, device[p])
      BY <2>4, <3>1 DEF AttributionInv, VerifiedDevice
    <3>3. \A p \in Peers \ touched : want[p] = lease[p]
      BY <3>1 DEF WantCurrent
    <3>4. PublishedDevice'
      BY <2>1, <2>4, <3>1 DEF PublishedDevice, PublishedWanted, DeviceHas
    <3>5. ~blind => \A p \in Peers \ outrun : session[p] # None => Matches(p, want[p])
      BY <2>1, <3>1 DEF SessionKnown, PublishedWanted, Matches
    <3>6. SessionKnown' /\ SessionCovered'
      BY <2>1, <3>1, <3>3, <3>5 DEF SessionKnown, SessionCovered, Matches
    <3>7. DeviceCovered' /\ ResolverCovered'
      BY <2>1, <3>1, <3>2, <3>3 DEF DeviceCovered, ResolverCovered, Holds, Wanted
    <3> QED BY <2>2, <3>4, <3>6, <3>7
  <2> QED BY <1>0, <2>3, <2>4
<1>7. ASSUME NEW p \in Peers, PassRevoke(p) PROVE EnforcementInv'
  <2>1. /\ UNCHANGED <<lease, device, resolver, pass, want, remove, failed, covered, touched, blind>>
        /\ revoke' = revoke \ {p} /\ SessionRevoked(p)
    BY <1>7 DEF PassRevoke
  <2>2. \A q \in Peers : \/ session'[q] = None
                         \/ q # p /\ session'[q] = session[q] /\ (q \in outrun => q \in outrun')
    BY <2>1, RevokedEnds
  <2>3. \A q \in Peers : \/ session'[q] = None
                         \/ session'[q] = session[q] /\ (q \in revoke => q \in revoke')
                            /\ (q \in outrun => q \in outrun')
    BY <2>1, <2>2
  <2> QED BY <2>1, <2>3, EndingEnforces
<1>8. ASSUME NEW p \in Peers, PassRemove(p) PROVE EnforcementInv'
  <2>1. /\ UNCHANGED <<lease, resolver, session, outrun, pass, want, revoke, covered, touched, blind>>
        /\ pass = "repair" /\ p \in remove /\ remove' \subseteq remove
    BY <1>8 DEF PassRemove
  <2>2. \A q \in Peers : device'[q] = device[q] \/ (q = p /\ device'[q] = None)
    BY <1>8 DEF PassRemove, Typed, AccessTypeOK
  <2>3. PublishedDevice' /\ PublishedWanted'
    BY <2>1, <2>2 DEF PublishedDevice, PublishedWanted
  <2>4. SessionKnown' /\ SessionCovered'
    BY <2>1 DEF SessionKnown, SessionCovered, Matches
  <2>5. WantCurrent' /\ RevokeQuiet' /\ DeviceCovered' /\ ResolverCovered'
    BY <2>1, <2>2
       DEF WantCurrent, RevokeQuiet, DeviceCovered, ResolverCovered, Holds, Typed, AccessTypeOK
  <2> QED BY <2>3, <2>4, <2>5
<1>9. ASSUME NEW p \in Peers, PassAdd(p) PROVE EnforcementInv'
  <2>1. /\ UNCHANGED <<lease, resolver, session, outrun, pass, want, revoke, remove, covered, touched, blind>>
        /\ pass = "repair" /\ want[p] # None
    BY <1>9 DEF PassAdd, Typed, AddWanted
  <2>2. \A q \in Peers : \/ device'[q] = device[q]
                         \/ q = p /\ device[p] = None /\ device'[p] = want[p].ip
    BY <1>9 DEF PassAdd, Installable, Typed, AccessTypeOK
  <2>3. device[p] = None /\ ~blind => resolver[p] = None
    BY LeaseFields, NoneIsNothing DEF PublishedDevice, Typed, AccessTypeOK
  <2>4. PublishedDevice' /\ PublishedWanted'
    BY <2>1, <2>2, <2>3 DEF PublishedDevice, PublishedWanted
  <2>5. SessionKnown' /\ SessionCovered'
    BY <2>1 DEF SessionKnown, SessionCovered, Matches
  <2>6. DeviceCovered'
    BY <2>1, <2>2 DEF DeviceCovered, WantCurrent, Holds, Typed, AccessTypeOK
  <2>7. WantCurrent' /\ RevokeQuiet' /\ ResolverCovered'
    BY <2>1 DEF WantCurrent, RevokeQuiet, ResolverCovered
  <2> QED BY <2>4, <2>5, <2>6, <2>7
<1> QED BY <1>1, <1>2, <1>3, <1>4, <1>5, <1>6, <1>7, <1>8, <1>9 DEF PassStep

\* Every step keeps to it.
LEMMA StepEnforces ==
  Typed /\ AttributionInv /\ EnforcementInv /\ [AccessNext]_vars => EnforcementInv'
<1> SUFFICES ASSUME Typed, AttributionInv, EnforcementInv, [AccessNext]_vars PROVE EnforcementInv'
  OBVIOUS
<1> USE DEF durable, runtime, progress, LoopOnly
<1>1. CASE PassStep
  BY <1>1, PassEnforces
<1>2. CASE AdmitFresh
  BY <1>2, AdmissionEnforces
<1>3. CASE LoopStep /\ ~AdmitFresh
  BY <1>3, EndingEnforces
     DEF LoopStep, Lookup, AdmitCheck, AdmitReuse, AdmitRefused, Register, Submit
<1>4. ASSUME NEW p \in Peers, Grant(p) \/ Withdraw(p) \/ Lapse(p) \/ Change(p) PROVE EnforcementInv'
  BY <1>4, CommitEnforces DEF Grant, Withdraw, Lapse, Change
<1>5. ASSUME NEW p \in Peers, HookFindsNothing(p) \/ ReapRoute(p) \/ Receive(p) \/ Migrate(p)
      PROVE  EnforcementInv'
  BY <1>5, EndingEnforces DEF HookFindsNothing, ReapRoute, Receive, Migrate
<1>6. ASSUME NEW p \in Peers, HookRevokes(p) PROVE EnforcementInv'
  <2>1. /\ UNCHANGED <<lease, device, resolver, pass, want, revoke, remove, failed, covered, touched, blind>>
        /\ SessionRevoked(p)
    BY <1>6 DEF HookRevokes
  <2>2. \A q \in Peers : \/ session'[q] = None
                         \/ session'[q] = session[q] /\ (q \in outrun => q \in outrun')
    BY <2>1, RevokedEnds
  <2> QED BY <2>1, <2>2, EndingEnforces
<1>7. ASSUME NEW p \in Peers, IdleEvict(p) PROVE EnforcementInv'
  <2>1. /\ UNCHANGED <<lease, device, resolver, pass, want, revoke, remove, failed, covered, touched, blind>>
        /\ session' = [session EXCEPT ![p] = None] /\ outrun' = outrun \ {p}
    BY <1>7 DEF IdleEvict
  <2>2. \A q \in Peers : \/ session'[q] = None
                         \/ session'[q] = session[q] /\ (q \in outrun => q \in outrun')
    BY <2>1 DEF Typed, AccessTypeOK
  <2> QED BY <2>1, <2>2, EndingEnforces
<1>8. ASSUME NEW p \in Peers, LosePeer(p) PROVE EnforcementInv'
  <2>1. /\ UNCHANGED <<lease, resolver, session, outrun, pass, want, revoke, remove, failed, covered, touched>>
        /\ blind'
    BY <1>8 DEF LosePeer
  <2>2. \A q \in Peers : device'[q] # None => device'[q] = device[q]
    BY <1>8 DEF LosePeer, Typed, AccessTypeOK
  <2>3. WantCurrent' /\ RevokeQuiet' /\ PublishedDevice' /\ PublishedWanted'
    BY <2>1 DEF EnforcementInv, WantCurrent, RevokeQuiet, PublishedDevice, PublishedWanted
  <2>4. SessionKnown' /\ SessionCovered'
    BY <2>1 DEF SessionKnown, SessionCovered
  <2>5. DeviceCovered' /\ ResolverCovered'
    BY <2>1, <2>2
       DEF EnforcementInv, DeviceCovered, ResolverCovered, Holds, Typed, AccessTypeOK
  <2> QED BY <2>3, <2>4, <2>5 DEF EnforcementInv
<1>9. CASE UNCHANGED vars
  BY <1>9, EndingEnforces DEF vars
<1> QED BY <1>1, <1>2, <1>3, <1>4, <1>5, <1>6, <1>7, <1>8, <1>9 DEF AccessNext, Housekeeping, Environment

\* Whatever packets, failed passes, evictions and device faults come, a peer
\* whose row has not changed since a successful pass read it stays enforced by
\* device and resolver, and in its session too unless a durable read has failed or
\* the device has lost a peer since the start (`blind`), or the session was
\* admitted from a record withdrawn meanwhile (`outrun`; peer_sync.go:832-1018).
THEOREM CoveredStaysEnforced == AccessSpec => []CoveredIsEnforced
<1>1. EnforcementInv => CoveredIsEnforced
  BY DEF EnforcementInv, DeviceCovered, ResolverCovered, SessionCovered, Matches, CoveredIsEnforced
<1> QED BY <1>1, InitTyped, StepTyped, InitAttributes, StepAttributes, InitEnforces, StepEnforces,
           PTL DEF AccessSpec

-----------------------------------------------------------------------------
(* The way back.                                                            *)

\* An address answers for a peer whose route has it, and a route has the
\* address of its session (forwarder/routes.go:97-234).
AnswersForRoute ==
    \A i \in IPs : byIP[i] # None => route[byIP[i]] # None /\ route[byIP[i]].ip = i

RouteOfSession ==
    \A p \in Peers : session[p] # None /\ route[p] # None => route[p].ip = session[p].ip

\* No other record and no other session has the address of an enforced peer
\* (peer_sync.go:904-1018).
HeldAlone ==
    \A p \in covered, q \in Peers : lease[p] # None /\ q # p =>
        /\ resolver[q] # None => resolver[q].ip # lease[p].ip
        /\ ~blind /\ q \notin outrun /\ session[q] # None => session[q].ip # lease[p].ip

ReturnInv == AnswersForRoute /\ RouteOfSession /\ HeldAlone

\* It holds at first.
LEMMA InitReturns == AccessInit => ReturnInv
<1> SUFFICES ASSUME AccessInit PROVE ReturnInv OBVIOUS
<1>1. AnswersForRoute /\ RouteOfSession
  BY DEF AccessInit, NoRecord, AnswersForRoute, RouteOfSession
<1>2. HeldAlone
  BY DEF AccessInit, NoRecord, HeldAlone, Holds
<1> QED BY <1>1, <1>2 DEF ReturnInv

\* A retired route takes with it the address it answers for.
LEMMA RetiredAnswers ==
  ASSUME Typed, AnswersForRoute, NEW p \in Peers, NEW id, RouteRetired(p, id)
  PROVE  /\ AnswersForRoute'
         /\ \A q \in Peers : route'[q] # None => route'[q] = route[q]
<1>1. CASE route[p] # None /\ route[p].id = id
  <2>1. route[p].ip \in IPs
    BY <1>1 DEF Typed, AccessTypeOK, RouteRecord
  <2>2. route' = [route EXCEPT ![p] = None]
    BY <1>1 DEF RouteRetired
  <2>3. \A i \in IPs : byIP'[i] # None => byIP'[i] = byIP[i] /\ byIP[i] # p
    BY <1>1, <2>1 DEF RouteRetired, AnswersForRoute, Typed, AccessTypeOK
  <2> QED BY <2>2, <2>3 DEF AnswersForRoute, Typed, AccessTypeOK
<1>2. CASE ~(route[p] # None /\ route[p].id = id)
  BY <1>2 DEF RouteRetired, AnswersForRoute
<1> QED BY <1>1, <1>2

\* A step that only ends sessions and routes, and publishes nothing.
LEMMA EndingReturns ==
  ASSUME Typed, ReturnInv,
         lease' = lease, covered' = covered, blind' = blind,
         AnswersForRoute',
         \A p \in Peers : /\ resolver'[p] # None => resolver'[p] = resolver[p]
                          /\ route'[p] # None => route'[p] = route[p]
                          /\ session'[p] # None => session'[p] = session[p] /\ (p \in outrun => p \in outrun')
  PROVE  ReturnInv'
<1>1. RouteOfSession'
  BY DEF ReturnInv, RouteOfSession
<1>2. HeldAlone'
  BY DEF ReturnInv, HeldAlone, Typed, AccessTypeOK
<1> QED BY <1>1, <1>2 DEF ReturnInv

\* A revocation takes a peer's route away with its session.
LEMMA RevokedReturns ==
  ASSUME Typed, AnswersForRoute, NEW p \in Peers, SessionRevoked(p)
  PROVE  /\ AnswersForRoute'
         /\ \A q \in Peers : /\ route'[q] # None => route'[q] = route[q]
                             /\ session'[q] # None => session'[q] = session[q] /\ (q \in outrun => q \in outrun')
<1>1. CASE session[p] = None
  BY <1>1 DEF SessionRevoked, runtime, AnswersForRoute
<1>2. CASE session[p] # None
  BY <1>2, RetiredAnswers, RevokedEnds DEF SessionRevoked
<1> QED BY <1>1, <1>2

\* A new route takes the address from whoever had it, and drops the address of
\* the route it replaces (forwarder/routes.go:97-160).
LEMMA AdmissionReturns ==
  ASSUME Typed, ReturnInv, AdmitFresh PROVE ReturnInv'
<1> DEFINE p == loop.as
           i == loop.lease.ip
           n == [id |-> FreshID(p), owner |-> loop.lease.owner, ip |-> i]
           r == RouteOf(p, FreshID(p), i)
           dropped == IF route[p] # None /\ byIP[route[p].ip] = p
                      THEN [byIP EXCEPT ![route[p].ip] = None] ELSE byIP
<1>1. /\ UNCHANGED <<lease, covered, blind, resolver>>
      /\ session' = [session EXCEPT ![p] = n] /\ route' = [route EXCEPT ![p] = r]
      /\ byIP' = [dropped EXCEPT ![i] = p]
      /\ outrun' = IF resolver[p] = loop.lease THEN outrun \ {p} ELSE outrun \cup {p}
  BY DEF AdmitFresh, LoopOnly, durable
<1>2. p \in Peers /\ i \in IPs /\ loop.lease \in Leases /\ loop.lease # None
  BY LeaseFields, NoneIsNothing DEF AdmitFresh, Typed, AccessTypeOK, LoopTypeOK
<1>3. FreshID(p) \in SessionIDs
  BY <1>2, FreshIDIsFresh DEF Typed
<1>4. r \in RouteRecord /\ r.ip = i /\ n.ip = i
  BY <1>2, <1>3 DEF RouteRecord, RouteOf
<1>5. r # None
  BY <1>4, NoneIsNothing
<1>6. \A j \in IPs : byIP'[j] # None => (j = i /\ byIP'[j] = p) \/ (byIP'[j] = byIP[j] /\ byIP[j] # p)
  <2>1. route[p] # None => route[p].ip \in IPs
    BY <1>2 DEF Typed, AccessTypeOK, RouteRecord
  <2>2. \A j \in IPs : dropped[j] # None => dropped[j] = byIP[j] /\ byIP[j] # p
    BY <1>2, <2>1 DEF ReturnInv, AnswersForRoute, Typed, AccessTypeOK
  <2>3. dropped \in [IPs -> Peers \cup {None}]
    BY <2>1 DEF Typed, AccessTypeOK
  <2> HIDE DEF dropped
  <2> QED BY <1>1, <1>2, <2>2, <2>3
<1> HIDE DEF n, r, p, i, dropped
<1>7. AnswersForRoute'
  BY <1>1, <1>2, <1>4, <1>5, <1>6 DEF ReturnInv, AnswersForRoute, Typed, AccessTypeOK
<1>8. RouteOfSession'
  BY <1>1, <1>2, <1>4 DEF ReturnInv, RouteOfSession, Typed, AccessTypeOK
<1>9. HeldAlone'
  BY <1>1, <1>2, <1>4 DEF ReturnInv, HeldAlone, Typed, AccessTypeOK, i
<1> QED BY <1>7, <1>8, <1>9 DEF ReturnInv

\* A pass that succeeds publishes distinct addresses (peer_sync.go:1008-1018).
LEMMA PublicationReturns ==
  ASSUME Typed, AttributionInv, EnforcementInv, ReturnInv, PassEnd PROVE ReturnInv'
<1>0. failed \in BOOLEAN
  BY DEF Typed, AccessTypeOK
<1>1. /\ UNCHANGED <<lease, session, outrun, route, byIP, blind, touched>>
      /\ pass \in {"narrow", "orphans"} /\ revoke = {}
      /\ resolver' = IF failed THEN resolver ELSE want
      /\ covered' = IF ~failed THEN Peers \ touched ELSE covered
  BY DEF PassEnd, Closed, PassOnly, durable, runtime
<1>2. AnswersForRoute' /\ RouteOfSession'
  BY <1>1 DEF ReturnInv, AnswersForRoute, RouteOfSession
<1>3. CASE failed
  <2>1. resolver' = resolver /\ covered' = covered
    BY <1>1, <1>3
  <2> QED BY <1>1, <1>2, <2>1 DEF ReturnInv, HeldAlone
<1>4. CASE ~failed
  <2>1. pass = "orphans" /\ resolver' = want /\ covered' = Peers \ touched
    BY <1>1, <1>4 DEF AttributionInv, NarrowFails
  <2>2. \A p \in Peers \ touched : want[p] = lease[p]
    BY <2>1 DEF EnforcementInv, WantCurrent
  <2>3. ~blind => \A q \in Peers \ outrun : session[q] # None => Matches(q, want[q])
    BY <1>1, <2>1 DEF EnforcementInv, SessionKnown, PublishedWanted, Matches
  <2>4. HeldAlone'
    BY <1>1, <2>1, <2>2, <2>3 DEF HeldAlone, AttributionInv, Distinct, Matches
  <2> QED BY <1>2, <2>4 DEF ReturnInv
<1> QED BY <1>0, <1>3, <1>4

\* Every step keeps to it.
LEMMA StepReturns ==
  Typed /\ AttributionInv /\ EnforcementInv /\ ReturnInv /\ [AccessNext]_vars => ReturnInv'
<1> SUFFICES ASSUME Typed, AttributionInv, EnforcementInv, ReturnInv, [AccessNext]_vars
             PROVE  ReturnInv'
  OBVIOUS
<1> USE DEF durable, runtime, progress, LoopOnly, PassOnly
<1>1. ASSUME UNCHANGED <<lease, covered, session, outrun, route, byIP>>, blind' \/ blind' = blind,
             \A p \in Peers : resolver'[p] # None => resolver'[p] = resolver[p]
      PROVE  ReturnInv'
  <2>1. AnswersForRoute' /\ RouteOfSession'
    BY <1>1 DEF ReturnInv, AnswersForRoute, RouteOfSession
  <2>2. HeldAlone'
    BY <1>1 DEF ReturnInv, HeldAlone, Typed, AccessTypeOK
  <2> QED BY <2>1, <2>2 DEF ReturnInv
<1>2. CASE PassRead
  BY <1>1, <1>2 DEF PassRead, NoRecord
<1>3. CASE PassClassify \/ PassNarrow \/ PassVerify \/ PassOrphans
  BY <1>1, <1>3 DEF PassClassify, PassNarrow, PassVerify, PassOrphans, Withdrawn
<1>4. ASSUME NEW p \in Peers,
             \/ PassRemove(p) \/ PassAdd(p) \/ Receive(p) \/ HookFindsNothing(p)
             \/ Migrate(p) \/ LosePeer(p)
      PROVE  ReturnInv'
  BY <1>1, <1>4 DEF PassRemove, PassAdd, Receive, HookFindsNothing, Migrate, LosePeer
<1>5. CASE LoopStep /\ ~AdmitFresh
  BY <1>1, <1>5
     DEF LoopStep, Lookup, AdmitCheck, AdmitReuse, AdmitRefused, Register, Confirm, Submit
<1>6. ASSUME NEW p \in Peers, HookRevokes(p) \/ PassRevoke(p) PROVE ReturnInv'
  <2>1. UNCHANGED <<lease, covered, blind, resolver>> /\ SessionRevoked(p)
    BY <1>6 DEF HookRevokes, PassRevoke
  <2>2. /\ AnswersForRoute'
        /\ \A q \in Peers : /\ route'[q] # None => route'[q] = route[q]
                            /\ session'[q] # None => session'[q] = session[q] /\ (q \in outrun => q \in outrun')
    BY <2>1, RevokedReturns DEF ReturnInv
  <2> QED BY <2>1, <2>2, EndingReturns
<1>7. ASSUME NEW p \in Peers, IdleEvict(p) PROVE ReturnInv'
  <2>1. /\ UNCHANGED <<lease, covered, blind, resolver, route, byIP>>
        /\ session' = [session EXCEPT ![p] = None] /\ outrun' = outrun \ {p}
    BY <1>7 DEF IdleEvict
  <2>2. \A q \in Peers : session'[q] # None => session'[q] = session[q] /\ (q \in outrun => q \in outrun')
    BY <2>1 DEF Typed, AccessTypeOK
  <2> QED BY <2>1, <2>2, EndingReturns DEF ReturnInv, AnswersForRoute
<1>8. ASSUME NEW p \in Peers, ReapRoute(p) PROVE ReturnInv'
  <2>1. UNCHANGED <<lease, covered, blind, resolver, session, outrun>>
    BY <1>8 DEF ReapRoute
  <2>2. AnswersForRoute' /\ \A q \in Peers : route'[q] # None => route'[q] = route[q]
    <3>1. CASE UNCHANGED <<route, byIP>>
      BY <3>1 DEF ReturnInv, AnswersForRoute
    <3>2. CASE \E s \in swept : RouteRetired(p, s.id)
      BY <3>2, RetiredAnswers DEF ReturnInv
    <3> QED BY <1>8, <3>1, <3>2 DEF ReapRoute
  <2> QED BY <2>1, <2>2, EndingReturns
<1>9. ASSUME NEW p \in Peers, NEW l \in Leases \cup {None}, Commit(p, l) PROVE ReturnInv'
  <2>1. /\ UNCHANGED <<resolver, session, outrun, route, byIP, blind>>
        /\ covered' = covered \ {p} /\ \A q \in Peers : q # p => lease'[q] = lease[q]
    BY <1>9 DEF Commit, Typed, AccessTypeOK
  <2> QED BY <2>1 DEF ReturnInv, AnswersForRoute, RouteOfSession, HeldAlone, Typed, AccessTypeOK
<1>10. ASSUME NEW p \in Peers, Grant(p) \/ Withdraw(p) \/ Lapse(p) \/ Change(p) PROVE ReturnInv'
  BY <1>9, <1>10 DEF Grant, Withdraw, Lapse, Change
<1>11. CASE UNCHANGED vars
  BY <1>1, <1>11 DEF vars
<1> QED BY <1>2, <1>3, <1>4, <1>5, <1>6, <1>7, <1>8, <1>10, <1>11, AdmissionReturns, PublicationReturns
        DEF AccessNext, PassStep, Housekeeping, Environment

\* What comes back for the address of a peer whose row a successful pass has covered
\* is given to nobody else, but for a route about to be reaped or one admitted from
\* a record withdrawn meanwhile (`outrun`), and as long as no durable read has
\* failed and the device has lost no peer (`blind`; forwarder/routes.go:97-234,
\* sessions_lifecycle.go:111-158).
THEOREM AddressesAnswerForHolders == AccessSpec => []AddressAnswersForHolder
<1>1. Typed /\ RouteKept /\ ReturnInv => AddressAnswersForHolder
  <2> SUFFICES ASSUME Typed, RouteKept, ReturnInv, ~blind,
                      NEW p \in covered, lease[p] # None,
                      byIP[lease[p].ip] # None, byIP[lease[p].ip] # p
               PROVE  BeingReaped(byIP[lease[p].ip]) \/ byIP[lease[p].ip] \in outrun
    BY Zenon DEF AddressAnswersForHolder
  <2> DEFINE q == byIP[lease[p].ip]
  <2>1. p \in Peers /\ lease[p].ip \in IPs /\ q \in Peers
    BY LeaseFields DEF Typed, AccessTypeOK
  <2>2. route[q] # None /\ route[q].ip = lease[p].ip
    BY <2>1 DEF ReturnInv, AnswersForRoute
  <2>3. CASE session[q] = None
    BY <2>1, <2>2, <2>3 DEF RouteKept, BeingReaped
  <2>4. CASE session[q] # None
    <3>1. session[q].ip = lease[p].ip
      BY <2>1, <2>2, <2>4 DEF ReturnInv, RouteOfSession
    <3> QED BY <2>1, <2>4, <3>1 DEF ReturnInv, HeldAlone
  <2> QED BY <2>3, <2>4
<1>2. AccessInit => RouteKept
  BY DEF AccessInit, NoRecord, RouteKept
<1> QED BY <1>1, <1>2, InitTyped, StepTyped, StepKeepsRoutes, InitAttributes, StepAttributes,
           InitEnforces, StepEnforces, InitReturns, StepReturns, PTL DEF AccessSpec
=============================================================================
