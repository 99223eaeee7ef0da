---------------------------- MODULE ReturnRoutes ----------------------------
(***************************************************************************)
(* The forwarder's return path: packets from a backend go through the      *)
(* queue of a route to the pump of that route, which writes them to the    *)
(* ingress engine that owns the route (internal/vpn/forwarder).            *)
(*                                                                         *)
(* A route is never changed into another one: registering a peer again, or *)
(* binding it to another engine, retires its route and installs a new      *)
(* generation.  Pump, senders, engines and retirements run concurrently:   *)
(*   - f.mu serialises registration and retirement; a registration reads   *)
(*     the engine's fence, which is not under f.mu, before it installs     *)
(*     (registering # None while it holds the lock in between);            *)
(*   - a sender looks the address up, drops f.mu and enqueues later;       *)
(*   - a pump takes a packet, checks under f.mu that its route is the      *)
(*     peer's, and only then asks for the write lock of the route.         *)
(*                                                                         *)
(* Left out: backends (the mismatch check at lookup), rate limits,         *)
(* accounting, and stopping the pumps, which follows the retirement of     *)
(* every route.  Bounds: at most MaxGens registrations.                    *)
(***************************************************************************)
EXTENDS Naturals, FiniteSets

CONSTANTS Peers, Addresses,
          Engines,   \* ingress engines, each with its ReturnPath
          Senders,   \* goroutines reading from backend devices
          MaxGens,   \* bound on the route generations registered
          Sizes,     \* client queue sizes an operator asks for
          Limits,    \* route limits an operator asks for
          Budget,    \* packets all client queues may hold (MaxClientQueueMemoryBytes)
          PumpsRunning, \* have the pumps been started?
          None

ASSUME GensAssumption == MaxGens \in Nat
ASSUME BudgetAssumption == Budget \in Nat \ {0}
ASSUME SizesAssumption ==
    /\ Sizes \subseteq Nat \ {0}
    /\ Limits \subseteq Nat \ {0}
    /\ \E limit \in Limits : limit <= Budget
ASSUME PumpsAssumption == PumpsRunning \in BOOLEAN
ASSUME NoneAssumption == None \notin Peers \cup Engines \cup Nat

VARIABLES
    made,         \* number of generations registered so far
    route,        \* what each generation was registered as
    byPeer,       \* routesByPeer
    byIP,         \* routesByIP
    retired,      \* generations whose stop channel is closed
    joined,       \* retired generations somebody has waited for
    queue,        \* packets in each generation's client queue
    ready,        \* is the notification of its queueReady channel pending?
    pump,         \* where each generation's pump is
    sender,       \* the generation each sender has looked up
    registering,  \* the registration that holds f.mu
    stage,        \* how far the stop of each engine has come
    bufSize,      \* capacity of the queues to come
    maxRoutes     \* route limit

vars == <<made, route, byPeer, byIP, retired, joined, queue, ready, pump, sender,
          registering, stage, bufSize, maxRoutes>>

pumps == <<queue, ready, pump>>
config == <<bufSize, maxRoutes>>

Gens == 1..MaxGens

\* The session is known by the generation it was admitted with.
Route == [peer : Peers, ip : Addresses, path : Engines, session : Gens, cap : Nat]

ASSUME RouteAssumption == None \notin Route

Live(g) == g <= made /\ g \notin retired

Routed == {p \in Peers : byPeer[p] # None}

Closed(e) == stage[e] # "open"

Writing(g) == pump[g] \in {"admitted", "writing"}

MaxQueueWrong(limit) == Budget \div maxRoutes

\* Largest queue a route population leaves room for.
MaxQueue(limit) == Budget \div limit

Capped(size, limit) == IF size <= MaxQueue(limit) THEN size ELSE MaxQueue(limit)

RoutesInit ==
    /\ made = 0
    /\ route = [g \in Gens |-> None]
    /\ byPeer = [p \in Peers |-> None]
    /\ byIP = [a \in Addresses |-> None]
    /\ retired = {}
    /\ joined = {}
    /\ queue = [g \in Gens |-> 0]
    /\ ready = [g \in Gens |-> FALSE]
    /\ pump = [g \in Gens |-> "none"]
    /\ sender = [s \in Senders |-> None]
    /\ registering = None
    /\ stage = [e \in Engines |-> "open"]
    /\ \E size \in Sizes, limit \in Limits :
         /\ limit <= Budget
         /\ maxRoutes = limit
         /\ bufSize = Capped(size, limit)

-----------------------------------------------------------------------------
(* Registration and retirement, under f.mu                                  *)

Unlocked == registering = None

\* The fence is read; Close may still come before the route is installed.
BeginRegistration(p, a, e, s) ==
    /\ Unlocked
    /\ made < MaxGens
    /\ ~Closed(e)
    /\ registering' = [peer |-> p, ip |-> a, path |-> e, session |-> s]
    /\ UNCHANGED <<made, route, byPeer, byIP, retired, joined, pumps, sender, stage, config>>

\* TryRegisterSessionWithReturnPath for a session just admitted
TryRegister(p, a, e) ==
    /\ p \in Routed \/ Cardinality(Routed) < maxRoutes
    /\ BeginRegistration(p, a, e, made + 1)

\* BindSessionReturnPath: a live session is adopted by another engine.
Bind(p, e) ==
    /\ byPeer[p] # None
    /\ route[byPeer[p]].path # e
    /\ byIP[route[byPeer[p]].ip] = byPeer[p]
    /\ BeginRegistration(p, route[byPeer[p]].ip, e, route[byPeer[p]].session)

RetiredUnguarded(G) ==
    /\ retired' = retired \cup G
    /\ byPeer' = [p \in Peers |-> IF byPeer[p] \in G THEN None ELSE byPeer[p]]
    /\ byIP' = [a \in Addresses |-> IF \E g \in G : route[g].ip = a THEN None ELSE byIP[a]]
    /\ queue' = [g \in Gens |-> IF g \in G THEN 0 ELSE queue[g]]

\* Retired generations leave both tables and lose their packets.
Retired(G) ==
    /\ retired' = retired \cup G
    /\ byPeer' = [p \in Peers |-> IF byPeer[p] \in G THEN None ELSE byPeer[p]]
    /\ byIP' = [a \in Addresses |-> IF byIP[a] \in G THEN None ELSE byIP[a]]
    /\ queue' = [g \in Gens |-> IF g \in G THEN 0 ELSE queue[g]]

Install ==
    /\ ~Unlocked
    /\ LET g == made + 1
           old == byPeer[registering.peer]
       IN /\ made' = g
          /\ route' = [route EXCEPT ![g] = [peer |-> registering.peer, ip |-> registering.ip,
                           path |-> registering.path, session |-> registering.session,
                           cap |-> bufSize]]
          /\ retired' = IF old = None THEN retired ELSE retired \cup {old}
          /\ byPeer' = [byPeer EXCEPT ![registering.peer] = g]
          /\ byIP' = [a \in Addresses |->
                         IF a = registering.ip THEN g
                         ELSE IF old # None /\ byIP[a] = old THEN None
                         ELSE byIP[a]]
          /\ queue' = [h \in Gens |-> IF h = old THEN 0 ELSE queue[h]]
          /\ pump' = [pump EXCEPT ![g] = IF PumpsRunning THEN "poll" ELSE "none"]
    /\ registering' = None
    /\ UNCHANGED <<joined, ready, sender, stage, config>>

\* BeginUnregisterSession: whatever session the caller names, however late
Unregister(p, s) ==
    /\ Unlocked
    /\ byPeer[p] # None
    /\ route[byPeer[p]].session = s
    /\ Retired({byPeer[p]})
    /\ UNCHANGED <<made, route, joined, ready, pump, sender, registering, stage, config>>

\* Forwarder.Stop
RetireAllRoutes ==
    /\ Unlocked
    /\ Routed # {}
    /\ Retired({byPeer[p] : p \in Routed})
    /\ UNCHANGED <<made, route, joined, ready, pump, sender, registering, stage, config>>

\* Retirement.Wait takes the write lock of the route once.
Join(g) ==
    /\ g \in retired \ joined
    /\ ~Writing(g)
    /\ joined' = joined \cup {g}
    /\ UNCHANGED <<made, route, byPeer, byIP, retired, pumps, sender, registering, stage, config>>

ReconfigureClientQueueConfig(size, limit) ==
    /\ Unlocked
    /\ limit <= Budget
    /\ Routed # {} => Capped(size, limit) = bufSize
    /\ Cardinality(Routed) <= limit
    /\ bufSize' = Capped(size, limit)
    /\ maxRoutes' = limit
    /\ config' # config
    /\ UNCHANGED <<made, route, byPeer, byIP, retired, joined, pumps, sender, registering, stage>>

-----------------------------------------------------------------------------
(* Stopping an ingress engine: fence, wait for its loops, retire its routes *)

\* ReturnPath.Close waits for the callbacks it has admitted.
CloseReturnPath(e) ==
    /\ stage[e] = "open"
    /\ \A g \in Gens : pump[g] = "writing" => route[g].path # e
    /\ stage' = [stage EXCEPT ![e] = "fenced"]
    /\ UNCHANGED <<made, route, byPeer, byIP, retired, joined, pumps, sender, registering, config>>

OwnedBy(e) == {g \in {byPeer[p] : p \in Routed} : route[g].path = e}

RetireRoutesByReturnPathWrong(e) ==
    /\ stage[e] = "fenced"
    /\ Retired(OwnedBy(e))
    /\ stage' = [stage EXCEPT ![e] = "retired"]
    /\ UNCHANGED <<made, route, joined, ready, pump, sender, registering, config>>

\* The receive loop, which may be registering, has ended; f.mu is free.
RetireRoutesByReturnPath(e) ==
    /\ stage[e] = "fenced"
    /\ Unlocked
    /\ Retired(OwnedBy(e))
    /\ stage' = [stage EXCEPT ![e] = "retired"]
    /\ UNCHANGED <<made, route, joined, ready, pump, sender, registering, config>>

-----------------------------------------------------------------------------
(* RouteBackendToClient                                                     *)

Lookup(s, a) ==
    /\ Unlocked
    /\ sender[s] = None
    /\ byIP[a] # None
    /\ sender' = [sender EXCEPT ![s] = byIP[a]]
    /\ UNCHANGED <<made, route, byPeer, byIP, retired, joined, pumps, registering, stage, config>>

StillRoutedWrong(g) == route[g] # None

\* The route may have been replaced since the lookup.
StillRouted(g) == byIP[route[g].ip] = g

NotifiedWrong(g) == IF queue[g] > 0 THEN [ready EXCEPT ![g] = TRUE] ELSE ready

\* queueReady holds one notification.
Notified(g) == [ready EXCEPT ![g] = TRUE]

\* A full queue drops the packet; otherwise the pump is notified.
Enqueue(s) ==
    /\ Unlocked
    /\ sender[s] # None
    /\ LET g == sender[s]
       IN IF StillRouted(g) /\ queue[g] < route[g].cap
          THEN /\ queue' = [queue EXCEPT ![g] = @ + 1]
               /\ ready' = Notified(g)
          ELSE UNCHANGED <<queue, ready>>
    /\ sender' = [sender EXCEPT ![s] = None]
    /\ UNCHANGED <<made, route, byPeer, byIP, retired, joined, pump, registering, stage, config>>

-----------------------------------------------------------------------------
(* pumpClientQueue and writeClientPacket                                    *)

PumpMoves(g, from, to) ==
    /\ pump[g] = from
    /\ pump' = [pump EXCEPT ![g] = to]
    /\ UNCHANGED <<made, route, byPeer, byIP, retired, joined, sender, registering, stage, config>>

PumpTake(g) ==
    \/ /\ queue[g] > 0
       /\ PumpMoves(g, "poll", "holding")
       /\ queue' = [queue EXCEPT ![g] = @ - 1]
       /\ UNCHANGED ready
    \/ /\ queue[g] = 0
       /\ PumpMoves(g, "poll", "waiting")
       /\ UNCHANGED <<queue, ready>>

PumpNotified(g) ==
    /\ ready[g]
    /\ PumpMoves(g, "waiting", "poll")
    /\ ready' = [ready EXCEPT ![g] = FALSE]
    /\ UNCHANGED queue

PumpExit(g) ==
    /\ g \in retired
    /\ PumpMoves(g, "poll", "gone") \/ PumpMoves(g, "waiting", "gone")
    /\ UNCHANGED <<queue, ready>>

\* A packet whose route is no longer the peer's is dropped.
PumpCheck(g) ==
    /\ Unlocked
    /\ PumpMoves(g, "holding", IF byPeer[route[g].peer] = g THEN "chosen" ELSE "poll")
    /\ UNCHANGED <<queue, ready>>

PumpAdmitWrong(g) ==
    /\ PumpMoves(g, "chosen", "admitted")
    /\ UNCHANGED <<queue, ready>>

\* The write lock is free: only this pump and passing joins take it.
PumpAdmit(g) ==
    /\ PumpMoves(g, "chosen", IF g \in retired THEN "poll" ELSE "admitted")
    /\ UNCHANGED <<queue, ready>>

PumpWriteWrong(g) ==
    /\ PumpMoves(g, "admitted", "writing")
    /\ ~Closed(route[g].path)
    /\ UNCHANGED <<queue, ready>>

\* A fenced engine refuses the packet.
PumpWrite(g) ==
    /\ PumpMoves(g, "admitted", IF Closed(route[g].path) THEN "poll" ELSE "writing")
    /\ UNCHANGED <<queue, ready>>

PumpWritten(g) ==
    /\ PumpMoves(g, "writing", "poll")
    /\ UNCHANGED <<queue, ready>>

Pump(g) == \/ PumpTake(g) \/ PumpNotified(g) \/ PumpExit(g) \/ PumpCheck(g)
           \/ PumpAdmit(g) \/ PumpWrite(g) \/ PumpWritten(g)

-----------------------------------------------------------------------------
RoutesNext ==
    \/ \E p \in Peers, e \in Engines :
         \/ Bind(p, e)
         \/ \E a \in Addresses : TryRegister(p, a, e)
    \/ Install
    \/ \E p \in Peers, s \in Gens : Unregister(p, s)
    \/ RetireAllRoutes
    \/ \E size \in Sizes, limit \in Limits : ReconfigureClientQueueConfig(size, limit)
    \/ \E e \in Engines : CloseReturnPath(e) \/ RetireRoutesByReturnPath(e)
    \/ \E s \in Senders : Enqueue(s) \/ \E a \in Addresses : Lookup(s, a)
    \/ \E g \in Gens : Join(g) \/ Pump(g)

RoutesSpec == RoutesInit /\ [][RoutesNext]_vars

\* Goroutines run when they can and the return callback is bounded
\* (return_path.go:17); whoever waits for f.mu gets it in the end.
RoutesFairSpec ==
    /\ RoutesSpec
    /\ WF_vars(Install)
    /\ \A g \in Gens : WF_vars(Join(g)) /\ SF_vars(Pump(g))
    /\ \A e \in Engines : SF_vars(RetireRoutesByReturnPath(e))
-----------------------------------------------------------------------------
\* Types of the variables.
RoutesTypeOK ==
    /\ made \in 0..MaxGens
    /\ route \in [Gens -> Route \cup {None}]
    /\ \A g \in Gens : route[g] # None <=> g <= made
    /\ byPeer \in [Peers -> (1..made) \cup {None}]
    /\ byIP \in [Addresses -> (1..made) \cup {None}]
    /\ joined \subseteq retired /\ retired \subseteq 1..made
    /\ queue \in [Gens -> Nat]
    /\ ready \in [Gens -> BOOLEAN]
    /\ pump \in [Gens -> {"none", "poll", "waiting", "holding", "chosen", "admitted",
                          "writing", "gone"}]
    /\ \A g \in Gens : pump[g] = "none" <=> g > made \/ ~PumpsRunning
    /\ sender \in [Senders -> (1..made) \cup {None}]
    /\ registering \in [peer : Peers, ip : Addresses, path : Engines, session : Gens] \cup {None}
    /\ registering # None => made < MaxGens
    /\ stage \in [Engines -> {"open", "fenced", "retired"}]
    /\ bufSize \in Nat /\ maxRoutes \in Nat

\* Both tables lead to routes that run, a peer's route is the one it was
\* registered with, and a route that runs is its peer's: no pump is left
\* behind by a replacement and no address leads to a dead one
\* (routes.go:118-143, 208-234).
TablesAgree ==
    /\ \A p \in Peers : byPeer[p] # None =>
         Live(byPeer[p]) /\ route[byPeer[p]].peer = p
    /\ \A a \in Addresses : byIP[a] # None =>
         Live(byIP[a]) /\ route[byIP[a]].ip = a
    /\ \A g \in 1..made : Live(g) => byPeer[route[g].peer] = g

\* A route that runs receives the packets of its address, unless the address was
\* given to another peer since: a late teardown of an older route never cuts a
\* newer one off (routes.go:214-221).
RunningRouteReachable ==
    \A g \in 1..made : Live(g) =>
        \/ byIP[route[g].ip] = g
        \/ \E h \in (g + 1)..made :
             route[h].ip = route[g].ip /\ route[h].peer # route[g].peer

\* A sender that is late for a replacement or a teardown leaves nothing in a
\* queue no pump will empty: it looks the route up again under the lock that a
\* retirement excludes, holds that lock while it enqueues, and drops the packet
\* as unrouted (pumps.go:158-166).  Two comments of the code still describe late
\* senders that "just fill the abandoned buffer and hit ErrQueueFull"
\* (routes.go:225-228) and a send "after releasing the read lock"
\* (forwarder.go:67-71); RouteBackendToClient does neither.
RetiredQueueEmpty == \A g \in retired : queue[g] = 0

\* Once a retirement has been waited for, its generation writes no packet, even
\* if its pump had chosen the device before (client_write.go:211-222).
JoinedIsSilent == \A g \in joined : ~Writing(g)

\* A pump never sleeps over a packet (pumps.go:187-190, 380-398).
NoLostWakeup == \A g \in Gens : pump[g] = "waiting" /\ queue[g] > 0 => ready[g]

\* An engine that has been stopped owns no route and cannot get one, although a
\* registration may have read its fence before it closed (ingress_engine.go:400-450).
StoppedEngineUnrouted ==
    \A e \in Engines : stage[e] = "retired" =>
        /\ OwnedBy(e) = {}
        /\ registering # None => registering.path # e

\* The queues of all routes the limit allows fit the memory budget, whatever the
\* operator reconfigures while sessions come and go (queues.go:159-189).
WithinBudget ==
    /\ Cardinality(Routed) <= maxRoutes
    /\ \A g \in 1..made : Live(g) => route[g].cap * maxRoutes <= Budget

\* Every retirement can be waited for: no write, fence or registration holds its
\* waiter for ever (client_write.go:185-209).
RetirementJoins == \A g \in Gens : g \in retired ~> g \in joined

\* A queued packet is picked up unless its route goes (the stall of issue 39,
\* pumps.go:311-322).
QueueIsServed == \A g \in Gens : queue[g] > 0 ~> (pump[g] = "holding" \/ g \in retired)
=============================================================================
