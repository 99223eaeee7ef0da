------------------------- MODULE ReturnRoutesProofs -------------------------
(***************************************************************************)
(* Proofs about the return path, for every number of peers, addresses,     *)
(* engines, senders and registrations.  Types first; then the agreement of *)
(* the two tables, which is inductive with them.  Empty queues, routes     *)
(* within reach and the memory budget rest on that agreement, the others   *)
(* on the types alone.                                                     *)
(***************************************************************************)
EXTENDS ReturnRoutes, FiniteSetTheorems, TLAPS

\* The queue size an operator gets is a number (queues.go:163-173).
LEMMA CappedIsNat ==
  ASSUME NEW size \in Sizes, NEW limit \in Limits PROVE Capped(size, limit) \in Nat
<1>1. size \in Nat /\ limit \in Nat /\ limit > 0 /\ Budget \in Nat
  BY SizesAssumption, BudgetAssumption
<1>2. Budget \div limit \in Nat
  BY <1>1
<1> QED BY <1>1, <1>2 DEF Capped, MaxQueue

\* A forwarder starts with empty tables (forwarder.go:249-296).
LEMMA InitEstablishesTypes == RoutesInit => RoutesTypeOK
<1> SUFFICES ASSUME RoutesInit PROVE RoutesTypeOK
  OBVIOUS
<1>1. bufSize \in Nat /\ maxRoutes \in Nat
  BY CappedIsNat, SizesAssumption DEF RoutesInit
<1>2. MaxGens \in Nat
  BY GensAssumption
<1>3. \A g \in Gens : g \in Nat /\ g > 0
  BY <1>2 DEF Gens
<1> QED BY <1>1, <1>2, <1>3, NoneAssumption DEF RoutesInit, RoutesTypeOK, Gens

\* Retiring generations keeps the tables' types (routes.go:208-234).
LEMMA RetiredKeepsTypes ==
  ASSUME RoutesTypeOK, NEW G, G \subseteq 1..made, Retired(G),
         UNCHANGED <<made, route, joined, ready, pump, sender, registering, config>>,
         stage' \in [Engines -> {"open", "fenced", "retired"}]
  PROVE  RoutesTypeOK'
<1>1. byPeer' \in [Peers -> (1..made) \cup {None}] /\ byIP' \in [Addresses -> (1..made) \cup {None}]
  BY DEF RoutesTypeOK, Retired
<1>2. queue' \in [Gens -> Nat]
  BY DEF RoutesTypeOK, Retired
<1>3. joined' \subseteq retired' /\ retired' \subseteq 1..made
  BY DEF RoutesTypeOK, Retired
<1> QED BY <1>1, <1>2, <1>3 DEF RoutesTypeOK, config

\* Installing a route keeps the types (routes.go:90-151).
LEMMA InstallKeepsTypes == RoutesTypeOK /\ Install => RoutesTypeOK'
<1> SUFFICES ASSUME RoutesTypeOK, Install PROVE RoutesTypeOK'
  OBVIOUS
<1> DEFINE g == made + 1
           old == byPeer[registering.peer]
<1>1. /\ registering \in [peer : Peers, ip : Addresses, path : Engines, session : Gens]
      /\ made < MaxGens /\ made \in Nat /\ MaxGens \in Nat
  BY GensAssumption DEF RoutesTypeOK, Install, Unlocked
<1>2. registering.peer \in Peers /\ registering.ip \in Addresses /\ registering.path \in Engines
      /\ registering.session \in Gens
  BY <1>1
<1>3. g \in Gens /\ g \in 1..g /\ 1..made \subseteq 1..g /\ g # None /\ g \in 0..MaxGens
  BY <1>1, NoneAssumption DEF Gens
<1>4. old \in (1..made) \cup {None}
  BY <1>2 DEF RoutesTypeOK
<1>5. /\ made' = g
      /\ route' = [route EXCEPT ![g] = [peer |-> registering.peer, ip |-> registering.ip,
                       path |-> registering.path, session |-> registering.session,
                       cap |-> bufSize]]
      /\ retired' = IF old = None THEN retired ELSE retired \cup {old}
      /\ byPeer' = [byPeer EXCEPT ![registering.peer] = g]
      /\ byIP' = [a \in Addresses |-> IF a = registering.ip THEN g
                                      ELSE IF old # None /\ byIP[a] = old THEN None
                                      ELSE byIP[a]]
      /\ queue' = [h \in Gens |-> IF h = old THEN 0 ELSE queue[h]]
      /\ pump' = [pump EXCEPT ![g] = IF PumpsRunning THEN "poll" ELSE "none"]
      /\ registering' = None
      /\ UNCHANGED <<joined, ready, sender, stage, bufSize, maxRoutes>>
  BY DEF Install, config
<1> DEFINE r == [peer |-> registering.peer, ip |-> registering.ip,
                 path |-> registering.path, session |-> registering.session, cap |-> bufSize]
<1>6. r \in Route
  BY <1>2 DEF RoutesTypeOK, Route
<1>7. r # None
  BY <1>6, RouteAssumption
<1> HIDE DEF r, g, old
<1>8. route' = [route EXCEPT ![g] = r]
  BY <1>5 DEF r, g, old
<1>9. route' \in [Gens -> Route \cup {None}]
  BY <1>3, <1>6, <1>8 DEF RoutesTypeOK
<1>10. \A h \in Gens : route'[h] # None <=> h <= g
  <2> SUFFICES ASSUME NEW h \in Gens PROVE route'[h] # None <=> h <= g
    OBVIOUS
  <2>1. CASE h = g
    BY <1>3, <1>7, <1>8, <2>1 DEF RoutesTypeOK, Gens
  <2>2. CASE h # g
    BY <1>1, <1>8, <2>2 DEF RoutesTypeOK, Gens, g
  <2> QED BY <2>1, <2>2
<1>11. byPeer' \in [Peers -> (1..g) \cup {None}] /\ byIP' \in [Addresses -> (1..g) \cup {None}]
  BY <1>2, <1>3, <1>5 DEF RoutesTypeOK
<1>12. joined' \subseteq retired' /\ retired' \subseteq 1..g
  BY <1>3, <1>4, <1>5 DEF RoutesTypeOK
<1>13. queue' \in [Gens -> Nat]
  BY <1>5 DEF RoutesTypeOK
<1>14. pump' \in [Gens -> {"none", "poll", "waiting", "holding", "chosen", "admitted",
                           "writing", "gone"}]
  BY <1>5 DEF RoutesTypeOK
<1>15. \A h \in Gens : pump'[h] = "none" <=> h > g \/ ~PumpsRunning
  <2> SUFFICES ASSUME NEW h \in Gens PROVE pump'[h] = "none" <=> h > g \/ ~PumpsRunning
    OBVIOUS
  <2>1. CASE h = g
    BY <1>3, <1>5, <2>1 DEF RoutesTypeOK, Gens
  <2>2. CASE h # g
    BY <1>1, <1>5, <2>2 DEF RoutesTypeOK, Gens, g
  <2> QED BY <2>1, <2>2
<1>16. sender' \in [Senders -> (1..g) \cup {None}]
  BY <1>3, <1>5 DEF RoutesTypeOK
<1> QED
  BY <1>3, <1>5, <1>9, <1>10, <1>11, <1>12, <1>13, <1>14, <1>15, <1>16 DEF RoutesTypeOK

\* A registration holds the lock with what it was asked for
\* (routes.go:56-90, return_path.go:71-90).
LEMMA RegistrationKeepsTypes ==
  ASSUME RoutesTypeOK, NEW p \in Peers, NEW e \in Engines
  PROVE  /\ \A a \in Addresses : TryRegister(p, a, e) => RoutesTypeOK'
         /\ Bind(p, e) => RoutesTypeOK'
<1>1. ASSUME NEW a \in Addresses, NEW s \in Gens, BeginRegistration(p, a, e, s)
      PROVE  RoutesTypeOK'
  BY <1>1 DEF BeginRegistration, RoutesTypeOK, pumps, config
<1>2. ASSUME NEW a \in Addresses, TryRegister(p, a, e) PROVE RoutesTypeOK'
  <2>1. made \in Nat /\ made < MaxGens /\ MaxGens \in Nat
    BY <1>2, GensAssumption DEF TryRegister, BeginRegistration, RoutesTypeOK
  <2>2. made + 1 \in Gens
    BY <2>1 DEF Gens
  <2> QED BY <1>1, <1>2, <2>2 DEF TryRegister
<1>3. ASSUME Bind(p, e) PROVE RoutesTypeOK'
  <2> DEFINE g == byPeer[p]
  <2>1. g \in 1..made /\ made \in 0..MaxGens /\ MaxGens \in Nat
    BY <1>3, GensAssumption DEF Bind, RoutesTypeOK
  <2>2. g \in Gens /\ g <= made
    BY <2>1 DEF Gens
  <2>3. route[g] \in Route
    BY <2>2 DEF RoutesTypeOK
  <2>4. route[g].ip \in Addresses /\ route[g].session \in Gens
    BY <2>3 DEF Route
  <2>5. BeginRegistration(p, route[g].ip, e, route[g].session)
    BY <1>3 DEF Bind
  <2> HIDE DEF g
  <2> QED BY <1>1, <2>4, <2>5
<1> QED BY <1>2, <1>3

\* A pump moves between its places (pumps.go:364-415).
LEMMA PumpKeepsTypes == ASSUME RoutesTypeOK, NEW g \in Gens, Pump(g) PROVE RoutesTypeOK'
<1>1. ASSUME NEW from, NEW to, PumpMoves(g, from, to), from # "none",
             to \in {"poll", "waiting", "holding", "chosen", "admitted", "writing", "gone"},
             queue' \in [Gens -> Nat], ready' \in [Gens -> BOOLEAN]
      PROVE  RoutesTypeOK'
  BY <1>1 DEF PumpMoves, RoutesTypeOK, config
<1>2. CASE PumpTake(g)
  <2>1. queue' \in [Gens -> Nat] /\ ready' \in [Gens -> BOOLEAN]
    BY <1>2 DEF PumpTake, RoutesTypeOK
  <2> QED BY <1>1, <1>2, <2>1 DEF PumpTake
<1>3. CASE PumpNotified(g)
  <2>1. queue' \in [Gens -> Nat] /\ ready' \in [Gens -> BOOLEAN]
    BY <1>3 DEF PumpNotified, RoutesTypeOK
  <2> QED BY <1>1, <1>3, <2>1 DEF PumpNotified
<1>4. CASE UNCHANGED <<queue, ready>>
  <2>1. queue' \in [Gens -> Nat] /\ ready' \in [Gens -> BOOLEAN]
    BY <1>4 DEF RoutesTypeOK
  <2>2. CASE PumpExit(g)
    BY <1>1, <2>1, <2>2 DEF PumpExit
  <2>3. CASE PumpCheck(g)
    BY <1>1, <2>1, <2>3 DEF PumpCheck
  <2>4. CASE PumpAdmit(g)
    BY <1>1, <2>1, <2>4 DEF PumpAdmit
  <2>5. CASE PumpWrite(g)
    BY <1>1, <2>1, <2>5 DEF PumpWrite
  <2>6. CASE PumpWritten(g)
    BY <1>1, <2>1, <2>6 DEF PumpWritten
  <2>7. CASE PumpTake(g) \/ PumpNotified(g)
    BY <1>2, <1>3, <2>7
  <2> QED BY <2>2, <2>3, <2>4, <2>5, <2>6, <2>7 DEF Pump
<1>5. PumpTake(g) \/ PumpNotified(g) \/ UNCHANGED <<queue, ready>>
  BY DEF Pump, PumpExit, PumpCheck, PumpAdmit, PumpWrite, PumpWritten
<1> QED BY <1>2, <1>3, <1>4, <1>5

\* No step of any goroutine leaves the types.
LEMMA StepKeepsTypes == RoutesTypeOK /\ [RoutesNext]_vars => RoutesTypeOK'
<1> SUFFICES ASSUME RoutesTypeOK, [RoutesNext]_vars PROVE RoutesTypeOK'
  OBVIOUS
<1>1. \A G : G \subseteq {byPeer[p] : p \in Routed} => G \subseteq 1..made
  BY DEF RoutesTypeOK, Routed
<1>2. ASSUME NEW p \in Peers, NEW s \in Gens, Unregister(p, s) PROVE RoutesTypeOK'
  <2>1. {byPeer[p]} \subseteq 1..made
    BY <1>2 DEF Unregister, RoutesTypeOK
  <2>2. stage' \in [Engines -> {"open", "fenced", "retired"}]
    BY <1>2 DEF Unregister, RoutesTypeOK
  <2> QED BY <1>2, <2>1, <2>2, RetiredKeepsTypes DEF Unregister
<1>3. CASE RetireAllRoutes
  <2>1. stage' \in [Engines -> {"open", "fenced", "retired"}]
    BY <1>3 DEF RetireAllRoutes, RoutesTypeOK
  <2> QED BY <1>1, <1>3, <2>1, RetiredKeepsTypes DEF RetireAllRoutes
<1>4. ASSUME NEW e \in Engines, RetireRoutesByReturnPath(e) PROVE RoutesTypeOK'
  <2>1. stage' \in [Engines -> {"open", "fenced", "retired"}]
    BY <1>4 DEF RetireRoutesByReturnPath, RoutesTypeOK
  <2>2. OwnedBy(e) \subseteq 1..made
    BY <1>1 DEF OwnedBy
  <2> QED BY <1>4, <2>1, <2>2, RetiredKeepsTypes DEF RetireRoutesByReturnPath
<1>5. ASSUME NEW e \in Engines, CloseReturnPath(e) PROVE RoutesTypeOK'
  BY <1>5 DEF CloseReturnPath, RoutesTypeOK, pumps, config
<1>6. ASSUME NEW g \in Gens, Join(g) PROVE RoutesTypeOK'
  BY <1>6 DEF Join, RoutesTypeOK, pumps, config
<1>7. ASSUME NEW size \in Sizes, NEW limit \in Limits, ReconfigureClientQueueConfig(size, limit)
      PROVE  RoutesTypeOK'
  BY <1>7, CappedIsNat, SizesAssumption DEF ReconfigureClientQueueConfig, RoutesTypeOK, pumps
<1>8. ASSUME NEW s \in Senders, NEW a \in Addresses, Lookup(s, a) PROVE RoutesTypeOK'
  BY <1>8 DEF Lookup, RoutesTypeOK, pumps, config
<1>9. ASSUME NEW s \in Senders, Enqueue(s) PROVE RoutesTypeOK'
  <2>1. \/ /\ queue' = [queue EXCEPT ![sender[s]] = @ + 1]
           /\ ready' = [ready EXCEPT ![sender[s]] = TRUE]
        \/ UNCHANGED <<queue, ready>>
    BY <1>9 DEF Enqueue, Notified
  <2>2. sender[s] \in 1..made /\ made \in 0..MaxGens /\ MaxGens \in Nat
    BY <1>9, GensAssumption DEF Enqueue, RoutesTypeOK
  <2>3. sender[s] \in Gens
    BY <2>2 DEF Gens
  <2>4. queue \in [Gens -> Nat] /\ queue[sender[s]] + 1 \in Nat /\ ready \in [Gens -> BOOLEAN]
    BY <2>3 DEF RoutesTypeOK
  <2>5. queue' \in [Gens -> Nat] /\ ready' \in [Gens -> BOOLEAN]
    BY <2>1, <2>4
  <2> QED BY <1>9, <2>5 DEF Enqueue, RoutesTypeOK, config
<1>10. CASE UNCHANGED vars
  BY <1>10 DEF RoutesTypeOK, vars
<1> QED
  BY <1>2, <1>3, <1>4, <1>5, <1>6, <1>7, <1>8, <1>9, <1>10, InstallKeepsTypes, PumpKeepsTypes,
     RegistrationKeepsTypes DEF RoutesNext

\* Every variable of the return path keeps its type (forwarder.go:44-160).
THEOREM RoutesTypes == RoutesSpec => []RoutesTypeOK
<1> QED BY InitEstablishesTypes, StepKeepsTypes, PTL DEF RoutesSpec

-----------------------------------------------------------------------------
(* The two tables                                                           *)

\* Live in the state after a step, of a generation named in either state.
LiveAfter(g) == g <= made' /\ g \notin retired'

\* Retiring what the peers' table holds keeps the tables in agreement: both are
\* cleared of the same generations (routes.go:208-234, 255-274).
LEMMA RetiredKeepsAgreement ==
  ASSUME RoutesTypeOK, TablesAgree, NEW G, Retired(G), UNCHANGED <<made, route>>,
         G \subseteq {byPeer[p] : p \in Routed}
  PROVE  TablesAgree'
<1>1. \A p \in Peers : byPeer'[p] # None =>
        byPeer'[p] = byPeer[p] /\ byPeer[p] \notin G
  BY DEF Retired, RoutesTypeOK
<1>2. \A a \in Addresses : byIP'[a] # None => byIP'[a] = byIP[a] /\ byIP[a] \notin G
  BY DEF Retired, RoutesTypeOK
<1>3. \A g \in 1..made : LiveAfter(g) <=> Live(g) /\ g \notin G
  BY DEF Live, LiveAfter, Retired
<1>4. \A p \in Peers : byPeer[p] # None => byPeer[p] \in 1..made
  BY DEF RoutesTypeOK
<1>5. \A a \in Addresses : byIP[a] # None => byIP[a] \in 1..made
  BY DEF RoutesTypeOK
<1>6. \A g \in 1..made : Live(g) => route[g].peer \in Peers
  <2> SUFFICES ASSUME NEW g \in 1..made PROVE route[g].peer \in Peers
    OBVIOUS
  <2>1. g \in Gens /\ g <= made
    BY GensAssumption DEF RoutesTypeOK, Gens
  <2>2. route[g] \in Route
    BY <2>1 DEF RoutesTypeOK
  <2> QED BY <2>2 DEF Route
<1>7. \A g \in 1..made : LiveAfter(g) => byPeer'[route[g].peer] = g
  BY <1>3, <1>6 DEF Retired, TablesAgree
<1>8. \A p \in Peers : byPeer'[p] # None => LiveAfter(byPeer'[p]) /\ route[byPeer'[p]].peer = p
  BY <1>1, <1>3, <1>4 DEF TablesAgree
<1>9. \A a \in Addresses : byIP'[a] # None => LiveAfter(byIP'[a]) /\ route[byIP'[a]].ip = a
  BY <1>2, <1>3, <1>5 DEF TablesAgree
<1> QED BY <1>7, <1>8, <1>9 DEF TablesAgree, Live, LiveAfter

\* A new route takes the peer's place in both tables and retires the one it
\* replaces (routes.go:118-143).
LEMMA InstallKeepsAgreement == RoutesTypeOK /\ TablesAgree /\ Install => TablesAgree'
<1> SUFFICES ASSUME RoutesTypeOK, TablesAgree, Install PROVE TablesAgree'
  OBVIOUS
<1> DEFINE q == registering.peer
           g == made + 1
           old == byPeer[q]
           r == [peer |-> q, ip |-> registering.ip, path |-> registering.path,
                 session |-> registering.session, cap |-> bufSize]
<1>1. /\ registering \in [peer : Peers, ip : Addresses, path : Engines, session : Gens]
      /\ made < MaxGens /\ made \in Nat /\ MaxGens \in Nat
  BY GensAssumption DEF RoutesTypeOK, Install, Unlocked
<1>2. q \in Peers /\ registering.ip \in Addresses
  BY <1>1
<1>3. g \in Gens /\ g # None /\ g \notin 1..made /\ \A h \in 1..g : h \in 1..made \/ h = g
  BY <1>1, NoneAssumption DEF Gens
<1>4. r.peer = q /\ r.ip = registering.ip
  OBVIOUS
<1>5. /\ made' = g
      /\ route' = [route EXCEPT ![g] = r]
      /\ retired' = IF old = None THEN retired ELSE retired \cup {old}
      /\ byPeer' = [byPeer EXCEPT ![q] = g]
      /\ byIP' = [a \in Addresses |-> IF a = registering.ip THEN g
                                      ELSE IF old # None /\ byIP[a] = old THEN None
                                      ELSE byIP[a]]
  BY DEF Install
<1> HIDE DEF q, g, old, r
<1>6. route'[g] = r /\ \A h \in 1..made : route'[h] = route[h]
  BY <1>1, <1>3, <1>5 DEF RoutesTypeOK, Gens
<1>7. old \in (1..made) \cup {None}
  BY <1>2 DEF RoutesTypeOK, old
<1>8. \A h \in 1..made : LiveAfter(h) <=> Live(h) /\ h # old
  BY <1>1, <1>3, <1>5, <1>7, NoneAssumption DEF Live, LiveAfter, g
<1>9. LiveAfter(g)
  BY <1>1, <1>3, <1>5, <1>7 DEF LiveAfter, RoutesTypeOK, g
<1>10. \A p \in Peers : byPeer'[p] # None => LiveAfter(byPeer'[p]) /\ route'[byPeer'[p]].peer = p
  <2> SUFFICES ASSUME NEW p \in Peers, byPeer'[p] # None
               PROVE  LiveAfter(byPeer'[p]) /\ route'[byPeer'[p]].peer = p
    OBVIOUS
  <2>1. CASE p = q
    BY <1>4, <1>5, <1>6, <1>9, <2>1 DEF RoutesTypeOK
  <2>2. CASE p # q
    <3>1. byPeer'[p] = byPeer[p] /\ byPeer[p] \in 1..made
      BY <1>5, <2>2 DEF RoutesTypeOK
    <3>2. Live(byPeer[p]) /\ route[byPeer[p]].peer = p
      BY <3>1 DEF TablesAgree
    <3>3. byPeer[p] # old
      BY <1>2, <2>2, <3>1, <3>2 DEF TablesAgree, old
    <3> QED BY <1>6, <1>8, <3>1, <3>2, <3>3
  <2> QED BY <2>1, <2>2
<1>11. \A a \in Addresses : byIP'[a] # None => LiveAfter(byIP'[a]) /\ route'[byIP'[a]].ip = a
  <2> SUFFICES ASSUME NEW a \in Addresses, byIP'[a] # None
               PROVE  LiveAfter(byIP'[a]) /\ route'[byIP'[a]].ip = a
    OBVIOUS
  <2>1. CASE a = registering.ip
    BY <1>4, <1>5, <1>6, <1>9, <2>1
  <2>2. CASE a # registering.ip
    <3>1. byIP'[a] = byIP[a] /\ byIP[a] # old /\ byIP[a] \in 1..made
      BY <1>5, <2>2 DEF RoutesTypeOK
    <3> QED BY <1>6, <1>8, <3>1 DEF TablesAgree
  <2> QED BY <2>1, <2>2
<1>12. \A h \in 1..g : LiveAfter(h) => byPeer'[route'[h].peer] = h
  <2> SUFFICES ASSUME NEW h \in 1..g, LiveAfter(h) PROVE byPeer'[route'[h].peer] = h
    OBVIOUS
  <2>1. CASE h = g
    BY <1>2, <1>4, <1>5, <1>6, <2>1 DEF RoutesTypeOK
  <2>2. CASE h \in 1..made
    <3>1. Live(h) /\ h # old
      BY <1>8, <2>2
    <3>2. byPeer[route[h].peer] = h /\ route'[h] = route[h]
      BY <1>6, <2>2, <3>1 DEF TablesAgree
    <3>3. route[h].peer # q
      BY <3>1, <3>2 DEF old
    <3> QED BY <1>5, <3>2, <3>3 DEF RoutesTypeOK
  <2> QED BY <1>3, <2>1, <2>2
<1> QED BY <1>5, <1>10, <1>11, <1>12 DEF TablesAgree, Live, LiveAfter

\* No step lets the tables disagree.
LEMMA StepKeepsAgreement == RoutesTypeOK /\ TablesAgree /\ [RoutesNext]_vars => TablesAgree'
<1> SUFFICES ASSUME RoutesTypeOK, TablesAgree, [RoutesNext]_vars PROVE TablesAgree'
  OBVIOUS
<1>1. ASSUME NEW p \in Peers, NEW s \in Gens, Unregister(p, s) PROVE TablesAgree'
  <2>1. {byPeer[p]} \subseteq {byPeer[q] : q \in Routed}
    BY <1>1 DEF Unregister, Routed
  <2> QED BY <1>1, <2>1, RetiredKeepsAgreement DEF Unregister
<1>2. CASE RetireAllRoutes
  BY <1>2, RetiredKeepsAgreement DEF RetireAllRoutes
<1>3. ASSUME NEW e \in Engines, RetireRoutesByReturnPath(e) PROVE TablesAgree'
  <2>1. OwnedBy(e) \subseteq {byPeer[q] : q \in Routed}
    BY DEF OwnedBy
  <2> QED BY <1>3, <2>1, RetiredKeepsAgreement DEF RetireRoutesByReturnPath
<1>4. CASE UNCHANGED <<made, route, byPeer, byIP, retired>>
  BY <1>4 DEF TablesAgree, Live
<1> QED
  BY <1>1, <1>2, <1>3, <1>4, InstallKeepsAgreement
     DEF RoutesNext, vars, Bind, TryRegister, BeginRegistration, Join, CloseReturnPath,
         ReconfigureClientQueueConfig, Lookup, Enqueue, Pump, PumpMoves, PumpTake,
         PumpNotified, PumpExit, PumpCheck, PumpAdmit, PumpWrite, PumpWritten

\* The tables lead to running routes only, and every running route is its
\* peer's, whatever registrations, teardowns and engine stops interleave
\* (routes.go:90-274).
THEOREM RouteTablesAgree == RoutesSpec => []TablesAgree
<1>1. RoutesInit => TablesAgree
  BY DEF RoutesInit, TablesAgree
<1> QED BY <1>1, InitEstablishesTypes, StepKeepsTypes, StepKeepsAgreement, PTL DEF RoutesSpec

-----------------------------------------------------------------------------
(* Senders and pumps                                                        *)

\* The route a registered generation was made with (routes.go:92-116).
LEMMA MadeIsRoute ==
  ASSUME RoutesTypeOK, NEW g \in 1..made
  PROVE  /\ g \in Gens /\ g # None
         /\ route[g].peer \in Peers /\ route[g].ip \in Addresses /\ route[g].path \in Engines
<1>1. g \in Gens /\ g <= made /\ g # None
  BY GensAssumption, NoneAssumption DEF RoutesTypeOK, Gens
<1>2. route[g] \in Route
  BY <1>1 DEF RoutesTypeOK
<1> QED BY <1>1, <1>2 DEF Route

\* A sender that is late finds that its address leads elsewhere and drops the
\* packet; whatever was queued before went with the route (pumps.go:158-166).
LEMMA StepKeepsRetiredEmpty ==
  RoutesTypeOK /\ TablesAgree /\ RetiredQueueEmpty /\ [RoutesNext]_vars => RetiredQueueEmpty'
<1> SUFFICES ASSUME RoutesTypeOK, TablesAgree, RetiredQueueEmpty, [RoutesNext]_vars
             PROVE  RetiredQueueEmpty'
  OBVIOUS
<1>1. retired \subseteq Gens /\ retired \subseteq 1..made
  BY MadeIsRoute DEF RoutesTypeOK
<1>2. ASSUME NEW G, Retired(G), G \subseteq {byPeer[p] : p \in Routed} PROVE RetiredQueueEmpty'
  <2>1. G \subseteq Gens
    BY <1>2, MadeIsRoute DEF Routed, RoutesTypeOK
  <2> QED BY <1>1, <1>2, <2>1 DEF Retired, RetiredQueueEmpty, RoutesTypeOK
<1>3. CASE Install
  <2>1. registering.peer \in Peers
    BY <1>3 DEF Install, Unlocked, RoutesTypeOK
  <2>2. byPeer[registering.peer] \in (1..made) \cup {None}
    BY <2>1 DEF RoutesTypeOK
  <2>3. byPeer[registering.peer] # None => byPeer[registering.peer] \in Gens
    BY <2>2, MadeIsRoute
  <2> QED BY <1>1, <1>3, <2>3 DEF Install, RetiredQueueEmpty, RoutesTypeOK
<1>4. ASSUME NEW p \in Peers, NEW s \in Gens, Unregister(p, s) PROVE RetiredQueueEmpty'
  BY <1>2, <1>4 DEF Unregister, Routed
<1>5. CASE RetireAllRoutes
  BY <1>2, <1>5 DEF RetireAllRoutes
<1>6. ASSUME NEW e \in Engines, RetireRoutesByReturnPath(e) PROVE RetiredQueueEmpty'
  BY <1>2, <1>6 DEF RetireRoutesByReturnPath, OwnedBy
<1>7. ASSUME NEW s \in Senders, Enqueue(s) PROVE RetiredQueueEmpty'
  <2> DEFINE h == sender[s]
  <2>1. h \in 1..made
    BY <1>7 DEF Enqueue, RoutesTypeOK
  <2>2. h \in Gens /\ h # None /\ route[h].ip \in Addresses
    BY <2>1, MadeIsRoute
  <2>3. StillRouted(h) => h \notin retired
    BY <2>2 DEF StillRouted, TablesAgree, Live
  <2>4. \A g \in retired : queue'[g] = queue[g]
    BY <1>1, <1>7, <2>2, <2>3 DEF Enqueue, RoutesTypeOK
  <2> QED BY <1>7, <2>4 DEF Enqueue, RetiredQueueEmpty
<1>8. ASSUME NEW g \in Gens, PumpTake(g) PROVE RetiredQueueEmpty'
  <2>1. retired' = retired
    BY <1>8 DEF PumpTake, PumpMoves
  <2>2. queue' = queue \/ (queue[g] > 0 /\ queue' = [queue EXCEPT ![g] = @ - 1])
    BY <1>8 DEF PumpTake
  <2>3. queue[g] > 0 => g \notin retired
    BY DEF RetiredQueueEmpty
  <2>4. \A h \in retired : queue'[h] = queue[h]
    BY <1>1, <2>2, <2>3 DEF RoutesTypeOK
  <2> QED BY <2>1, <2>4 DEF RetiredQueueEmpty
<1>9. CASE UNCHANGED <<retired, queue>>
  BY <1>9 DEF RetiredQueueEmpty
<1> QED
  BY <1>3, <1>4, <1>5, <1>6, <1>7, <1>8, <1>9
     DEF RoutesNext, vars, pumps, Bind, TryRegister, BeginRegistration, Join, CloseReturnPath,
         ReconfigureClientQueueConfig, Lookup, Pump, PumpMoves, PumpNotified, PumpExit,
         PumpCheck, PumpAdmit, PumpWrite, PumpWritten

\* No packet is stranded in the queue of a retired route, however late a sender
\* comes with it (pumps.go:158-166).
THEOREM RetiredQueuesEmpty == RoutesSpec => []RetiredQueueEmpty
<1>1. RoutesInit => TablesAgree /\ RetiredQueueEmpty
  BY DEF RoutesInit, TablesAgree, RetiredQueueEmpty
<1> QED
  BY <1>1, InitEstablishesTypes, StepKeepsTypes, StepKeepsAgreement, StepKeepsRetiredEmpty, PTL
     DEF RoutesSpec

\* A pump that asks for the write lock of a retired route does not get to write
\* (client_write.go:219-222).
LEMMA StepKeepsSilence == RoutesTypeOK /\ JoinedIsSilent /\ [RoutesNext]_vars => JoinedIsSilent'
<1> SUFFICES ASSUME RoutesTypeOK, JoinedIsSilent, [RoutesNext]_vars PROVE JoinedIsSilent'
  OBVIOUS
<1>1. joined \subseteq Gens /\ joined \subseteq retired
  BY MadeIsRoute DEF RoutesTypeOK
<1>2. CASE Install
  BY <1>1, <1>2, PumpsAssumption DEF Install, JoinedIsSilent, Writing, RoutesTypeOK
<1>3. ASSUME NEW g \in Gens, Join(g) PROVE JoinedIsSilent'
  BY <1>3 DEF Join, JoinedIsSilent, Writing, pumps
<1>4. ASSUME NEW g \in Gens, Pump(g) PROVE JoinedIsSilent'
  <2>1. g \in joined => ~Writing(g) /\ g \in retired
    BY <1>1 DEF JoinedIsSilent
  <2>2. /\ joined' = joined
        /\ \A h \in Gens : h # g => pump'[h] = pump[h]
    BY <1>4 DEF Pump, PumpMoves, PumpTake, PumpNotified, PumpExit, PumpCheck, PumpAdmit,
                PumpWrite, PumpWritten, RoutesTypeOK
  <2>3. g \in joined => pump'[g] \notin {"admitted", "writing"}
    <3> SUFFICES ASSUME g \in retired, pump[g] \notin {"admitted", "writing"}
                 PROVE  pump'[g] \notin {"admitted", "writing"}
      BY <2>1 DEF Writing
    <3> QED BY <1>4 DEF Pump, PumpMoves, PumpTake, PumpNotified, PumpExit, PumpCheck,
                        PumpAdmit, PumpWrite, PumpWritten, RoutesTypeOK
  <2> QED BY <1>1, <2>2, <2>3 DEF JoinedIsSilent, Writing
<1>5. CASE UNCHANGED <<joined, pump>>
  BY <1>5 DEF JoinedIsSilent, Writing
<1> QED
  BY <1>2, <1>3, <1>4, <1>5
     DEF RoutesNext, vars, pumps, Bind, TryRegister, BeginRegistration, CloseReturnPath,
         ReconfigureClientQueueConfig, Lookup, Enqueue, Unregister, RetireAllRoutes,
         RetireRoutesByReturnPath

\* Whoever has waited for a retirement may tear the engine down: the retired
\* route writes nothing any more (client_write.go:185-222).
THEOREM JoinedRoutesAreSilent == RoutesSpec => []JoinedIsSilent
<1>1. RoutesInit => JoinedIsSilent
  BY DEF RoutesInit, JoinedIsSilent
<1> QED BY <1>1, InitEstablishesTypes, StepKeepsTypes, StepKeepsSilence, PTL DEF RoutesSpec

\* A pump goes to sleep over an empty queue only, and whoever fills the queue
\* leaves a notification (pumps.go:168-190, 380-398).
LEMMA StepKeepsWakeup == RoutesTypeOK /\ NoLostWakeup /\ [RoutesNext]_vars => NoLostWakeup'
<1> SUFFICES ASSUME RoutesTypeOK, NoLostWakeup, [RoutesNext]_vars PROVE NoLostWakeup'
  OBVIOUS
<1>1. ASSUME NEW G, Retired(G), UNCHANGED <<pump, ready>> PROVE NoLostWakeup'
  BY <1>1 DEF Retired, NoLostWakeup, RoutesTypeOK
<1>2. CASE Install
  BY <1>2 DEF Install, NoLostWakeup, RoutesTypeOK
<1>3. ASSUME NEW s \in Senders, Enqueue(s) PROVE NoLostWakeup'
  <2>1. pump' = pump
    BY <1>3 DEF Enqueue
  <2>2. \/ /\ queue' = [queue EXCEPT ![sender[s]] = @ + 1]
           /\ ready' = [ready EXCEPT ![sender[s]] = TRUE]
        \/ UNCHANGED <<queue, ready>>
    BY <1>3 DEF Enqueue, Notified
  <2> QED BY <2>1, <2>2 DEF NoLostWakeup, RoutesTypeOK
<1>4. ASSUME NEW g \in Gens, PumpTake(g) PROVE NoLostWakeup'
  <2>1. ready' = ready /\ pump' \in {[pump EXCEPT ![g] = "holding"], [pump EXCEPT ![g] = "waiting"]}
    BY <1>4 DEF PumpTake, PumpMoves
  <2>2. CASE queue[g] > 0
    BY <1>4, <2>2 DEF PumpTake, PumpMoves, NoLostWakeup, RoutesTypeOK
  <2>3. CASE queue[g] = 0
    BY <1>4, <2>3 DEF PumpTake, PumpMoves, NoLostWakeup, RoutesTypeOK
  <2> QED BY <2>2, <2>3 DEF RoutesTypeOK
<1>5. ASSUME NEW g \in Gens, PumpNotified(g) PROVE NoLostWakeup'
  BY <1>5 DEF PumpNotified, PumpMoves, NoLostWakeup, RoutesTypeOK
<1>6. ASSUME NEW g \in Gens, NEW from, NEW to, PumpMoves(g, from, to), to # "waiting",
             UNCHANGED <<queue, ready>>
      PROVE  NoLostWakeup'
  BY <1>6 DEF PumpMoves, NoLostWakeup, RoutesTypeOK
<1>7. ASSUME NEW g \in Gens, Pump(g) PROVE NoLostWakeup'
  BY <1>4, <1>5, <1>6, <1>7
     DEF Pump, PumpExit, PumpCheck, PumpAdmit, PumpWrite, PumpWritten
<1>8. CASE UNCHANGED <<queue, ready, pump>>
  BY <1>8 DEF NoLostWakeup
<1> QED
  BY <1>1, <1>2, <1>3, <1>7, <1>8
     DEF RoutesNext, vars, pumps, Bind, TryRegister, BeginRegistration, CloseReturnPath, Join,
         ReconfigureClientQueueConfig, Lookup, Unregister, RetireAllRoutes,
         RetireRoutesByReturnPath

\* No pump sleeps while its queue holds a packet and no notification is pending
\* (pumps.go:187-190).
THEOREM WakeupsAreKept == RoutesSpec => []NoLostWakeup
<1>1. RoutesInit => NoLostWakeup
  BY DEF RoutesInit, NoLostWakeup
<1> QED BY <1>1, InitEstablishesTypes, StepKeepsTypes, StepKeepsWakeup, PTL DEF RoutesSpec

-----------------------------------------------------------------------------
(* Stopped engines                                                          *)

\* Retiring routes gives none to any engine.
LEMMA RetiredOwnsLess ==
  ASSUME RoutesTypeOK, NEW G, Retired(G), route' = route, NEW e \in Engines
  PROVE  OwnedBy(e)' \subseteq OwnedBy(e) \ G
<1>1. \A p \in Peers : byPeer'[p] # None => byPeer'[p] = byPeer[p] /\ byPeer[p] \notin G
  BY DEF Retired, RoutesTypeOK
<1> QED BY <1>1 DEF OwnedBy, Routed

\* The fence is closed before the routes are retired, and a registration that
\* read it open has ended by then (ingress_engine.go:400-450).
LEMMA StepKeepsStopped ==
  RoutesTypeOK /\ StoppedEngineUnrouted /\ [RoutesNext]_vars => StoppedEngineUnrouted'
<1> SUFFICES ASSUME RoutesTypeOK, StoppedEngineUnrouted, [RoutesNext]_vars,
                    NEW e \in Engines, stage'[e] = "retired"
             PROVE  OwnedBy(e)' = {} /\ (registering # None => registering.path # e)'
  BY DEF StoppedEngineUnrouted
<1> DEFINE Stopped == stage[e] = "retired"
<1>1. Stopped => OwnedBy(e) = {} /\ (registering # None => registering.path # e)
  BY DEF StoppedEngineUnrouted
<1>2. ASSUME NEW G, Retired(G), route' = route, registering' = registering, Stopped
      PROVE  OwnedBy(e)' = {} /\ (registering # None => registering.path # e)'
  BY <1>1, <1>2, RetiredOwnsLess
<1>3. ASSUME UNCHANGED <<route, byPeer, registering>>, Stopped
      PROVE  OwnedBy(e)' = {} /\ (registering # None => registering.path # e)'
  BY <1>1, <1>3 DEF OwnedBy, Routed
<1>4. ASSUME NEW p \in Peers, NEW a \in Addresses, NEW f \in Engines, NEW s \in Gens,
             BeginRegistration(p, a, f, s)
      PROVE  OwnedBy(e)' = {} /\ (registering # None => registering.path # e)'
  <2>1. Stopped /\ UNCHANGED <<route, byPeer>>
    BY <1>4 DEF BeginRegistration
  <2>2. f # e
    BY <1>4, <2>1 DEF BeginRegistration, Closed
  <2>3. registering'.path = f
    BY <1>4 DEF BeginRegistration
  <2> QED BY <1>1, <2>1, <2>2, <2>3 DEF OwnedBy, Routed
<1>5. ASSUME NEW p \in Peers, NEW a \in Addresses, NEW f \in Engines, TryRegister(p, a, f)
      PROVE  OwnedBy(e)' = {} /\ (registering # None => registering.path # e)'
  <2>1. made \in Nat /\ made < MaxGens /\ MaxGens \in Nat
    BY <1>5, GensAssumption DEF TryRegister, BeginRegistration, RoutesTypeOK
  <2>2. made + 1 \in Gens
    BY <2>1 DEF Gens
  <2> QED BY <1>4, <1>5, <2>2 DEF TryRegister
<1>6. ASSUME NEW p \in Peers, NEW f \in Engines, Bind(p, f)
      PROVE  OwnedBy(e)' = {} /\ (registering # None => registering.path # e)'
  <2> DEFINE g == byPeer[p]
  <2>1. g \in 1..made
    BY <1>6 DEF Bind, RoutesTypeOK
  <2>2. g \in Gens /\ g <= made
    BY <2>1, MadeIsRoute DEF RoutesTypeOK
  <2>3. route[g] \in Route
    BY <2>2 DEF RoutesTypeOK
  <2>4. route[g].ip \in Addresses /\ route[g].session \in Gens
    BY <2>3 DEF Route
  <2>5. BeginRegistration(p, route[g].ip, f, route[g].session)
    BY <1>6 DEF Bind
  <2> HIDE DEF g
  <2> QED BY <1>4, <2>4, <2>5
<1>7. CASE Install
  <2> DEFINE q == registering.peer
             g == made + 1
  <2>1. Stopped /\ registering' = None
    BY <1>7 DEF Install
  <2>2. /\ registering \in [peer : Peers, ip : Addresses, path : Engines, session : Gens]
        /\ made < MaxGens /\ made \in Nat /\ MaxGens \in Nat
    BY <1>7, GensAssumption DEF Install, Unlocked, RoutesTypeOK
  <2>3. q \in Peers /\ g \in Gens /\ g \notin 1..made /\ registering.path # e
    BY <1>1, <1>7, <2>1, <2>2 DEF Gens, Install, Unlocked
  <2>4. byPeer' = [byPeer EXCEPT ![q] = g]
    BY <1>7 DEF Install
  <2>5. route' = [route EXCEPT ![g] = [peer |-> q, ip |-> registering.ip,
                       path |-> registering.path, session |-> registering.session,
                       cap |-> bufSize]]
    BY <1>7 DEF Install
  <2> HIDE DEF q, g
  <2>6. route'[g].path # e
    BY <2>3, <2>5 DEF RoutesTypeOK
  <2>7. ASSUME NEW p \in Peers, byPeer'[p] # None PROVE route'[byPeer'[p]].path # e
    <3>1. CASE p = q
      BY <2>3, <2>4, <2>6, <3>1 DEF RoutesTypeOK
    <3>2. CASE p # q
      <4>1. byPeer'[p] = byPeer[p] /\ byPeer[p] \in 1..made
        BY <2>4, <2>7, <3>2 DEF RoutesTypeOK
      <4>2. byPeer[p] \in Gens /\ byPeer[p] # g
        BY <2>3, <4>1, MadeIsRoute
      <4>3. route'[byPeer[p]] = route[byPeer[p]]
        BY <2>5, <4>2 DEF RoutesTypeOK
      <4>4. route[byPeer[p]].path # e
        BY <1>1, <2>1, <2>7, <4>1 DEF OwnedBy, Routed
      <4> QED BY <4>1, <4>3, <4>4
    <3> QED BY <3>1, <3>2
  <2> QED BY <2>1, <2>7 DEF OwnedBy, Routed
<1>8. ASSUME NEW f \in Engines, RetireRoutesByReturnPath(f)
      PROVE  OwnedBy(e)' = {} /\ (registering # None => registering.path # e)'
  <2>1. Retired(OwnedBy(f)) /\ route' = route /\ registering' = None
    BY <1>8 DEF RetireRoutesByReturnPath, Unlocked
  <2>2. CASE f = e
    BY <2>1, <2>2, RetiredOwnsLess
  <2>3. CASE f # e
    <3>1. Stopped
      BY <1>8, <2>3 DEF RetireRoutesByReturnPath, RoutesTypeOK
    <3> QED BY <1>1, <2>1, <3>1, RetiredOwnsLess
  <2> QED BY <2>2, <2>3
<1>9. ASSUME NEW f \in Engines, CloseReturnPath(f)
      PROVE  OwnedBy(e)' = {} /\ (registering # None => registering.path # e)'
  <2>1. Stopped /\ UNCHANGED <<route, byPeer, registering>>
    BY <1>9 DEF CloseReturnPath, RoutesTypeOK
  <2> QED BY <1>3, <2>1
<1>10. ASSUME NEW p \in Peers, NEW s \in Gens, Unregister(p, s)
       PROVE  OwnedBy(e)' = {} /\ (registering # None => registering.path # e)'
  BY <1>2, <1>10 DEF Unregister
<1>11. CASE RetireAllRoutes
  BY <1>2, <1>11 DEF RetireAllRoutes
<1>12. CASE UNCHANGED <<route, byPeer, registering, stage>>
  BY <1>3, <1>12
<1> HIDE DEF Stopped
<1> QED
  BY <1>5, <1>6, <1>7, <1>8, <1>9, <1>10, <1>11, <1>12
     DEF RoutesNext, vars, Join, ReconfigureClientQueueConfig, Lookup, Enqueue, Pump, PumpMoves,
         PumpTake, PumpNotified, PumpExit, PumpCheck, PumpAdmit, PumpWrite, PumpWritten

\* An engine that has stopped owns no route and gets none, although its fence
\* and the table of routes are guarded by different locks
\* (ingress_engine.go:400-450).
THEOREM StoppedEnginesUnrouted == RoutesSpec => []StoppedEngineUnrouted
<1>1. RoutesInit => StoppedEngineUnrouted
  BY DEF RoutesInit, StoppedEngineUnrouted
<1> QED BY <1>1, InitEstablishesTypes, StepKeepsTypes, StepKeepsStopped, PTL DEF RoutesSpec

-----------------------------------------------------------------------------
(* Reachability                                                             *)

\* A retirement clears an address only if it still leads to what it retires, so
\* it cuts off no other route (routes.go:214-221).
LEMMA RetiredKeepsReachable ==
  ASSUME RoutesTypeOK, RunningRouteReachable, NEW G, Retired(G), UNCHANGED <<made, route>>
  PROVE  RunningRouteReachable'
<1> SUFFICES ASSUME NEW g \in 1..made, g \notin retired, g \notin G
             PROVE  \/ byIP'[route[g].ip] = g
                    \/ \E h \in (g + 1)..made :
                         route[h].ip = route[g].ip /\ route[h].peer # route[g].peer
  BY DEF RunningRouteReachable, Live, Retired
<1>1. Live(g) /\ route[g].ip \in Addresses
  BY MadeIsRoute DEF Live, RoutesTypeOK
<1> QED BY <1>1 DEF RunningRouteReachable, Retired

\* A new route takes over its address from another peer at most: the route of
\* the same peer is retired with it (routes.go:118-143).
LEMMA InstallKeepsReachable ==
  RoutesTypeOK /\ TablesAgree /\ RunningRouteReachable /\ Install => RunningRouteReachable'
<1> SUFFICES ASSUME RoutesTypeOK, TablesAgree, RunningRouteReachable, Install
             PROVE  RunningRouteReachable'
  OBVIOUS
<1> DEFINE q == registering.peer
           a == registering.ip
           n == made + 1
           old == byPeer[q]
           r == [peer |-> q, ip |-> a, path |-> registering.path,
                 session |-> registering.session, cap |-> bufSize]
<1>1. /\ registering \in [peer : Peers, ip : Addresses, path : Engines, session : Gens]
      /\ made < MaxGens /\ made \in Nat /\ MaxGens \in Nat
  BY GensAssumption DEF RoutesTypeOK, Install, Unlocked
<1>2. q \in Peers /\ a \in Addresses /\ r.peer = q /\ r.ip = a
  BY <1>1
<1>3. /\ n \in Gens /\ n \notin 1..made
      /\ \A g \in 1..n : g \in 1..made \/ g = n
      /\ \A g \in 1..made : n \in (g + 1)..n /\ (g + 1)..made \subseteq (g + 1)..n
                            /\ (g + 1)..made \subseteq 1..made
  BY <1>1 DEF Gens
<1>4. /\ made' = n
      /\ route' = [route EXCEPT ![n] = r]
      /\ retired' = IF old = None THEN retired ELSE retired \cup {old}
      /\ byIP' = [b \in Addresses |-> IF b = a THEN n
                                      ELSE IF old # None /\ byIP[b] = old THEN None
                                      ELSE byIP[b]]
  BY DEF Install
<1> HIDE DEF q, a, n, r
<1>5. route'[n] = r /\ \A g \in 1..made : route'[g] = route[g]
  BY <1>3, <1>4, MadeIsRoute DEF RoutesTypeOK
<1> SUFFICES ASSUME NEW g \in 1..n, g \notin retired'
             PROVE  \/ byIP'[route'[g].ip] = g
                    \/ \E h \in (g + 1)..n :
                         route'[h].ip = route'[g].ip /\ route'[h].peer # route'[g].peer
  BY <1>4 DEF RunningRouteReachable, Live
<1>6. CASE g = n
  BY <1>2, <1>4, <1>5, <1>6
<1>7. CASE g \in 1..made
  <2>1. g \in Gens /\ g # None /\ route[g].ip \in Addresses /\ route'[g] = route[g]
    BY <1>5, <1>7, MadeIsRoute
  <2>2. Live(g) /\ g # old
    BY <1>4, <1>7, <2>1 DEF Live, RoutesTypeOK
  <2>3. route[g].peer # q
    BY <1>7, <2>2 DEF TablesAgree
  <2>4. CASE route[g].ip = a
    BY <1>2, <1>3, <1>5, <1>7, <2>1, <2>3, <2>4
  <2>5. CASE route[g].ip # a /\ byIP[route[g].ip] = g
    BY <1>4, <2>1, <2>2, <2>5
  <2>6. CASE route[g].ip # a /\ byIP[route[g].ip] # g
    <3>1. PICK h \in (g + 1)..made : route[h].ip = route[g].ip /\ route[h].peer # route[g].peer
      BY <1>7, <2>2, <2>6 DEF RunningRouteReachable
    <3>2. h \in 1..made /\ h \in (g + 1)..n
      BY <1>3, <1>7
    <3> QED BY <1>5, <2>1, <3>1, <3>2
  <2> QED BY <2>4, <2>5, <2>6
<1> QED BY <1>3, <1>6, <1>7

\* No step cuts off a running route.
LEMMA StepKeepsReachable ==
  RoutesTypeOK /\ TablesAgree /\ RunningRouteReachable /\ [RoutesNext]_vars
    => RunningRouteReachable'
<1> SUFFICES ASSUME RoutesTypeOK, TablesAgree, RunningRouteReachable, [RoutesNext]_vars
             PROVE  RunningRouteReachable'
  OBVIOUS
<1>1. ASSUME NEW p \in Peers, NEW s \in Gens, Unregister(p, s) PROVE RunningRouteReachable'
  BY <1>1, RetiredKeepsReachable DEF Unregister
<1>2. CASE RetireAllRoutes
  BY <1>2, RetiredKeepsReachable DEF RetireAllRoutes
<1>3. ASSUME NEW e \in Engines, RetireRoutesByReturnPath(e) PROVE RunningRouteReachable'
  BY <1>3, RetiredKeepsReachable DEF RetireRoutesByReturnPath
<1>4. CASE UNCHANGED <<made, route, byIP, retired>>
  BY <1>4 DEF RunningRouteReachable, Live
<1> QED
  BY <1>1, <1>2, <1>3, <1>4, InstallKeepsReachable
     DEF RoutesNext, vars, Bind, TryRegister, BeginRegistration, Join, CloseReturnPath,
         ReconfigureClientQueueConfig, Lookup, Enqueue, Pump, PumpMoves, PumpTake,
         PumpNotified, PumpExit, PumpCheck, PumpAdmit, PumpWrite, PumpWritten

\* A late teardown of an old session never takes the address of a running route
\* away (routes.go:201-234).
THEOREM RunningRoutesReachable == RoutesSpec => []RunningRouteReachable
<1>1. RoutesInit => TablesAgree /\ RunningRouteReachable
  BY DEF RoutesInit, TablesAgree, RunningRouteReachable
<1> QED
  BY <1>1, InitEstablishesTypes, StepKeepsTypes, StepKeepsAgreement, StepKeepsReachable, PTL
     DEF RoutesSpec

-----------------------------------------------------------------------------
(* The memory budget                                                        *)

\* The size an operator gets fits the budget as many times as there may be routes
\* (queues.go:159-173).
LEMMA CappedFits ==
  ASSUME NEW size \in Sizes, NEW limit \in Limits PROVE Capped(size, limit) * limit <= Budget
<1>1. size \in Nat /\ limit \in Nat \ {0} /\ Budget \in Nat
  BY SizesAssumption, BudgetAssumption
<1> DEFINE q == Budget \div limit
<1>2. q \in Nat /\ q * limit <= Budget
  BY <1>1
<1>3. Capped(size, limit) \in Nat /\ Capped(size, limit) <= q
  BY <1>1, <1>2 DEF Capped, MaxQueue
<1> HIDE DEF q
<1>4. \A n \in Nat : n <= q => n * limit <= q * limit
  BY <1>1, <1>2
<1>5. Capped(size, limit) * limit \in Nat /\ q * limit \in Nat
  BY <1>1, <1>2, <1>3
<1> QED BY <1>1, <1>2, <1>3, <1>4, <1>5

\* The routes of the peers' table are as many as the limit allows, with the one that is
\* being registered, and all of them have the queue size that is configured.
BudgetInv ==
    /\ maxRoutes \in Nat /\ bufSize * maxRoutes <= Budget
    /\ IsFiniteSet(Routed) /\ Cardinality(Routed) <= maxRoutes
    /\ registering # None => registering.peer \in Routed \/ Cardinality(Routed) < maxRoutes
    /\ \A g \in 1..made : Live(g) => route[g].cap = bufSize

\* Retiring routes leaves no more of them than there were (routes.go:208-234).
LEMMA RetiredKeepsBudget ==
  ASSUME RoutesTypeOK, BudgetInv, NEW G, Retired(G), Unlocked,
         UNCHANGED <<made, route, registering, config>>
  PROVE  BudgetInv'
<1>1. Routed' \subseteq Routed
  BY DEF Retired, Routed, RoutesTypeOK
<1>2. /\ IsFiniteSet(Routed') /\ Cardinality(Routed') \in Nat /\ Cardinality(Routed) \in Nat
      /\ Cardinality(Routed') <= Cardinality(Routed)
  <2> HIDE DEF Routed
  <2>1. IsFiniteSet(Routed)
    BY DEF BudgetInv
  <2>2. ASSUME NEW T, T \subseteq Routed
        PROVE  IsFiniteSet(T) /\ Cardinality(T) \in Nat /\ Cardinality(T) <= Cardinality(Routed)
    BY <2>1, <2>2, FS_Subset, FS_CardinalityType
  <2> QED BY <1>1, <2>1, <2>2, FS_CardinalityType
<1>3. \A g \in 1..made : g <= made /\ g \notin retired' => Live(g)
  BY DEF Live, Retired
<1>4. Cardinality(Routed') <= maxRoutes
  BY <1>2 DEF BudgetInv
<1> QED BY <1>2, <1>3, <1>4 DEF BudgetInv, Unlocked, config, Live

\* The route that is installed was counted when its registration began
\* (routes.go:56-151).
LEMMA InstallKeepsBudget == RoutesTypeOK /\ BudgetInv /\ Install => BudgetInv'
<1> SUFFICES ASSUME RoutesTypeOK, BudgetInv, Install PROVE BudgetInv'
  OBVIOUS
<1> DEFINE q == registering.peer
           g == made + 1
<1>1. /\ registering \in [peer : Peers, ip : Addresses, path : Engines, session : Gens]
      /\ made < MaxGens /\ made \in Nat /\ MaxGens \in Nat
  BY GensAssumption DEF RoutesTypeOK, Install, Unlocked
<1>2. q \in Peers /\ g \in Gens /\ g # None
  BY <1>1, NoneAssumption DEF Gens
<1>3. /\ made' = g /\ registering' = None /\ UNCHANGED <<bufSize, maxRoutes>>
      /\ byPeer' = [byPeer EXCEPT ![q] = g]
      /\ retired \subseteq retired'
      /\ \E r : r.cap = bufSize /\ route' = [route EXCEPT ![g] = r]
  BY DEF Install, config
<1> HIDE DEF q
<1>4. Routed' = Routed \cup {q}
  BY <1>2, <1>3 DEF Routed, RoutesTypeOK
<1>5. IsFiniteSet(Routed) /\ Cardinality(Routed) \in Nat
  <2> HIDE DEF Routed
  <2> QED BY FS_CardinalityType DEF BudgetInv
<1>6. /\ IsFiniteSet(Routed \cup {q})
      /\ Cardinality(Routed \cup {q}) = IF q \in Routed THEN Cardinality(Routed) ELSE Cardinality(Routed) + 1
  <2> HIDE DEF Routed
  <2> QED BY <1>5, FS_AddElement
<1>7. q \in Routed \/ Cardinality(Routed) < maxRoutes
  BY DEF BudgetInv, Install, Unlocked, q
<1>8. Cardinality(Routed \cup {q}) <= maxRoutes
  BY <1>5, <1>6, <1>7 DEF BudgetInv
<1>9. \A h \in 1..g : h \notin retired' => route'[h].cap = bufSize
  <2> SUFFICES ASSUME NEW h \in 1..g, h \notin retired' PROVE route'[h].cap = bufSize
    OBVIOUS
  <2>1. CASE h = g
    BY <1>2, <1>3, <2>1 DEF RoutesTypeOK
  <2>2. CASE h \in 1..made
    <3>1. Live(h) /\ route'[h] = route[h]
      BY <1>1, <1>3, <2>2 DEF Live, RoutesTypeOK, Gens
    <3> QED BY <2>2, <3>1 DEF BudgetInv
  <2> QED BY <1>1, <2>1, <2>2
<1> QED BY <1>3, <1>4, <1>6, <1>8, <1>9 DEF BudgetInv, Live

\* A registration begins when there is room for its route (routes.go:60-71).
LEMMA RegistrationKeepsBudget ==
  ASSUME BudgetInv, NEW p \in Peers, NEW e \in Engines,
         Bind(p, e) \/ \E a \in Addresses : TryRegister(p, a, e)
  PROVE  BudgetInv'
<1>1. p \in Routed \/ Cardinality(Routed) < maxRoutes
  BY DEF Bind, TryRegister, Routed
<1>2. registering'.peer = p /\ UNCHANGED <<made, route, byPeer, retired, config>>
  BY DEF Bind, TryRegister, BeginRegistration
<1>3. Routed' = Routed
  BY <1>2 DEF Routed
<1> QED BY <1>1, <1>2, <1>3 DEF BudgetInv, config, Live

\* A new configuration is accepted if the routes there are fit its limit, and keeps
\* their queue size (queues.go:175-189).
LEMMA ReconfigureKeepsBudget ==
  ASSUME RoutesTypeOK, TablesAgree, BudgetInv, NEW size \in Sizes, NEW limit \in Limits,
         ReconfigureClientQueueConfig(size, limit)
  PROVE  BudgetInv'
<1>1. /\ Unlocked /\ Cardinality(Routed) <= limit
      /\ Routed # {} => Capped(size, limit) = bufSize
      /\ bufSize' = Capped(size, limit) /\ maxRoutes' = limit
      /\ UNCHANGED <<made, route, byPeer, retired, registering>>
  BY DEF ReconfigureClientQueueConfig
<1>2. limit \in Nat /\ bufSize' * maxRoutes' <= Budget
  BY <1>1, CappedFits, SizesAssumption
<1>3. Routed' = Routed
  BY <1>1 DEF Routed
<1>4. ASSUME NEW g \in 1..made, Live(g) PROVE route[g].cap = bufSize'
  <2>1. byPeer[route[g].peer] = g /\ route[g].peer \in Peers /\ g # None
    BY <1>4, MadeIsRoute DEF TablesAgree
  <2>2. Routed # {}
    BY <2>1 DEF Routed
  <2> QED BY <1>1, <1>4, <2>2 DEF BudgetInv
<1> QED BY <1>1, <1>2, <1>3, <1>4 DEF BudgetInv, Unlocked, Live

\* No step exceeds the budget.
LEMMA StepKeepsBudget ==
  RoutesTypeOK /\ TablesAgree /\ BudgetInv /\ [RoutesNext]_vars => BudgetInv'
<1> SUFFICES ASSUME RoutesTypeOK, TablesAgree, BudgetInv, [RoutesNext]_vars PROVE BudgetInv'
  OBVIOUS
<1>1. ASSUME NEW p \in Peers, NEW s \in Gens, Unregister(p, s) PROVE BudgetInv'
  BY <1>1, RetiredKeepsBudget DEF Unregister
<1>2. CASE RetireAllRoutes
  BY <1>2, RetiredKeepsBudget DEF RetireAllRoutes
<1>3. ASSUME NEW e \in Engines, RetireRoutesByReturnPath(e) PROVE BudgetInv'
  BY <1>3, RetiredKeepsBudget DEF RetireRoutesByReturnPath
<1>4. CASE UNCHANGED <<made, route, byPeer, retired, registering, config>>
  <2>1. Routed' = Routed
    BY <1>4 DEF Routed
  <2>2. bufSize' = bufSize /\ maxRoutes' = maxRoutes
    BY <1>4 DEF config
  <2>3. \A g \in 1..made' : Live(g)' => route'[g].cap = bufSize'
    BY <1>4, <2>2 DEF BudgetInv, Live
  <2> QED BY <1>4, <2>1, <2>2, <2>3 DEF BudgetInv
<1> QED
  BY <1>1, <1>2, <1>3, <1>4, InstallKeepsBudget, RegistrationKeepsBudget, ReconfigureKeepsBudget
     DEF RoutesNext, vars, config, Join, CloseReturnPath, Lookup, Enqueue, Pump, PumpMoves, PumpTake,
         PumpNotified, PumpExit, PumpCheck, PumpAdmit, PumpWrite, PumpWritten

\* However routes come and go while an operator changes queue size and limit, and
\* registrations wait between their check and their installation: there are no more
\* routes than the limit, and the queues of as many fit the budget (WithinBudget;
\* queues.go:159-189, routes.go:56-151).
THEOREM RoutesFitBudget == RoutesSpec => []WithinBudget
<1>1. RoutesInit => TablesAgree
  BY DEF RoutesInit, TablesAgree
<1>2. RoutesInit => BudgetInv
  <2> SUFFICES ASSUME RoutesInit PROVE BudgetInv
    OBVIOUS
  <2>1. maxRoutes \in Nat /\ bufSize * maxRoutes <= Budget
    BY CappedFits, SizesAssumption DEF RoutesInit
  <2>2. Routed = {} /\ registering = None /\ 1..made = {}
    BY DEF RoutesInit, Routed
  <2> QED BY <2>1, <2>2, FS_EmptySet DEF BudgetInv
<1>3. BudgetInv => WithinBudget
  BY DEF BudgetInv, WithinBudget
<1> QED
  BY <1>1, <1>2, <1>3, InitEstablishesTypes, StepKeepsTypes, StepKeepsAgreement, StepKeepsBudget, PTL
     DEF RoutesSpec
=============================================================================
