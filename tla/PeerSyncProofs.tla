--------------------------- MODULE PeerSyncProofs ---------------------------
(***************************************************************************)
(* Proofs about the peer synchroniser, for every number of commits and of  *)
(* generations.  Types come first, with the stage of the engine; the       *)
(* accounting of generations rests on them.  That a confirmation can be    *)
(* trusted is shown in three steps: what a pass has read covers what it    *)
(* will settle, what is settled with success is enforced, and a waiter     *)
(* reads the outcome only beyond its own notification.                     *)
(***************************************************************************)
EXTENDS PeerSync, TLAPS

\* The engine is between start and retirement exactly while a kick is
\* installed; a generation that is being retired was a worker's.
StageAgrees ==
    /\ live # 0 <=> stage \in {"started", "attached", "detached"}
    /\ stage = "retired" => lcGen - 1 \in Gens

\* A synchroniser starts with nothing queued and nothing settled.
LEMMA InitEstablishesTypes == PeerSyncInit => PeerSyncTypeOK /\ StageAgrees
<1> SUFFICES ASSUME PeerSyncInit PROVE PeerSyncTypeOK /\ StageAgrees
  OBVIOUS
<1>1. PeerSyncTypeOK
  <2>1. /\ seq \in [Callers -> Nat] /\ target \in [Callers -> Nat]
        /\ kick \in [Callers -> Gens \cup {0}]
        /\ answer \in [Callers -> {"none", "ok", "failed", "unlistened"}]
    BY DEF PeerSyncInit
  <2>2. /\ wake \in [Gens -> BOOLEAN] /\ stopped \subseteq Gens
        /\ covered \in [Gens -> Nat] /\ seen \in [Gens -> Nat]
        /\ result \in [Gens -> {"ok", "failed"}]
    BY DEF PeerSyncInit
  <2>3. doing \in [Gens -> {"off", "idle", "woken", "begun", "covered", "passing", "passed",
                           "ended", "published", "gone"}]
    BY DEF PeerSyncInit
  <2>4. at \in [Callers -> {"idle", "captured", "counted", "accepted", "refused",
                           "notified", "asking", "waiting", "parked", "done", "answered"}]
    BY DEF PeerSyncInit
  <2>5. installed \in BOOLEAN
    BY Zenon DEF PeerSyncInit
  <2>6. /\ committed \in Nat /\ enforced \in Nat
        /\ stage \in {"off", "started", "attached", "detached", "retired"}
        /\ lcGen \in Nat /\ live \in Gens \cup {0} /\ runOwner \in Gens \cup {0}
        /\ live = 0 /\ pending \in Int
        /\ notifySeq \in Nat /\ doneSeq \in Nat /\ outcome \in {"ok", "failed"}
    BY DEF PeerSyncInit
  <2> QED BY <2>1, <2>2, <2>3, <2>4, <2>5, <2>6 DEF PeerSyncTypeOK
<1>2. StageAgrees
  BY DEF PeerSyncInit, StageAgrees
<1> QED BY <1>1, <1>2

\* Publishing an outcome keeps the types of what it moves.
LEMMA PublishKeepsTypes ==
  ASSUME PeerSyncTypeOK, NEW n \in Nat, NEW how \in {"ok", "failed"},
         NEW place \in [Callers -> {"idle", "captured", "counted", "accepted", "refused",
                          "notified", "asking", "waiting", "parked", "done", "answered"}],
         Publish(n, how, place)
  PROVE  /\ notifySeq' \in Nat /\ doneSeq' \in Nat /\ outcome' \in {"ok", "failed"}
         /\ at' \in [Callers -> {"idle", "captured", "counted", "accepted", "refused",
                          "notified", "asking", "waiting", "parked", "done", "answered"}]
  BY DEF PeerSyncTypeOK, Publish

\* A caller's own steps keep the types.
LEMMA CallersKeepTypes ==
  ASSUME PeerSyncTypeOK, StageAgrees, NEW c \in Callers,
         Commit(c) \/ Notifier(c) \/ Waiter(c) \/ GiveUp(c)
  PROVE  PeerSyncTypeOK' /\ StageAgrees'
<1>1. CASE PublishRefusal(c)
  <2>1. seq[c] \in Nat
    BY DEF PeerSyncTypeOK
  <2> DEFINE place == [at EXCEPT ![c] = "notified"]
  <2>2. place \in [Callers -> {"idle", "captured", "counted", "accepted", "refused",
                          "notified", "asking", "waiting", "parked", "done", "answered"}]
    BY DEF PeerSyncTypeOK
  <2>3. Publish(seq[c], "failed", place)
    BY <1>1 DEF PublishRefusal
  <2> HIDE DEF place
  <2>4. /\ notifySeq' \in Nat /\ doneSeq' \in Nat /\ outcome' \in {"ok", "failed"}
        /\ at' \in [Callers -> {"idle", "captured", "counted", "accepted", "refused",
                          "notified", "asking", "waiting", "parked", "done", "answered"}]
    BY <2>1, <2>2, <2>3, PublishKeepsTypes
  <2> QED
    BY <1>1, <2>4 DEF PublishRefusal, PeerSyncTypeOK, StageAgrees, durable, engine, account,
       worker, channels
<1>2. CASE Commit(c)
  BY <1>2, BoundsAssumption DEF Commit, Moves, PeerSyncTypeOK, StageAgrees, engine, account, settled,
     worker, channels, Callers
<1>3. CASE CountNotification(c)
  BY <1>3 DEF CountNotification, Moves, PeerSyncTypeOK, StageAgrees, durable, engine, account,
     worker, channels
<1>4. CASE Accept(c)
  BY <1>4 DEF Accept, Moves, PeerSyncTypeOK, StageAgrees, durable, engine, settled, worker, channels
<1>5. CASE Refuse(c) \/ CheckWatermark(c)
  BY <1>5 DEF Refuse, CheckWatermark, Moves, PeerSyncTypeOK, StageAgrees, durable, engine, account,
     settled, worker, channels
<1>6. CASE Kick(c)
  BY <1>6 DEF Kick, Moves, PeerSyncTypeOK, StageAgrees, durable, engine, account, settled, worker
<1>7. CASE AskListener(c)
  BY <1>7 DEF AskListener, Answer, Moves, PeerSyncTypeOK, StageAgrees, durable, engine, account,
     settled, worker, channels
<1>8. CASE TakeTarget(c)
  BY <1>8 DEF TakeTarget, Moves, PeerSyncTypeOK, StageAgrees, durable, engine, account, settled,
     worker, channels
<1>9. CASE ReadOutcome(c) \/ GiveUp(c)
  BY <1>9 DEF ReadOutcome, GiveUp, Answer, Moves, PeerSyncTypeOK, StageAgrees, durable, engine,
     account, settled, worker, channels
<1> QED
  BY <1>1, <1>2, <1>3, <1>4, <1>5, <1>6, <1>7, <1>8, <1>9 DEF Notifier, Waiter

\* A worker's steps keep the types.
LEMMA WorkersKeepTypes ==
  ASSUME PeerSyncTypeOK, StageAgrees, NEW g \in Gens, Worker(g)
  PROVE  PeerSyncTypeOK' /\ StageAgrees'
<1>1. CASE PublishPass(g)
  <2>1. covered[g] \in Nat /\ result[g] \in {"ok", "failed"}
    BY DEF PeerSyncTypeOK
  <2>2. at \in [Callers -> {"idle", "captured", "counted", "accepted", "refused",
                          "notified", "asking", "waiting", "parked", "done", "answered"}]
    BY DEF PeerSyncTypeOK
  <2>3. Publish(covered[g], result[g], at)
    BY <1>1 DEF PublishPass
  <2>4. /\ notifySeq' \in Nat /\ doneSeq' \in Nat /\ outcome' \in {"ok", "failed"}
        /\ at' \in [Callers -> {"idle", "captured", "counted", "accepted", "refused",
                          "notified", "asking", "waiting", "parked", "done", "answered"}]
    BY <2>1, <2>2, <2>3, PublishKeepsTypes
  <2> QED
    BY <1>1, <2>4 DEF PublishPass, Works, PeerSyncTypeOK, StageAgrees, durable, engine, account,
       channels
<1>2. CASE Receive(g)
  BY <1>2 DEF Receive, Works, PeerSyncTypeOK, StageAgrees, durable, engine, account, settled, callerVars
<1>3. CASE ObserveStop(g)
  BY <1>3 DEF ObserveStop, Works, PeerSyncTypeOK, StageAgrees, durable, engine, account, settled,
     callerVars, channels
<1>4. CASE Begin(g)
  BY <1>4 DEF Begin, Works, PeerSyncTypeOK, StageAgrees, durable, engine, settled, callerVars, channels
<1>5. CASE Cover(g)
  BY <1>5 DEF Cover, Works, PeerSyncTypeOK, StageAgrees, durable, engine, account, settled, callerVars,
     channels
<1>6. CASE StartPass(g)
  BY <1>6 DEF StartPass, Works, PeerSyncTypeOK, StageAgrees, durable, engine, account, settled,
     callerVars, channels
<1>7. CASE FinishPass(g)
  BY <1>7 DEF FinishPass, Works, PeerSyncTypeOK, StageAgrees, engine, account, settled, callerVars,
     channels
<1>8. CASE EndPass(g)
  BY <1>8 DEF EndPass, Works, PeerSyncTypeOK, StageAgrees, durable, engine, settled, callerVars, channels
<1>9. CASE Rearm(g)
  BY <1>9 DEF Rearm, Works, PeerSyncTypeOK, StageAgrees, durable, engine, account, settled, callerVars
<1> QED
  BY <1>1, <1>2, <1>3, <1>4, <1>5, <1>6, <1>7, <1>8, <1>9 DEF Worker

\* The engine's steps keep the types.
LEMMA EngineKeepsTypes ==
  ASSUME PeerSyncTypeOK, StageAgrees,
         StartWorker \/ Subscribe \/ Unsubscribe \/ RetireGeneration \/ FailOutstanding
  PROVE  PeerSyncTypeOK' /\ StageAgrees'
<1>1. CASE FailOutstanding
  <2>1. notifySeq \in Nat /\ lcGen - 1 \in Gens
    BY <1>1 DEF PeerSyncTypeOK, FailOutstanding, Proceeds, StageAgrees
  <2>2. at \in [Callers -> {"idle", "captured", "counted", "accepted", "refused",
                          "notified", "asking", "waiting", "parked", "done", "answered"}]
    BY DEF PeerSyncTypeOK
  <2>3. Publish(notifySeq, "failed", at)
    BY <1>1 DEF FailOutstanding
  <2>4. /\ notifySeq' \in Nat /\ doneSeq' \in Nat /\ outcome' \in {"ok", "failed"}
        /\ at' \in [Callers -> {"idle", "captured", "counted", "accepted", "refused",
                          "notified", "asking", "waiting", "parked", "done", "answered"}]
    BY <2>1, <2>2, <2>3, PublishKeepsTypes
  <2> QED
    BY <1>1, <2>1, <2>4 DEF FailOutstanding, Proceeds, PeerSyncTypeOK, StageAgrees, durable,
       account, worker
<1>2. CASE StartWorker
  <2>1. lcGen + 1 \in Gens /\ lcGen + 1 \in Nat
    BY <1>2, BoundsAssumption DEF StartWorker, PeerSyncTypeOK, Gens
  <2> QED
    BY <1>2, <2>1 DEF StartWorker, Proceeds, PeerSyncTypeOK, StageAgrees, durable, settled,
       callerVars, channels, Gens
<1>3. CASE Subscribe \/ Unsubscribe
  BY <1>3 DEF Subscribe, Unsubscribe, Proceeds, PeerSyncTypeOK, StageAgrees, durable, account,
     settled, callerVars, worker, channels
<1>4. CASE RetireGeneration
  <2>1. live = lcGen /\ live \in Gens /\ lcGen \in Nat
    BY <1>4 DEF RetireGeneration, Proceeds, PeerSyncTypeOK, StageAgrees
  <2> QED
    BY <1>4, <2>1 DEF RetireGeneration, Proceeds, PeerSyncTypeOK, StageAgrees, durable, settled,
       callerVars, worker, channels
<1> QED
  BY <1>1, <1>2, <1>3, <1>4

\* Every step keeps the types.
LEMMA StepKeepsTypes ==
  PeerSyncTypeOK /\ StageAgrees /\ [PeerSyncNext]_vars => PeerSyncTypeOK' /\ StageAgrees'
<1> SUFFICES ASSUME PeerSyncTypeOK, StageAgrees, [PeerSyncNext]_vars
             PROVE  PeerSyncTypeOK' /\ StageAgrees'
  OBVIOUS
<1>1. CASE UNCHANGED vars
  BY <1>1 DEF vars, durable, engine, account, settled, callerVars, worker, channels,
     PeerSyncTypeOK, StageAgrees
<1> QED
  BY <1>1, CallersKeepTypes, WorkersKeepTypes, EngineKeepsTypes DEF PeerSyncNext

\* Every variable of the synchroniser keeps its type (peer_sync.go:85-166).
THEOREM PeerSyncTypes == PeerSyncSpec => []PeerSyncTypeOK
<1>1. PeerSyncSpec => [](PeerSyncTypeOK /\ StageAgrees)
  BY InitEstablishesTypes, StepKeepsTypes, PTL DEF PeerSyncSpec
<1> QED BY <1>1, PTL

-----------------------------------------------------------------------------
(* The accounting of generations                                            *)

\* Only the generation whose kick is installed can be current and have a
\* worker, and the marker names no later one.
GenerationsAgree ==
    /\ \A g \in Gens : doing[g] # "off" => g <= lcGen
    /\ \A g \in Gens : doing[g] # "off" /\ g = lcGen => live = g
    /\ runOwner <= lcGen

\* A worker belongs to a generation that was started (peer_sync.go:228-304).
LEMMA StepKeepsGenerations ==
  PeerSyncTypeOK /\ GenerationsAgree /\ [PeerSyncNext]_vars => GenerationsAgree'
<1> SUFFICES ASSUME PeerSyncTypeOK, GenerationsAgree, [PeerSyncNext]_vars
             PROVE  GenerationsAgree'
  OBVIOUS
<1>1. ASSUME NEW g \in Gens, Worker(g) PROVE GenerationsAgree'
  <2>1. CASE Begin(g)
    BY <2>1, BoundsAssumption DEF Begin, Works, PeerSyncTypeOK, GenerationsAgree, Gens
  <2>2. CASE EndPass(g)
    BY <2>2, BoundsAssumption DEF EndPass, Works, PeerSyncTypeOK, GenerationsAgree, Gens
  <2> QED
    BY <1>1, <2>1, <2>2
       DEF Worker, Receive, ObserveStop, Cover, StartPass, FinishPass, PublishPass, Rearm, Works,
           account, PeerSyncTypeOK, GenerationsAgree
<1>2. CASE StartWorker
  <2>1. /\ lcGen' = lcGen + 1 /\ live' = lcGen + 1 /\ UNCHANGED runOwner
        /\ doing' = [doing EXCEPT ![lcGen + 1] = "idle"]
        /\ lcGen \in Nat /\ runOwner \in Nat
    BY <1>2, BoundsAssumption DEF StartWorker, PeerSyncTypeOK, Gens
  <2>2. \A g \in Gens : g # lcGen + 1 => doing'[g] = doing[g]
    BY <2>1 DEF PeerSyncTypeOK
  <2> QED
    BY <2>1, <2>2, BoundsAssumption DEF GenerationsAgree, Gens
<1>3. CASE RetireGeneration
  BY <1>3, BoundsAssumption DEF RetireGeneration, worker, PeerSyncTypeOK, GenerationsAgree, Gens
<1>4. CASE UNCHANGED <<doing, live, lcGen, runOwner>>
  BY <1>4 DEF GenerationsAgree
<1> QED
  BY <1>1, <1>2, <1>3, <1>4
     DEF PeerSyncNext, vars, account, worker, Commit, Notifier, Waiter, GiveUp, CountNotification,
         Accept, Refuse, Kick, PublishRefusal, AskListener, TakeTarget, CheckWatermark,
         ReadOutcome, Subscribe, Unsubscribe, FailOutstanding

\* A retired generation changes neither the queued count nor the marker of the
\* live one.
LEMMA StepKeepsAccount ==
  /\ PeerSyncTypeOK /\ GenerationsAgree /\ RetiredCountSettled /\ MarkerExact
  /\ [PeerSyncNext]_vars
  => RetiredCountSettled' /\ MarkerExact'
<1> SUFFICES ASSUME PeerSyncTypeOK, GenerationsAgree, RetiredCountSettled, MarkerExact,
                    [PeerSyncNext]_vars
             PROVE  RetiredCountSettled' /\ MarkerExact'
  OBVIOUS
<1> USE DEF RetiredCountSettled, MarkerExact, InPass
<1>1. ASSUME NEW g \in Gens, Worker(g) PROVE RetiredCountSettled' /\ MarkerExact'
  <2>1. CASE Begin(g)
    <3>1. g = lcGen => live = g
      BY <2>1 DEF Begin, Works, GenerationsAgree
    <3>2. /\ doing' = [doing EXCEPT ![g] = IF g = lcGen THEN "begun" ELSE "gone"]
          /\ live' = live /\ doing[g] = "woken"
      BY <2>1 DEF Begin, Works
    <3>3. g # lcGen => live # g
      BY DEF PeerSyncTypeOK, Gens
    <3> QED
      BY <2>1, <3>1, <3>2, <3>3, BoundsAssumption DEF Begin, PeerSyncTypeOK, Gens
  <2>2. CASE EndPass(g)
    BY <2>2, BoundsAssumption DEF EndPass, Works, PeerSyncTypeOK, Gens
  <2> QED
    BY <1>1, <2>1, <2>2
       DEF Worker, Receive, ObserveStop, Cover, StartPass, FinishPass, PublishPass, Rearm, Works,
           account, PeerSyncTypeOK
<1>2. CASE StartWorker
  <2>1. runOwner # lcGen + 1 /\ lcGen + 1 \in Gens /\ lcGen + 1 # 0
    BY <1>2, BoundsAssumption DEF StartWorker, GenerationsAgree, PeerSyncTypeOK, Gens
  <2> QED
    BY <1>2, <2>1 DEF StartWorker, PeerSyncTypeOK
<1>3. CASE RetireGeneration
  BY <1>3 DEF RetireGeneration
<1>4. ASSUME NEW c \in Callers, Accept(c) PROVE RetiredCountSettled' /\ MarkerExact'
  BY <1>4 DEF Accept, worker
<1>5. CASE UNCHANGED <<doing, account>>
  BY <1>5 DEF account
<1> QED
  BY <1>1, <1>2, <1>3, <1>4, <1>5
     DEF PeerSyncNext, vars, account, worker, Commit, Notifier, Waiter, GiveUp, CountNotification,
         Refuse, Kick, PublishRefusal, AskListener, TakeTarget, CheckWatermark,
         ReadOutcome, Subscribe, Unsubscribe, FailOutstanding

\* Generations agree in every reachable state.
LEMMA GenerationsAlwaysAgree ==
  PeerSyncSpec => [](PeerSyncTypeOK /\ GenerationsAgree /\ RetiredCountSettled /\ MarkerExact)
<1>1. PeerSyncInit => GenerationsAgree /\ RetiredCountSettled /\ MarkerExact
  BY DEF PeerSyncInit, GenerationsAgree, RetiredCountSettled, MarkerExact
<1> QED
  BY <1>1, PeerSyncTypes, StepKeepsGenerations, StepKeepsAccount, PTL DEF PeerSyncSpec

\* Nothing stays queued once a generation is retired, whatever callers and
\* workers that are late for the retirement do (peer_sync.go:333-346, 358-368).
THEOREM RetiredCountsSettled == PeerSyncSpec => []RetiredCountSettled
  BY GenerationsAlwaysAgree, PTL

\* The running marker is exact for the live generation, although a retired one
\* may still be in a pass (peer_sync.go:376-384).
THEOREM MarkersExact == PeerSyncSpec => []MarkerExact
  BY GenerationsAlwaysAgree, PTL

-----------------------------------------------------------------------------
(* What a confirmation means                                                *)

\* Passes exclude each other, so each enforces a state no older than the last,
\* and nobody has read or enforced what is not committed (peer_sync.go:832-843).
PassesAgree ==
    /\ enforced <= committed
    /\ \A g, h \in Gens : doing[g] = "passing" /\ doing[h] = "passing" => g = h
    /\ \A g \in Gens : doing[g] = "passing" => enforced <= seen[g] /\ seen[g] <= committed
    /\ \A g \in Gens : doing[g] \in {"passed", "ended"} /\ result[g] = "ok" => seen[g] <= enforced

\* Enforcement only advances.
LEMMA EnforcementAdvances ==
  PeerSyncTypeOK /\ PassesAgree /\ [PeerSyncNext]_vars
    => PassesAgree' /\ enforced <= enforced' /\ committed <= committed'
<1> SUFFICES ASSUME PeerSyncTypeOK, PassesAgree, [PeerSyncNext]_vars
             PROVE  PassesAgree' /\ enforced <= enforced' /\ committed <= committed'
  OBVIOUS
<1>1. ASSUME NEW g \in Gens, Worker(g)
      PROVE  PassesAgree' /\ enforced <= enforced' /\ committed <= committed'
  <2>1. CASE StartPass(g)
    BY <2>1 DEF StartPass, Works, Unlocked, durable, worker, PeerSyncTypeOK, PassesAgree
  <2>2. CASE FinishPass(g)
    BY <2>2 DEF FinishPass, Works, PeerSyncTypeOK, PassesAgree
  <2>3. CASE Rearm(g)
    BY <2>3 DEF Rearm, Works, durable, PeerSyncTypeOK, PassesAgree
  <2> QED
    BY <1>1, <2>1, <2>2, <2>3
       DEF Worker, Receive, ObserveStop, Begin, Cover, EndPass, PublishPass, Works, durable,
           PeerSyncTypeOK, PassesAgree
<1>2. ASSUME NEW c \in Callers, Commit(c)
      PROVE  PassesAgree' /\ enforced <= enforced' /\ committed <= committed'
  BY <1>2 DEF Commit, worker, PeerSyncTypeOK, PassesAgree
<1>3. CASE StartWorker
  BY <1>3 DEF StartWorker, durable, PeerSyncTypeOK, PassesAgree
<1>4. CASE UNCHANGED <<durable, doing, seen, result>>
  BY <1>4 DEF durable, PeerSyncTypeOK, PassesAgree
<1> QED
  BY <1>1, <1>2, <1>3, <1>4
     DEF PeerSyncNext, vars, worker, Notifier, Waiter, GiveUp, CountNotification, Accept,
         Refuse, Kick, PublishRefusal, AskListener, TakeTarget, CheckWatermark, ReadOutcome,
         Subscribe, Unsubscribe, RetireGeneration, FailOutstanding

\* A notification is counted after its commit, and not beyond what is counted.
CountsAgree ==
    /\ doneSeq <= notifySeq
    /\ \A g \in Gens : covered[g] <= notifySeq
    /\ \A c \in Callers : seq[c] <= notifySeq
    /\ \A c \in Callers : at[c] # "idle" => c <= committed
    /\ \A c \in Callers : at[c] \in {"idle", "captured"} => seq[c] = 0

\* The watermark a pass or a refusal publishes has been counted.
LEMMA PublishStaysCounted ==
  ASSUME PeerSyncTypeOK, CountsAgree, NEW n \in Nat, NEW how, NEW place, n <= notifySeq,
         Publish(n, how, place)
  PROVE  /\ doneSeq' <= notifySeq' /\ doneSeq <= doneSeq' /\ notifySeq' = notifySeq
         /\ doneSeq' = doneSeq \/ doneSeq' = n
  BY DEF PeerSyncTypeOK, CountsAgree, Publish

\* Waking whoever is parked changes no other place.
LEMMA PublishMovesParked ==
  ASSUME NEW n, NEW how, NEW place, Publish(n, how, place), NEW c \in Callers
  PROVE  at'[c] = IF place[c] = "parked" THEN "waiting" ELSE place[c]
  BY DEF Publish

\* Counting and publishing keep the watermarks in order (peer_sync.go:417-471).
LEMMA StepKeepsCounts ==
  PeerSyncTypeOK /\ CountsAgree /\ [PeerSyncNext]_vars
    => CountsAgree' /\ doneSeq <= doneSeq' /\ notifySeq <= notifySeq'
<1> SUFFICES ASSUME PeerSyncTypeOK, CountsAgree, [PeerSyncNext]_vars
             PROVE  CountsAgree' /\ doneSeq <= doneSeq' /\ notifySeq <= notifySeq'
  OBVIOUS
<1>1. ASSUME NEW c \in Callers, Commit(c) \/ Notifier(c) \/ Waiter(c) \/ GiveUp(c)
      PROVE  CountsAgree' /\ doneSeq <= doneSeq' /\ notifySeq <= notifySeq'
  <2>1. CASE Commit(c)
    BY <2>1, BoundsAssumption
       DEF Commit, Moves, settled, worker, PeerSyncTypeOK, CountsAgree, Callers
  <2>2. CASE CountNotification(c)
    BY <2>2 DEF CountNotification, Moves, durable, worker, PeerSyncTypeOK, CountsAgree
  <2>3. CASE PublishRefusal(c)
    <3> DEFINE place == [at EXCEPT ![c] = "notified"]
    <3>1. seq[c] \in Nat /\ seq[c] <= notifySeq /\ at[c] = "refused"
      BY <2>3 DEF PublishRefusal, PeerSyncTypeOK, CountsAgree
    <3>2. Publish(seq[c], "failed", place)
      BY <2>3 DEF PublishRefusal
    <3>3. \A d \in Callers : place[d] = IF d = c THEN "notified" ELSE at[d]
      BY DEF PeerSyncTypeOK
    <3> HIDE DEF place
    <3>4. doneSeq' <= notifySeq' /\ doneSeq <= doneSeq' /\ notifySeq' = notifySeq
      BY <3>1, <3>2, PublishStaysCounted
    <3>5. \A d \in Callers : at'[d] = IF place[d] = "parked" THEN "waiting" ELSE place[d]
      BY <3>2, PublishMovesParked
    <3> QED
      BY <2>3, <3>1, <3>3, <3>4, <3>5
         DEF PublishRefusal, durable, worker, PeerSyncTypeOK, CountsAgree
  <2>4. CASE Accept(c) \/ Refuse(c) \/ Kick(c)
    BY <2>4 DEF Accept, Refuse, Kick, Moves, durable, settled, worker, PeerSyncTypeOK, CountsAgree
  <2>5. CASE Waiter(c) \/ GiveUp(c)
    BY <2>5 DEF Waiter, GiveUp, AskListener, TakeTarget, CheckWatermark, ReadOutcome, Moves,
       durable, settled, worker, PeerSyncTypeOK, CountsAgree
  <2> QED
    BY <1>1, <2>1, <2>2, <2>3, <2>4, <2>5 DEF Notifier
<1>2. ASSUME NEW g \in Gens, Worker(g)
      PROVE  CountsAgree' /\ doneSeq <= doneSeq' /\ notifySeq <= notifySeq'
  <2>1. CASE PublishPass(g)
    <3>1. covered[g] \in Nat /\ covered[g] <= notifySeq /\ Publish(covered[g], result[g], at)
      BY <2>1 DEF PublishPass, PeerSyncTypeOK, CountsAgree
    <3>2. doneSeq' <= notifySeq' /\ doneSeq <= doneSeq' /\ notifySeq' = notifySeq
      BY <3>1, PublishStaysCounted
    <3>3. \A d \in Callers : at'[d] = IF at[d] = "parked" THEN "waiting" ELSE at[d]
      BY <3>1, PublishMovesParked
    <3> QED
      BY <2>1, <3>2, <3>3 DEF PublishPass, durable, PeerSyncTypeOK, CountsAgree
  <2>2. CASE Cover(g) \/ Rearm(g)
    BY <2>2 DEF Cover, Rearm, durable, settled, callerVars, PeerSyncTypeOK, CountsAgree
  <2>3. CASE FinishPass(g)
    BY <2>3 DEF FinishPass, settled, callerVars, PeerSyncTypeOK, CountsAgree
  <2> QED
    BY <1>2, <2>1, <2>2, <2>3
       DEF Worker, Receive, ObserveStop, Begin, StartPass, EndPass, durable, settled, callerVars,
           PeerSyncTypeOK, CountsAgree
<1>3. CASE FailOutstanding
  <2>1. notifySeq \in Nat /\ Publish(notifySeq, "failed", at)
    BY <1>3 DEF FailOutstanding, PeerSyncTypeOK
  <2>2. doneSeq' <= notifySeq' /\ doneSeq <= doneSeq' /\ notifySeq' = notifySeq
    BY <2>1, PublishStaysCounted DEF PeerSyncTypeOK
  <2>3. \A d \in Callers : at'[d] = IF at[d] = "parked" THEN "waiting" ELSE at[d]
    BY <2>1, PublishMovesParked
  <2> QED
    BY <1>3, <2>2, <2>3 DEF FailOutstanding, durable, worker, PeerSyncTypeOK, CountsAgree
<1>4. CASE UNCHANGED <<durable, settled, callerVars, covered>>
  BY <1>4 DEF durable, settled, callerVars, PeerSyncTypeOK, CountsAgree
<1> QED
  BY <1>1, <1>2, <1>3, <1>4
     DEF PeerSyncNext, vars, worker, StartWorker, Subscribe, Unsubscribe, RetireGeneration

\* What a pass has read includes every notification it will settle, and what is
\* settled with success is enforced.
SettledAgree ==
    /\ \A g \in Gens, c \in Callers :
         doing[g] \in {"passing", "passed", "ended"} /\ seq[c] > 0 /\ seq[c] <= covered[g]
           => c <= seen[g]
    /\ outcome = "ok" =>
         \A c \in Callers : seq[c] > 0 /\ seq[c] <= doneSeq => c <= enforced

\* A failed publication claims nothing.
LEMMA FailureClaimsNothing ==
  ASSUME PeerSyncTypeOK, SettledAgree, NEW n \in Nat, NEW place,
         Publish(n, "failed", place), enforced' = enforced, seq' = seq
  PROVE  outcome' = "ok" =>
           \A c \in Callers : seq'[c] > 0 /\ seq'[c] <= doneSeq' => c <= enforced'
  BY DEF PeerSyncTypeOK, SettledAgree, Publish

\* The watermark is read before the pass reads the durable state, and published
\* with the outcome of that pass (peer_sync.go:311-321, 463-471).
LEMMA StepKeepsSettled ==
  /\ PeerSyncTypeOK /\ PassesAgree /\ CountsAgree /\ SettledAgree /\ [PeerSyncNext]_vars
  => SettledAgree'
<1> SUFFICES ASSUME PeerSyncTypeOK, PassesAgree, CountsAgree, SettledAgree, [PeerSyncNext]_vars
             PROVE  SettledAgree'
  OBVIOUS
<1>1. ASSUME NEW c \in Callers, CountNotification(c) PROVE SettledAgree'
  <2>1. /\ seq' = [seq EXCEPT ![c] = notifySeq + 1]
        /\ UNCHANGED <<enforced, doing, covered, seen, doneSeq, outcome>>
    BY <1>1 DEF CountNotification, durable, worker
  <2>2. \A d \in Callers : seq'[d] = IF d = c THEN notifySeq + 1 ELSE seq[d]
    BY <2>1 DEF PeerSyncTypeOK
  <2>3. doneSeq < notifySeq + 1 /\ \A g \in Gens : covered[g] < notifySeq + 1
    BY DEF PeerSyncTypeOK, CountsAgree
  <2> QED
    BY <2>1, <2>2, <2>3 DEF PeerSyncTypeOK, SettledAgree
<1>2. ASSUME NEW c \in Callers, PublishRefusal(c) PROVE SettledAgree'
  <2>1. seq[c] \in Nat /\ Publish(seq[c], "failed", [at EXCEPT ![c] = "notified"])
    BY <1>2 DEF PublishRefusal, PeerSyncTypeOK
  <2>2. enforced' = enforced /\ seq' = seq /\ UNCHANGED <<doing, covered, seen>>
    BY <1>2 DEF PublishRefusal, durable, worker
  <2>3. outcome' = "ok" =>
          \A d \in Callers : seq'[d] > 0 /\ seq'[d] <= doneSeq' => d <= enforced'
    BY <2>1, <2>2, FailureClaimsNothing
  <2> QED
    BY <2>2, <2>3 DEF SettledAgree
<1>3. CASE FailOutstanding
  <2>1. notifySeq \in Nat /\ Publish(notifySeq, "failed", at)
    BY <1>3 DEF FailOutstanding, PeerSyncTypeOK
  <2>2. enforced' = enforced /\ seq' = seq /\ UNCHANGED <<doing, covered, seen>>
    BY <1>3 DEF FailOutstanding, durable, worker
  <2>3. outcome' = "ok" =>
          \A d \in Callers : seq'[d] > 0 /\ seq'[d] <= doneSeq' => d <= enforced'
    BY <2>1, <2>2, FailureClaimsNothing
  <2> QED
    BY <2>2, <2>3 DEF SettledAgree
<1>4. ASSUME NEW g \in Gens, Worker(g) PROVE SettledAgree'
  <2>1. CASE StartPass(g)
    <3>1. \A c \in Callers : seq[c] > 0 => c <= committed
      BY DEF PeerSyncTypeOK, CountsAgree
    <3> QED
      BY <2>1, <3>1 DEF StartPass, Works, durable, settled, callerVars, PeerSyncTypeOK, SettledAgree
  <2>2. CASE FinishPass(g)
    <3>1. enforced' \in Nat /\ enforced <= enforced'
      BY <2>2 DEF FinishPass, Works, PeerSyncTypeOK, PassesAgree
    <3>2. \A c \in Callers : c \in Nat
      BY BoundsAssumption DEF Callers
    <3> QED
      BY <2>2, <3>1, <3>2 DEF FinishPass, Works, settled, callerVars, PeerSyncTypeOK, SettledAgree
  <2>3. CASE PublishPass(g)
    <3>1. Publish(covered[g], result[g], at) /\ doing[g] = "ended"
      BY <2>3 DEF PublishPass, Works
    <3>2. result[g] = "ok" => seen[g] <= enforced
      BY <3>1 DEF PassesAgree
    <3>3. \A c \in Callers : c \in Nat
      BY BoundsAssumption DEF Callers
    <3>4. result[g] = "ok" =>
            \A c \in Callers : seq[c] > 0 /\ seq[c] <= covered[g] => c <= enforced
      BY <3>1, <3>2, <3>3 DEF PeerSyncTypeOK, SettledAgree
    <3>5. outcome' = "ok" => \A c \in Callers : seq[c] > 0 /\ seq[c] <= doneSeq' => c <= enforced
      BY <3>1, <3>4 DEF Publish, PeerSyncTypeOK, SettledAgree
    <3> QED
      BY <2>3, <3>5 DEF PublishPass, Works, durable, PeerSyncTypeOK, SettledAgree
  <2>4. CASE Cover(g)
    BY <2>4 DEF Cover, Works, durable, settled, callerVars, PeerSyncTypeOK, SettledAgree
  <2>5. CASE Rearm(g)
    BY <2>5 DEF Rearm, Works, durable, settled, callerVars, PeerSyncTypeOK, SettledAgree
  <2> QED
    BY <1>4, <2>1, <2>2, <2>3, <2>4, <2>5
       DEF Worker, Receive, ObserveStop, Begin, EndPass, Works, durable, settled, callerVars,
           PeerSyncTypeOK, SettledAgree
<1>5. CASE StartWorker
  BY <1>5 DEF StartWorker, durable, settled, callerVars, PeerSyncTypeOK, SettledAgree
<1>6. CASE UNCHANGED <<enforced, doing, covered, seen, seq, doneSeq, outcome>>
  BY <1>6 DEF SettledAgree
<1> QED
  BY <1>1, <1>2, <1>3, <1>4, <1>5, <1>6
     DEF PeerSyncNext, vars, worker, durable, settled, callerVars, Commit, Notifier, Waiter, GiveUp,
         Accept, Refuse, Kick, AskListener, TakeTarget, CheckWatermark, ReadOutcome,
         Subscribe, Unsubscribe, RetireGeneration

\* A waiter's watermark is not below its own notification, and it reads the
\* outcome only when that watermark has been reached.
WaitersAgree ==
    /\ \A c \in Callers : answer[c] # "none" => at[c] = "answered"
    /\ \A c \in Callers : at[c] \in {"waiting", "parked", "done"} => seq[c] <= target[c]
    /\ \A c \in Callers : at[c] = "done" => target[c] <= doneSeq
    /\ ConfirmedMeansEnforced

\* An answer is given for a notification that is settled (peer_sync.go:632-683).
LEMMA StepKeepsWaiters ==
  /\ PeerSyncTypeOK /\ PeerSyncTypeOK' /\ PassesAgree /\ CountsAgree /\ SettledAgree /\ WaitersAgree
  /\ [PeerSyncNext]_vars
  => WaitersAgree'
<1> SUFFICES ASSUME PeerSyncTypeOK, PeerSyncTypeOK', PassesAgree, CountsAgree, SettledAgree,
                    WaitersAgree,
                    [PeerSyncNext]_vars
             PROVE  WaitersAgree'
  OBVIOUS
<1>1. enforced <= enforced' /\ doneSeq <= doneSeq' /\ enforced' \in Nat /\ doneSeq' \in Nat
  BY EnforcementAdvances, StepKeepsCounts DEF PeerSyncTypeOK
<1>2. \A c \in Callers : c \in Nat
  BY BoundsAssumption DEF Callers
<1> USE DEF WaitersAgree, ConfirmedMeansEnforced
<1>3. ASSUME NEW c \in Callers, Commit(c) \/ Notifier(c) \/ Waiter(c) \/ GiveUp(c)
      PROVE  WaitersAgree'
  <2>1. CASE CountNotification(c)
    <3>1. answer[c] = "none"
      BY <2>1 DEF CountNotification, Moves
    <3> QED
      BY <1>1, <1>2, <2>1, <3>1 DEF CountNotification, Moves, PeerSyncTypeOK, durable
  <2>2. CASE PublishRefusal(c)
    <3> DEFINE place == [at EXCEPT ![c] = "notified"]
    <3>1. at[c] = "refused" /\ UNCHANGED <<seq, target, answer, enforced>>
      BY <2>2 DEF PublishRefusal, durable
    <3>2. Publish(seq[c], "failed", place)
      BY <2>2 DEF PublishRefusal
    <3>3. \A d \in Callers : place[d] = IF d = c THEN "notified" ELSE at[d]
      BY DEF PeerSyncTypeOK
    <3> HIDE DEF place
    <3>4. \A d \in Callers : at'[d] = IF place[d] = "parked" THEN "waiting" ELSE place[d]
      BY <3>2, PublishMovesParked
    <3> QED
      BY <1>1, <3>1, <3>3, <3>4 DEF PeerSyncTypeOK
  <2>3. CASE ReadOutcome(c)
    <3>1. at[c] = "done" /\ seq[c] <= doneSeq /\ UNCHANGED <<seq, enforced, doneSeq>>
      BY <2>3 DEF ReadOutcome, Moves, durable, settled, PeerSyncTypeOK
    <3>2. outcome = "ok" /\ seq[c] > 0 => enforced >= c
      BY <1>2, <3>1 DEF SettledAgree, PeerSyncTypeOK
    <3> QED
      BY <2>3, <3>1, <3>2 DEF ReadOutcome, Answer, Moves, PeerSyncTypeOK
  <2>4. CASE Commit(c)
    BY <1>1, <2>4 DEF Commit, Moves, PeerSyncTypeOK, settled
  <2>5. CASE Accept(c) \/ Refuse(c) \/ Kick(c)
    BY <2>5 DEF Accept, Refuse, Kick, Moves, PeerSyncTypeOK, durable, settled
  <2>6. CASE AskListener(c)
    BY <2>6 DEF AskListener, Answer, Moves, PeerSyncTypeOK, durable, settled
  <2>7. CASE TakeTarget(c)
    BY <2>7 DEF TakeTarget, Moves, PeerSyncTypeOK, CountsAgree, durable, settled
  <2>8. CASE CheckWatermark(c)
    BY <2>8 DEF CheckWatermark, Moves, PeerSyncTypeOK, durable, settled
  <2>9. CASE GiveUp(c)
    BY <2>9 DEF GiveUp, Answer, Moves, PeerSyncTypeOK, durable, settled
  <2> QED
    BY <1>3, <2>1, <2>2, <2>3, <2>4, <2>5, <2>6, <2>7, <2>8, <2>9 DEF Notifier, Waiter
<1>4. ASSUME NEW n, NEW how, Publish(n, how, at), UNCHANGED <<seq, target, answer>>
      PROVE  WaitersAgree'
  <2>1. \A d \in Callers : at'[d] = IF at[d] = "parked" THEN "waiting" ELSE at[d]
    BY <1>4, PublishMovesParked
  <2> QED
    BY <1>1, <1>2, <1>4, <2>1 DEF PeerSyncTypeOK
<1>5. CASE UNCHANGED callerVars
  BY <1>1, <1>2, <1>5 DEF callerVars, PeerSyncTypeOK
<1>6. ASSUME NEW g \in Gens, Worker(g) PROVE WaitersAgree'
  BY <1>4, <1>5, <1>6
     DEF Worker, Receive, ObserveStop, Begin, Cover, StartPass, FinishPass, EndPass, PublishPass, Rearm
<1> QED
  BY <1>3, <1>4, <1>5, <1>6
     DEF PeerSyncNext, vars, StartWorker, Subscribe, Unsubscribe, RetireGeneration, FailOutstanding

\* Success is reported only for an enforced change, whatever callers, passes of
\* several generations, refusals and stops publish in between
\* (peer_sync.go:463-471, 625-683).
THEOREM ConfirmationsHold == PeerSyncSpec => []ConfirmedMeansEnforced
<1>1. PeerSyncInit => PassesAgree /\ CountsAgree /\ SettledAgree /\ WaitersAgree
  <2> SUFFICES ASSUME PeerSyncInit
               PROVE  PassesAgree /\ CountsAgree /\ SettledAgree /\ WaitersAgree
    OBVIOUS
  <2>1. PassesAgree
    BY DEF PeerSyncInit, PassesAgree
  <2>2. CountsAgree
    BY DEF PeerSyncInit, CountsAgree
  <2>3. SettledAgree
    BY DEF PeerSyncInit, SettledAgree
  <2>4. WaitersAgree
    BY DEF PeerSyncInit, WaitersAgree, ConfirmedMeansEnforced
  <2> QED BY <2>1, <2>2, <2>3, <2>4
<1>2. WaitersAgree => ConfirmedMeansEnforced
  BY DEF WaitersAgree
<1> QED
  BY <1>1, <1>2, PeerSyncTypes, EnforcementAdvances, StepKeepsCounts, StepKeepsSettled,
     StepKeepsWaiters, PTL DEF PeerSyncSpec

-----------------------------------------------------------------------------
(* No notification is lost                                                  *)

\* A kick is captured when a notification is accepted, from a generation that
\* has been started by then (peer_sync.go:429-433).
KicksAgree ==
    \A c \in Callers :
        /\ kick[c] <= lcGen
        /\ at[c] \in {"idle", "captured", "counted", "refused"} => kick[c] = 0

\* Neither a caller nor the engine captures another kick.
LEMMA StepKeepsKicks ==
  PeerSyncTypeOK /\ KicksAgree /\ [PeerSyncNext]_vars => KicksAgree'
<1> SUFFICES ASSUME PeerSyncTypeOK, KicksAgree, [PeerSyncNext]_vars PROVE KicksAgree'
  OBVIOUS
<1>1. lcGen \in Nat /\ \A c \in Callers : kick[c] \in Nat
  BY BoundsAssumption DEF PeerSyncTypeOK, Gens
<1>2. ASSUME NEW c \in Callers, Commit(c) \/ Notifier(c) \/ Waiter(c) \/ GiveUp(c)
      PROVE  KicksAgree'
  <2>1. CASE PublishRefusal(c)
    <3> DEFINE place == [at EXCEPT ![c] = "notified"]
    <3>1. UNCHANGED <<kick, lcGen>> /\ Publish(seq[c], "failed", place)
      BY <2>1 DEF PublishRefusal, account
    <3>2. \A d \in Callers : place[d] = IF d = c THEN "notified" ELSE at[d]
      BY DEF PeerSyncTypeOK
    <3> HIDE DEF place
    <3>3. \A d \in Callers : at'[d] = IF place[d] = "parked" THEN "waiting" ELSE place[d]
      BY <3>1, PublishMovesParked
    <3> QED
      BY <3>1, <3>2, <3>3 DEF KicksAgree
  <2>2. CASE Accept(c)
    <3>1. live = lcGen
      BY <2>2 DEF Accept, PeerSyncTypeOK
    <3> QED
      BY <1>1, <2>2, <3>1 DEF Accept, Moves, PeerSyncTypeOK, KicksAgree
  <2>3. CASE Commit(c) \/ CountNotification(c) \/ Refuse(c) \/ Kick(c)
    BY <2>3 DEF Commit, CountNotification, Refuse, Kick, Moves, account, PeerSyncTypeOK, KicksAgree
  <2>4. CASE Waiter(c) \/ GiveUp(c)
    BY <2>4 DEF Waiter, GiveUp, AskListener, TakeTarget, CheckWatermark, ReadOutcome, Moves, account,
       PeerSyncTypeOK, KicksAgree
  <2> QED
    BY <1>2, <2>1, <2>2, <2>3, <2>4 DEF Notifier
<1>3. ASSUME NEW n, NEW how, Publish(n, how, at), UNCHANGED <<kick, lcGen>> PROVE KicksAgree'
  <2>1. \A d \in Callers : at'[d] = IF at[d] = "parked" THEN "waiting" ELSE at[d]
    BY <1>3, PublishMovesParked
  <2> QED
    BY <1>3, <2>1 DEF KicksAgree
<1>4. CASE StartWorker \/ RetireGeneration
  BY <1>1, <1>4 DEF StartWorker, RetireGeneration, callerVars, KicksAgree
<1>5. CASE UNCHANGED <<callerVars, lcGen>>
  BY <1>5 DEF callerVars, KicksAgree
<1>6. ASSUME NEW g \in Gens, Worker(g) PROVE KicksAgree'
  BY <1>3, <1>5, <1>6
     DEF Worker, Receive, ObserveStop, Begin, Cover, StartPass, FinishPass, EndPass, PublishPass,
         Rearm, account
<1> QED
  BY <1>2, <1>3, <1>4, <1>5, <1>6
     DEF PeerSyncNext, vars, account, Subscribe, Unsubscribe, FailOutstanding

\* The watermark a pass publishes settles what it covers.
LEMMA PublishSettles ==
  ASSUME PeerSyncTypeOK, NEW n \in Nat, NEW how, NEW place, Publish(n, how, place)
  PROVE  doneSeq' >= n
  BY DEF PeerSyncTypeOK, Publish

\* Receiving a token, beginning, covering and publishing hand a notification on
\* from one to the next (peer_sync.go:286-321).
LEMMA WorkersKeepNotifications ==
  ASSUME PeerSyncTypeOK, PeerSyncTypeOK', CountsAgree, NotificationKept, doneSeq <= doneSeq',
         NEW g \in Gens, Worker(g)
  PROVE  NotificationKept'
<1>1. UNCHANGED <<kick, seq, live>>
  BY DEF Worker, Receive, ObserveStop, Begin, Cover, StartPass, FinishPass, EndPass, PublishPass,
     Rearm, account, callerVars
<1> SUFFICES ASSUME NEW c \in Callers, kick[c] # 0, kick[c] = live, at'[c] # "accepted",
                    seq[c] > doneSeq'
             PROVE  WillServe(live, seq[c])'
  BY <1>1 DEF NotificationKept
<1>2. at[c] # "accepted"
  <2>1. CASE PublishPass(g)
    BY <2>1, PublishMovesParked DEF PublishPass
  <2> QED
    BY <2>1 DEF Worker, Receive, ObserveStop, Begin, Cover, StartPass, FinishPass, EndPass, Rearm,
       callerVars
<1>3. seq[c] > doneSeq /\ live \in Gens /\ live = lcGen
  BY DEF PeerSyncTypeOK
<1>4. WillServe(live, seq[c])
  BY <1>2, <1>3 DEF NotificationKept
<1> USE DEF WillServe
<1>5. CASE PublishPass(g)
  <2>1. covered[g] \in Nat /\ Publish(covered[g], result[g], at) /\ UNCHANGED <<wake, covered>>
        /\ doing' = [doing EXCEPT ![g] = "published"]
    BY <1>5 DEF PublishPass, Works, channels, PeerSyncTypeOK
  <2>2. doneSeq' >= covered[g]
    BY <2>1, PublishSettles
  <2>3. seq[c] \in Nat /\ doneSeq' \in Nat /\ seq[c] > doneSeq'
    BY DEF PeerSyncTypeOK
  <2>4. CASE g = live
    <3>1. ~(covered[live] >= seq[c])
      BY <2>1, <2>2, <2>3, <2>4
    <3>2. doing[live] = "ended"
      BY <1>5, <2>4 DEF PublishPass, Works
    <3>3. wake[live]
      BY <1>4, <3>1, <3>2
    <3> QED BY <1>1, <2>1, <3>3
  <2>5. CASE g # live
    <3>1. doing'[live] = doing[live]
      BY <1>3, <2>1, <2>5 DEF PeerSyncTypeOK
    <3> QED BY <1>1, <1>4, <2>1, <3>1
  <2> QED BY <2>4, <2>5
<1>6. CASE Receive(g)
  BY <1>1, <1>3, <1>4, <1>6 DEF Receive, Works, PeerSyncTypeOK
<1>7. CASE Begin(g)
  BY <1>1, <1>3, <1>4, <1>7 DEF Begin, Works, channels, PeerSyncTypeOK
<1>8. CASE Cover(g)
  <2>1. seq[c] <= notifySeq
    BY DEF CountsAgree
  <2> QED
    BY <1>1, <1>3, <1>4, <1>8, <2>1 DEF Cover, Works, channels, PeerSyncTypeOK
<1>9. CASE ObserveStop(g) \/ StartPass(g) \/ FinishPass(g) \/ EndPass(g)
  BY <1>1, <1>3, <1>4, <1>9 DEF ObserveStop, StartPass, FinishPass, EndPass, Works, channels,
     PeerSyncTypeOK
<1>10. CASE Rearm(g)
  BY <1>1, <1>3, <1>4, <1>10 DEF Rearm, Works, PeerSyncTypeOK
<1> QED
  BY <1>5, <1>6, <1>7, <1>8, <1>9, <1>10 DEF Worker

\* Only a worker takes a token away, and only a start changes whose kick counts.
LEMMA StepKeepsNotifications ==
  /\ PeerSyncTypeOK /\ PeerSyncTypeOK' /\ CountsAgree /\ KicksAgree /\ NotificationKept
  /\ [PeerSyncNext]_vars
  => NotificationKept'
<1> SUFFICES ASSUME PeerSyncTypeOK, PeerSyncTypeOK', CountsAgree, KicksAgree, NotificationKept,
                    [PeerSyncNext]_vars
             PROVE  NotificationKept'
  OBVIOUS
<1>1. doneSeq <= doneSeq'
  BY StepKeepsCounts
<1>2. ASSUME NEW g \in Gens, Worker(g) PROVE NotificationKept'
  BY <1>1, <1>2, WorkersKeepNotifications
<1>3. ASSUME NEW c \in Callers, Kick(c) PROVE NotificationKept'
  <2>1. /\ UNCHANGED <<kick, live, seq, doneSeq, doing, covered>>
        /\ wake' = [wake EXCEPT ![kick[c]] = TRUE]
        /\ \A d \in Callers : d # c => at'[d] = at[d]
    BY <1>3 DEF Kick, Moves, account, settled, worker, PeerSyncTypeOK
  <2>2. live # 0 => live \in Gens
    BY DEF PeerSyncTypeOK
  <2>3. \A g \in Gens : wake[g] => wake'[g]
    BY <2>1 DEF PeerSyncTypeOK
  <2>4. kick[c] \in Gens => wake'[kick[c]]
    BY <2>1 DEF PeerSyncTypeOK
  <2> QED
    BY <2>1, <2>2, <2>3, <2>4 DEF NotificationKept, WillServe
<1>4. ASSUME NEW c \in Callers, Accept(c) PROVE NotificationKept'
  <2>1. /\ UNCHANGED <<live, seq, doneSeq, wake, doing, covered>>
        /\ \A d \in Callers : d # c => at'[d] = at[d] /\ kick'[d] = kick[d]
        /\ at'[c] = "accepted"
    BY <1>4 DEF Accept, Moves, settled, worker, channels, PeerSyncTypeOK
  <2> QED
    BY <2>1 DEF NotificationKept, WillServe
<1>5. ASSUME NEW c \in Callers, CountNotification(c) PROVE NotificationKept'
  <2>1. /\ UNCHANGED <<kick, live, doneSeq, wake, doing, covered>>
        /\ kick[c] = 0
        /\ \A d \in Callers : d # c => at'[d] = at[d] /\ seq'[d] = seq[d]
    BY <1>5 DEF CountNotification, Moves, account, worker, channels, PeerSyncTypeOK, KicksAgree
  <2> QED
    BY <2>1 DEF NotificationKept, WillServe
<1>6. CASE StartWorker
  <2>1. \A c \in Callers : kick'[c] # live'
    <3>1. kick' = kick /\ live' = lcGen + 1 /\ lcGen \in Nat
      BY <1>6 DEF StartWorker, callerVars, PeerSyncTypeOK
    <3>2. \A c \in Callers : kick[c] \in Nat /\ kick[c] <= lcGen
      <4>1. \A n \in Gens \cup {0} : n \in Nat
        BY BoundsAssumption DEF Gens
      <4>2. \A c \in Callers : kick[c] \in Gens \cup {0}
        BY DEF PeerSyncTypeOK
      <4> QED BY <4>1, <4>2 DEF KicksAgree
    <3> QED BY <3>1, <3>2
  <2> QED
    BY <2>1 DEF NotificationKept
<1>7. CASE RetireGeneration
  BY <1>7 DEF RetireGeneration, NotificationKept
<1>8. ASSUME UNCHANGED <<kick, live, seq, wake, doing, covered>>,
             \A d \in Callers : at[d] = "accepted" => at'[d] = "accepted"
      PROVE  NotificationKept'
  BY <1>1, <1>8 DEF NotificationKept, WillServe, PeerSyncTypeOK
<1>9. ASSUME NEW c \in Callers, PublishRefusal(c) PROVE NotificationKept'
  <2>1. \A d \in Callers : at[d] = "accepted" => at'[d] = "accepted"
    BY <1>9 DEF PublishRefusal, Publish, PeerSyncTypeOK
  <2> QED
    BY <1>8, <1>9, <2>1 DEF PublishRefusal, account, worker, channels
<1>10. CASE FailOutstanding
  <2>1. \A d \in Callers : at[d] = "accepted" => at'[d] = "accepted"
    BY <1>10 DEF FailOutstanding, Publish, PeerSyncTypeOK
  <2> QED
    BY <1>8, <1>10, <2>1 DEF FailOutstanding, account, worker
<1>11. ASSUME NEW c \in Callers, Commit(c) \/ Refuse(c) \/ Waiter(c) \/ GiveUp(c)
       PROVE  NotificationKept'
  <2>1. \A d \in Callers : at[d] = "accepted" => at'[d] = "accepted"
    BY <1>11 DEF Commit, Refuse, Waiter, GiveUp, AskListener, TakeTarget, CheckWatermark,
       ReadOutcome, Moves, PeerSyncTypeOK
  <2> QED
    BY <1>8, <1>11, <2>1 DEF Commit, Refuse, Waiter, GiveUp, AskListener, TakeTarget, CheckWatermark,
       ReadOutcome, account, worker, channels
<1> QED
  BY <1>2, <1>3, <1>4, <1>5, <1>6, <1>7, <1>8, <1>9, <1>10, <1>11
     DEF PeerSyncNext, vars, Notifier, Subscribe, Unsubscribe, account, callerVars, worker, channels

\* Coalescing and the kicks outside the lock lose no notification
\* (peer_sync.go:249-257, 311-321, 446-448).
THEOREM NotificationsAreKept == PeerSyncSpec => []NotificationKept
<1>1. PeerSyncInit => CountsAgree /\ KicksAgree /\ NotificationKept
  <2> SUFFICES ASSUME PeerSyncInit PROVE CountsAgree /\ KicksAgree /\ NotificationKept
    OBVIOUS
  <2>1. CountsAgree
    BY DEF PeerSyncInit, CountsAgree
  <2>2. KicksAgree
    BY DEF PeerSyncInit, KicksAgree
  <2>3. NotificationKept
    BY DEF PeerSyncInit, NotificationKept
  <2> QED BY <2>1, <2>2, <2>3
<1> QED
  BY <1>1, PeerSyncTypes, StepKeepsCounts, StepKeepsKicks, StepKeepsNotifications, PTL
     DEF PeerSyncSpec
=============================================================================
