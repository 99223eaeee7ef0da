------------------------------ MODULE PeerSync ------------------------------
(***************************************************************************)
(* The notification half of the peer synchroniser (vpn/peer_sync.go): a    *)
(* durable access change is committed, the database notifies its listener, *)
(* one worker brings the ingress device and the resolver up to the durable *)
(* state, and the caller that committed waits for the outcome.             *)
(*                                                                         *)
(*   caller   commit and read the listener, count the notification, have it*)
(*            accepted or refused, wake the worker (or publish the         *)
(*            refusal), read the listener again, wait for the watermark,   *)
(*            read the outcome: each is a step of its own;                 *)
(*   worker   one per generation: take the token, begin under lcMu, read   *)
(*            the watermark, reconcile under s.mu, end, publish, re-arm;   *)
(*   engine   starts the worker, installs the listener, removes it,        *)
(*            retires the generation and fails what no pass will cover.    *)
(*            It does not wait for ever for a worker that is stuck in a    *)
(*            pass, so two generations may run at a time.                  *)
(*                                                                         *)
(* A pass is seen from outside: it reads a version of the durable state    *)
(* and enforces it or fails.  Left out: the passes the engine runs without *)
(* a notification, which only enforce more.  Bounds: each caller commits   *)
(* once, and at most MaxGens generations are numbered.                     *)
(***************************************************************************)
EXTENDS Integers, FiniteSets

CONSTANTS MaxCommits, \* bound on the callers, each of which commits one change
          MaxGens     \* bound on the generations of the worker

ASSUME BoundsAssumption == MaxCommits \in Nat /\ MaxGens \in Nat

VARIABLES
    committed,  \* version of the durable state
    enforced,   \* version the last successful pass has enforced
    installed,  \* is the synchroniser the database's listener?
    stage,      \* how far the engine is with starting and stopping
    live,       \* generation whose kick is installed (lcState), 0 if none
    lcGen,      \* current generation
    pending,    \* queued notifications
    runOwner,   \* generation inside a pass, 0 if none
    notifySeq,  \* notifications counted
    doneSeq,    \* notifications settled
    outcome,    \* convergeErr: outcome published with doneSeq
    at,         \* where each caller is
    seq,        \* number of its notification, 0 if nobody was notified
    kick,       \* generation whose kick it has captured
    target,     \* watermark it waits for
    answer,     \* what it was told
    wake,       \* token in each generation's wake channel
    stopped,    \* generations whose stop channel is closed
    doing,      \* where each generation's worker is
    covered,    \* watermark its pass covers
    seen,       \* version its pass has read
    result      \* how its pass has ended

durable == <<committed, enforced>>
engine == <<installed, stage>>
account == <<live, lcGen, pending, runOwner>>
settled == <<notifySeq, doneSeq, outcome>>
callerVars == <<at, seq, kick, target, answer>>
worker == <<doing, covered, seen, result>>
channels == <<wake, stopped>>
vars == <<durable, engine, account, settled, callerVars, worker, channels>>

Callers == 1..MaxCommits
Gens == 1..MaxGens

\* The passes of all generations exclude each other (s.mu).
Unlocked == \A g \in Gens : doing[g] # "passing"

\* Between beginNotifyPass and endNotifyPass.
InPass(g) == doing[g] \in {"begun", "covered", "passing", "passed"}

PeerSyncInit ==
    /\ committed = 0 /\ enforced = 0
    /\ installed = FALSE /\ stage = "off"
    /\ live = 0 /\ lcGen = 0 /\ pending = 0 /\ runOwner = 0
    /\ notifySeq = 0 /\ doneSeq = 0 /\ outcome = "ok"
    /\ at = [c \in Callers |-> "idle"]
    /\ seq = [c \in Callers |-> 0]
    /\ kick = [c \in Callers |-> 0]
    /\ target = [c \in Callers |-> 0]
    /\ answer = [c \in Callers |-> "none"]
    /\ wake = [g \in Gens |-> FALSE]
    /\ stopped = {}
    /\ doing = [g \in Gens |-> "off"]
    /\ covered = [g \in Gens |-> 0]
    /\ seen = [g \in Gens |-> 0]
    /\ result = [g \in Gens |-> "failed"]

\* Watermark and outcome move together, and only forward; whoever
\* is parked looks again.
Publish(upTo, how, place) ==
    /\ doneSeq' = IF upTo > doneSeq THEN upTo ELSE doneSeq
    /\ outcome' = IF upTo > doneSeq THEN how ELSE outcome
    /\ at' = [c \in Callers |-> IF place[c] = "parked" THEN "waiting" ELSE place[c]]
    /\ UNCHANGED notifySeq

-----------------------------------------------------------------------------
(* Callers                                                                  *)

Moves(c, from, to) == at[c] = from /\ at' = [at EXCEPT ![c] = to]

\* Commits are serialised; a caller is numbered by the version it makes.  It
\* reads the listener next, under the lock of its slot, and calls it after.
Commit(c) ==
    /\ c = committed + 1
    /\ Moves(c, "idle", IF installed THEN "captured" ELSE "notified")
    /\ committed' = c
    /\ UNCHANGED <<enforced, engine, account, settled, seq, kick, target, answer, worker, channels>>

CountNotification(c) ==
    /\ Moves(c, "captured", "counted")
    /\ notifySeq' = notifySeq + 1
    /\ seq' = [seq EXCEPT ![c] = notifySeq + 1]
    /\ UNCHANGED <<durable, engine, account, doneSeq, outcome, kick, target, answer, worker, channels>>

Accept(c) ==
    /\ live # 0
    /\ Moves(c, "counted", "accepted")
    /\ pending' = pending + 1
    /\ kick' = [kick EXCEPT ![c] = live]
    /\ UNCHANGED <<durable, engine, live, lcGen, runOwner, settled, seq, target, answer, worker, channels>>

Refuse(c) ==
    /\ live = 0
    /\ Moves(c, "counted", "refused")
    /\ UNCHANGED <<durable, engine, account, settled, seq, kick, target, answer, worker, channels>>

\* Wrong: a channel without room for a token.
KickWrong(c) ==
    /\ Moves(c, "accepted", "notified")
    /\ wake' = [wake EXCEPT ![kick[c]] = @ \/ doing[kick[c]] = "idle"]
    /\ UNCHANGED <<durable, engine, account, settled, seq, kick, target, answer, worker, stopped>>

\* Outside the lock: the generation may be retired, or may have served the
\* notification already.
Kick(c) ==
    /\ Moves(c, "accepted", "notified")
    /\ wake' = [wake EXCEPT ![kick[c]] = TRUE]
    /\ UNCHANGED <<durable, engine, account, settled, seq, kick, target, answer, worker, stopped>>

PublishRefusal(c) ==
    /\ at[c] = "refused"
    /\ Publish(seq[c], "failed", [at EXCEPT ![c] = "notified"])
    /\ UNCHANGED <<durable, engine, account, seq, kick, target, answer, worker, channels>>

Answer(c, how) == answer' = [answer EXCEPT ![c] = how]

\* Without a listener there is nothing to wait for.
AskListener(c) ==
    /\ Moves(c, "notified", IF installed THEN "asking" ELSE "answered")
    /\ Answer(c, IF installed THEN "none" ELSE "unlistened")
    /\ UNCHANGED <<durable, engine, account, settled, seq, kick, target, worker, channels>>

TakeTarget(c) ==
    /\ Moves(c, "asking", "waiting")
    /\ target' = [target EXCEPT ![c] = notifySeq]
    /\ UNCHANGED <<durable, engine, account, settled, seq, kick, answer, worker, channels>>

\* The watermark and the channel to park on are read in one section.
CheckWatermark(c) ==
    /\ Moves(c, "waiting", IF doneSeq >= target[c] THEN "done" ELSE "parked")
    /\ UNCHANGED <<durable, engine, account, settled, seq, kick, target, answer, worker, channels>>

\* The outcome is read in another one: it may be that of a later pass.
ReadOutcome(c) ==
    /\ Moves(c, "done", "answered")
    /\ Answer(c, outcome)
    /\ target' = [target EXCEPT ![c] = 0]
    /\ UNCHANGED <<durable, engine, account, settled, seq, kick, worker, channels>>

\* The timer or the request's context.
GiveUp(c) ==
    /\ Moves(c, "parked", "answered")
    /\ Answer(c, "failed")
    /\ target' = [target EXCEPT ![c] = 0]
    /\ UNCHANGED <<durable, engine, account, settled, seq, kick, worker, channels>>

Waiter(c) == AskListener(c) \/ TakeTarget(c) \/ CheckWatermark(c) \/ ReadOutcome(c)
Notifier(c) == CountNotification(c) \/ Accept(c) \/ Refuse(c) \/ Kick(c)
               \/ PublishRefusal(c)

-----------------------------------------------------------------------------
(* The worker of a generation                                               *)

Works(g, from, to) == doing[g] = from /\ doing' = [doing EXCEPT ![g] = to]

Receive(g) ==
    /\ wake[g]
    /\ Works(g, "idle", "woken")
    /\ wake' = [wake EXCEPT ![g] = FALSE]
    /\ UNCHANGED <<durable, engine, account, settled, callerVars, covered, seen, result, stopped>>

ObserveStop(g) ==
    /\ g \in stopped
    /\ Works(g, "idle", "gone")
    /\ UNCHANGED <<durable, engine, account, settled, callerVars, covered, seen, result, channels>>

\* A retired generation neither runs nor gives its token back.
Begin(g) ==
    /\ Works(g, "woken", IF g = lcGen THEN "begun" ELSE "gone")
    /\ runOwner' = IF g = lcGen THEN g ELSE runOwner
    /\ pending' = IF g = lcGen THEN pending - 1 ELSE pending
    /\ UNCHANGED <<durable, engine, live, lcGen, settled, callerVars, covered, seen, result, channels>>

Cover(g) ==
    /\ Works(g, "begun", "covered")
    /\ covered' = [covered EXCEPT ![g] = notifySeq]
    /\ UNCHANGED <<durable, engine, account, settled, callerVars, seen, result, channels>>

StartPass(g) ==
    /\ Unlocked
    /\ Works(g, "covered", "passing")
    /\ seen' = [seen EXCEPT ![g] = committed]
    /\ UNCHANGED <<durable, engine, account, settled, callerVars, covered, result, channels>>

\* Wrong: the watermark is read after the pass.
FinishPassWrong(g) ==
    /\ Works(g, "passing", "passed")
    /\ covered' = [covered EXCEPT ![g] = notifySeq]
    /\ result' = [result EXCEPT ![g] = "ok"]
    /\ enforced' = seen[g]
    /\ UNCHANGED <<committed, engine, account, settled, callerVars, seen, channels>>

FinishPass(g) ==
    /\ Works(g, "passing", "passed")
    /\ \/ /\ result' = [result EXCEPT ![g] = "ok"]
          /\ enforced' = seen[g]
       \/ /\ result' = [result EXCEPT ![g] = "failed"]
          /\ UNCHANGED enforced
    /\ UNCHANGED <<committed, engine, account, settled, callerVars, covered, seen, channels>>

\* A newer generation's marker is left alone.
EndPass(g) ==
    /\ Works(g, "passed", "ended")
    /\ runOwner' = IF runOwner = g THEN 0 ELSE runOwner
    /\ UNCHANGED <<durable, engine, live, lcGen, pending, settled, callerVars, covered, seen, result, channels>>

PublishPass(g) ==
    /\ Works(g, "ended", "published")
    /\ Publish(covered[g], result[g], at)
    /\ UNCHANGED <<durable, engine, account, seq, kick, target, answer, covered, seen, result, channels>>

\* The variables of the pass are gone; the token is sent if more has queued.
Rearm(g) ==
    /\ Works(g, "published", "idle")
    /\ wake' = [wake EXCEPT ![g] = @ \/ pending > 0]
    /\ covered' = [covered EXCEPT ![g] = 0]
    /\ seen' = [seen EXCEPT ![g] = 0]
    /\ result' = [result EXCEPT ![g] = "failed"]
    /\ UNCHANGED <<durable, engine, account, settled, callerVars, stopped>>

Worker(g) == \/ Receive(g) \/ ObserveStop(g) \/ Begin(g) \/ Cover(g) \/ StartPass(g)
             \/ FinishPass(g) \/ EndPass(g) \/ PublishPass(g) \/ Rearm(g)

-----------------------------------------------------------------------------
(* The engine                                                               *)

Proceeds(from, to) == stage \in from /\ stage' = to

StartWorker ==
    /\ live = 0 /\ lcGen < MaxGens
    /\ Proceeds({"off"}, "started")
    /\ lcGen' = lcGen + 1
    /\ live' = lcGen + 1
    /\ doing' = [doing EXCEPT ![lcGen + 1] = "idle"]
    /\ UNCHANGED <<durable, installed, pending, runOwner, settled, callerVars, covered, seen, result, channels>>

Subscribe ==
    /\ Proceeds({"started"}, "attached")
    /\ installed' = TRUE
    /\ UNCHANGED <<durable, account, settled, callerVars, worker, channels>>

Unsubscribe ==
    /\ Proceeds({"attached"}, "detached")
    /\ installed' = FALSE
    /\ UNCHANGED <<durable, account, settled, callerVars, worker, channels>>

\* One critical section; an engine that could not subscribe stops here too.
RetireGeneration ==
    /\ Proceeds({"started", "detached"}, "retired")
    /\ live' = 0 /\ lcGen' = lcGen + 1 /\ pending' = 0
    /\ UNCHANGED <<durable, installed, runOwner, settled, callerVars, worker, channels>>

\* Wrong: nobody is woken.
FailOutstandingWrong ==
    /\ Proceeds({"retired"}, "off")
    /\ stopped' = stopped \cup {lcGen - 1}
    /\ doneSeq' = notifySeq
    /\ outcome' = IF notifySeq > doneSeq THEN "failed" ELSE outcome
    /\ UNCHANGED <<durable, installed, account, notifySeq, callerVars, worker, wake>>

\* The stop channel is closed, then what no pass will cover is failed; the
\* worker a closed channel releases touches nothing the failing reads.  The
\* drain that follows is bounded and changes nothing.
FailOutstanding ==
    /\ Proceeds({"retired"}, "off")
    /\ stopped' = stopped \cup {lcGen - 1}
    /\ Publish(notifySeq, "failed", at)
    /\ UNCHANGED <<durable, installed, account, seq, kick, target, answer, worker, wake>>

-----------------------------------------------------------------------------
PeerSyncNext ==
    \/ \E c \in Callers : Commit(c) \/ Notifier(c) \/ Waiter(c) \/ GiveUp(c)
    \/ \E g \in Gens : Worker(g)
    \/ StartWorker \/ Subscribe \/ Unsubscribe
    \/ RetireGeneration \/ FailOutstanding

PeerSyncSpec == PeerSyncInit /\ [][PeerSyncNext]_vars

\* Goroutines run when they can; the calls of a pass into the device return.
\* Nothing is assumed of the engine's decisions to start and to stop, nor of
\* the timer of a waiter.
PeerSyncFairSpec ==
    /\ PeerSyncSpec
    /\ \A c \in Callers : WF_vars(Notifier(c) \/ Waiter(c))
    /\ \A g \in Gens : WF_vars(Worker(g))
    /\ WF_vars(FailOutstanding)

-----------------------------------------------------------------------------
\* Types of the variables.
PeerSyncTypeOK ==
    /\ committed \in Nat /\ enforced \in Nat
    /\ installed \in BOOLEAN
    /\ stage \in {"off", "started", "attached", "detached", "retired"}
    /\ lcGen \in Nat /\ live \in Gens \cup {0} /\ runOwner \in Gens \cup {0}
    /\ live # 0 => live = lcGen
    /\ pending \in Int
    /\ notifySeq \in Nat /\ doneSeq \in Nat /\ outcome \in {"ok", "failed"}
    /\ at \in [Callers -> {"idle", "captured", "counted", "accepted", "refused",
                           "notified", "asking", "waiting", "parked", "done", "answered"}]
    /\ seq \in [Callers -> Nat] /\ target \in [Callers -> Nat]
    /\ kick \in [Callers -> Gens \cup {0}]
    /\ answer \in [Callers -> {"none", "ok", "failed", "unlistened"}]
    /\ wake \in [Gens -> BOOLEAN] /\ stopped \subseteq Gens
    /\ doing \in [Gens -> {"off", "idle", "woken", "begun", "covered", "passing", "passed",
                           "ended", "published", "gone"}]
    /\ covered \in [Gens -> Nat] /\ seen \in [Gens -> Nat]
    /\ result \in [Gens -> {"ok", "failed"}]

\* A caller whose notification was counted is told of success only when a
\* successful pass has read the state it committed, whatever passes, refusals
\* and stops publish in between (peer_sync.go:463-471, 625-683).
ConfirmedMeansEnforced ==
    \A c \in Callers : answer[c] = "ok" /\ seq[c] > 0 => enforced >= c

WillServe(g, n) ==
    \/ wake[g]
    \/ doing[g] \in {"woken", "begun"}
    \/ doing[g] \in {"covered", "passing", "passed", "ended"} /\ covered[g] >= n

\* A notification that was accepted and kicked is settled, or the worker of its
\* generation is about to settle it: coalescing loses none, however the kicks
\* outside the lock race the passes (peer_sync.go:249-257, 311-321).
NotificationKept ==
    \A c \in Callers :
        /\ kick[c] # 0 /\ kick[c] = live
        /\ at[c] # "accepted"
        /\ seq[c] > doneSeq
        => WillServe(live, seq[c])

\* Nothing stays queued once a generation is retired: neither a late acceptance
\* nor a late worker touches the count that was settled (issue 729,
\* peer_sync.go:333-346, 358-368).
RetiredCountSettled == live = 0 => pending = 0

\* The marker names the live generation exactly while that one is in a pass,
\* though a retired one may end its own pass at any time (peer_sync.go:376-384).
MarkerExact == live # 0 => (runOwner = live <=> InPass(live))

\* A waiter is released without its timer, by a pass, a refusal or a stop
\* (peer_sync.go:463-471, 510-529).  Each caller commits once, so that every
\* wait ends is that in the end no caller is on its way.
WaitersReleased == <>[](\A c \in Callers : at[c] \in {"idle", "answered"})
=============================================================================
