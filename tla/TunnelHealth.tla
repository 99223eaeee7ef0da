---------------------------- MODULE TunnelHealth ----------------------------
(***************************************************************************)
(* The health of one backend tunnel (internal/vpn/tunnel, internal/vpn).   *)
(* The probing loop and the reconnect manager probe a tunnel that is in    *)
(* service, as does, less often, the scheduler of internal/service; the    *)
(* self-healing sweep probes one that was disabled for its health; and an  *)
(* administrator disables, enables and moves it, all at once.  A probe     *)
(* reads the pool, spends seconds on the network, may attach the           *)
(* data-plane device and send a canary through it, and only then writes    *)
(* the status it concludes; every write in between advances StateVersion.  *)
(*                                                                         *)
(* A version is only ever compared with the pool's, so a process knows     *)
(* whether what it read is still `current`; advancing the version outdates *)
(* everybody else.  A canary's sequence number is only compared with the   *)
(* last accepted one: `ahead` holds, for each canary under way, those that *)
(* began before it, `late` those that an accepted one overtook.            *)
(*                                                                         *)
(* A step is one lock acquisition of the pool, the prober or the service,  *)
(* or a group of them in which nothing that falls in between can matter:   *)
(* DisableBackend and the end of EnableBackend hold Service.mu, and every  *)
(* write a probe could make inside them is refused by its version.         *)
(*                                                                         *)
(* Abstracted: the tunnel keeps its id (one that is deleted and created    *)
(* again refuses what an old probe writes, as a newer version does);       *)
(* latency (within the threshold or not); the backoff of the reconnect     *)
(* manager (it may wait any time); ActiveConnections (a probe may or may   *)
(* not have read sessions); autoDisabled, which only repeats the reason of *)
(* the row to diagnostics.  What the data plane does about a disable is    *)
(* HealthFailover.                                                         *)
(*                                                                         *)
(* `halfEnabled`, `streak`, `proofs` and `leftover` are history: the        *)
(* program does not keep them.                                             *)
(***************************************************************************)
EXTENDS Integers, FiniteSets

CONSTANTS Loop, Reconnect, Healer,   \* the processes that probe
          FailureThreshold, SelfHealingThreshold,
          MaxChanges,                \* bound: administrative changes, scheduled checks
          MaxFaults,                 \* bound: probes, canaries and steps that fail
          Ops, Faults,               \* what the environment does, and what fails
          Elsewhere                  \* where a process may be outside this module

AllOps == {"check", "disable", "enable", "move", "refresh", "restart"}
AllFaults == {"probe", "slow", "canary", "attach", "register", "write", "persist"}

Probers == {Loop, Reconnect}
Procs == Probers \cup {Healer}

ASSUME HealthAssumption ==
    /\ Healer \notin Probers
    /\ FailureThreshold \in Nat \ {0} /\ SelfHealingThreshold \in Nat \ {0}
    /\ MaxChanges \in Nat /\ MaxFaults \in Nat
    /\ Ops \subseteq AllOps /\ Faults \subseteq AllFaults

VARIABLES
    enabled, status, reason,       \* the row: administrative intent, health, provenance
    attached,                      \* Service.backendDevices holds an open device
    failCount, canaryFail, success,\* HealthProber's consecutive counters
    ahead, late, latest,           \* canaries before each one, overtaken, and accepted last
    work,                          \* where each process stands, and what it read
    admin,                         \* the enable or the move under way
    changes, faults,               \* changes and checks, failed steps so far
    halfEnabled, streak, proofs, leftover  \* history, see the properties

row == <<enabled, status, reason>>
counters == <<failCount, canaryFail, success>>
canaries == <<ahead, late, latest>>
operator == <<admin, changes, halfEnabled>>
damping == <<proofs, leftover>>
history == <<streak, damping>>
vars == <<row, attached, counters, canaries, work, operator, faults, history>>

-----------------------------------------------------------------------------
Statuses == {"connecting", "active", "degraded", "handshake_blocked", "disabled"}
Reasons == {"none", "health", "admin"}
Nobody == "nobody"

Rest == [pc |-> "idle", current |-> FALSE, seen |-> "none", blocked |-> FALSE, slow |-> FALSE]

At(p, where) == work[p].pc = where
Current(p) == work[p].current
To(p, where) == [work[p] EXCEPT !.pc = where]

\* A step of p that leaves the version alone ...
Moves(p, w) == work' = [work EXCEPT ![p] = w]
Leaves(p) == Moves(p, Rest)

\* ... and one that advances it: only what p has just written stays current.
Outdated(w) == [w EXCEPT !.current = FALSE]
Rewrites(p, w) == work' = [q \in Procs |-> IF q = p THEN w ELSE Outdated(work[q])]

Begins(op) == op \in Ops /\ changes < MaxChanges /\ changes' = changes + 1

MayFail(step) == step \in Faults /\ faults < MaxFaults
Fails(step) == MayFail(step) /\ faults' = faults + 1

AvailableWrong == enabled /\ status \notin {"disabled", "handshake_blocked"}

\* checkTunnelAvailable, but for the version.
Available == enabled /\ status # "disabled"

Lower(n) == IF n > 0 THEN n - 1 ELSE n

\* An enable that is under way finds the identity or the epoch changed.
Fenced(w) == IF w.pc = "hooking" THEN [w EXCEPT !.pc = "fenced"] ELSE w
EnableFenced == IF admin = "enabling" THEN "fenced" ELSE admin

ResetFailCount ==
    /\ failCount' = 0
    /\ canaryFail' = 0 /\ late' = {} /\ latest' = Nobody
    /\ success' = 0
    /\ UNCHANGED ahead

\* After Service.Start, or a row that was disabled by hand and reads as it did.
HealthInit ==
    /\ \/ enabled = TRUE /\ status = "connecting" /\ reason = "none"
       \/ enabled = FALSE /\ status \in Statuses /\ reason = "admin"
       \/ enabled = FALSE /\ status \in {"disabled", "degraded"} /\ reason = "health"
    /\ attached = FALSE
    /\ failCount = 0 /\ canaryFail = 0 /\ success = 0
    /\ ahead = [p \in Procs |-> {}] /\ late = {} /\ latest = Nobody
    /\ work = [p \in Procs |-> Rest]
    /\ admin = "idle" /\ changes = 0 /\ faults = 0
    /\ halfEnabled = FALSE /\ streak = 0 /\ proofs = 0 /\ leftover = FALSE

-----------------------------------------------------------------------------
(* ProbeTunnel, up to its outcome.                                          *)

RowOnly == UNCHANGED <<attached, canaries, operator>>
WorkOnly == UNCHANGED <<row, attached, operator>>

\* ProbeAll and CheckAndReconnect list what is in service; the latter leaves
\* active tunnels alone.
List(p) ==
    /\ At(p, "idle")
    /\ Available
    /\ p = Reconnect => status # "active"
    /\ Moves(p, [Rest EXCEPT !.pc = "listed", !.blocked = (status = "handshake_blocked")])
    /\ WorkOnly /\ UNCHANGED <<counters, canaries, faults, history>>

\* getInitialSnapshot.
Snapshot(p) ==
    /\ At(p, "listed")
    /\ Moves(p, IF Available
                THEN [To(p, "probing") EXCEPT !.current = TRUE, !.seen = status,
                         !.blocked = work[p].blocked \/ status = "handshake_blocked"]
                ELSE Rest)
    /\ WorkOnly /\ UNCHANGED <<counters, canaries, faults, history>>

\* A stale probe gives up at the next check, whatever it found out.
Superseded(p) ==
    /\ work[p].pc \in {"probing", "hook", "promote", "settle", "commit"}
    /\ ~Current(p)
    /\ Leaves(p)
    /\ WorkOnly /\ UNCHANGED <<counters, canaries, faults, history>>

ProbeFails(p) ==
    /\ At(p, "probing") /\ Current(p)
    /\ Fails("probe")
    /\ Moves(p, To(p, "failed"))
    /\ WorkOnly /\ UNCHANGED <<counters, canaries, history>>

Observing == {"confirming", "verifying", "healing", "overtaken"}

\* hasCanaryProber: a device to send a canary through, after those under way.
BeginCanary(p, w) ==
    /\ Moves(p, w)
    /\ ahead' = [ahead EXCEPT ![p] = {q \in Procs : work[q].pc \in Observing}]
    /\ UNCHANGED <<late, latest>>

\* A probe within the latency threshold makes sure of the device first; a slow
\* one proves the inner plane only of a blocked tunnel.
ProbeSucceeds(p) ==
    /\ At(p, "probing") /\ Current(p)
    /\ Moves(p, To(p, "hook"))
    /\ WorkOnly /\ UNCHANGED <<counters, canaries, faults, history>>

ProbeIsSlow(p) ==
    /\ At(p, "probing") /\ Current(p)
    /\ Fails("slow")
    /\ LET w == [work[p] EXCEPT !.slow = TRUE]
       IN  \/ /\ ~w.blocked
              /\ Moves(p, [w EXCEPT !.pc = "promote"])
              /\ UNCHANGED canaries
           \/ /\ w.blocked /\ ~attached
              /\ Leaves(p)
              /\ UNCHANGED canaries
           \/ /\ w.blocked /\ attached
              /\ BeginCanary(p, [w EXCEPT !.pc = "verifying"])
    /\ WorkOnly /\ UNCHANGED <<counters, history>>

-----------------------------------------------------------------------------
(* A probe that failed: handleProbeFailure and confirmOuterFailure.         *)

\* Below the thresholds, a tunnel with sessions is blocked and one without
\* degraded; one read as degraded already is left alone.
Downgrade(p) ==
    \/ Moves(p, To(p, "block"))
    \/ Moves(p, IF work[p].seen = "degraded" THEN Rest ELSE To(p, "degrade"))

CountFailureWrong(p) ==
    /\ At(p, "failed") /\ enabled
    /\ failCount' = failCount + 1
    /\ streak' = IF Current(p) THEN streak + 1 ELSE streak
    /\ IF attached THEN BeginCanary(p, To(p, "confirming"))
       ELSE /\ IF failCount' >= FailureThreshold THEN Moves(p, To(p, "disable")) ELSE Downgrade(p)
            /\ UNCHANGED canaries
    /\ WorkOnly /\ UNCHANGED <<canaryFail, success, faults, damping>>

CountFailure(p) ==
    /\ At(p, "failed") /\ enabled /\ Current(p)
    /\ failCount' = failCount + 1
    /\ streak' = streak + 1
    /\ IF attached THEN BeginCanary(p, To(p, "confirming"))
       ELSE /\ IF failCount' >= FailureThreshold THEN Moves(p, To(p, "disable")) ELSE Downgrade(p)
            /\ UNCHANGED canaries
    /\ WorkOnly /\ UNCHANGED <<canaryFail, success, faults, damping>>

\* The failure of a tunnel that was disabled meanwhile, or that changed.
DropFailure(p) ==
    /\ At(p, "failed") /\ ~Current(p)
    /\ failCount' = IF enabled THEN failCount ELSE 0
    /\ Leaves(p)
    /\ WorkOnly /\ UNCHANGED <<canaryFail, success, canaries, faults, history>>

-----------------------------------------------------------------------------
(* A probe that succeeded: executeActiveHook and verifyActiveEligibility.   *)

\* ensureBackendDeviceAttached, under Service.mu.
Hook(p) ==
    /\ At(p, "hook") /\ Current(p)
    /\ attached' = TRUE
    /\ BeginCanary(p, To(p, "verifying"))
    /\ UNCHANGED <<row, counters, operator, faults, history>>

\* handleHookFailure: a failure like any other, which may disable the tunnel.
HookFails(p) ==
    /\ At(p, "hook") /\ Current(p)
    /\ ~attached
    /\ Fails("attach")
    /\ failCount' = failCount + 1
    /\ streak' = streak + 1
    /\ Moves(p, To(p, IF failCount' >= FailureThreshold THEN "disable" ELSE "redegrade"))
    /\ WorkOnly /\ UNCHANGED <<canaryFail, success, canaries, damping>>

\* ... unless the tunnel was disabled meanwhile.
HookRefused(p) ==
    /\ At(p, "hook") /\ ~Current(p)
    /\ ~Available
    /\ IF enabled THEN Fails("attach") ELSE UNCHANGED faults
    /\ failCount' = 0
    /\ Leaves(p)
    /\ WorkOnly /\ UNCHANGED <<canaryFail, success, canaries, history>>

-----------------------------------------------------------------------------
(* probeCanary, for all three processes.                                    *)

Concluded(where) ==
    CASE where = "confirming" -> "confirmed"
      [] where = "verifying"  -> "verified"
      [] where = "healing"    -> "healed"
      [] where = "overtaken"  -> "missed"

EndCanary(p) == ahead' = [q \in Procs |-> IF q = p THEN {} ELSE ahead[q] \ {p}]

\* acceptCanaryObservation: of the version as it is, and not overtaken.
Acceptable(p) == Current(p) /\ p \notin late

ObserveReply(p) ==
    /\ work[p].pc \in Observing
    /\ Acceptable(p)
    /\ canaryFail' = 0
    /\ latest' = p
    /\ late' = late \cup ahead[p]
    /\ EndCanary(p)
    /\ Moves(p, To(p, Concluded(work[p].pc)))
    /\ WorkOnly /\ UNCHANGED <<failCount, success, faults, history>>

ObserveLoss(p) ==
    /\ work[p].pc \in Observing
    /\ Acceptable(p)
    /\ Fails("canary")
    /\ canaryFail' = canaryFail + 1
    /\ streak' = streak + 1
    /\ latest' = Nobody
    /\ late' = late \cup ahead[p]
    /\ EndCanary(p)
    /\ Moves(p, IF p = Healer THEN Rest ELSE To(p, "lost"))
    /\ WorkOnly /\ UNCHANGED <<failCount, success, damping>>

ObserveNothing(p) ==
    /\ work[p].pc \in Observing
    /\ ~Acceptable(p)
    /\ late' = late \ {p}
    /\ EndCanary(p)
    /\ Leaves(p)
    /\ WorkOnly /\ UNCHANGED <<counters, latest, faults, history>>

\* canaryObservationCurrent: a reply that a later observation has overtaken
\* while the callback ran is no longer a proof.
UseReply(p) ==
    /\ work[p].pc \in {"confirmed", "verified", "healed", "missed"}
    /\ Moves(p, IF Current(p) /\ latest = p /\ ~At(p, "missed")
                THEN To(p, CASE At(p, "confirmed") -> "block"
                               [] At(p, "verified")  -> "promote"
                               [] At(p, "healed")    -> "revive")
                ELSE Rest)
    /\ latest' = IF latest = p THEN Nobody ELSE latest
    /\ WorkOnly /\ UNCHANGED <<counters, ahead, late, faults, history>>

\* GetCanaryFailCount, read after the loss was counted.
UseLoss(p) ==
    /\ At(p, "lost")
    /\ IF canaryFail >= FailureThreshold THEN Moves(p, To(p, "disable")) ELSE Downgrade(p)
    /\ WorkOnly /\ UNCHANGED <<counters, canaries, faults, history>>

-----------------------------------------------------------------------------
(* What a probe writes, if what it read is still current.                   *)

\* CompareAndSwapTunnelStatusForTunnel.
Writes(p, st, rs, where) ==
    /\ Current(p)
    /\ status' = st /\ reason' = rs
    /\ UNCHANGED enabled
    /\ Rewrites(p, IF where = "idle" THEN Rest ELSE To(p, where))

NotWritten(p) ==
    /\ work[p].pc \in {"disable", "again", "block", "degrade", "redegrade", "promote", "revive"}
    /\ Current(p)
    /\ Fails("write")
    /\ Leaves(p)
    /\ WorkOnly /\ UNCHANGED <<counters, canaries, history>>

\* The disable does not clear what the healer has counted: its commit does.
Undamped == proofs' = 0 /\ leftover' = (success > 0)

\* transitionToThresholdDisabled: a miss is reconciled with what it finds.
Disable(p) ==
    /\ At(p, "disable")
    /\ \/ Writes(p, "disabled", "health", "commit") /\ Undamped
       \/ ~Current(p) /\ Moves(p, To(p, "reconcile")) /\ UNCHANGED <<row, damping>>
    /\ RowOnly /\ UNCHANGED <<counters, faults, streak>>

\* commitThresholdDisable: reported to the data plane if nothing came after.
CommitDisable(p) ==
    /\ At(p, "commit") /\ Current(p)
    /\ success' = 0
    /\ IF work[Healer].pc \in {"idle", "target"} THEN proofs' = 0 /\ leftover' = FALSE
       ELSE UNCHANGED damping
    /\ Moves(p, To(p, "notify"))
    /\ WorkOnly /\ UNCHANGED <<failCount, canaryFail, canaries, faults, streak>>

\* notifyHealthDisabled; see HealthFailover for what it leads to.
Notify(p) ==
    /\ At(p, "notify")
    /\ Leaves(p)
    /\ WorkOnly /\ UNCHANGED <<counters, canaries, faults, history>>

\* reconcileThresholdAutoDisable: try again at the version it finds, if that is
\* still in service and the failures still amount to the threshold.
Reconcile(p) ==
    /\ At(p, "reconcile")
    /\ \/ /\ ~enabled
          /\ failCount' = 0
          /\ Leaves(p) /\ UNCHANGED success
       \/ /\ enabled /\ status = "handshake_blocked"
          /\ Leaves(p) /\ UNCHANGED <<failCount, success>>
       \/ /\ enabled /\ status = "disabled" /\ reason = "health"
          /\ success' = 0
          /\ Leaves(p) /\ UNCHANGED failCount
       \/ /\ enabled /\ status # "handshake_blocked"
          /\ ~(status = "disabled" /\ reason = "health")
          /\ \/ /\ failCount >= FailureThreshold
                /\ Moves(p, [To(p, "again") EXCEPT !.current = TRUE])
                /\ UNCHANGED failCount
             \/ /\ failCount < FailureThreshold
                /\ failCount' = Lower(failCount)
                /\ Leaves(p)
          /\ UNCHANGED success
    /\ WorkOnly /\ UNCHANGED <<canaryFail, canaries, faults, history>>

DisableAgain(p) ==
    /\ At(p, "again")
    /\ Writes(p, "disabled", "health", "commit")
    /\ Undamped
    /\ RowOnly /\ UNCHANGED <<counters, faults, streak>>

MissAgain(p) ==
    /\ At(p, "again") /\ ~Current(p)
    /\ LET settled == enabled /\ status = "disabled" /\ reason = "health"
       IN  /\ success' = IF settled THEN 0 ELSE success
           /\ failCount' = IF ~enabled THEN 0 ELSE IF settled THEN failCount ELSE Lower(failCount)
    /\ Leaves(p)
    /\ WorkOnly /\ UNCHANGED <<canaryFail, canaries, faults, history>>

\* transitionToHandshakeBlocked: out of admission, its sessions stay.
Block(p) ==
    /\ At(p, "block")
    /\ \/ Writes(p, "handshake_blocked", "none", "idle") /\ success' = 0
       \/ ~Current(p) /\ Leaves(p) /\ UNCHANGED <<row, success>>
    /\ RowOnly /\ UNCHANGED <<failCount, canaryFail, faults, history>>

\* transitionToDegraded, and its copy in handleHookFailure.
Degrade(p) ==
    /\ work[p].pc \in {"degrade", "redegrade"}
    /\ \/ /\ Writes(p, "degraded", reason, "idle")
          /\ success' = IF At(p, "degrade") THEN 0 ELSE success
          /\ UNCHANGED failCount
       \/ /\ ~Current(p)
          /\ failCount' = Lower(failCount)
          /\ Leaves(p)
          /\ UNCHANGED <<row, success>>
    /\ RowOnly /\ UNCHANGED <<canaryFail, faults, history>>

\* SetTunnelStatusIfCurrentWithVersion ...
Promote(p) ==
    /\ At(p, "promote")
    /\ IF work[p].slow THEN Writes(p, "degraded", reason, "settle")
                       ELSE Writes(p, "active", "none", "settle")
    /\ RowOnly /\ UNCHANGED <<counters, faults, history>>

\* ... and then the counters, unless something came in between.
Settle(p) ==
    /\ At(p, "settle") /\ Current(p)
    /\ failCount' = 0 /\ success' = 0
    /\ Leaves(p)
    /\ WorkOnly /\ UNCHANGED <<canaryFail, canaries, faults, history>>

-----------------------------------------------------------------------------
(* SelfHealSweep.                                                           *)

\* collectSelfHealTargets.
Target ==
    /\ At(Healer, "idle")
    /\ enabled /\ status = "disabled" /\ reason = "health"
    /\ Moves(Healer, [Rest EXCEPT !.pc = "target", !.current = TRUE])
    /\ WorkOnly /\ UNCHANGED <<counters, canaries, faults, history>>

HealProbeFails ==
    /\ At(Healer, "target")
    /\ Fails("probe")
    /\ success' = IF Current(Healer) THEN 0 ELSE success
    /\ proofs' = IF Current(Healer) THEN 0 ELSE proofs
    /\ Leaves(Healer)
    /\ WorkOnly /\ UNCHANGED <<failCount, canaryFail, canaries, streak, leftover>>

DampWrong(quick) ==
    /\ At(Healer, "target")
    /\ success' = success + 1
    /\ proofs' = IF Current(Healer) THEN proofs + 1 ELSE proofs
    /\ Moves(Healer, [To(Healer, "proved") EXCEPT !.slow = ~quick])
    /\ WorkOnly /\ UNCHANGED <<failCount, canaryFail, canaries, streak, leftover>>

\* probeAndFlapDamp: one success does not put a tunnel back.
Damp(quick) ==
    /\ At(Healer, "target")
    /\ IF Current(Healer)
       THEN /\ success' = success + 1
            /\ proofs' = IF proofs < SelfHealingThreshold THEN proofs + 1 ELSE proofs
            /\ Moves(Healer, IF success' >= SelfHealingThreshold
                             THEN [To(Healer, "proved") EXCEPT !.slow = ~quick] ELSE Rest)
       ELSE Leaves(Healer) /\ UNCHANGED <<success, proofs>>
    /\ WorkOnly /\ UNCHANGED <<failCount, canaryFail, canaries, streak, leftover>>

HealProbeSucceeds == Damp(TRUE) /\ UNCHANGED faults
HealProbeIsSlow == Current(Healer) /\ Fails("slow") /\ Damp(FALSE)

\* verifyPreHookState, and the hook up to EnableBackend's registration of the
\* tunnel, which may find that its identity has changed.
StartHook ==
    /\ At(Healer, "proved")
    /\ \/ /\ Current(Healer)
          /\ Moves(Healer, To(Healer, "hooking"))
          /\ UNCHANGED changes
       \/ /\ Current(Healer)
          /\ Begins("refresh")
          /\ Rewrites(Healer, Outdated(To(Healer, "hooking")))
       \/ /\ ~Current(Healer)
          /\ Leaves(Healer)
          /\ UNCHANGED changes
    /\ UNCHANGED <<row, attached, counters, canaries, admin, halfEnabled, faults, history>>

HookEndsWrong ==
    /\ work[Healer].pc \in {"hooking", "fenced"}
    /\ attached' = TRUE
    /\ ResetFailCount
    /\ Moves(Healer, To(Healer, "recovered"))
    /\ UNCHANGED <<row, operator, faults, history>>

\* finishEnableBackend, under Service.mu.
HookEnds ==
    /\ At(Healer, "hooking")
    /\ enabled
    /\ attached' = TRUE
    /\ ResetFailCount
    /\ Moves(Healer, To(Healer, "recovered"))
    /\ UNCHANGED <<row, operator, faults, history>>

\* Fenced off by an administrator, or the device could not be attached.
HookAborts ==
    /\ \/ At(Healer, "fenced") /\ UNCHANGED faults
       \/ At(Healer, "hooking") /\ Fails("attach")
    /\ success' = IF Current(Healer) THEN 0 ELSE success
    /\ Leaves(Healer)
    /\ WorkOnly /\ UNCHANGED <<failCount, canaryFail, canaries, history>>

\* registerBackendPortalPeers failed: whoever enables declares the tunnel
\* degraded, disabled for its health or not.
Declare(p, w) ==
    /\ Fails("register")
    /\ IF enabled
       THEN /\ status' = "degraded"
            /\ work' = [q \in Procs |-> IF q = p THEN w ELSE Outdated(work[q])]
       ELSE /\ UNCHANGED status
            /\ work' = [q \in Procs |-> IF q = p THEN w ELSE work[q]]
    /\ UNCHANGED <<enabled, reason, attached, canaries, changes, halfEnabled, failCount,
                   canaryFail, history>>

HookNotRegistered ==
    /\ work[Healer].pc \in {"hooking", "fenced"}
    /\ Declare(Healer, Rest)
    /\ UNCHANGED <<admin, success>>

\* finalizeSelfHealRecovery: the tunnel is read again, and proves itself.  One that has
\* moved on sends its canary at the version it is read with now, and what comes of that
\* counts, but the swap, at the version of before the hook, is going to miss.
Recovered ==
    /\ At(Healer, "recovered")
    /\ \/ Current(Healer) /\ attached /\ BeginCanary(Healer, To(Healer, "healing"))
       \/ Current(Healer) /\ ~attached /\ Moves(Healer, To(Healer, "revive")) /\ UNCHANGED canaries
       \/ /\ ~Current(Healer) /\ enabled /\ attached
          /\ BeginCanary(Healer, [To(Healer, "overtaken") EXCEPT !.current = TRUE])
       \/ ~Current(Healer) /\ ~(enabled /\ attached) /\ Leaves(Healer) /\ UNCHANGED canaries
    /\ WorkOnly /\ UNCHANGED <<counters, faults, history>>

Revive ==
    /\ At(Healer, "revive")
    /\ \/ /\ Writes(Healer, IF work[Healer].slow THEN "degraded" ELSE "active", "none", "clear")
          /\ streak' = 0
       \/ ~Current(Healer) /\ Leaves(Healer) /\ UNCHANGED <<row, streak>>
    /\ RowOnly /\ UNCHANGED <<counters, faults, damping>>

Clear ==
    /\ At(Healer, "clear")
    /\ IF Current(Healer) THEN failCount' = 0 /\ success' = 0 ELSE UNCHANGED <<failCount, success>>
    /\ Leaves(Healer)
    /\ WorkOnly /\ UNCHANGED <<canaryFail, canaries, faults, history>>

-----------------------------------------------------------------------------
(* CheckBackendTunnelHealth, the scheduler's own look at what is in service. *)
(* All it does it does at the version it listed, so the row is as it was     *)
(* when it listed it: an attachment and a write of it are one step each, and *)
(* so is a canary and the write that follows at once.                        *)

Checks == Begins("check") /\ Available

\* updateTunnelStatus, for whoever probes: only a promotion clears the reason.
Reports(st) ==
    /\ status' = st
    /\ reason' = IF st = "active" THEN "none" ELSE reason
    /\ work' = [q \in Procs |-> Outdated(work[q])]
    /\ UNCHANGED enabled

\* Its canary, of the same count and the same sequence as everybody's.
Observes(n) ==
    /\ canaryFail' = n
    /\ latest' = Nobody
    /\ UNCHANGED ahead

CheckAttaches ==
    /\ Checks /\ ~attached
    /\ attached' = TRUE
    /\ UNCHANGED <<row, counters, canaries, work, admin, halfEnabled, faults, history>>

\* No tunnel becomes or stays active without a reply.
CheckPromotes ==
    /\ Checks /\ attached
    /\ Observes(0)
    /\ Reports("active")
    /\ UNCHANGED <<attached, failCount, success, late, admin, halfEnabled, faults, history>>

\* A slow reply, or a failed probe, with a canary that is heard all the same or without.
CheckDowngrades ==
    /\ Checks
    /\ Fails("slow") \/ Fails("probe")
    /\ UNCHANGED <<canaryFail, canaries>> \/ (attached /\ Observes(0) /\ UNCHANGED late)
    /\ \E st \in {"degraded", "handshake_blocked"} : Reports(st)
    /\ UNCHANGED <<attached, failCount, success, admin, halfEnabled, history>>

CheckLoses ==
    /\ Checks
    /\ Fails("canary")
    /\ Observes(canaryFail + 1)
    /\ streak' = streak + 1
    /\ \E st \in {"degraded", "handshake_blocked"} : Reports(st)
    /\ UNCHANGED <<attached, failCount, success, late, admin, halfEnabled, damping>>

\* What it observes counts also if its write misses or fails, and overtakes the canaries
\* that began before.
CheckMisses ==
    /\ Checks
    /\ \/ attached /\ Observes(0) /\ UNCHANGED <<faults, streak>>
       \/ Fails("canary") /\ Observes(canaryFail + 1) /\ streak' = streak + 1
    /\ \E over \in SUBSET {q \in Procs : work[q].pc \in Observing} : late' = late \cup over
    /\ UNCHANGED <<row, attached, failCount, success, work, admin, halfEnabled, damping>>

Check == CheckAttaches \/ CheckPromotes \/ CheckDowngrades \/ CheckLoses \/ CheckMisses

-----------------------------------------------------------------------------
(* The administrator, and a restart.                                        *)

ProvenanceWrong(given) == given

\* SetTunnelEnabled: the provenance of a health disable is kept.
Provenance(given) == IF reason = "health" THEN "health" ELSE given

\* disableBackendLocked.
DisableBackend ==
    /\ Begins("disable")
    /\ enabled' = FALSE
    /\ reason' = Provenance("admin")
    /\ work' = [q \in Procs |->
                  Fenced(IF ~enabled /\ reason = "admin" THEN work[q] ELSE Outdated(work[q]))]
    /\ admin' = EnableFenced
    /\ failCount' = 0 /\ success' = 0
    /\ attached' = FALSE
    /\ halfEnabled' = FALSE
    /\ UNCHANGED <<status, canaryFail, canaries, faults, history>>

\* EnableBackend, up to the registration of the tunnel.
EnableBackend ==
    /\ admin = "idle"
    /\ Begins("enable")
    /\ admin' = "enabling"
    /\ UNCHANGED <<row, attached, counters, canaries, work, halfEnabled, faults, history>>

EnableNotRegistered ==
    /\ admin \in {"enabling", "fenced"}
    /\ Declare(Nobody, Rest)
    /\ admin' = "idle"
    /\ UNCHANGED success

\* Fenced off, or the device could not be attached.
EnableAborts ==
    /\ \/ admin = "fenced" /\ UNCHANGED faults
       \/ admin = "enabling" /\ Fails("attach")
    /\ admin' = "idle"
    /\ UNCHANGED <<row, attached, counters, canaries, work, changes, halfEnabled, history>>

\* finishEnableBackend, under Service.mu.  A legacy row said "disabled" for an
\* administrative disable: it becomes unknown, in a write of its own.
FinishEnableBackend ==
    /\ admin = "enabling"
    /\ admin' = "idle"
    /\ attached' = TRUE
    /\ ResetFailCount
    /\ LET legacy == status = "disabled" /\ reason = "admin"
       IN  \/ /\ enabled' = TRUE
              /\ reason' = Provenance("none")
              /\ status' = IF legacy THEN "connecting" ELSE status
              /\ work' = [q \in Procs |->
                            IF enabled /\ reason = "none" THEN work[q] ELSE Outdated(work[q])]
              /\ halfEnabled' = (halfEnabled /\ enabled)
              /\ streak' = IF enabled THEN streak ELSE 0
              /\ UNCHANGED faults
           \/ /\ Fails("persist")
              /\ halfEnabled' = (halfEnabled \/ ~enabled)
              /\ UNCHANGED <<row, work, streak>>
           \/ /\ legacy
              /\ Fails("persist")
              /\ enabled' = TRUE /\ reason' = "none"
              /\ halfEnabled' = TRUE
              /\ work' = [q \in Procs |-> Outdated(work[q])]
              /\ streak' = 0
              /\ UNCHANGED status
    /\ UNCHANGED <<changes, damping>>

\* UpdateBackendServerHost and UpdateBackendServerPublicKey: the pool first ...
MoveBackend ==
    /\ admin = "idle"
    /\ Begins("move")
    /\ admin' = "moved"
    /\ work' = [q \in Procs |-> Fenced(Outdated(work[q]))]
    /\ UNCHANGED <<row, attached, counters, canaries, halfEnabled, faults, history>>

\* ... then the device, under Service.mu, or back to where it was.
SyncDevice ==
    /\ admin = "moved"
    /\ admin' = "idle"
    /\ \/ /\ ~enabled
          /\ UNCHANGED <<status, attached, counters, canaries, work, faults>>
       \/ /\ enabled
          /\ attached' = (attached \/ status \in {"active", "degraded"})
          /\ ResetFailCount
          /\ UNCHANGED <<status, work, faults>>
       \/ /\ enabled /\ status \in {"active", "degraded"}
          /\ Fails("attach")
          /\ status' = "degraded"
          /\ work' = [q \in Procs |-> Fenced(Outdated(work[q]))]
          /\ UNCHANGED <<attached, counters, canaries>>
    /\ UNCHANGED <<enabled, reason, changes, halfEnabled, history>>

\* ResetEnabledHealthForStartup: what was known of a tunnel is not known any more.
StartupHealth ==
    IF enabled THEN status' = "connecting" /\ reason' = "none" ELSE UNCHANGED <<status, reason>>

\* A crash and Service.Start.
Restart ==
    /\ Begins("restart")
    /\ StartupHealth
    /\ attached' = FALSE
    /\ failCount' = 0 /\ canaryFail' = 0 /\ success' = 0
    /\ ahead' = [p \in Procs |-> {}] /\ late' = {} /\ latest' = Nobody
    /\ work' = [p \in Procs |-> Rest]
    /\ admin' = "idle"
    /\ halfEnabled' = FALSE /\ streak' = 0 /\ proofs' = 0 /\ leftover' = FALSE
    /\ UNCHANGED <<enabled, faults>>

-----------------------------------------------------------------------------
Canary(p) == ObserveReply(p) \/ ObserveLoss(p) \/ ObserveNothing(p) \/ UseReply(p)

Probe(p) ==
    \/ List(p) \/ Snapshot(p) \/ Superseded(p)
    \/ ProbeFails(p) \/ ProbeSucceeds(p) \/ ProbeIsSlow(p)
    \/ CountFailure(p) \/ DropFailure(p)
    \/ Hook(p) \/ HookFails(p) \/ HookRefused(p)
    \/ Canary(p) \/ UseLoss(p)
    \/ Disable(p) \/ CommitDisable(p) \/ Reconcile(p) \/ DisableAgain(p) \/ MissAgain(p)
    \/ Block(p) \/ Degrade(p) \/ Promote(p) \/ Settle(p) \/ NotWritten(p)

Heal ==
    \/ Target \/ HealProbeFails \/ HealProbeSucceeds \/ HealProbeIsSlow
    \/ StartHook \/ HookEnds \/ HookAborts \/ HookNotRegistered
    \/ Recovered \/ Canary(Healer) \/ Revive \/ Clear \/ NotWritten(Healer)

Administer ==
    \/ DisableBackend \/ EnableBackend \/ EnableNotRegistered \/ EnableAborts
    \/ FinishEnableBackend \/ MoveBackend \/ SyncDevice \/ Restart

HealthNext ==
    \/ \E p \in Probers : Probe(p) \/ Notify(p)
    \/ Heal \/ Check
    \/ Administer

HealthSpec == HealthInit /\ [][HealthNext]_vars

\* The probing loop and the self-healing loop run on timers, and nothing in
\* them waits for another process.  The reconnect manager need not run; as it
\* backs off and gives up after MaxRetries, it does not overtake every single
\* reply of the loop between its arrival and its use.
FairHealthSpec ==
    /\ HealthSpec
    /\ WF_vars(Probe(Loop) \/ Notify(Loop))
    /\ WF_vars(Heal)
    /\ SF_vars(UseReply(Loop) /\ latest = Loop)

-----------------------------------------------------------------------------
ProberPcs == {"idle", "listed", "probing", "failed", "confirming", "confirmed", "hook", "verifying",
              "verified", "lost", "disable", "commit", "notify", "reconcile", "again", "block",
              "degrade", "redegrade", "promote", "settle"}
HealerPcs == {"idle", "target", "proved", "hooking", "fenced", "recovered", "healing", "healed",
              "overtaken", "missed", "revive", "clear"}
ASSUME ElsewhereAssumption == Elsewhere \cap (ProberPcs \cup HealerPcs) = {}

Work == [pc : ProberPcs \cup HealerPcs \cup Elsewhere, current : BOOLEAN, seen : Statuses \cup {"none"},
         blocked : BOOLEAN, slow : BOOLEAN]

(* Every variable has the shape of what it stands for, and a canary under    *)
(* way belongs to one process (internal/vpn/tunnel/health.go).               *)
HealthTypeOK ==
    /\ enabled \in BOOLEAN /\ status \in Statuses /\ reason \in Reasons
    /\ attached \in BOOLEAN /\ halfEnabled \in BOOLEAN
    /\ failCount \in Nat /\ canaryFail \in Nat /\ success \in Nat
    /\ ahead \in [Procs -> SUBSET Procs] /\ late \subseteq Procs /\ latest \in Procs \cup {Nobody}
    /\ work \in [Procs -> Work]
    /\ \A p \in Procs : work[p].pc \in (IF p = Healer THEN HealerPcs ELSE ProberPcs) \cup Elsewhere
    /\ admin \in {"idle", "enabling", "fenced", "moved"}
    /\ changes \in 0..MaxChanges /\ faults \in 0..MaxFaults
    /\ streak \in Nat /\ proofs \in Nat /\ leftover \in BOOLEAN

(* A tunnel that an administrator wants and that is disabled all the same is *)
(* one the self-healing sweep looks for: whatever probes, toggles and healer *)
(* interleave, none is left disabled with nobody to bring it back            *)
(* (collectSelfHealTargets, SetTunnelEnabled).  Excepted is a legacy row of  *)
(* which an enable could write only the first half (`halfEnabled`), until an *)
(* administrator tries again (backend_enable.go:454-463).                    *)
RecoverableWhenDisabled ==
    enabled /\ status = "disabled" /\ ~halfEnabled => reason = "health"

(* What admission may pick has a device to carry the traffic: no promotion,  *)
(* enable or recovery lands on a tunnel whose device a disable has just      *)
(* closed (executeActiveHook, finishEnableBackend, disableBackendLocked).    *)
ActiveIsAttached == enabled /\ status = "active" => attached

(* A disabled backend stays detached: neither a probe's hook nor the healer  *)
(* that started before the disable attaches a device after it (the epoch of  *)
(* finishEnableBackend, backendTunnelReady).                                 *)
DisabledIsDetached == ~enabled /\ ~halfEnabled => ~attached

(* A tunnel that was put back in service is disabled for its health only     *)
(* after the full threshold of failed probes made since: failures of before, *)
(* still under way or still counted, do not add up (ResetFailCount, issue    *)
(* #50, checkHealthGenerationLocked).                                        *)
GracePeriod ==
    [][Available /\ status' = "disabled" => streak >= FailureThreshold]_vars

(* A tunnel disabled for its health becomes active again only after so many  *)
(* consecutive successful probes since the disable was recorded, unless that *)
(* left counted what an earlier recovery had proved (probeAndFlapDamp,       *)
(* commitThresholdDisable).                                                  *)
FlapDamping ==
    [][enabled /\ status = "disabled" /\ status' = "active" =>
         leftover \/ proofs >= SelfHealingThreshold]_vars

(* Once failures and administrative changes have ceased, an enabled tunnel   *)
(* becomes active and stays so, however it was left: blocked, degraded,      *)
(* half-way through a recovery, or disabled for its health.                  *)
HealthySettles == <>[](enabled /\ ~halfEnabled => status = "active")
=============================================================================
