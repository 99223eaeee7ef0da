--------------------------- MODULE HealthFailover ---------------------------
(***************************************************************************)
(* What the data plane does about a backend disabled for its health        *)
(* (internal/vpn/backend_health_disable.go, health_failover_retry.go), on  *)
(* top of TunnelHealth: the probe that commits the disable goes on, in its *)
(* own goroutine and with no lock held, to move the sessions pinned to the *)
(* backend elsewhere.  What it cannot move is recorded as a debt, which    *)
(* the self-healing sweep tries to pay each time it comes round.           *)
(*                                                                         *)
(* Meanwhile sessions arrive, by an admission that chose the backend while *)
(* it was active, and leave; an alternative backend comes and goes; and    *)
(* the backend recovers, is disabled by hand, or is moved.                 *)
(*                                                                         *)
(* A migration holds Service.mu, as an admission and DisableBackend do.    *)
(* What a listing of the sessions leads to is recorded in the same step:   *)
(* for it to matter, a whole recovery, an admission and a second disable   *)
(* would have to fall between the listing and the record.                  *)
(*                                                                         *)
(* Abstracted: all but one source backend (`alternative`: some active      *)
(* backend of its family); a session's row and route, which a migration    *)
(* moves together with it (SessionGateway); the time limit of a failover,  *)
(* which is a migration that fails.                                        *)
(***************************************************************************)
EXTENDS TunnelHealth

CONSTANTS Sessions,           \* session UUIDs
          Running,            \* the probers that run
          FailoverFaults      \* the steps of a failover that may fail

ASSUME FailoverAssumption ==
    /\ Nobody \notin Sessions \cup Procs
    /\ Elsewhere = {"failing", "listing", "moving", "rechecking"}
    /\ Running \subseteq Probers
    /\ FailoverFaults \subseteq {"read", "migrate"}

VARIABLES
    pinned,       \* sessions of the backend
    admitting,    \* the session whose admission holds Service.mu
    alternative,  \* healthDisableTargets finds another backend
    debt,         \* pendingHealthFailovers has the backend
    todo,         \* the sessions a failover has still to move
    strays,       \* history: sessions no failover was told of
    dropped       \* history: a failover was refused as a newer version's

sessions == <<pinned, admitting, strays>>
failover == <<sessions, alternative, debt, todo, dropped>>
allVars == <<vars, failover>>

FailoverInit ==
    /\ HealthInit
    /\ pinned = {} /\ admitting = Nobody /\ strays = {}
    /\ alternative \in BOOLEAN
    /\ debt = FALSE
    /\ todo = [p \in Procs |-> {}]
    /\ dropped = FALSE

-----------------------------------------------------------------------------
(* Sessions and the other backends.                                         *)

Admissible == enabled /\ status = "active"

\* A session is admitted to the backend as it was when it was chosen.
ChooseBackend(s) ==
    /\ admitting = Nobody
    /\ Admissible
    /\ s \notin pinned /\ \A p \in Procs : s \notin todo[p]
    /\ admitting' = s
    /\ UNCHANGED <<vars, pinned, strays, alternative, debt, todo, dropped>>

CreateSession ==
    /\ admitting # Nobody
    /\ pinned' = pinned \cup {admitting}
    /\ strays' = IF Admissible THEN strays ELSE strays \cup {admitting}
    /\ admitting' = Nobody
    /\ UNCHANGED <<vars, alternative, debt, todo, dropped>>

\* Idle, revoked, disconnected, or admitted again by its own traffic.
SessionLeaves(s) ==
    /\ s \in pinned
    /\ pinned' = pinned \ {s} /\ strays' = strays \ {s}
    /\ UNCHANGED <<vars, admitting, alternative, debt, todo, dropped>>

AlternativeChanges ==
    /\ alternative' = ~alternative
    /\ UNCHANGED <<vars, sessions, debt, todo, dropped>>

-----------------------------------------------------------------------------
(* BackendHealthDisabled, for the notification and for the retry.           *)

FailoverFails(step) ==
    step \in FailoverFaults /\ faults < MaxFaults /\ faults' = faults + 1

UnchangedHealth == UNCHANGED <<row, attached, counters, canaries, operator, history>>

\* healthFailoverStillOwed.
StillOwed == enabled /\ status = "disabled" /\ reason = "health"

\* Refused for its version alone, the failover leaves what it was for undone.
Refused == dropped' = (dropped \/ StillOwed)

\* The retry looks at the sessions once more.
Ends(p) == Moves(p, IF p = Healer THEN To(p, "rechecking") ELSE Rest)

\* notifyHealthDisabled passes on the tunnel as it finds it.
NotifyFailover(p) ==
    /\ At(p, "notify")
    /\ Moves(p, IF StillOwed THEN [To(p, "failing") EXCEPT !.current = TRUE] ELSE Rest)
    /\ UnchangedHealth /\ UNCHANGED <<faults, failover>>

\* healthDisabledBackend and healthDisableTargets: without an alternative the
\* failover is owed.
FindTargets(p) ==
    /\ At(p, "failing")
    /\ \/ /\ StillOwed /\ Current(p) /\ alternative
          /\ Moves(p, To(p, "listing"))
          /\ UNCHANGED <<debt, dropped>>
       \/ /\ StillOwed /\ Current(p) /\ ~alternative
          /\ debt' = TRUE
          /\ Ends(p)
          /\ UNCHANGED dropped
       \/ /\ ~(StillOwed /\ Current(p))
          /\ Ends(p)
          /\ Refused
          /\ UNCHANGED debt
    /\ UnchangedHealth /\ UNCHANGED <<faults, sessions, alternative, todo>>

\* healthDisableSessions: a failed read matters only if no session is in memory.
ListSessions(p) ==
    /\ At(p, "listing")
    /\ \/ /\ pinned = {}
          /\ debt' = FALSE
          /\ Ends(p)
          /\ UNCHANGED <<todo, faults>>
       \/ /\ pinned = {}
          /\ FailoverFails("read")
          /\ debt' = TRUE
          /\ Leaves(p)
          /\ UNCHANGED todo
       \/ /\ pinned # {}
          /\ todo' = [todo EXCEPT ![p] = pinned]
          /\ Moves(p, To(p, "moving"))
          /\ UNCHANGED <<debt, faults>>
    /\ UnchangedHealth /\ UNCHANGED <<sessions, alternative, dropped>>

\* MigrateSession, one session after the other; none holds up the rest.
MoveSession(p) ==
    /\ At(p, "moving")
    /\ admitting = Nobody
    /\ \E s \in todo[p] :
         /\ todo' = [todo EXCEPT ![p] = @ \ {s}]
         /\ \/ /\ s \in pinned /\ alternative
               /\ pinned' = pinned \ {s} /\ strays' = strays \ {s}
               /\ UNCHANGED faults
            \/ /\ s \in pinned /\ alternative
               /\ FailoverFails("migrate")
               /\ UNCHANGED <<pinned, strays>>
            \/ /\ s \notin pinned \/ ~alternative
               /\ UNCHANGED <<pinned, strays, faults>>
    /\ UnchangedHealth /\ UNCHANGED <<work, admitting, alternative, debt, dropped>>

SettleDebtWrong(p) ==
    /\ At(p, "moving") /\ todo[p] = {}
    /\ debt' = FALSE
    /\ Ends(p)
    /\ UnchangedHealth /\ UNCHANGED <<faults, sessions, alternative, todo, dropped>>

\* settleHealthFailoverDebtAfterMigration.
SettleDebt(p) ==
    /\ At(p, "moving") /\ todo[p] = {}
    /\ \/ debt' = (pinned # {}) /\ UNCHANGED faults
       \/ pinned = {} /\ FailoverFails("read") /\ debt' = TRUE
    /\ Ends(p)
    /\ UnchangedHealth /\ UNCHANGED <<sessions, alternative, todo, dropped>>

Failover(p) ==
    \/ NotifyFailover(p) \/ FindTargets(p) \/ ListSessions(p)
    \/ MoveSession(p) \/ SettleDebt(p)

-----------------------------------------------------------------------------
(* RetryPendingHealthFailovers, at the end of every self-healing sweep.     *)

RetryFailoverWrong ==
    /\ At(Healer, "idle")
    /\ debt
    /\ Moves(Healer, [Rest EXCEPT !.pc = "failing"])
    /\ UnchangedHealth /\ UNCHANGED <<faults, sessions, alternative, debt, todo, dropped>>

\* retryOneHealthFailover, at the version it has just read.
RetryFailover ==
    /\ At(Healer, "idle")
    /\ debt
    /\ \/ /\ ~StillOwed
          /\ debt' = FALSE
          /\ UNCHANGED work
       \/ /\ StillOwed /\ alternative
          /\ Moves(Healer, [Rest EXCEPT !.pc = "failing", !.current = TRUE])
          /\ UNCHANGED debt
    /\ UnchangedHealth /\ UNCHANGED <<faults, sessions, alternative, todo, dropped>>

Recheck ==
    /\ At(Healer, "rechecking")
    /\ \/ debt' = (debt /\ pinned # {}) /\ UNCHANGED faults
       \/ FailoverFails("read") /\ pinned = {} /\ UNCHANGED debt
    /\ Leaves(Healer)
    /\ UnchangedHealth /\ UNCHANGED <<sessions, alternative, todo, dropped>>

\* The backend does not come back: its probes may fail for ever.
StaysDead ==
    /\ At(Healer, "target") /\ Current(Healer)
    /\ success' = 0 /\ proofs' = 0
    /\ Leaves(Healer)
    /\ UNCHANGED <<row, attached, failCount, canaryFail, canaries, operator, faults, streak,
                   leftover, failover>>

-----------------------------------------------------------------------------
(* The health of the backend, and what its steps mean to the failover.      *)

DisablesAnew == status # "disabled" /\ status' = "disabled"

ProbeStep(p) ==
    /\ Probe(p)
    /\ dropped' = IF DisablesAnew THEN FALSE
                  ELSE dropped \/ (At(p, "commit") /\ ~Current(p) /\ StillOwed)
    /\ strays' = IF DisablesAnew THEN {} ELSE strays
    /\ UNCHANGED <<pinned, admitting, alternative, debt, todo>>

HealStep == Heal /\ UNCHANGED failover

\* DisableBackend fails over what HandleFailover plans a target for: nothing without an
\* alternative, and not who it skips or whose record in memory it leaves behind.  Those
\* stay on the backend, as does who is admitted to it when it is disabled already, until
\* the next health disable lists them.
DisableStep ==
    /\ admitting = Nobody
    /\ DisableBackend
    /\ \E moved \in SUBSET pinned :
         /\ moved # {} => alternative
         /\ pinned' = pinned \ moved /\ strays' = pinned \ moved
    /\ UNCHANGED <<admitting, alternative, debt, todo, dropped>>

\* Sessions and debts do not survive the process.
RestartStep ==
    /\ Restart
    /\ pinned' = {} /\ strays' = {} /\ admitting' = Nobody
    /\ debt' = FALSE
    /\ todo' = [p \in Procs |-> {}]
    /\ dropped' = FALSE
    /\ UNCHANGED alternative

\* What else is done to the row.  The sessions that the scheduler moves off a tunnel its
\* check has downgraded leave it as any other does.
AdminStep ==
    /\ \/ EnableBackend \/ EnableNotRegistered \/ EnableAborts
       \/ FinishEnableBackend \/ MoveBackend \/ SyncDevice \/ Check
    /\ UNCHANGED failover

FailoverNext ==
    \/ \E s \in Sessions : ChooseBackend(s) \/ SessionLeaves(s)
    \/ CreateSession
    \/ AlternativeChanges
    \/ \E p \in Running : ProbeStep(p)
    \/ \E p \in Running \cup {Healer} : Failover(p)
    \/ RetryFailover \/ Recheck \/ StaysDead \/ HealStep
    \/ DisableStep \/ RestartStep \/ AdminStep

FailoverSpec == FailoverInit /\ [][FailoverNext]_allVars

\* An admission ends.  Every self-healing sweep ends, whatever it finds, and
\* ends with the retry; a failover does not stop half-way.
FairFailoverSpec ==
    /\ FailoverSpec
    /\ WF_allVars(CreateSession)
    /\ \A p \in Running : WF_allVars(ProbeStep(p) \/ Failover(p))
    /\ WF_allVars(HealStep \/ StaysDead \/ Failover(Healer) \/ Recheck)
    /\ SF_allVars(RetryFailover)

-----------------------------------------------------------------------------
(* What the failover keeps has the shape of what it stands for: a session    *)
(* that is being admitted is not pinned yet, and there is something left to  *)
(* move only while it is being moved (health_failover_retry.go).             *)
FailoverTypeOK ==
    /\ work \in [Procs -> Work]
    /\ strays \subseteq pinned /\ pinned \subseteq Sessions
    /\ admitting \in (Sessions \ pinned) \cup {Nobody}
    /\ todo \in [Procs -> SUBSET Sessions]
    /\ \A p \in Procs : todo[p] # {} => At(p, "moving")
    /\ alternative \in BOOLEAN /\ debt \in BOOLEAN /\ dropped \in BOOLEAN

FailingOver(p) == work[p].pc \in {"commit", "notify", "failing", "listing", "moving"}

(* No session is forgotten on a backend that is disabled for its health:     *)
(* somebody is moving it or owes it, whatever fails on the way.  Excepted    *)
(* are sessions whose admission chose the backend before the disable;        *)
(* sessions an administrative disable left on it, as the debt for them is    *)
(* dropped while it is out of service and no enable takes it up again; and   *)
(* a failover refused for a version that has moved on, until the next        *)
(* health disable (recordHealthFailoverDebt,                                 *)
(* settleHealthFailoverDebtAfterMigration, retryOneHealthFailover).          *)
StrandedIsOwed ==
    StillOwed /\ ~dropped /\ pinned \ strays # {} => debt \/ \E p \in Procs : FailingOver(p)

(* What is owed is paid: with an alternative there for good, the sessions of *)
(* a backend that owes them leave it, even if it never comes back            *)
(* (RetryPendingHealthFailovers).                                            *)
DebtPaid == <>[]alternative => [](debt => <>(pinned = {} \/ ~StillOwed))
=============================================================================
