------------------------- MODULE TunnelHealthProofs -------------------------
(***************************************************************************)
(* For any thresholds and any number of administrative changes and faults: *)
(* the variables keep their types, a disabled backend stays detached, an   *)
(* active one attached, a health disable recoverable, and neither the      *)
(* grace period of a tunnel nor the damping of its recovery is cut short.  *)
(***************************************************************************)
EXTENDS TunnelHealth, TLAPS

-----------------------------------------------------------------------------
(* What the processes hold.                                                 *)

\* At rest a process holds nothing.
LEMMA RestTyped == Rest \in Work /\ Rest.pc = "idle" /\ ~Rest.current
  BY DEF Rest, Work, ProberPcs, HealerPcs, Statuses

\* A process whose version is overtaken stays where it is.
LEMMA OutdatedTyped ==
  ASSUME NEW w \in Work
  PROVE  Outdated(w) \in Work /\ ~Outdated(w).current /\ Outdated(w).pc = w.pc
  BY DEF Outdated, Work

\* A fence concerns only an enable that is attaching.
LEMMA FencedTyped ==
  ASSUME NEW w \in Work
  PROVE  /\ Fenced(w) \in Work /\ Fenced(w).current = w.current
         /\ Fenced(w).pc = w.pc \/ (w.pc = "hooking" /\ Fenced(w).pc = "fenced")
  BY DEF Fenced, Work, ProberPcs, HealerPcs

\* Going on changes nothing but the place.
LEMMA ToTyped ==
  ASSUME HealthTypeOK, NEW p \in Procs, NEW where \in ProberPcs \cup HealerPcs \cup Elsewhere
  PROVE  /\ To(p, where) \in Work /\ To(p, where).pc = where
         /\ To(p, where).current = work[p].current /\ To(p, where).slow = work[p].slow
<1>1. work[p] \in Work
  BY DEF HealthTypeOK
<1> QED BY <1>1 DEF To, Work

\* Nobody but p moves ...
Alone(p) == \A q \in Procs : q # p => work'[q] = work[q]

\* ... or what everybody else read is out of date.
Outdates(p) == \A q \in Procs : q # p => ~work'[q].current /\ work'[q].pc = work[q].pc

\* A step of one process leaves the others alone ...
LEMMA MovesTyped ==
  ASSUME HealthTypeOK, NEW p \in Procs, NEW w \in Work, Moves(p, w)
  PROVE  work' \in [Procs -> Work] /\ work'[p] = w /\ Alone(p)
  BY DEF Moves, HealthTypeOK, Alone

\* ... also when it goes on ...
LEMMA MovesTo ==
  ASSUME HealthTypeOK, NEW p \in Procs, NEW where \in ProberPcs \cup HealerPcs \cup Elsewhere, Moves(p, To(p, where))
  PROVE  /\ work' \in [Procs -> Work] /\ Alone(p)
         /\ work'[p].pc = where /\ work'[p].current = work[p].current /\ work'[p].slow = work[p].slow
  BY ToTyped, MovesTyped

\* ... or on the version it is read with now (health_selfheal.go:290-330) ...
LEMMA OvertakenTyped ==
  ASSUME HealthTypeOK, Moves(Healer, [To(Healer, "overtaken") EXCEPT !.current = TRUE])
  PROVE  work' \in [Procs -> Work] /\ Alone(Healer) /\ work'[Healer].pc = "overtaken"
<1> DEFINE w == [To(Healer, "overtaken") EXCEPT !.current = TRUE]
<1>1. Healer \in Procs
  BY DEF Procs
<1>2. To(Healer, "overtaken") \in Work /\ To(Healer, "overtaken").pc = "overtaken"
  BY <1>1, ToTyped DEF HealerPcs
<1>3. w \in Work /\ w.pc = "overtaken"
  BY <1>2 DEF Work
<1>4. Moves(Healer, w)
  OBVIOUS
<1> HIDE DEF w
<1> QED BY <1>1, <1>3, <1>4, MovesTyped

\* ... and when it ends.
LEMMA LeavesTyped ==
  ASSUME HealthTypeOK, NEW p \in Procs, Leaves(p)
  PROVE  work' \in [Procs -> Work] /\ work'[p].pc = "idle" /\ ~work'[p].current /\ Alone(p)
  BY MovesTyped, RestTyped DEF Leaves

\* A write outdates what the others have read.
LEMMA RewritesTyped ==
  ASSUME HealthTypeOK, NEW p \in Procs, NEW w \in Work, Rewrites(p, w)
  PROVE  work' \in [Procs -> Work] /\ work'[p] = w /\ Outdates(p)
  BY OutdatedTyped DEF Rewrites, HealthTypeOK, Outdates

\* What a write leaves behind (pool.go:470-504).
LEMMA WritesTyped ==
  ASSUME HealthTypeOK, NEW p \in Procs, NEW st, NEW rs, NEW where \in ProberPcs \cup HealerPcs \cup Elsewhere,
         Writes(p, st, rs, where)
  PROVE  /\ work' \in [Procs -> Work] /\ Outdates(p)
         /\ work'[p].pc = where
         /\ work'[p].current => where # "idle" /\ work[p].current
         /\ status' = st /\ reason' = rs /\ enabled' = enabled /\ work[p].current
<1>1. /\ Current(p) /\ status' = st /\ reason' = rs /\ enabled' = enabled
      /\ Rewrites(p, IF where = "idle" THEN Rest ELSE To(p, where))
  BY DEF Writes
<1>2. CASE where = "idle"
  BY <1>1, <1>2, RestTyped, RewritesTyped DEF Current
<1>3. CASE where # "idle"
  <2>1. Rewrites(p, To(p, where))
    BY <1>1, <1>3
  <2>2. To(p, where) \in Work /\ To(p, where).pc = where /\ To(p, where).current = work[p].current
    BY ToTyped
  <2> QED BY <1>1, <1>3, <2>1, <2>2, RewritesTyped DEF Current
<1> QED BY <1>2, <1>3

\* Where a failure below the threshold leads (health.go:654-680).
LEMMA DowngradeTyped ==
  ASSUME HealthTypeOK, NEW p \in Probers, Downgrade(p)
  PROVE  /\ work' \in [Procs -> Work] /\ Alone(p)
         /\ work'[p].pc \in {"idle", "block", "degrade"}
         /\ work'[p].current => work[p].current
<1>1. p \in Procs
  BY DEF Procs
<1>2. CASE Moves(p, To(p, "block"))
  BY <1>1, <1>2, MovesTo DEF ProberPcs
<1>3. CASE Moves(p, IF work[p].seen = "degraded" THEN Rest ELSE To(p, "degrade"))
  <2>1. CASE work[p].seen = "degraded"
    BY <1>1, <1>3, <2>1, LeavesTyped DEF Leaves
  <2>2. CASE work[p].seen # "degraded"
    BY <1>1, <1>3, <2>2, MovesTo DEF ProberPcs
  <2> QED BY <2>1, <2>2
<1> QED BY <1>2, <1>3 DEF Downgrade

-----------------------------------------------------------------------------
(* Types.                                                                   *)

WorkTyped ==
    /\ work \in [Procs -> Work]
    /\ \A p \in Procs : work[p].pc \in (IF p = Healer THEN HealerPcs ELSE ProberPcs) \cup Elsewhere

\* A process stands where a process of its kind may.
LEMMA StandsTyped ==
  ASSUME HealthTypeOK, NEW p \in Procs, work' \in [Procs -> Work], Alone(p) \/ Outdates(p),
         work'[p].pc \in (IF p = Healer THEN HealerPcs ELSE ProberPcs) \cup Elsewhere
  PROVE  WorkTyped'
  BY DEF HealthTypeOK, WorkTyped, Alone, Outdates

\* A service that starts is well typed.
LEMMA InitHealthTyped == HealthInit => HealthTypeOK
<1> SUFFICES ASSUME HealthInit PROVE HealthTypeOK OBVIOUS
<1>1. /\ enabled \in BOOLEAN /\ attached \in BOOLEAN /\ halfEnabled \in BOOLEAN /\ leftover \in BOOLEAN
  BY Zenon DEF HealthInit
<1>2. status \in Statuses /\ reason \in Reasons
  BY DEF HealthInit, Statuses, Reasons
<1>3. WorkTyped
  BY RestTyped DEF HealthInit, WorkTyped, HealerPcs, ProberPcs
<1> QED BY <1>1, <1>2, <1>3, HealthAssumption DEF HealthInit, HealthTypeOK, WorkTyped

\* A probe keeps the types (health.go:258-922, health_canary.go:230-269).
LEMMA ProbeTyped ==
  ASSUME HealthTypeOK, NEW p \in Probers, Probe(p) \/ Notify(p), ~Canary(p)
  PROVE  HealthTypeOK'
<1> USE HealthAssumption
    DEF WorkOnly, RowOnly, counters, canaries, operator, history, damping, row, Fails, MayFail
<1>1. p \in Procs /\ p # Healer
  BY DEF Procs
<1>2. CASE List(p)
  <2>1. WorkTyped'
    <3>1. [Rest EXCEPT !.pc = "listed", !.blocked = (status = "handshake_blocked")] \in Work
      BY DEF Rest, Work, ProberPcs, Statuses
    <3>2. [Rest EXCEPT !.pc = "listed", !.blocked = (status = "handshake_blocked")].pc = "listed"
      BY DEF Rest
    <3> QED BY <1>1, <1>2, <3>1, <3>2, MovesTyped, StandsTyped DEF List, ProberPcs
  <2> QED BY <1>2, <2>1 DEF HealthTypeOK, WorkTyped, List
<1>3. CASE Snapshot(p)
  <2>1. WorkTyped'
    <3> DEFINE b == work[p].blocked \/ status = "handshake_blocked"
               w == [To(p, "probing") EXCEPT !.current = TRUE, !.seen = status, !.blocked = b]
    <3>1. To(p, "probing") \in Work /\ To(p, "probing").pc = "probing"
      BY <1>1, ToTyped DEF ProberPcs
    <3>2. b \in BOOLEAN
      OBVIOUS
    <3> HIDE DEF b
    <3>3. w \in Work /\ w.pc = "probing"
      BY <3>1, <3>2 DEF Work, HealthTypeOK
    <3> USE DEF b
    <3>4. Moves(p, w) \/ Leaves(p)
      BY <1>3 DEF Snapshot, Leaves
    <3> HIDE DEF w
    <3> QED BY <1>1, <3>3, <3>4, MovesTyped, LeavesTyped, StandsTyped DEF ProberPcs
  <2> QED BY <1>3, <2>1 DEF HealthTypeOK, WorkTyped, Snapshot
<1>4. CASE Superseded(p)
  <2>1. WorkTyped'
    BY <1>1, <1>4, LeavesTyped, StandsTyped DEF Superseded, ProberPcs
  <2> QED BY <1>4, <2>1 DEF HealthTypeOK, WorkTyped, Superseded
<1>5. CASE ProbeFails(p)
  <2>1. WorkTyped'
    BY <1>1, <1>5, MovesTo, StandsTyped DEF ProbeFails, ProberPcs
  <2> QED BY <1>5, <2>1 DEF HealthTypeOK, WorkTyped, ProbeFails
<1>6. CASE ProbeSucceeds(p)
  <2>1. WorkTyped'
    BY <1>1, <1>6, MovesTo, StandsTyped DEF ProbeSucceeds, ProberPcs
  <2> QED BY <1>6, <2>1 DEF HealthTypeOK, WorkTyped, ProbeSucceeds
<1>7. CASE ProbeIsSlow(p)
  <2>1. WorkTyped'
    <3> DEFINE w == [work[p] EXCEPT !.slow = TRUE]
    <3>1. work[p] \in Work
      BY <1>1 DEF HealthTypeOK
    <3>2. \A where \in ProberPcs : [w EXCEPT !.pc = where] \in Work /\ [w EXCEPT !.pc = where].pc = where
      BY <3>1 DEF Work
    <3>3. Leaves(p) \/ \E where \in ProberPcs : Moves(p, [w EXCEPT !.pc = where])
      BY <1>7 DEF ProbeIsSlow, BeginCanary, ProberPcs
    <3> HIDE DEF w
    <3>4. ASSUME NEW where \in ProberPcs, Moves(p, [w EXCEPT !.pc = where]) PROVE WorkTyped'
      BY <1>1, <3>2, <3>4, MovesTyped, StandsTyped
    <3> QED BY <1>1, <3>3, <3>4, LeavesTyped, StandsTyped DEF ProberPcs
  <2> QED BY <1>7, <2>1 DEF HealthTypeOK, WorkTyped, ProbeIsSlow, BeginCanary
<1>8. CASE CountFailure(p)
  <2>1. WorkTyped'
    <3>1. (\E w \in {"confirming", "disable"} : Moves(p, To(p, w))) \/ Downgrade(p)
      BY <1>8 DEF CountFailure, BeginCanary
    <3> QED BY <1>1, <3>1, MovesTo, DowngradeTyped, StandsTyped DEF ProberPcs
  <2> QED BY <1>8, <2>1 DEF HealthTypeOK, WorkTyped, CountFailure, BeginCanary
<1>9. CASE DropFailure(p)
  <2>1. WorkTyped'
    BY <1>1, <1>9, LeavesTyped, StandsTyped DEF DropFailure, ProberPcs
  <2> QED BY <1>9, <2>1 DEF HealthTypeOK, WorkTyped, DropFailure
<1>10. CASE Hook(p)
  <2>1. WorkTyped'
    BY <1>1, <1>10, MovesTo, StandsTyped DEF Hook, BeginCanary, ProberPcs
  <2> QED BY <1>10, <2>1 DEF HealthTypeOK, WorkTyped, Hook, BeginCanary
<1>11. CASE HookFails(p)
  <2>1. WorkTyped'
    <3>1. \E w \in {"disable", "redegrade"} : Moves(p, To(p, w))
      BY <1>11 DEF HookFails
    <3> QED BY <1>1, <3>1, MovesTo, StandsTyped DEF ProberPcs
  <2> QED BY <1>11, <2>1 DEF HealthTypeOK, WorkTyped, HookFails
<1>12. CASE HookRefused(p)
  <2>1. WorkTyped'
    BY <1>1, <1>12, LeavesTyped, StandsTyped DEF HookRefused, ProberPcs
  <2> QED BY <1>12, <2>1 DEF HealthTypeOK, WorkTyped, HookRefused
<1>13. CASE UseLoss(p)
  <2>1. WorkTyped'
    <3>1. Moves(p, To(p, "disable")) \/ Downgrade(p)
      BY <1>13 DEF UseLoss
    <3> QED BY <1>1, <3>1, MovesTo, DowngradeTyped, StandsTyped DEF ProberPcs
  <2> QED BY <1>13, <2>1 DEF HealthTypeOK, WorkTyped, UseLoss
<1>14. CASE Disable(p)
  <2>1. WorkTyped'
    BY <1>1, <1>14, WritesTyped, LeavesTyped, MovesTo, StandsTyped DEF Disable, ProberPcs
  <2>2. (success > 0) \in BOOLEAN
    OBVIOUS
  <2>3. leftover' \in BOOLEAN
    BY <1>14, <2>2, Zenon DEF Disable, Undamped, HealthTypeOK
  <2> QED BY <1>14, <2>1, <2>3 DEF HealthTypeOK, WorkTyped, Disable, Undamped, Writes, Statuses, Reasons
<1>15. CASE CommitDisable(p)
  <2>1. WorkTyped'
    BY <1>1, <1>15, LeavesTyped, MovesTo, StandsTyped DEF CommitDisable, ProberPcs
  <2>2. (success > 0) \in BOOLEAN
    OBVIOUS
  <2>3. leftover' \in BOOLEAN
    BY <1>15, <2>2, Zenon DEF CommitDisable, Undamped, HealthTypeOK
  <2> QED BY <1>15, <2>1, <2>3 DEF HealthTypeOK, WorkTyped, CommitDisable
<1>16. CASE Reconcile(p)
  <2>1. WorkTyped'
    <3> DEFINE w == [To(p, "again") EXCEPT !.current = TRUE]
    <3>1. To(p, "again") \in Work /\ To(p, "again").pc = "again"
      BY <1>1, ToTyped DEF ProberPcs
    <3>2. w \in Work /\ w.pc = "again"
      BY <3>1 DEF Work
    <3>3. Moves(p, w) \/ Leaves(p)
      BY <1>16 DEF Reconcile
    <3> HIDE DEF w
    <3> QED BY <1>1, <3>2, <3>3, MovesTyped, LeavesTyped, StandsTyped DEF ProberPcs
  <2> QED BY <1>16, <2>1 DEF HealthTypeOK, WorkTyped, Reconcile, Lower
<1>17. CASE DisableAgain(p)
  <2>1. WorkTyped'
    BY <1>1, <1>17, WritesTyped, LeavesTyped, MovesTo, StandsTyped DEF DisableAgain, ProberPcs
  <2>2. (success > 0) \in BOOLEAN
    OBVIOUS
  <2>3. leftover' \in BOOLEAN
    BY <1>17, <2>2, Zenon DEF DisableAgain, Undamped, HealthTypeOK
  <2> QED BY <1>17, <2>1, <2>3 DEF HealthTypeOK, WorkTyped, DisableAgain, Undamped, Writes, Statuses, Reasons
<1>18. CASE MissAgain(p)
  <2>1. WorkTyped'
    BY <1>1, <1>18, LeavesTyped, StandsTyped DEF MissAgain, ProberPcs
  <2> QED BY <1>18, <2>1 DEF HealthTypeOK, WorkTyped, MissAgain, Lower
<1>19. CASE Block(p)
  <2>1. WorkTyped'
    BY <1>1, <1>19, WritesTyped, LeavesTyped, MovesTo, StandsTyped DEF Block, ProberPcs
  <2> QED BY <1>19, <2>1 DEF HealthTypeOK, WorkTyped, Block, Writes, Statuses, Reasons
<1>20. CASE Degrade(p)
  <2>1. WorkTyped'
    BY <1>1, <1>20, WritesTyped, LeavesTyped, MovesTo, StandsTyped DEF Degrade, ProberPcs
  <2> QED BY <1>20, <2>1 DEF HealthTypeOK, WorkTyped, Degrade, Lower, Writes, Statuses, Reasons
<1>21. CASE Promote(p)
  <2>1. WorkTyped'
    BY <1>1, <1>21, WritesTyped, LeavesTyped, MovesTo, StandsTyped DEF Promote, ProberPcs
  <2> QED BY <1>21, <2>1 DEF HealthTypeOK, WorkTyped, Promote, Writes, Statuses, Reasons
<1>22. CASE Settle(p)
  <2>1. WorkTyped'
    BY <1>1, <1>22, LeavesTyped, StandsTyped DEF Settle, ProberPcs
  <2> QED BY <1>22, <2>1 DEF HealthTypeOK, WorkTyped, Settle
<1>23. CASE Notify(p)
  <2>1. WorkTyped'
    BY <1>1, <1>23, LeavesTyped, StandsTyped DEF Notify, ProberPcs
  <2> QED BY <1>23, <2>1 DEF HealthTypeOK, WorkTyped, Notify
<1>24. CASE NotWritten(p)
  <2>1. WorkTyped'
    BY <1>1, <1>24, LeavesTyped, StandsTyped DEF NotWritten, ProberPcs
  <2> QED BY <1>24, <2>1 DEF HealthTypeOK, WorkTyped, NotWritten
<1> QED BY <1>2, <1>3, <1>4, <1>5, <1>6, <1>7, <1>8, <1>9, <1>10, <1>11, <1>12, <1>13, <1>14, <1>15,
         <1>16, <1>17, <1>18, <1>19, <1>20, <1>21, <1>22, <1>23, <1>24 DEF Probe

\* Canaries of all three processes (health_canary_history.go).
LEMMA CanaryTyped ==
  ASSUME HealthTypeOK, NEW p \in Procs, Canary(p)
  PROVE  HealthTypeOK'
<1> USE HealthAssumption
    DEF WorkOnly, counters, canaries, operator, history, damping, row, Fails, MayFail
<1>1. work[p].pc \in (IF p = Healer THEN HealerPcs ELSE ProberPcs) \cup Elsewhere
  BY DEF HealthTypeOK
<1>2. CASE ObserveReply(p)
  <2>1. Moves(p, To(p, Concluded(work[p].pc)))
    BY <1>2 DEF ObserveReply
  <2>2. Concluded(work[p].pc) \in (IF p = Healer THEN HealerPcs ELSE ProberPcs) \cup Elsewhere
    BY <1>1, ElsewhereAssumption, <1>2 DEF ObserveReply, Observing, Concluded, HealerPcs, ProberPcs
  <2>3. WorkTyped'
    BY <2>1, <2>2, MovesTo, StandsTyped
  <2> QED BY <1>2, <2>3 DEF ObserveReply, EndCanary, HealthTypeOK, WorkTyped
<1>3. CASE ObserveLoss(p)
  <2>1. Leaves(p) \/ (p # Healer /\ Moves(p, To(p, "lost")))
    BY <1>3 DEF ObserveLoss, Leaves
  <2>2. WorkTyped'
    BY <2>1, MovesTo, LeavesTyped, StandsTyped DEF HealerPcs, ProberPcs
  <2> QED BY <1>3, <2>2 DEF ObserveLoss, EndCanary, HealthTypeOK, WorkTyped
<1>4. CASE ObserveNothing(p)
  <2>1. WorkTyped'
    BY <1>4, LeavesTyped, StandsTyped DEF ObserveNothing, HealerPcs, ProberPcs
  <2> QED BY <1>4, <2>1 DEF ObserveNothing, EndCanary, HealthTypeOK, WorkTyped
<1>5. CASE UseReply(p)
  <2>1. Leaves(p) \/ \E where \in (IF p = Healer THEN HealerPcs ELSE ProberPcs) \cup Elsewhere : Moves(p, To(p, where))
    BY <1>1, ElsewhereAssumption, <1>5 DEF UseReply, Leaves, At, HealerPcs, ProberPcs
  <2>2. WorkTyped'
    BY <2>1, MovesTo, LeavesTyped, StandsTyped DEF HealerPcs, ProberPcs
  <2> QED BY <1>5, <2>2 DEF UseReply, HealthTypeOK, WorkTyped
<1> QED BY <1>2, <1>3, <1>4, <1>5 DEF Canary

\* What a failed registration leaves behind (backend_enable.go:302-307).
LEMMA DeclareTyped ==
  ASSUME HealthTypeOK, NEW p \in Procs \cup {Nobody}, Declare(p, Rest)
  PROVE  /\ WorkTyped'
         /\ \A q \in Procs : \/ work'[q].pc = "idle" /\ ~work'[q].current
                             \/ ~enabled /\ work'[q] = work[q]
                             \/ ~work'[q].current /\ work'[q].pc = work[q].pc
         /\ status' \in Statuses
<1>1. Rest.pc \in ProberPcs \cap HealerPcs
  BY RestTyped DEF ProberPcs, HealerPcs
<1>2. CASE enabled
  <2>1. status' = "degraded" /\ work' = [q \in Procs |-> IF q = p THEN Rest ELSE Outdated(work[q])]
    BY <1>2 DEF Declare
  <2> QED BY <1>1, <2>1, RestTyped, OutdatedTyped DEF HealthTypeOK, WorkTyped, Statuses
<1>3. CASE ~enabled
  <2>1. status' = status /\ work' = [q \in Procs |-> IF q = p THEN Rest ELSE work[q]]
    BY <1>3 DEF Declare
  <2> QED BY <1>1, <1>3, <2>1, RestTyped DEF HealthTypeOK, WorkTyped
<1> QED BY <1>2, <1>3

\* The healer keeps the types (health_selfheal.go).
LEMMA HealTyped == ASSUME HealthTypeOK, Heal, ~Canary(Healer) PROVE HealthTypeOK'
<1> USE HealthAssumption
    DEF WorkOnly, RowOnly, counters, canaries, operator, history, damping, row, Fails, MayFail
<1>1. Healer \in Procs
  BY DEF Procs
<1>2. CASE Target
  <2> DEFINE w == [Rest EXCEPT !.pc = "target", !.current = TRUE]
  <2>1. w \in Work /\ w.pc = "target"
    BY DEF Rest, Work, HealerPcs, Statuses
  <2>2. Moves(Healer, w)
    BY <1>2 DEF Target
  <2> HIDE DEF w
  <2>3. WorkTyped'
    BY <1>1, <2>1, <2>2, MovesTyped, StandsTyped DEF HealerPcs
  <2> QED BY <1>2, <2>3 DEF Target, HealthTypeOK, WorkTyped
<1>3. CASE HealProbeFails
  <2>1. WorkTyped'
    BY <1>1, <1>3, LeavesTyped, StandsTyped DEF HealProbeFails, HealerPcs
  <2> QED BY <1>3, <2>1 DEF HealProbeFails, HealthTypeOK, WorkTyped
<1>4. CASE HealProbeSucceeds \/ HealProbeIsSlow
  <2> DEFINE Proved(quick) == [To(Healer, "proved") EXCEPT !.slow = ~quick]
  <2>1. To(Healer, "proved") \in Work /\ To(Healer, "proved").pc = "proved"
    BY <1>1, ToTyped DEF HealerPcs
  <2>2. \A quick \in BOOLEAN : Proved(quick) \in Work /\ Proved(quick).pc = "proved"
    BY <2>1 DEF Work
  <2>3. PICK quick \in BOOLEAN : Moves(Healer, Proved(quick)) \/ Leaves(Healer)
    BY <1>4, Zenon DEF HealProbeSucceeds, HealProbeIsSlow, Damp, Leaves
  <2> HIDE DEF Proved
  <2>4. WorkTyped'
    BY <1>1, <2>2, <2>3, MovesTyped, LeavesTyped, StandsTyped DEF HealerPcs
  <2>5. /\ success' \in Nat /\ proofs' \in Nat /\ faults' \in 0..MaxFaults
        /\ UNCHANGED <<row, attached, operator, failCount, canaryFail, canaries, streak, leftover>>
    BY <1>4 DEF HealProbeSucceeds, HealProbeIsSlow, Damp, HealthTypeOK
  <2> QED BY <2>4, <2>5 DEF HealthTypeOK, WorkTyped
<1>5. CASE StartHook
  <2>1. To(Healer, "hooking") \in Work /\ To(Healer, "hooking").pc = "hooking"
    BY <1>1, ToTyped DEF HealerPcs
  <2>2. WorkTyped'
    BY <1>1, <1>5, <2>1, MovesTo, LeavesTyped, OutdatedTyped, RewritesTyped, StandsTyped
       DEF StartHook, HealerPcs
  <2>3. changes' \in 0..MaxChanges
    BY <1>5, HealthAssumption DEF StartHook, Begins, HealthTypeOK
  <2> QED BY <1>5, <2>2, <2>3 DEF StartHook, HealthTypeOK, WorkTyped
<1>6. CASE HookEnds
  <2>1. WorkTyped'
    BY <1>1, <1>6, MovesTo, StandsTyped DEF HookEnds, HealerPcs
  <2> QED BY <1>6, <2>1 DEF HookEnds, ResetFailCount, HealthTypeOK, WorkTyped
<1>7. CASE HookAborts
  <2>1. WorkTyped'
    BY <1>1, <1>7, LeavesTyped, StandsTyped DEF HookAborts, HealerPcs
  <2> QED BY <1>7, <2>1 DEF HookAborts, HealthTypeOK, WorkTyped
<1>8. CASE HookNotRegistered
  BY <1>1, <1>8, DeclareTyped DEF HookNotRegistered, Declare, HealthTypeOK, WorkTyped
<1>9. CASE Recovered
  <2>1. WorkTyped'
    BY <1>1, <1>9, MovesTo, OvertakenTyped, LeavesTyped, StandsTyped DEF Recovered, BeginCanary, HealerPcs
  <2> QED BY <1>9, <2>1 DEF Recovered, BeginCanary, HealthTypeOK, WorkTyped
<1>10. CASE Revive
  <2>1. PICK st \in {"degraded", "active"} : Writes(Healer, st, "none", "clear") \/ (Leaves(Healer) /\ UNCHANGED row)
    BY <1>10 DEF Revive
  <2>2. WorkTyped'
    BY <1>1, <2>1, WritesTyped, LeavesTyped, StandsTyped DEF HealerPcs
  <2> QED BY <1>10, <2>1, <2>2 DEF Revive, Writes, Statuses, Reasons, HealthTypeOK, WorkTyped
<1>11. CASE Clear
  <2>1. WorkTyped'
    BY <1>1, <1>11, LeavesTyped, StandsTyped DEF Clear, HealerPcs
  <2> QED BY <1>11, <2>1 DEF Clear, HealthTypeOK, WorkTyped
<1>12. CASE NotWritten(Healer)
  <2>1. WorkTyped'
    BY <1>1, <1>12, LeavesTyped, StandsTyped DEF NotWritten, HealerPcs
  <2> QED BY <1>12, <2>1 DEF NotWritten, HealthTypeOK, WorkTyped
<1> QED BY <1>2, <1>3, <1>4, <1>5, <1>6, <1>7, <1>8, <1>9, <1>10, <1>11, <1>12 DEF Heal

\* What everybody read is out of date, or an enable under way is fenced off.
LEMMA ShiftTyped ==
  ASSUME HealthTypeOK,
         work' \in [Procs -> Work],
         \A q \in Procs : work'[q].pc = work[q].pc \/ (work[q].pc = "hooking" /\ work'[q].pc = "fenced")
  PROVE  WorkTyped'
<1>1. "hooking" \notin ProberPcs \cup Elsewhere /\ "fenced" \in HealerPcs
  BY ElsewhereAssumption DEF ProberPcs, HealerPcs
<1> QED BY <1>1 DEF HealthTypeOK, WorkTyped

\* Every process stays well typed when its backend is moved or changed.
LEMMA ShiftsTyped ==
  ASSUME HealthTypeOK, NEW q \in Procs
  PROVE  /\ work[q] \in Work /\ Outdated(work[q]) \in Work
         /\ Fenced(work[q]) \in Work /\ Fenced(Outdated(work[q])) \in Work
         /\ Outdated(work[q]).pc = work[q].pc
         /\ \A w \in {work[q], Outdated(work[q])} :
              Fenced(w).pc = work[q].pc \/ (work[q].pc = "hooking" /\ Fenced(w).pc = "fenced")
<1>1. work[q] \in Work
  BY DEF HealthTypeOK
<1> QED BY <1>1, OutdatedTyped, FencedTyped

\* The administrator keeps the types (backend_enable.go, backend_lifecycle.go).
LEMMA AdministerTyped == ASSUME HealthTypeOK, Administer PROVE HealthTypeOK'
<1> USE HealthAssumption
    DEF counters, canaries, operator, history, damping, row, Fails, MayFail, Begins
<1>1. CASE DisableBackend
  <2>1. WorkTyped'
    BY <1>1, ShiftsTyped, ShiftTyped DEF DisableBackend
  <2>2. admin' \in {"idle", "enabling", "fenced", "moved"} /\ reason' \in Reasons
    BY <1>1 DEF DisableBackend, EnableFenced, Provenance, Reasons, HealthTypeOK
  <2>3. enabled' \in BOOLEAN /\ attached' \in BOOLEAN /\ halfEnabled' \in BOOLEAN
    BY <1>1, Zenon DEF DisableBackend
  <2> QED BY <1>1, <2>1, <2>2, <2>3 DEF DisableBackend, HealthTypeOK, WorkTyped
<1>2. CASE EnableBackend
  BY <1>2 DEF EnableBackend, HealthTypeOK
<1>3. CASE EnableNotRegistered
  BY <1>3, DeclareTyped DEF EnableNotRegistered, Declare, HealthTypeOK, WorkTyped
<1>4. CASE EnableAborts
  BY <1>4 DEF EnableAborts, HealthTypeOK
<1>5. CASE FinishEnableBackend
  <2>1. WorkTyped'
    BY <1>5, ShiftsTyped, ShiftTyped DEF FinishEnableBackend, HealthTypeOK
  <2>2. enabled' \in BOOLEAN /\ halfEnabled' \in BOOLEAN
    BY <1>5, Zenon DEF FinishEnableBackend, HealthTypeOK
  <2>3. status' \in Statuses /\ reason' \in Reasons /\ streak' \in Nat /\ faults' \in 0..MaxFaults
    BY <1>5 DEF FinishEnableBackend, Provenance, Statuses, Reasons, HealthTypeOK
  <2> QED BY <1>5, <2>1, <2>2, <2>3 DEF FinishEnableBackend, ResetFailCount, HealthTypeOK, WorkTyped
<1>6. CASE MoveBackend
  <2>1. WorkTyped'
    BY <1>6, ShiftsTyped, ShiftTyped DEF MoveBackend
  <2> QED BY <1>6, <2>1 DEF MoveBackend, HealthTypeOK, WorkTyped
<1>7. CASE SyncDevice
  <2>1. WorkTyped'
    BY <1>7, ShiftsTyped, ShiftTyped DEF SyncDevice, HealthTypeOK
  <2>2. (attached \/ status \in {"active", "degraded"}) \in BOOLEAN
    OBVIOUS
  <2>3. attached' \in BOOLEAN
    BY <1>7, <2>2, Zenon DEF SyncDevice, HealthTypeOK
  <2> QED BY <1>7, <2>1, <2>3 DEF SyncDevice, ResetFailCount, Statuses, HealthTypeOK, WorkTyped
<1>8. CASE Restart
  <2>1. WorkTyped'
    BY <1>8, RestTyped DEF Restart, WorkTyped, HealerPcs, ProberPcs
  <2>2. attached' \in BOOLEAN /\ halfEnabled' \in BOOLEAN /\ leftover' \in BOOLEAN
    BY <1>8, Zenon DEF Restart
  <2> QED BY <1>8, <2>1, <2>2 DEF Restart, StartupHealth, Statuses, Reasons, HealthTypeOK, WorkTyped
<1> QED BY <1>1, <1>2, <1>3, <1>4, <1>5, <1>6, <1>7, <1>8 DEF Administer

\* So does the scheduler (vpn_tasks.go:32-355).
LEMMA CheckTyped == ASSUME HealthTypeOK, Check PROVE HealthTypeOK'
<1> USE HealthAssumption DEF Checks, Available, Begins, Fails, MayFail, Observes, row, counters, canaries,
        history, damping
<1>1. ASSUME NEW st \in Statuses, Reports(st) PROVE WorkTyped' /\ status' \in Statuses /\ reason' \in Reasons
  BY <1>1, ShiftsTyped, ShiftTyped DEF Reports, Reasons, HealthTypeOK
<1>2. CASE CheckAttaches
  BY <1>2 DEF CheckAttaches, HealthTypeOK
<1>3. CASE CheckPromotes
  <2>1. "active" \in Statuses /\ Reports("active") /\ enabled' = enabled
    BY <1>3 DEF CheckPromotes, Reports, Statuses
  <2> QED BY <1>1, <1>3, <2>1 DEF CheckPromotes, HealthTypeOK, WorkTyped
<1>4. CASE CheckDowngrades
  <2>1. PICK st \in {"degraded", "handshake_blocked"} : Reports(st)
    BY <1>4 DEF CheckDowngrades
  <2>2. st \in Statuses /\ enabled' = enabled
    BY <2>1 DEF Reports, Statuses
  <2>3. canaryFail' \in Nat /\ latest' \in Procs \cup {Nobody} /\ UNCHANGED <<ahead, late>>
    BY <1>4 DEF CheckDowngrades, HealthTypeOK
  <2> QED BY <1>1, <1>4, <2>1, <2>2, <2>3 DEF CheckDowngrades, HealthTypeOK, WorkTyped
<1>5. CASE CheckLoses
  <2>1. PICK st \in {"degraded", "handshake_blocked"} : Reports(st)
    BY <1>5 DEF CheckLoses
  <2>2. st \in Statuses /\ enabled' = enabled
    BY <2>1 DEF Reports, Statuses
  <2> QED BY <1>1, <1>5, <2>1, <2>2 DEF CheckLoses, HealthTypeOK, WorkTyped
<1>6. CASE CheckMisses
  <2>1. late' \subseteq Procs
    BY <1>6 DEF CheckMisses, HealthTypeOK
  <2>2. canaryFail' \in Nat /\ streak' \in Nat /\ faults' \in 0..MaxFaults /\ latest' = Nobody
        /\ UNCHANGED ahead
    BY <1>6 DEF CheckMisses, HealthTypeOK
  <2> QED BY <1>6, <2>1, <2>2 DEF CheckMisses, HealthTypeOK
<1> QED BY <1>2, <1>3, <1>4, <1>5, <1>6 DEF Check

\* Every step keeps the types.
LEMMA StepHealthTyped == HealthTypeOK /\ [HealthNext]_vars => HealthTypeOK'
<1> SUFFICES ASSUME HealthTypeOK, [HealthNext]_vars PROVE HealthTypeOK' OBVIOUS
<1>1. CASE UNCHANGED vars
  BY <1>1 DEF vars, row, counters, canaries, operator, damping, history, HealthTypeOK
<1>2. ASSUME NEW p \in Probers, Probe(p) \/ Notify(p) PROVE HealthTypeOK'
  BY <1>2, ProbeTyped, CanaryTyped DEF Procs
<1>3. CASE Heal
  BY <1>3, HealTyped, CanaryTyped DEF Procs
<1> QED BY <1>1, <1>2, <1>3, CheckTyped, AdministerTyped DEF HealthNext

\* Every variable keeps the shape of what it stands for (health.go, pool.go).
THEOREM HealthTypes == HealthSpec => []HealthTypeOK
  BY InitHealthTyped, StepHealthTyped, PTL DEF HealthSpec

-----------------------------------------------------------------------------
(* What holds of the row, the device and the counters.                      *)

\* Where a process relies on a device, and where the healer on its proofs.
NeedsDevice(w) ==
    \/ w.pc \in {"verifying", "verified", "recovered", "healing", "healed", "revive"}
    \/ w.pc = "promote" /\ ~w.slow

Recovering(w) == w.pc \in {"recovered", "healing", "healed", "revive"}
Damped(w) == w.pc \in {"proved", "hooking"} \/ Recovering(w)

\* What a process holds whose version is the pool's (health.go:258-288).
ProberFits(w) ==
    /\ enabled
    /\ NeedsDevice(w) => attached
    /\ status = "disabled" => w.pc \in {"again", "commit", "notify"} \cup Elsewhere
    /\ w.pc \in {"disable", "again"} => streak >= FailureThreshold

HealerFits(w) ==
    /\ enabled
    /\ NeedsDevice(w) => attached
    /\ w.pc \notin {"overtaken", "missed", "clear"} => status = "disabled"
    /\ Recovering(w) => failCount = 0 /\ canaryFail = 0
    /\ Damped(w) => leftover \/ proofs >= SelfHealingThreshold

Fits(p) == Current(p) => IF p = Healer THEN HealerFits(work[p]) ELSE ProberFits(work[p])

\* No counter holds more than was observed (health.go:654-680).
Counted == failCount <= streak /\ canaryFail <= streak
Proven == leftover \/ success <= proofs \/ proofs >= SelfHealingThreshold

\* A disabled backend says why (pool.go:418-452).
DisabledWhy == ~enabled => reason # "none"

Sound ==
    /\ Counted /\ Proven /\ DisabledWhy
    /\ RecoverableWhenDisabled /\ DisabledIsDetached /\ ActiveIsAttached
    /\ \A p \in Procs : Fits(p)

\* It holds at first.
LEMMA InitSound == HealthInit => Sound
<1> SUFFICES ASSUME HealthInit PROVE Sound OBVIOUS
<1>1. Counted /\ Proven
  BY DEF HealthInit, Counted, Proven
<1>2. DisabledWhy /\ RecoverableWhenDisabled /\ DisabledIsDetached /\ ActiveIsAttached
  BY DEF HealthInit, DisabledWhy, RecoverableWhenDisabled, DisabledIsDetached, ActiveIsAttached
<1>3. \A p \in Procs : Fits(p)
  BY RestTyped DEF HealthInit, Fits, Current
<1> QED BY <1>1, <1>2, <1>3 DEF Sound

\* A step of p that leaves row and device alone and counts nothing.
LEMMA QuietSound ==
  ASSUME HealthTypeOK, HealthTypeOK', Sound, NEW p \in Procs, Alone(p),
         UNCHANGED <<enabled, status, reason, attached, halfEnabled, streak, proofs, leftover>>,
         failCount' <= failCount, canaryFail' <= canaryFail, success' <= success,
         work'[p].current => IF p = Healer THEN HealerFits(work'[p]) ELSE ProberFits(work'[p])
  PROVE  Sound'
<1>1. Counted' /\ Proven'
  BY DEF HealthTypeOK, Sound, Counted, Proven
<1>2. DisabledWhy' /\ RecoverableWhenDisabled' /\ DisabledIsDetached' /\ ActiveIsAttached'
  BY DEF Sound, DisabledWhy, RecoverableWhenDisabled, DisabledIsDetached, ActiveIsAttached
<1>3. Fits(p)'
  BY DEF HealthTypeOK, Fits, Current, ProberFits, HealerFits
<1>4. ASSUME NEW q \in Procs, q # p PROVE Fits(q)'
  <2>1. work'[q] = work[q] /\ Fits(q)
    BY <1>4 DEF Alone, Sound
  <2> QED BY <2>1 DEF HealthTypeOK, Fits, Current, ProberFits, HealerFits
<1> QED BY <1>1, <1>2, <1>3, <1>4 DEF Sound

\* A write of p outdates what the others read (pool.go:470-504).
LEMMA WrittenSound ==
  ASSUME HealthTypeOK, Sound, NEW p \in Procs, Outdates(p),
         enabled, UNCHANGED <<enabled, attached, halfEnabled>>,
         status' = "disabled" => reason' = "health",
         status' = "active" => attached,
         Counted', Proven', Fits(p)'
  PROVE  Sound'
<1>1. DisabledWhy' /\ RecoverableWhenDisabled' /\ DisabledIsDetached' /\ ActiveIsAttached'
  BY DEF Sound, DisabledWhy, RecoverableWhenDisabled, DisabledIsDetached, ActiveIsAttached
<1>2. \A q \in Procs : q # p => Fits(q)'
  BY DEF Outdates, Fits, Current
<1> QED BY <1>1, <1>2 DEF Sound

\* A failure is counted on both sides (health.go:654-680, health.go:819-922).
LEMMA Counting ==
  ASSUME HealthTypeOK, HealthTypeOK', Sound, NEW p \in Probers, Alone(p), Current(p),
         work[p].pc \notin {"again", "commit", "notify"} \cup Elsewhere, ~NeedsDevice(work'[p]),
         work'[p].pc \in {"disable", "again"} => failCount' >= FailureThreshold \/ streak' >= FailureThreshold,
         failCount' <= failCount + 1, canaryFail' <= canaryFail + 1, streak' = streak + 1,
         UNCHANGED <<enabled, status, reason, attached, halfEnabled, success, proofs, leftover>>
  PROVE  Sound'
<1>1. p \in Procs /\ p # Healer
  BY HealthAssumption DEF Procs
<1>2. enabled /\ status # "disabled"
  BY <1>1 DEF Sound, Fits, ProberFits
<1>3. Counted' /\ Proven'
  BY DEF HealthTypeOK, Sound, Counted, Proven
<1>4. DisabledWhy' /\ RecoverableWhenDisabled' /\ DisabledIsDetached' /\ ActiveIsAttached'
  BY DEF Sound, DisabledWhy, RecoverableWhenDisabled, DisabledIsDetached, ActiveIsAttached
<1>5. FailureThreshold \in Nat /\ failCount' \in Nat /\ streak' \in Nat /\ streak \in Nat
  BY HealthAssumption DEF HealthTypeOK
<1>6. Fits(p)'
  BY <1>1, <1>2, <1>3, <1>5 DEF Fits, ProberFits, NeedsDevice, Counted
<1>7. ASSUME NEW q \in Procs, q # p PROVE Fits(q)'
  <2>1. work'[q] = work[q] /\ Fits(q)
    BY <1>7 DEF Alone, Sound
  <2> QED BY <1>2, <1>5, <2>1, HealthAssumption DEF Fits, Current, ProberFits, HealerFits, Recovering,
           Damped, NeedsDevice
<1> QED BY <1>3, <1>4, <1>6, <1>7 DEF Sound

\* A threshold disable (health.go:552-650, health.go:739-783).
LEMMA DisablesSound ==
  ASSUME HealthTypeOK, Sound, NEW p \in Probers, Writes(p, "disabled", "health", "commit"), Undamped,
         UNCHANGED <<attached, halfEnabled, failCount, canaryFail, success, streak>>
  PROVE  Sound'
<1>1. p \in Procs /\ p # Healer
  BY HealthAssumption DEF Procs
<1>2. /\ Outdates(p) /\ work'[p].pc = "commit" /\ work[p].current
      /\ status' = "disabled" /\ reason' = "health" /\ enabled' = enabled
  BY <1>1, WritesTyped DEF ProberPcs
<1>3. enabled
  BY <1>1, <1>2 DEF Sound, Fits, Current, ProberFits
<1>4. Counted'
  BY DEF Sound, Counted
<1>5. Proven'
  <2>1. success > 0 => leftover'
    BY Zenon DEF Undamped
  <2>2. proofs' = 0 /\ success' = success /\ success \in Nat
    BY DEF Undamped, HealthTypeOK
  <2> QED BY <2>1, <2>2 DEF Proven
<1>6. Fits(p)'
  BY <1>1, <1>2, <1>3 DEF Fits, ProberFits, NeedsDevice
<1> QED BY <1>1, <1>2, <1>3, <1>4, <1>5, <1>6, WrittenSound

\* A device is attached to an enabled backend only (vpn_backend_attach.go:33-134).
LEMMA AttachedSound ==
  ASSUME HealthTypeOK, HealthTypeOK', Sound, NEW p \in Procs, Alone(p), enabled, attached',
         UNCHANGED <<enabled, status, reason, halfEnabled, streak, proofs, leftover>>,
         failCount' <= failCount, canaryFail' <= canaryFail, success' <= success,
         Fits(p)'
  PROVE  Sound'
<1>1. Counted' /\ Proven'
  BY DEF HealthTypeOK, Sound, Counted, Proven
<1>2. DisabledWhy' /\ RecoverableWhenDisabled' /\ DisabledIsDetached' /\ ActiveIsAttached'
  BY DEF Sound, DisabledWhy, RecoverableWhenDisabled, DisabledIsDetached, ActiveIsAttached
<1>3. ASSUME NEW q \in Procs, q # p PROVE Fits(q)'
  <2>1. work'[q] = work[q] /\ Fits(q)
    BY <1>3 DEF Alone, Sound
  <2> QED BY <2>1 DEF HealthTypeOK, Fits, Current, ProberFits, HealerFits
<1> QED BY <1>1, <1>2, <1>3 DEF Sound

\* A probe keeps it so (health.go:258-922).
LEMMA ProbeSound ==
  ASSUME HealthTypeOK, HealthTypeOK', Sound, NEW p \in Probers, Probe(p) \/ Notify(p), ~Canary(p)
  PROVE  Sound'
<1> USE DEF WorkOnly, RowOnly, counters, canaries, operator, history, damping, row
<1>1. p \in Procs /\ p # Healer
  BY HealthAssumption DEF Procs
<1>2. Current(p) => ProberFits(work[p])
  BY <1>1 DEF Sound, Fits
<1>3. failCount \in Nat /\ canaryFail \in Nat /\ success \in Nat /\ Lower(failCount) <= failCount
  BY DEF HealthTypeOK, Lower
<1>4. ASSUME Leaves(p), UNCHANGED <<enabled, status, reason, attached, halfEnabled, streak, proofs, leftover>>,
             failCount' <= failCount, canaryFail' <= canaryFail, success' <= success
      PROVE  Sound'
  BY <1>1, <1>4, LeavesTyped, QuietSound
<1>5. ASSUME Alone(p), UNCHANGED <<enabled, status, reason, attached, halfEnabled, streak, proofs, leftover>>,
             failCount' <= failCount, canaryFail' <= canaryFail, success' <= success,
             work'[p].current => ProberFits(work'[p])
      PROVE  Sound'
  BY <1>1, <1>5, QuietSound
<1>6. CASE List(p)
  <2>1. Moves(p, [Rest EXCEPT !.pc = "listed", !.blocked = (status = "handshake_blocked")])
    BY <1>6 DEF List
  <2>2. ~work'[p].current /\ Alone(p)
    BY <1>1, <2>1 DEF Moves, Rest, HealthTypeOK, Alone
  <2> QED BY <1>3, <1>5, <1>6, <2>2 DEF List
<1>7. CASE Snapshot(p)
  <2>1. CASE Available
    <3>1. /\ Alone(p) /\ work'[p].pc = "probing" /\ work' \in [Procs -> Work]
      BY <1>1, <1>7, <2>1 DEF Snapshot, To, Moves, HealthTypeOK, Alone, Work
    <3>2. ProberFits(work'[p])
      BY <2>1, <3>1 DEF Available, ProberFits, NeedsDevice
    <3> QED BY <1>3, <1>5, <1>7, <3>1, <3>2 DEF Snapshot
  <2>2. CASE ~Available
    BY <1>3, <1>4, <1>7, <2>2 DEF Snapshot, Leaves
  <2> QED BY <2>1, <2>2
<1>8. CASE Superseded(p)
  BY <1>3, <1>4, <1>8 DEF Superseded
<1>9. CASE ProbeFails(p)
  <2>1. Alone(p) /\ work'[p].pc = "failed" /\ work'[p].current = work[p].current /\ work[p].pc # "failed"
    BY <1>1, <1>9, MovesTo DEF ProbeFails, At, ProberPcs
  <2>2. work'[p].current => ProberFits(work'[p])
    BY <1>2, ElsewhereAssumption, <1>9, <2>1 DEF ProbeFails, At, Current, ProberFits, NeedsDevice, ProberPcs
  <2> QED BY <1>3, <1>5, <1>9, <2>1, <2>2 DEF ProbeFails
<1>10. CASE ProbeSucceeds(p)
  <2>1. Alone(p) /\ work'[p].pc = "hook" /\ work'[p].current = work[p].current /\ work[p].pc # "hook"
    BY <1>1, <1>10, MovesTo DEF ProbeSucceeds, At, ProberPcs
  <2>2. work'[p].current => ProberFits(work'[p])
    BY <1>2, ElsewhereAssumption, <1>10, <2>1 DEF ProbeSucceeds, At, Current, ProberFits, NeedsDevice, ProberPcs
  <2> QED BY <1>3, <1>5, <1>10, <2>1, <2>2 DEF ProbeSucceeds
<1>11. CASE ProbeIsSlow(p)
  <2> DEFINE w == [work[p] EXCEPT !.slow = TRUE]
  <2>1. CASE Leaves(p)
    BY <1>3, <1>4, <1>11, <2>1 DEF ProbeIsSlow
  <2>2. ASSUME NEW where \in {"promote", "verifying"}, where = "verifying" => attached,
               Moves(p, [w EXCEPT !.pc = where])
        PROVE  Sound'
    <3>1. work[p] \in Work
      BY <1>1 DEF HealthTypeOK
    <3>2. Alone(p) /\ work'[p].pc = where /\ work'[p].slow /\ work'[p].current = work[p].current
      BY <1>1, <2>2, <3>1 DEF Moves, HealthTypeOK, Alone, Work
    <3>3. work'[p].current => ProberFits(work'[p])
      BY <1>2, ElsewhereAssumption, <1>11, <2>2, <3>2 DEF ProbeIsSlow, At, Current, ProberFits, NeedsDevice, ProberPcs
    <3> QED BY <1>3, <1>5, <1>11, <3>2, <3>3 DEF ProbeIsSlow
  <2> QED BY <1>11, <2>1, <2>2 DEF ProbeIsSlow, BeginCanary
<1>12. CASE CountFailure(p)
  <2>1. /\ Current(p) /\ work[p].pc = "failed" /\ failCount' = failCount + 1 /\ streak' = streak + 1
        /\ UNCHANGED <<row, attached, halfEnabled, canaryFail, success, proofs, leftover>>
    BY <1>12 DEF CountFailure, At
  <2>2. /\ Alone(p) /\ work'[p].pc \in {"confirming", "disable", "idle", "block", "degrade"}
        /\ work'[p].pc = "disable" => failCount' >= FailureThreshold
    <3>1. \/ Moves(p, To(p, "confirming")) \/ Downgrade(p)
          \/ Moves(p, To(p, "disable")) /\ failCount' >= FailureThreshold
      BY <1>12 DEF CountFailure, BeginCanary
    <3> QED BY <1>1, <3>1, MovesTo, DowngradeTyped DEF ProberPcs
  <2> QED BY <1>3, <2>1, <2>2, Counting, ElsewhereAssumption DEF ProberPcs, NeedsDevice
<1>13. CASE DropFailure(p)
  BY <1>3, <1>4, <1>13 DEF DropFailure, HealthTypeOK
<1>14. CASE Hook(p)
  <2>1. /\ Current(p) /\ work[p].pc = "hook" /\ attached'
        /\ UNCHANGED <<enabled, status, reason, halfEnabled, counters, history>>
    BY <1>14 DEF Hook, At
  <2>2. Alone(p) /\ work'[p].pc = "verifying"
    BY <1>1, <1>14, MovesTo DEF Hook, BeginCanary, ProberPcs
  <2>3. enabled /\ Fits(p)'
    BY ElsewhereAssumption, <1>1, <1>2, <2>1, <2>2 DEF Fits, ProberFits, NeedsDevice, ProberPcs
  <2> QED BY <1>1, <1>3, <2>1, <2>2, <2>3, AttachedSound
<1>15. CASE HookFails(p)
  <2>1. /\ Current(p) /\ work[p].pc = "hook" /\ failCount' = failCount + 1 /\ streak' = streak + 1
        /\ UNCHANGED <<row, attached, halfEnabled, canaryFail, success, proofs, leftover>>
    BY <1>15 DEF HookFails, At
  <2>2. /\ Alone(p) /\ work'[p].pc \in {"disable", "redegrade"}
        /\ work'[p].pc = "disable" => failCount' >= FailureThreshold
    <3>1. \/ Moves(p, To(p, "redegrade"))
          \/ Moves(p, To(p, "disable")) /\ failCount' >= FailureThreshold
      BY <1>15 DEF HookFails
    <3> QED BY <1>1, <3>1, MovesTo DEF ProberPcs
  <2> QED BY <1>3, <2>1, <2>2, Counting, ElsewhereAssumption DEF ProberPcs, NeedsDevice
<1>16. CASE HookRefused(p)
  BY <1>3, <1>4, <1>16 DEF HookRefused, HealthTypeOK
<1>17. CASE UseLoss(p)
  <2>1. /\ Alone(p) /\ work'[p].pc \in {"disable", "idle", "block", "degrade"}
        /\ work'[p].current => work[p].current
        /\ work'[p].pc = "disable" => canaryFail >= FailureThreshold
    <3>1. Downgrade(p) \/ (Moves(p, To(p, "disable")) /\ canaryFail >= FailureThreshold)
      BY <1>17 DEF UseLoss
    <3> QED BY <1>1, <3>1, MovesTo, DowngradeTyped DEF ProberPcs
  <2>2. canaryFail <= streak /\ canaryFail \in Nat /\ streak \in Nat /\ FailureThreshold \in Nat
    BY HealthAssumption DEF Sound, Counted, HealthTypeOK
  <2>3. work'[p].current => ProberFits(work'[p])
    BY <1>2, ElsewhereAssumption, <1>17, <2>1, <2>2 DEF UseLoss, At, Current, ProberFits, NeedsDevice, ProberPcs
  <2> QED BY <1>3, <1>5, <1>17, <2>1, <2>3 DEF UseLoss
<1>18. CASE Disable(p)
  <2>1. CASE ~Current(p)
    <3>1. Moves(p, To(p, "reconcile")) /\ UNCHANGED <<row, damping>>
      BY <1>18, <2>1 DEF Disable, Writes
    <3>2. Alone(p) /\ ~work'[p].current
      BY <1>1, <2>1, <3>1, MovesTo DEF Current, ProberPcs
    <3> QED BY <1>3, <1>5, <1>18, <3>1, <3>2 DEF Disable
  <2>2. CASE Current(p)
    <3>1. Writes(p, "disabled", "health", "commit") /\ Undamped
      BY <1>18, <2>2 DEF Disable
    <3> QED BY <1>1, <1>18, <3>1, DisablesSound DEF Disable
  <2> QED BY <2>1, <2>2
<1>19. CASE CommitDisable(p)
  <2>1. /\ Current(p) /\ work[p].pc = "commit" /\ success' = 0
        /\ UNCHANGED <<row, attached, halfEnabled, failCount, canaryFail, streak>>
        /\ \/ work[Healer].pc \in {"idle", "target"} /\ proofs' = 0 /\ leftover' = FALSE
           \/ UNCHANGED <<proofs, leftover>>
    BY <1>19 DEF CommitDisable, At
  <2>2. Alone(p) /\ work'[p].pc = "notify"
    BY <1>1, <1>19, MovesTo DEF CommitDisable, ProberPcs
  <2>3. Counted' /\ Proven'
    BY <2>1 DEF Sound, Counted, Proven, HealthTypeOK
  <2>4. DisabledWhy' /\ RecoverableWhenDisabled' /\ DisabledIsDetached' /\ ActiveIsAttached'
    BY <2>1 DEF Sound, DisabledWhy, RecoverableWhenDisabled, DisabledIsDetached, ActiveIsAttached
  <2>5. Fits(p)'
    BY <1>1, <1>2, <2>1, <2>2 DEF Fits, ProberFits, NeedsDevice
  <2>6. ASSUME NEW q \in Procs, q # p PROVE Fits(q)'
    <3>1. work'[q] = work[q] /\ Fits(q)
      BY <2>2, <2>6 DEF Alone, Sound
    <3> QED BY <2>1, <3>1 DEF Fits, Current, ProberFits, HealerFits, Damped, Recovering
  <2> QED BY <2>3, <2>4, <2>5, <2>6 DEF Sound
<1>20. CASE Reconcile(p)
  <2>1. CASE Leaves(p)
    BY <1>3, <1>4, <1>20, <2>1 DEF Reconcile, HealthTypeOK
  <2>2. CASE ~Leaves(p)
    <3> DEFINE w == [To(p, "again") EXCEPT !.current = TRUE]
    <3>1. /\ Moves(p, w) /\ enabled /\ failCount >= FailureThreshold
          /\ UNCHANGED <<failCount, success>>
      BY <1>20, <2>2 DEF Reconcile
    <3>2. To(p, "again") \in Work /\ To(p, "again").pc = "again"
      BY <1>1, ToTyped DEF ProberPcs
    <3>3. w \in Work /\ w.pc = "again"
      BY <3>2 DEF Work
    <3> HIDE DEF w
    <3>4. Alone(p) /\ work'[p].pc = "again"
      BY <1>1, <3>1, <3>3, MovesTyped
    <3>5. streak >= FailureThreshold
      BY <3>1, HealthAssumption DEF Sound, Counted, HealthTypeOK
    <3>6. ProberFits(work'[p])
      BY <3>1, <3>4, <3>5 DEF ProberFits, NeedsDevice
    <3> QED BY <1>3, <1>5, <1>20, <3>1, <3>4, <3>6 DEF Reconcile
  <2> QED BY <2>1, <2>2
<1>21. CASE DisableAgain(p)
  BY <1>1, <1>21, DisablesSound DEF DisableAgain
<1>22. CASE MissAgain(p)
  BY <1>3, <1>4, <1>22 DEF MissAgain, HealthTypeOK
<1>23. CASE Block(p)
  <2>1. CASE ~Current(p)
    BY <1>3, <1>4, <1>23, <2>1 DEF Block, Writes, HealthTypeOK
  <2>2. CASE Current(p)
    <3>1. Writes(p, "handshake_blocked", "none", "idle") /\ success' \in {0, success} /\ failCount' = failCount
      BY <1>23, <2>2 DEF Block
    <3>2. enabled
      BY <1>2, <2>2 DEF ProberFits
    <3>3. Outdates(p) /\ ~work'[p].current /\ enabled' = enabled
      BY <1>1, <3>1, WritesTyped DEF ProberPcs
    <3>4. status' \notin {"disabled", "active"}
      BY <3>1 DEF Writes
    <3>5. Counted' /\ Proven' /\ Fits(p)'
      BY <1>23, <3>1, <3>3 DEF Block, Sound, Counted, Proven, Fits, Current, HealthTypeOK
    <3> QED BY <1>1, <1>23, <3>2, <3>3, <3>4, <3>5, WrittenSound DEF Block
  <2> QED BY <2>1, <2>2
<1>24. CASE Degrade(p)
  <2>1. CASE ~Current(p)
    BY <1>3, <1>4, <1>24, <2>1 DEF Degrade, Writes, HealthTypeOK
  <2>2. CASE Current(p)
    <3>1. Writes(p, "degraded", reason, "idle") /\ success' \in {0, success} /\ failCount' = failCount
      BY <1>24, <2>2 DEF Degrade
    <3>2. enabled
      BY <1>2, <2>2 DEF ProberFits
    <3>3. Outdates(p) /\ ~work'[p].current /\ enabled' = enabled
      BY <1>1, <3>1, WritesTyped DEF ProberPcs
    <3>4. status' \notin {"disabled", "active"}
      BY <3>1 DEF Writes
    <3>5. Counted' /\ Proven' /\ Fits(p)'
      BY <1>24, <3>1, <3>3 DEF Degrade, Sound, Counted, Proven, Fits, Current, HealthTypeOK
    <3> QED BY <1>1, <1>24, <3>2, <3>3, <3>4, <3>5, WrittenSound DEF Degrade
  <2> QED BY <2>1, <2>2
<1>25. CASE Promote(p)
  <2>1. PICK st \in {"degraded", "active"}, rs \in Reasons :
          Writes(p, st, rs, "settle") /\ (st = "active" => ~work[p].slow)
    BY <1>25 DEF Promote, Reasons, HealthTypeOK
  <2>2. /\ Outdates(p) /\ work'[p].pc = "settle" /\ Current(p)
        /\ status' = st /\ enabled' = enabled /\ enabled
    BY <1>1, <1>2, <2>1, WritesTyped DEF ProberPcs, ProberFits, Current
  <2>3. st = "active" => attached
    BY <1>2, <1>25, <2>1, <2>2 DEF Promote, At, ProberFits, NeedsDevice
  <2>4. Counted' /\ Proven'
    BY <1>25 DEF Promote, Sound, Counted, Proven
  <2>5. Fits(p)'
    BY <1>1, <1>25, <2>2 DEF Promote, Fits, ProberFits, NeedsDevice
  <2> QED BY <1>1, <1>25, <2>2, <2>3, <2>4, <2>5, WrittenSound DEF Promote
<1>26. CASE Settle(p)
  BY <1>3, <1>4, <1>26 DEF Settle, HealthTypeOK
<1>27. CASE Notify(p)
  BY <1>3, <1>4, <1>27 DEF Notify
<1>28. CASE NotWritten(p)
  BY <1>3, <1>4, <1>28 DEF NotWritten
<1> QED BY <1>6, <1>7, <1>8, <1>9, <1>10, <1>11, <1>12, <1>13, <1>14, <1>15, <1>16, <1>17, <1>18, <1>19,
         <1>20, <1>21, <1>22, <1>23, <1>24, <1>25, <1>26, <1>27, <1>28 DEF Probe

\* A step of the healer that leaves row and device alone.
LEMMA HealerSound ==
  ASSUME HealthTypeOK, HealthTypeOK', Sound, Alone(Healer),
         UNCHANGED <<enabled, status, reason, attached, halfEnabled>>,
         streak <= streak', Counted', Proven', Fits(Healer)'
  PROVE  Sound'
<1>1. DisabledWhy' /\ RecoverableWhenDisabled' /\ DisabledIsDetached' /\ ActiveIsAttached'
  BY DEF Sound, DisabledWhy, RecoverableWhenDisabled, DisabledIsDetached, ActiveIsAttached
<1>2. FailureThreshold \in Nat /\ streak \in Nat /\ streak' \in Nat
  BY HealthAssumption DEF HealthTypeOK
<1>3. ASSUME NEW q \in Procs, q # Healer PROVE Fits(q)'
  <2>1. work'[q] = work[q] /\ Fits(q)
    BY <1>3 DEF Alone, Sound
  <2> QED BY <1>2, <1>3, <2>1 DEF Fits, Current, ProberFits
<1> QED BY <1>1, <1>3 DEF Sound

\* Canaries keep it so (health_canary_history.go).
LEMMA CanarySound ==
  ASSUME HealthTypeOK, HealthTypeOK', Sound, NEW p \in Procs, Canary(p)
  PROVE  Sound'
<1> USE DEF WorkOnly, counters, canaries, operator, history, damping, row
<1>1. work[p].pc \in (IF p = Healer THEN HealerPcs ELSE ProberPcs) \cup Elsewhere
  BY DEF HealthTypeOK
<1>2. Current(p) => IF p = Healer THEN HealerFits(work[p]) ELSE ProberFits(work[p])
  BY DEF Sound, Fits
<1>3. failCount \in Nat /\ canaryFail \in Nat /\ success \in Nat
  BY DEF HealthTypeOK
<1>4. CASE ObserveReply(p)
  <2>1. Concluded(work[p].pc) \in ProberPcs \cup HealerPcs
    BY <1>4 DEF ObserveReply, Observing, Concluded, HealerPcs, ProberPcs
  <2>2. /\ Alone(p) /\ work'[p].current = work[p].current /\ work'[p].pc = Concluded(work[p].pc)
    BY <1>4, <2>1, MovesTo DEF ObserveReply
  <2>3. work'[p].current => IF p = Healer THEN HealerFits(work'[p]) ELSE ProberFits(work'[p])
    BY ElsewhereAssumption, <1>1, <1>2, <1>4, <2>2
       DEF ObserveReply, Observing, Concluded, Current, HealerFits, ProberFits, NeedsDevice, Recovering,
           Damped, HealerPcs, ProberPcs
  <2> QED BY <1>3, <1>4, <2>2, <2>3, QuietSound DEF ObserveReply
<1>5. CASE ObserveLoss(p)
  <2>1. /\ Current(p) /\ work[p].pc \in Observing
        /\ canaryFail' = canaryFail + 1 /\ streak' = streak + 1
        /\ UNCHANGED <<enabled, status, reason, attached, halfEnabled, failCount, success, proofs, leftover>>
    BY <1>5 DEF ObserveLoss, Acceptable
  <2>2. CASE p = Healer
    <3>1. Alone(Healer) /\ ~work'[Healer].current
      BY <1>5, <2>2, LeavesTyped DEF ObserveLoss, Leaves
    <3>2. Counted' /\ Proven' /\ Fits(Healer)'
      BY <2>1, <3>1 DEF Sound, Counted, Proven, Fits, Current, HealthTypeOK
    <3>3. streak <= streak'
      BY <2>1 DEF HealthTypeOK
    <3> QED BY <2>1, <3>1, <3>2, <3>3, HealerSound
  <2>3. CASE p # Healer
    <3>1. p \in Probers
      BY <2>3 DEF Procs
    <3>2. Alone(p) /\ work'[p].pc = "lost"
      BY <1>5, <2>3, MovesTo DEF ObserveLoss, ProberPcs
    <3> QED BY <1>3, <2>1, <3>1, <3>2, Counting, ElsewhereAssumption DEF ProberPcs, HealerPcs, Observing, NeedsDevice
  <2> QED BY <2>2, <2>3
<1>6. CASE ObserveNothing(p)
  <2>1. Alone(p) /\ ~work'[p].current
    BY <1>6, LeavesTyped DEF ObserveNothing
  <2> QED BY <1>3, <1>6, <2>1, QuietSound DEF ObserveNothing
<1>7. CASE UseReply(p)
  <2>1. Leaves(p) \/ \E where \in {"block", "promote", "revive"} :
                        /\ Moves(p, To(p, where))
                        /\ where = "block" => work[p].pc = "confirmed"
                        /\ where = "promote" => work[p].pc = "verified"
                        /\ where = "revive" => work[p].pc = "healed"
    BY <1>7 DEF UseReply, Leaves, At
  <2>2. CASE Leaves(p)
    <3>1. Alone(p) /\ ~work'[p].current
      BY <2>2, LeavesTyped
    <3> QED BY <1>3, <1>7, <3>1, QuietSound DEF UseReply
  <2>3. ASSUME NEW where \in {"block", "promote", "revive"}, Moves(p, To(p, where)),
               /\ where = "block" => work[p].pc = "confirmed"
               /\ where = "promote" => work[p].pc = "verified"
               /\ where = "revive" => work[p].pc = "healed"
        PROVE  Sound'
    <3>1. Alone(p) /\ work'[p].pc = where /\ work'[p].current = work[p].current
      BY <2>3, MovesTo DEF ProberPcs, HealerPcs
    <3>2. work'[p].current => IF p = Healer THEN HealerFits(work'[p]) ELSE ProberFits(work'[p])
      BY ElsewhereAssumption, <1>1, <1>2, <2>3, <3>1
         DEF Current, HealerFits, ProberFits, NeedsDevice, Recovering, Damped, HealerPcs, ProberPcs
    <3> QED BY <1>3, <1>7, <3>1, <3>2, QuietSound DEF UseReply
  <2> QED BY <2>1, <2>2, <2>3
<1> QED BY <1>4, <1>5, <1>6, <1>7 DEF Canary

\* Nobody is current any more.
LEMMA AllOutdatedSound ==
  ASSUME \A q \in Procs : ~work'[q].current,
         Counted', Proven', DisabledWhy',
         RecoverableWhenDisabled', DisabledIsDetached', ActiveIsAttached'
  PROVE  Sound'
  BY DEF Sound, Fits, Current

\* A failed registration (backend_enable.go:302-307).
LEMMA DeclareSound ==
  ASSUME HealthTypeOK, HealthTypeOK', Sound, NEW p \in Procs \cup {Nobody}, Declare(p, Rest),
         success' = success
  PROVE  Sound'
<1>1. UNCHANGED <<enabled, reason, attached, halfEnabled, failCount, canaryFail, streak, proofs, leftover>>
  BY DEF Declare, history, damping
<1>2. Counted' /\ Proven'
  BY <1>1 DEF Sound, Counted, Proven
<1>3. \A q \in Procs : ~work'[q].current
  <2>1. ~enabled => \A q \in Procs : ~work[q].current
    BY DEF Sound, Fits, Current, ProberFits, HealerFits
  <2>2. enabled => work' = [q \in Procs |-> IF q = p THEN Rest ELSE Outdated(work[q])]
    BY DEF Declare
  <2>3. ~enabled => work' = [q \in Procs |-> IF q = p THEN Rest ELSE work[q]]
    BY DEF Declare
  <2> QED BY <2>1, <2>2, <2>3, RestTyped, OutdatedTyped DEF HealthTypeOK
<1>4. IF enabled THEN status' = "degraded" ELSE status' = status
  BY DEF Declare
<1>5. DisabledWhy' /\ RecoverableWhenDisabled' /\ DisabledIsDetached' /\ ActiveIsAttached'
  BY <1>1, <1>4 DEF Sound, DisabledWhy, RecoverableWhenDisabled, DisabledIsDetached, ActiveIsAttached
<1> QED BY <1>2, <1>3, <1>5, AllOutdatedSound

\* The healer keeps it so (health_selfheal.go).
LEMMA HealSound ==
  ASSUME HealthTypeOK, HealthTypeOK', Sound, Heal, ~Canary(Healer)
  PROVE  Sound'
<1> USE DEF WorkOnly, RowOnly, counters, canaries, operator, history, damping, row
<1>1. Healer \in Procs
  BY DEF Procs
<1>2. Current(Healer) => HealerFits(work[Healer])
  BY <1>1 DEF Sound, Fits
<1>3. /\ failCount \in Nat /\ canaryFail \in Nat /\ success \in Nat /\ streak \in Nat /\ proofs \in Nat
      /\ SelfHealingThreshold \in Nat
  BY HealthAssumption DEF HealthTypeOK
<1>4. ASSUME Leaves(Healer),
             UNCHANGED <<enabled, status, reason, attached, halfEnabled, streak, proofs, leftover>>,
             failCount' <= failCount, canaryFail' <= canaryFail, success' <= success
      PROVE  Sound'
  BY <1>1, <1>4, LeavesTyped, QuietSound
<1>5. ASSUME Alone(Healer),
             UNCHANGED <<enabled, status, reason, attached, halfEnabled, streak, proofs, leftover>>,
             failCount' <= failCount, canaryFail' <= canaryFail, success' <= success,
             work'[Healer].current => HealerFits(work'[Healer])
      PROVE  Sound'
  BY <1>1, <1>5, QuietSound
<1>6. CASE Target
  <2>1. Alone(Healer) /\ work'[Healer].pc = "target"
    BY <1>1, <1>6 DEF Target, Moves, Rest, HealthTypeOK, Alone
  <2>2. HealerFits(work'[Healer])
    BY <1>6, <2>1 DEF Target, HealerFits, NeedsDevice, Recovering, Damped
  <2> QED BY <1>3, <1>5, <1>6, <2>1, <2>2 DEF Target
<1>7. CASE HealProbeFails
  <2>1. Alone(Healer) /\ ~work'[Healer].current
    BY <1>1, <1>7, LeavesTyped DEF HealProbeFails
  <2>2. Counted' /\ Proven' /\ Fits(Healer)'
    BY <1>3, <1>7, <2>1 DEF HealProbeFails, Sound, Counted, Proven, Fits, Current
  <2> QED BY <1>3, <1>7, <2>1, <2>2, HealerSound DEF HealProbeFails
<1>8. CASE HealProbeSucceeds \/ HealProbeIsSlow
  <2>1. CASE Current(Healer)
    <3>1. /\ At(Healer, "target") /\ success' = success + 1
          /\ proofs' = IF proofs < SelfHealingThreshold THEN proofs + 1 ELSE proofs
          /\ UNCHANGED <<enabled, status, reason, attached, halfEnabled, streak, leftover, failCount, canaryFail>>
      BY <1>8, <2>1 DEF HealProbeSucceeds, HealProbeIsSlow, Damp
    <3>2. \/ Leaves(Healer)
          \/ /\ success' >= SelfHealingThreshold
             /\ \E quick \in BOOLEAN : Moves(Healer, [To(Healer, "proved") EXCEPT !.slow = ~quick])
      BY <1>8, <2>1, Zenon DEF HealProbeSucceeds, HealProbeIsSlow, Damp, Leaves
    <3>3. To(Healer, "proved") \in Work /\ To(Healer, "proved").pc = "proved"
      BY <1>1, ToTyped DEF HealerPcs
    <3>4. /\ Alone(Healer)
          /\ work'[Healer].current => work'[Healer].pc = "proved" /\ success' >= SelfHealingThreshold
      <4>1. CASE Leaves(Healer)
        BY <1>1, <4>1, LeavesTyped
      <4>2. ASSUME NEW quick \in BOOLEAN, Moves(Healer, [To(Healer, "proved") EXCEPT !.slow = ~quick]),
                   success' >= SelfHealingThreshold
            PROVE  /\ Alone(Healer)
                   /\ work'[Healer].current => work'[Healer].pc = "proved" /\ success' >= SelfHealingThreshold
        BY <1>1, <3>3, <4>2 DEF Moves, Alone, HealthTypeOK, Work
      <4> QED BY <3>2, <4>1, <4>2
    <3>5. Counted' /\ Proven'
      BY <1>3, <3>1 DEF Sound, Counted, Proven
    <3>6. work'[Healer].current => leftover' \/ proofs' >= SelfHealingThreshold
      BY <1>3, <3>1, <3>4 DEF Sound, Proven
    <3>7. Fits(Healer)'
      BY <1>2, <2>1, <3>1, <3>4, <3>6 DEF Fits, At, Current, HealerFits, NeedsDevice, Recovering, Damped
    <3> QED BY <1>3, <3>1, <3>4, <3>5, <3>7, HealerSound
  <2>2. CASE ~Current(Healer)
    BY <1>3, <1>4, <1>8, <2>2 DEF HealProbeSucceeds, HealProbeIsSlow, Damp
  <2> QED BY <2>1, <2>2
<1>9. CASE StartHook
  <2>1. UNCHANGED <<enabled, status, reason, attached, halfEnabled, streak, proofs, leftover, counters>>
    BY <1>9 DEF StartHook
  <2>2. CASE Leaves(Healer)
    BY <1>3, <1>4, <2>1, <2>2
  <2>3. CASE Current(Healer) /\ Moves(Healer, To(Healer, "hooking"))
    <3>1. Alone(Healer) /\ work'[Healer].pc = "hooking"
      BY <1>1, <2>3, MovesTo DEF HealerPcs
    <3>2. HealerFits(work'[Healer])
      BY <1>2, <1>9, <2>3, <3>1 DEF StartHook, At, HealerFits, NeedsDevice, Recovering, Damped
    <3> QED BY <1>3, <1>5, <2>1, <3>1, <3>2
  <2>4. CASE Rewrites(Healer, Outdated(To(Healer, "hooking")))
    <3>1. To(Healer, "hooking") \in Work
      BY <1>1, ToTyped DEF HealerPcs
    <3>2. \A q \in Procs : ~work'[q].current
      BY <1>1, <2>4, <3>1, OutdatedTyped, RewritesTyped DEF Outdates
    <3>3. Counted' /\ Proven'
      BY <2>1 DEF Sound, Counted, Proven
    <3>4. DisabledWhy' /\ RecoverableWhenDisabled' /\ DisabledIsDetached' /\ ActiveIsAttached'
      BY <2>1 DEF Sound, DisabledWhy, RecoverableWhenDisabled, DisabledIsDetached, ActiveIsAttached
    <3> QED BY <3>2, <3>3, <3>4, AllOutdatedSound
  <2> QED BY <1>9, <2>2, <2>3, <2>4 DEF StartHook
<1>10. CASE HookEnds
  <2>1. /\ enabled /\ attached' /\ work[Healer].pc = "hooking" /\ failCount' = 0 /\ canaryFail' = 0 /\ success' = 0
        /\ UNCHANGED <<enabled, status, reason, halfEnabled, streak, proofs, leftover>>
    BY <1>10 DEF HookEnds, ResetFailCount, At
  <2>2. Alone(Healer) /\ work'[Healer].pc = "recovered" /\ work'[Healer].current = work[Healer].current
    BY <1>1, <1>10, MovesTo DEF HookEnds, HealerPcs
  <2>3. Fits(Healer)'
    BY <1>2, <2>1, <2>2 DEF Fits, Current, HealerFits, NeedsDevice, Recovering, Damped
  <2> QED BY <1>1, <1>3, <2>1, <2>2, <2>3, AttachedSound
<1>11. CASE HookAborts
  BY <1>3, <1>4, <1>11 DEF HookAborts
<1>12. CASE HookNotRegistered
  BY <1>1, <1>12, DeclareSound DEF HookNotRegistered
<1>13. CASE Recovered
  <2>1. CASE Leaves(Healer)
    BY <1>3, <1>4, <1>13, <2>1 DEF Recovered
  <2>2. ASSUME NEW where \in {"healing", "revive"}, Current(Healer), Moves(Healer, To(Healer, where)) PROVE Sound'
    <3>1. Alone(Healer) /\ work'[Healer].pc = where
      BY <1>1, <2>2, MovesTo DEF HealerPcs
    <3>2. HealerFits(work'[Healer])
      BY <1>2, <1>13, <2>2, <3>1 DEF Recovered, At, HealerFits, NeedsDevice, Recovering, Damped
    <3> QED BY <1>3, <1>5, <1>13, <3>1, <3>2 DEF Recovered
  <2>3. ASSUME enabled, Moves(Healer, [To(Healer, "overtaken") EXCEPT !.current = TRUE]) PROVE Sound'
    <3>1. Alone(Healer) /\ work'[Healer].pc = "overtaken"
      BY <2>3, OvertakenTyped
    <3>2. UNCHANGED <<enabled, status, reason, attached, halfEnabled, streak, proofs, leftover,
                      failCount, canaryFail, success>>
      BY <1>13 DEF Recovered
    <3>3. HealerFits(work'[Healer])
      BY <2>3, <3>1 DEF HealerFits, NeedsDevice, Recovering, Damped
    <3> QED BY <1>3, <1>5, <3>1, <3>2, <3>3
  <2> QED BY <1>13, <2>1, <2>2, <2>3 DEF Recovered, BeginCanary
<1>14. CASE Revive
  <2>1. CASE ~Current(Healer)
    BY <1>3, <1>4, <1>14, <2>1 DEF Revive, Writes
  <2>2. CASE Current(Healer)
    <3>1. /\ enabled /\ attached /\ failCount = 0 /\ canaryFail = 0
      BY <1>2, <1>14, <2>2 DEF Revive, At, HealerFits, NeedsDevice, Recovering
    <3>2. PICK st \in {"degraded", "active"} : Writes(Healer, st, "none", "clear") /\ streak' = 0
      BY <1>14, <2>2 DEF Revive
    <3>3. Outdates(Healer) /\ work'[Healer].pc = "clear" /\ status' = st /\ enabled' = enabled
      BY <1>1, <3>2, WritesTyped DEF HealerPcs
    <3>4. Counted' /\ Proven'
      BY <1>14, <3>1, <3>2 DEF Revive, Sound, Counted, Proven
    <3>5. Fits(Healer)'
      BY <3>1, <3>3 DEF Fits, HealerFits, NeedsDevice, Recovering, Damped
    <3> QED BY <1>1, <1>14, <3>1, <3>3, <3>4, <3>5, WrittenSound DEF Revive
  <2> QED BY <2>1, <2>2
<1>15. CASE Clear
  BY <1>3, <1>4, <1>15 DEF Clear
<1>16. CASE NotWritten(Healer)
  BY <1>3, <1>4, <1>16 DEF NotWritten
<1> QED BY <1>6, <1>7, <1>8, <1>9, <1>10, <1>11, <1>12, <1>13, <1>14, <1>15, <1>16 DEF Heal

\* The administrator keeps it so (backend_enable.go, backend_lifecycle.go).
LEMMA AdministerSound == ASSUME HealthTypeOK, HealthTypeOK', Sound, Administer PROVE Sound'
<1> USE DEF counters, canaries, operator, history, damping, row, Begins
<1>1. ~enabled => \A q \in Procs : ~work[q].current
  BY DEF Sound, Fits, Current, ProberFits, HealerFits
<1>2. failCount \in Nat /\ canaryFail \in Nat /\ success \in Nat /\ streak \in Nat /\ proofs \in Nat
  BY DEF HealthTypeOK
<1>3. \A q \in Procs : /\ ~Outdated(work[q]).current
                       /\ ~Fenced(Outdated(work[q])).current
                       /\ Fenced(work[q]).current = work[q].current
  BY OutdatedTyped, FencedTyped DEF HealthTypeOK
<1>4. CASE DisableBackend
  <2>1. ~enabled' /\ ~attached' /\ failCount' = 0 /\ success' = 0
        /\ UNCHANGED <<status, canaryFail, streak, proofs, leftover>>
    BY <1>4 DEF DisableBackend
  <2>2. reason' \in {"health", "admin"}
    BY <1>4 DEF DisableBackend, Provenance
  <2>3. \A q \in Procs : ~work'[q].current
    <3>1. CASE ~enabled
      <4>1. \A q \in Procs : work'[q] \in {Fenced(work[q]), Fenced(Outdated(work[q]))}
        BY <1>4 DEF DisableBackend
      <4> QED BY <1>1, <1>3, <3>1, <4>1
    <3>2. CASE enabled
      BY <1>3, <1>4, <3>2 DEF DisableBackend
    <3> QED BY <3>1, <3>2
  <2>4. Counted' /\ Proven'
    BY <1>2, <2>1 DEF Sound, Counted, Proven
  <2>5. DisabledWhy' /\ RecoverableWhenDisabled' /\ DisabledIsDetached' /\ ActiveIsAttached'
    BY <2>1, <2>2 DEF DisabledWhy, RecoverableWhenDisabled, DisabledIsDetached, ActiveIsAttached
  <2> QED BY <2>3, <2>4, <2>5, AllOutdatedSound
<1>5. CASE EnableBackend \/ EnableAborts
  <2>1. UNCHANGED <<enabled, status, reason, attached, halfEnabled, counters, streak, proofs, leftover, work>>
    BY <1>5 DEF EnableBackend, EnableAborts
  <2> QED BY <2>1 DEF Sound, Counted, Proven, DisabledWhy, RecoverableWhenDisabled, DisabledIsDetached,
                      ActiveIsAttached, Fits, Current, ProberFits, HealerFits
<1>6. CASE EnableNotRegistered
  BY <1>6, DeclareSound DEF EnableNotRegistered
<1>7. CASE FinishEnableBackend
  <2>1. attached' /\ failCount' = 0 /\ canaryFail' = 0 /\ success' = 0 /\ UNCHANGED <<proofs, leftover>>
    BY <1>7 DEF FinishEnableBackend, ResetFailCount
  <2>2. Counted' /\ Proven'
    BY <1>2, <2>1 DEF Counted, Proven, HealthTypeOK
  <2>3. ActiveIsAttached'
    BY <2>1 DEF ActiveIsAttached
  <2>4. CASE UNCHANGED <<row, work, streak>> /\ halfEnabled' = (halfEnabled \/ ~enabled)
    <3>1. DisabledWhy' /\ RecoverableWhenDisabled' /\ DisabledIsDetached'
      BY <2>4 DEF Sound, DisabledWhy, RecoverableWhenDisabled, DisabledIsDetached
    <3>2. \A q \in Procs : Fits(q)'
      BY <2>1, <2>4 DEF Sound, Fits, Current, ProberFits, HealerFits
    <3> QED BY <2>2, <2>3, <3>1, <3>2 DEF Sound
  <2>5. CASE /\ enabled' /\ halfEnabled'
             /\ work' = [q \in Procs |-> Outdated(work[q])]
    <3>1. DisabledWhy' /\ RecoverableWhenDisabled' /\ DisabledIsDetached'
      BY <2>5 DEF DisabledWhy, RecoverableWhenDisabled, DisabledIsDetached
    <3>2. \A q \in Procs : ~work'[q].current
      BY <1>3, <2>5
    <3> QED BY <2>2, <2>3, <3>1, <3>2, AllOutdatedSound
  <2>6. CASE /\ enabled' /\ reason' = Provenance("none")
             /\ status' = IF status = "disabled" /\ reason = "admin" THEN "connecting" ELSE status
             /\ work' = [q \in Procs |-> IF enabled /\ reason = "none" THEN work[q] ELSE Outdated(work[q])]
             /\ halfEnabled' = (halfEnabled /\ enabled)
             /\ streak' = IF enabled THEN streak ELSE 0
    <3>1. DisabledWhy' /\ DisabledIsDetached'
      BY <2>6 DEF DisabledWhy, DisabledIsDetached
    <3>2. reason \in {"none", "health", "admin"}
      BY DEF HealthTypeOK, Reasons
    <3>3. RecoverableWhenDisabled'
      BY <2>6, <3>2 DEF Sound, DisabledWhy, RecoverableWhenDisabled, Provenance
    <3>4. CASE enabled /\ reason = "none"
      <4>1. work' = work /\ status' = status /\ streak' = streak
        BY <2>6, <3>4 DEF HealthTypeOK
      <4>2. \A q \in Procs : Fits(q)'
        BY <2>1, <2>6, <4>1 DEF Sound, Fits, Current, ProberFits, HealerFits
      <4> QED BY <2>2, <2>3, <3>1, <3>3, <4>2 DEF Sound
    <3>5. CASE ~(enabled /\ reason = "none")
      <4>1. \A q \in Procs : ~work'[q].current
        BY <1>3, <2>6, <3>5
      <4> QED BY <2>2, <2>3, <3>1, <3>3, <4>1, AllOutdatedSound
    <3> QED BY <3>4, <3>5
  <2> QED BY <1>7, <2>4, <2>5, <2>6, Zenon DEF FinishEnableBackend
<1>8. CASE MoveBackend
  <2>1. UNCHANGED <<enabled, status, reason, attached, halfEnabled, counters, streak, proofs, leftover>>
    BY <1>8 DEF MoveBackend
  <2>2. \A q \in Procs : ~work'[q].current
    BY <1>3, <1>8 DEF MoveBackend
  <2> QED BY <2>1, <2>2, AllOutdatedSound
       DEF Sound, Counted, Proven, DisabledWhy, RecoverableWhenDisabled, DisabledIsDetached, ActiveIsAttached
<1>9. CASE SyncDevice
  <2>1. UNCHANGED <<enabled, reason, halfEnabled, streak, proofs, leftover>>
    BY <1>9 DEF SyncDevice
  <2>2. CASE ~enabled /\ UNCHANGED <<status, attached, counters, work>>
    BY <2>1, <2>2
       DEF Sound, Counted, Proven, DisabledWhy, RecoverableWhenDisabled, DisabledIsDetached,
           ActiveIsAttached, Fits, Current, ProberFits, HealerFits
  <2>3. CASE enabled /\ (attached => attached') /\ ResetFailCount /\ UNCHANGED <<status, work>>
    <3>1. Counted' /\ Proven'
      BY <1>2, <2>1, <2>3 DEF ResetFailCount, Counted, Proven
    <3>2. DisabledWhy' /\ RecoverableWhenDisabled' /\ DisabledIsDetached' /\ ActiveIsAttached'
      BY <2>1, <2>3 DEF Sound, DisabledWhy, RecoverableWhenDisabled, DisabledIsDetached, ActiveIsAttached
    <3>3. \A q \in Procs : Fits(q)'
      BY <2>1, <2>3 DEF ResetFailCount, Sound, Fits, Current, ProberFits, HealerFits
    <3> QED BY <3>1, <3>2, <3>3 DEF Sound
  <2>4. CASE /\ enabled /\ status' = "degraded" /\ UNCHANGED <<attached, counters>>
             /\ work' = [q \in Procs |-> Fenced(Outdated(work[q]))]
    <3>1. Counted' /\ Proven'
      BY <2>1, <2>4 DEF Sound, Counted, Proven
    <3>2. DisabledWhy' /\ RecoverableWhenDisabled' /\ DisabledIsDetached' /\ ActiveIsAttached'
      BY <2>1, <2>4 DEF Sound, DisabledWhy, RecoverableWhenDisabled, DisabledIsDetached, ActiveIsAttached
    <3>3. \A q \in Procs : ~work'[q].current
      BY <1>3, <2>4
    <3> QED BY <3>1, <3>2, <3>3, AllOutdatedSound
  <2> QED BY <1>9, <2>2, <2>3, <2>4, Zenon DEF SyncDevice
<1>10. CASE Restart
  <2>1. /\ enabled' = enabled /\ ~attached' /\ failCount' = 0 /\ canaryFail' = 0 /\ success' = 0
        /\ streak' = 0 /\ proofs' = 0
    BY <1>10 DEF Restart
  <2>2. IF enabled THEN status' = "connecting" ELSE reason' = reason
    BY <1>10 DEF Restart, StartupHealth
  <2>3. \A q \in Procs : ~work'[q].current
    BY <1>10, RestTyped DEF Restart
  <2> QED BY <2>1, <2>2, <2>3, AllOutdatedSound
       DEF Sound, Counted, Proven, DisabledWhy, RecoverableWhenDisabled, DisabledIsDetached, ActiveIsAttached
<1> QED BY <1>4, <1>5, <1>6, <1>7, <1>8, <1>9, <1>10 DEF Administer

\* The scheduler keeps it so: what it writes outdates everybody, and what it observes
\* concerns no recovery, as it looks at no tunnel that is disabled (vpn_tasks.go:32-355).
LEMMA CheckSound == ASSUME HealthTypeOK, HealthTypeOK', Sound, Check PROVE Sound'
<1>1. /\ enabled /\ status # "disabled"
      /\ UNCHANGED <<enabled, halfEnabled, failCount, success, proofs, leftover>>
  BY DEF Check, CheckAttaches, CheckPromotes, CheckDowngrades, CheckLoses, CheckMisses, Checks, Available,
         Reports, row, counters, history, damping
<1>2. /\ attached => attached'
      /\ \/ canaryFail' \in {0, canaryFail} /\ streak' = streak
         \/ canaryFail' = canaryFail + 1 /\ streak' = streak + 1
  BY DEF Check, CheckAttaches, CheckPromotes, CheckDowngrades, CheckLoses, CheckMisses, Observes, history,
         counters
<1>3. canaryFail \in Nat /\ failCount \in Nat /\ streak \in Nat /\ FailureThreshold \in Nat
  BY HealthAssumption DEF HealthTypeOK
<1>4. Counted' /\ Proven'
  BY <1>1, <1>2, <1>3 DEF Sound, Counted, Proven
<1>5. CASE \E st : Reports(st) /\ st # "disabled" /\ (st = "active" => attached)
  <2>1. PICK st : Reports(st) /\ st # "disabled" /\ (st = "active" => attached)
    BY <1>5
  <2>2. \A q \in Procs : ~work'[q].current
    BY <2>1, OutdatedTyped DEF Reports, HealthTypeOK
  <2>3. DisabledWhy' /\ RecoverableWhenDisabled' /\ DisabledIsDetached' /\ ActiveIsAttached'
    BY <1>1, <1>2, <2>1
       DEF Reports, DisabledWhy, RecoverableWhenDisabled, DisabledIsDetached, ActiveIsAttached
  <2> QED BY <1>4, <2>2, <2>3, AllOutdatedSound
<1>6. CASE UNCHANGED <<status, reason, work>>
  <2>1. DisabledWhy' /\ RecoverableWhenDisabled' /\ DisabledIsDetached' /\ ActiveIsAttached'
    BY <1>1, <1>2, <1>6 DEF Sound, DisabledWhy, RecoverableWhenDisabled, DisabledIsDetached, ActiveIsAttached
  <2>2. ASSUME NEW q \in Procs PROVE Fits(q)'
    <3>1. Fits(q) /\ work'[q] = work[q]
      BY <1>6 DEF Sound
    <3> QED BY <1>1, <1>2, <1>3, <1>6, <3>1
            DEF Fits, Current, ProberFits, HealerFits, Recovering
  <2> QED BY <1>4, <2>1, <2>2 DEF Sound
<1>7. (\E st : Reports(st) /\ st # "disabled" /\ (st = "active" => attached)) \/ UNCHANGED <<status, reason, work>>
  BY DEF Check, CheckAttaches, CheckPromotes, CheckDowngrades, CheckLoses, CheckMisses, row
<1> QED BY <1>5, <1>6, <1>7

\* Every step keeps to it.
LEMMA StepSound == HealthTypeOK /\ Sound /\ [HealthNext]_vars => Sound'
<1> SUFFICES ASSUME HealthTypeOK, HealthTypeOK', Sound, [HealthNext]_vars PROVE Sound'
  BY StepHealthTyped
<1>1. CASE UNCHANGED vars
  BY <1>1 DEF vars, row, counters, canaries, operator, damping, history, Sound, Counted, Proven,
       DisabledWhy, RecoverableWhenDisabled, DisabledIsDetached, ActiveIsAttached, Fits, Current,
       ProberFits, HealerFits
<1>2. ASSUME NEW p \in Probers, Probe(p) \/ Notify(p) PROVE Sound'
  BY <1>2, ProbeSound, CanarySound DEF Procs
<1>3. CASE Heal
  BY <1>3, HealSound, CanarySound DEF Procs
<1> QED BY <1>1, <1>2, <1>3, CheckSound, AdministerSound DEF HealthNext

\* Who takes a tunnel out of service, and who makes it active (pool.go:470-504).
LEMMA ProbeRewrites ==
  ASSUME HealthTypeOK, Sound, NEW p \in Probers, Probe(p) \/ Notify(p)
  PROVE  \/ status' = status \/ status' \in {"degraded", "handshake_blocked"}
         \/ status' = "disabled" /\ streak >= FailureThreshold
         \/ status' = "active" /\ (enabled => status # "disabled")
<1> USE DEF WorkOnly, RowOnly, row
<1>1. p \in Procs /\ p # Healer
  BY HealthAssumption DEF Procs
<1>2. Current(p) => ProberFits(work[p])
  BY <1>1 DEF Sound, Fits
<1>3. CASE Disable(p) \/ DisableAgain(p)
  <2>1. work[p].pc \in {"disable", "again"}
    BY <1>3 DEF Disable, DisableAgain, At
  <2>2. CASE Writes(p, "disabled", "health", "commit")
    BY <1>2, <2>1, <2>2 DEF Writes, ProberFits
  <2> QED BY <1>3, <2>2 DEF Disable, DisableAgain
<1>4. CASE Block(p) \/ Degrade(p)
  BY <1>4 DEF Block, Degrade, Writes
<1>5. CASE Promote(p)
  <2>1. Current(p) /\ work[p].pc = "promote"
    BY <1>5 DEF Promote, Writes, At
  <2>2. status # "disabled"
    BY ElsewhereAssumption, <1>2, <2>1 DEF ProberFits, ProberPcs
  <2> QED BY <1>5, <2>2 DEF Promote, Writes
<1>6. CASE Canary(p)
  BY <1>6 DEF Canary, ObserveReply, ObserveLoss, ObserveNothing, UseReply
<1>7. CASE List(p) \/ Snapshot(p) \/ Superseded(p) \/ ProbeFails(p) \/ ProbeSucceeds(p) \/ ProbeIsSlow(p)
  BY <1>7 DEF List, Snapshot, Superseded, ProbeFails, ProbeSucceeds, ProbeIsSlow
<1>8. CASE CountFailure(p) \/ DropFailure(p) \/ Hook(p) \/ HookFails(p) \/ HookRefused(p) \/ UseLoss(p)
  BY <1>8 DEF CountFailure, DropFailure, Hook, HookFails, HookRefused, UseLoss
<1>9. CASE CommitDisable(p) \/ Reconcile(p) \/ MissAgain(p) \/ Settle(p) \/ NotWritten(p) \/ Notify(p)
  BY <1>9 DEF CommitDisable, Reconcile, MissAgain, Settle, NotWritten, Notify
<1> QED BY <1>3, <1>4, <1>5, <1>6, <1>7, <1>8, <1>9 DEF Probe

\* ... the healer among them (health_selfheal.go:306-383).
LEMMA HealRewrites ==
  ASSUME HealthTypeOK, Sound, Heal
  PROVE  \/ status' = status \/ status' = "degraded"
         \/ status' = "active" /\ (leftover \/ proofs >= SelfHealingThreshold)
<1> USE DEF WorkOnly, RowOnly, row
<1>1. Current(Healer) => HealerFits(work[Healer])
  BY DEF Procs, Sound, Fits
<1>2. CASE Revive
  <2>1. CASE ~Current(Healer) /\ UNCHANGED status
    BY <2>1
  <2>2. CASE Current(Healer)
    BY <1>1, <1>2, <2>2 DEF Revive, Writes, At, HealerFits, Damped, Recovering
  <2> QED BY <1>2, <2>1, <2>2 DEF Revive, Writes
<1>3. CASE HookNotRegistered
  BY <1>3 DEF HookNotRegistered, Declare
<1>4. CASE Canary(Healer)
  BY <1>4 DEF Canary, ObserveReply, ObserveLoss, ObserveNothing, UseReply
<1>5. CASE Target \/ HealProbeFails \/ HealProbeSucceeds \/ HealProbeIsSlow
  BY <1>5 DEF Target, HealProbeFails, HealProbeSucceeds, HealProbeIsSlow, Damp
<1>6. CASE StartHook \/ HookEnds \/ HookAborts \/ Recovered \/ Clear \/ NotWritten(Healer)
  BY <1>6 DEF StartHook, HookEnds, HookAborts, Recovered, Clear, NotWritten
<1> QED BY <1>2, <1>3, <1>4, <1>5, <1>6 DEF Heal

\* ... and the administrator (backend_enable.go:363-490, pool.go:178-201).
LEMMA AdministerRewrites ==
  ASSUME Administer
  PROVE  status' = status \/ status' \in {"degraded", "connecting"}
<1>1. CASE DisableBackend \/ EnableBackend \/ EnableAborts \/ MoveBackend
  BY <1>1 DEF DisableBackend, EnableBackend, EnableAborts, MoveBackend, row
<1>2. CASE EnableNotRegistered
  BY <1>2 DEF EnableNotRegistered, Declare
<1>3. CASE FinishEnableBackend
  BY <1>3 DEF FinishEnableBackend, row
<1>4. CASE SyncDevice
  BY <1>4 DEF SyncDevice
<1>5. CASE Restart
  BY <1>5 DEF Restart, StartupHealth
<1> QED BY <1>1, <1>2, <1>3, <1>4, <1>5 DEF Administer

\* ... and the scheduler, which leaves alone what is disabled (vpn_tasks.go:79-91).
LEMMA CheckRewrites ==
  ASSUME Check PROVE status' # "disabled" /\ status # "disabled"
  BY DEF Check, CheckAttaches, CheckPromotes, CheckDowngrades, CheckLoses, CheckMisses, Checks, Available,
         Reports, row

\* Between two states, whoever makes the step.
LEMMA StepRewrites ==
  ASSUME HealthTypeOK, Sound, [HealthNext]_vars
  PROVE  /\ Available /\ status' = "disabled" => streak >= FailureThreshold
         /\ enabled /\ status = "disabled" /\ status' = "active" =>
              leftover \/ proofs >= SelfHealingThreshold
<1>1. CASE UNCHANGED vars
  BY <1>1 DEF vars, row, Available
<1>2. ASSUME NEW p \in Probers, Probe(p) \/ Notify(p)
      PROVE  /\ Available /\ status' = "disabled" => streak >= FailureThreshold
             /\ enabled /\ status = "disabled" => status' # "active"
  BY <1>2, ProbeRewrites DEF Available
<1>3. CASE Heal
  BY <1>3, HealRewrites DEF Available
<1>4. CASE Administer
  BY <1>4, AdministerRewrites DEF Available
<1> QED BY <1>1, <1>2, <1>3, <1>4, CheckRewrites DEF HealthNext

-----------------------------------------------------------------------------
(* What follows for every behaviour.                                        *)

\* It holds throughout.
LEMMA SoundThroughout == HealthSpec => [](HealthTypeOK /\ Sound)
<1>1. HealthInit => HealthTypeOK /\ Sound
  BY InitHealthTyped, InitSound
<1>2. HealthTypeOK /\ Sound /\ [HealthNext]_vars => (HealthTypeOK /\ Sound)'
  BY StepHealthTyped, StepSound
<1> QED BY <1>1, <1>2, PTL DEF HealthSpec

(* No tunnel is left disabled with nobody to bring it back: SetTunnelEnabled *)
(* keeps the provenance collectSelfHealTargets looks for (pool.go:418-452,   *)
(* health_selfheal.go:160-178).                                              *)
THEOREM DisabledTunnelsRecoverable == HealthSpec => []RecoverableWhenDisabled
<1>1. Sound => RecoverableWhenDisabled
  BY DEF Sound
<1> QED BY <1>1, SoundThroughout, PTL

(* A disabled backend stays detached, whatever hook or recovery was under    *)
(* way when it was disabled (finishEnableBackend, disableBackendLocked).     *)
THEOREM DisabledTunnelsDetached == HealthSpec => []DisabledIsDetached
<1>1. Sound => DisabledIsDetached
  BY DEF Sound
<1> QED BY <1>1, SoundThroughout, PTL

(* What admission may pick has its device (executeActiveHook).               *)
THEOREM ActiveTunnelsAttached == HealthSpec => []ActiveIsAttached
<1>1. Sound => ActiveIsAttached
  BY DEF Sound
<1> QED BY <1>1, SoundThroughout, PTL

(* A tunnel put back in service has its full threshold of failures before it *)
(* (ResetFailCount, checkHealthGenerationLocked, health.go:198-288).         *)
THEOREM GraceIsKept == HealthSpec => GracePeriod
<1>1. HealthTypeOK /\ Sound /\ [HealthNext]_vars =>
        [Available /\ status' = "disabled" => streak >= FailureThreshold]_vars
  BY StepRewrites
<1> QED BY <1>1, SoundThroughout, PTL DEF HealthSpec, GracePeriod

(* A tunnel disabled for its health is put back only after the full number   *)
(* of proofs (probeAndFlapDamp), except where a count was left behind by a   *)
(* disable that cleared it a step after its write (`leftover`).              *)
THEOREM FlapsAreDamped == HealthSpec => FlapDamping
<1>1. HealthTypeOK /\ Sound /\ [HealthNext]_vars =>
        [enabled /\ status = "disabled" /\ status' = "active" =>
           leftover \/ proofs >= SelfHealingThreshold]_vars
  BY StepRewrites
<1> QED BY <1>1, SoundThroughout, PTL DEF HealthSpec, FlapDamping
=============================================================================
