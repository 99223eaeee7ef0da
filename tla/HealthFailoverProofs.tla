------------------------ MODULE HealthFailoverProofs ------------------------
(***************************************************************************)
(* For any thresholds, any number of sessions, administrative changes and  *)
(* faults, and whichever probers run: what the failover keeps is well      *)
(* typed, no session is forgotten on a backend that is disabled for its    *)
(* health, and what TunnelHealthProofs shows of the backend alone holds of *)
(* a backend whose sessions fail over, as its steps are those the lemmas   *)
(* of that module are about.                                               *)
(***************************************************************************)
EXTENDS HealthFailover, TunnelHealthProofs

-----------------------------------------------------------------------------
(* What the processes hold.                                                 *)

HeldTyped == work \in [Procs -> Work]

Places == ProberPcs \cup HealerPcs \cup Elsewhere

\* A process at rest holds nothing; a write outdates what another holds, but leaves it
\* where it is; and so does a fence, except in an enable that is attaching.
LEMMA HeldForms ==
  /\ Rest \in Work /\ Rest.pc = "idle"
  /\ \A w \in Work : Outdated(w) \in Work /\ Outdated(w).pc = w.pc
  /\ \A w \in Work : /\ Fenced(w) \in Work
                     /\ Fenced(w).pc = w.pc \/ (w.pc = "hooking" /\ Fenced(w).pc = "fenced")
<1>1. Rest \in Work /\ Rest.pc = "idle"
  BY DEF Rest, Work, Places, ProberPcs, HealerPcs, Statuses
<1>2. ASSUME NEW w \in Work PROVE Outdated(w) \in Work /\ Outdated(w).pc = w.pc
  BY DEF Outdated, Work
<1>3. ASSUME NEW w \in Work
      PROVE  /\ Fenced(w) \in Work
             /\ Fenced(w).pc = w.pc \/ (w.pc = "hooking" /\ Fenced(w).pc = "fenced")
  BY DEF Fenced, Work, Places, ProberPcs, HealerPcs
<1> QED BY <1>1, <1>2, <1>3

\* Going on changes nothing but the place.
LEMMA HeldTo ==
  ASSUME HeldTyped, NEW p \in Procs, NEW where \in Places
  PROVE  To(p, where) \in Work /\ To(p, where).pc = where
<1>1. work[p] \in Work
  BY DEF HeldTyped
<1> QED BY <1>1 DEF To, Work, Places

\* Nobody but p goes anywhere.
OthersStay(p) == \A q \in Procs : q # p => work'[q].pc = work[q].pc

\* A step of p leaves the others where they are, whether or not it outdates them.
LEMMA HeldStep ==
  ASSUME HeldTyped, NEW p \in Procs, NEW w \in Work, Moves(p, w) \/ Rewrites(p, w)
  PROVE  HeldTyped' /\ OthersStay(p) /\ work'[p] = w
  BY HeldForms DEF HeldTyped, Moves, Rewrites, OthersStay

LEMMA HeldGoes ==
  ASSUME HeldTyped, NEW p \in Procs, NEW where \in Places, Moves(p, To(p, where))
  PROVE  HeldTyped' /\ OthersStay(p) /\ work'[p].pc = where
  BY HeldTo, HeldStep

LEMMA HeldLeaves ==
  ASSUME HeldTyped, NEW p \in Procs, Leaves(p)
  PROVE  HeldTyped' /\ OthersStay(p) /\ work'[p].pc = "idle"
  BY HeldForms, HeldStep DEF Leaves

\* What a write leaves behind (pool.go:470-504).
LEMMA HeldWrites ==
  ASSUME HeldTyped, NEW p \in Procs, NEW st, NEW rs, NEW where \in Places, Writes(p, st, rs, where)
  PROVE  /\ HeldTyped' /\ OthersStay(p) /\ work'[p].pc = where
         /\ status' = st /\ reason' = rs /\ enabled' = enabled
  BY HeldForms, HeldTo, HeldStep DEF Writes


-----------------------------------------------------------------------------
(* What the health of the backend means to the failover.                    *)

\* A step changes no row, or leaves the backend in service, or its disable committed by
\* a process that now has to fail over.
RowGoes(p) ==
    /\ status' \in Statuses
    /\ enabled' = enabled
    /\ UNCHANGED row \/ status' # "disabled" \/ (Current(p) /\ work'[p].pc = "commit")

\* Whatever a probe does, it moves alone, and a disable it writes it also commits
\* (health.go:258-922, health_canary.go:230-269).
LEMMA ProbeGoes ==
  ASSUME HeldTyped, status \in Statuses, NEW p \in Probers, Probe(p)
  PROVE  HeldTyped' /\ OthersStay(p) /\ RowGoes(p)
<1> DEFINE Goal == HeldTyped' /\ OthersStay(p) /\ RowGoes(p)
<1> SUFFICES Goal
  OBVIOUS
<1>0. p \in Procs /\ work[p] \in Work
  BY DEF Procs, HeldTyped
<1>r. UNCHANGED row => RowGoes(p)
  BY DEF RowGoes, row
<1>g. \A where \in Places : Moves(p, To(p, where)) /\ UNCHANGED row => Goal
  BY <1>0, <1>r, HeldGoes
<1>l. Leaves(p) /\ UNCHANGED row => Goal
  BY <1>0, <1>r, HeldLeaves
<1>w. \A w \in Work : (Moves(p, w) \/ Rewrites(p, w)) /\ UNCHANGED row => Goal
  BY <1>0, <1>r, HeldStep
<1>c. \A rs, where : where \in Places /\ Writes(p, "disabled", rs, where) /\ where = "commit" => Goal
  BY <1>0, HeldWrites DEF RowGoes, Statuses, Writes
<1>s. \A st, rs, where : where \in Places /\ Writes(p, st, rs, where) /\ st \in Statuses \ {"disabled"} => Goal
  BY <1>0, HeldWrites DEF RowGoes
<1>p. ProberPcs \subseteq Places
  BY DEF Places
<1> HIDE DEF Goal
<1>1. CASE List(p)
  <2>1. [Rest EXCEPT !.pc = "listed", !.blocked = (status = "handshake_blocked")] \in Work
    BY DEF Rest, Work, Places, ProberPcs, Statuses
  <2> QED BY <1>1, <1>w, <2>1 DEF List, WorkOnly
<1>2. CASE Snapshot(p)
  <2> DEFINE b == work[p].blocked \/ status = "handshake_blocked"
             w == [To(p, "probing") EXCEPT !.current = TRUE, !.seen = status, !.blocked = b]
  <2>1. To(p, "probing") \in Work
    BY <1>0, HeldTo DEF Places, ProberPcs
  <2>2. b \in BOOLEAN
    OBVIOUS
  <2> HIDE DEF b
  <2>3. w \in Work
    BY <2>1, <2>2 DEF Work
  <2> USE DEF b
  <2>4. Moves(p, w) \/ Leaves(p)
    BY <1>2 DEF Snapshot, Leaves
  <2> HIDE DEF w
  <2> QED BY <1>2, <1>w, <1>l, <2>3, <2>4 DEF Snapshot, WorkOnly
<1>3. CASE ProbeIsSlow(p)
  <2> DEFINE w == [work[p] EXCEPT !.slow = TRUE]
  <2>1. \A where \in Places : [w EXCEPT !.pc = where] \in Work
    BY <1>0 DEF Work, Places
  <2>2. Leaves(p) \/ \E where \in Places : Moves(p, [w EXCEPT !.pc = where])
    BY <1>3 DEF ProbeIsSlow, BeginCanary, Places, ProberPcs
  <2> HIDE DEF w
  <2> QED BY <1>3, <1>w, <1>l, <2>1, <2>2 DEF ProbeIsSlow, WorkOnly
<1>4. CASE Reconcile(p)
  <2> DEFINE w == [To(p, "again") EXCEPT !.current = TRUE]
  <2>1. To(p, "again") \in Work
    BY <1>0, HeldTo DEF Places, ProberPcs
  <2>2. w \in Work
    BY <2>1 DEF Work
  <2>3. Moves(p, w) \/ Leaves(p)
    BY <1>4 DEF Reconcile
  <2> HIDE DEF w
  <2> QED BY <1>4, <1>w, <1>l, <2>2, <2>3 DEF Reconcile, WorkOnly
<1>5. CASE Superseded(p) \/ DropFailure(p) \/ HookRefused(p) \/ MissAgain(p) \/ Settle(p) \/ NotWritten(p)
  BY <1>5, <1>l DEF Superseded, DropFailure, HookRefused, MissAgain, Settle, NotWritten, WorkOnly
<1>6. CASE ProbeFails(p) \/ ProbeSucceeds(p) \/ Hook(p) \/ HookFails(p) \/ CommitDisable(p)
  BY <1>6, <1>g, <1>p
     DEF ProbeFails, ProbeSucceeds, Hook, HookFails, CommitDisable, BeginCanary, WorkOnly, ProberPcs
<1>7. ASSUME Downgrade(p), UNCHANGED row PROVE Goal
  BY <1>7, <1>g, <1>l, <1>p DEF Downgrade, Leaves, ProberPcs
<1>8. CASE CountFailure(p)
  <2>1. Downgrade(p) \/ \E where \in {"confirming", "disable"} : Moves(p, To(p, where))
    BY <1>8 DEF CountFailure, BeginCanary
  <2> QED BY <1>7, <1>8, <1>g, <1>p, <2>1 DEF CountFailure, WorkOnly, ProberPcs
<1>9. CASE UseLoss(p)
  BY <1>7, <1>9, <1>g, <1>p DEF UseLoss, WorkOnly, ProberPcs
<1>10. CASE Disable(p) \/ DisableAgain(p)
  BY <1>10, <1>c, <1>g, <1>p DEF Disable, DisableAgain, ProberPcs
<1>11. CASE Block(p) \/ Degrade(p) \/ Promote(p)
  BY <1>11, <1>s, <1>l, <1>p DEF Block, Degrade, Promote, ProberPcs, Statuses
<1>12. CASE Canary(p)
  <2>1. CASE ObserveReply(p)
    <3>1. Concluded(work[p].pc) \in ProberPcs \cup HealerPcs
      BY <2>1 DEF ObserveReply, Observing, Concluded, HealerPcs, ProberPcs
    <3> QED BY <1>g, <2>1, <3>1 DEF ObserveReply, WorkOnly, Places
  <2>2. CASE ObserveLoss(p)
    BY <1>g, <1>l, <1>p, <2>2 DEF ObserveLoss, WorkOnly, Leaves, ProberPcs
  <2>3. CASE ObserveNothing(p)
    BY <1>l, <2>3 DEF ObserveNothing, WorkOnly
  <2>4. CASE UseReply(p)
    <3>1. Leaves(p) \/ \E where \in {"block", "promote", "revive"} : Moves(p, To(p, where))
      BY <2>4 DEF UseReply, Leaves, At
    <3> QED BY <1>g, <1>l, <2>4, <3>1 DEF UseReply, WorkOnly, Places, ProberPcs, HealerPcs
  <2> QED BY <1>12, <2>1, <2>2, <2>3, <2>4 DEF Canary
<1> QED BY <1>1, <1>2, <1>3, <1>4, <1>5, <1>6, <1>8, <1>9, <1>10, <1>11, <1>12 DEF Probe

\* A probe has no sessions to move, and gives up a failover only between the disable
\* and its commit, when another write has come in between (health.go:728-737).
LEMMA ProbeStands ==
  ASSUME HeldTyped, NEW p \in Probers, Probe(p)
  PROVE  /\ ~At(p, "moving")
         /\ FailingOver(p) => At(p, "commit") /\ (Current(p) => work'[p].pc = "notify")
<1>1. Superseded(p) \/ CommitDisable(p)
      \/ work[p].pc \notin {"commit", "notify", "failing", "listing", "moving"}
  <2> USE DEF At, Observing
  <2>1. CASE List(p) \/ Snapshot(p) \/ ProbeFails(p) \/ ProbeSucceeds(p) \/ ProbeIsSlow(p)
    BY <2>1 DEF List, Snapshot, ProbeFails, ProbeSucceeds, ProbeIsSlow
  <2>2. CASE CountFailure(p) \/ DropFailure(p) \/ Hook(p) \/ HookFails(p) \/ HookRefused(p) \/ UseLoss(p)
    BY <2>2 DEF CountFailure, DropFailure, Hook, HookFails, HookRefused, UseLoss
  <2>3. CASE Canary(p)
    BY <2>3 DEF Canary, ObserveReply, ObserveLoss, ObserveNothing, UseReply
  <2>4. CASE Disable(p) \/ Reconcile(p) \/ DisableAgain(p) \/ MissAgain(p)
    BY <2>4 DEF Disable, Reconcile, DisableAgain, MissAgain
  <2>5. CASE Block(p) \/ Degrade(p) \/ Promote(p) \/ Settle(p) \/ NotWritten(p)
    BY <2>5 DEF Block, Degrade, Promote, Settle, NotWritten
  <2> QED BY <2>1, <2>2, <2>3, <2>4, <2>5 DEF Probe
<1>2. CASE Superseded(p)
  BY <1>2 DEF Superseded, At, FailingOver
<1>3. CASE CommitDisable(p)
  <2>1. p \in Procs /\ "notify" \in Places
    BY DEF Procs, Places, ProberPcs
  <2>2. work'[p].pc = "notify"
    BY <1>3, <2>1, HeldGoes DEF CommitDisable
  <2> QED BY <1>3, <2>2 DEF CommitDisable, At
<1> QED BY <1>1, <1>2, <1>3 DEF FailingOver, At

\* The healer moves alone, is not failing over while it heals, and disables nothing
\* (health_selfheal.go:103-380).
LEMMA HealGoes ==
  ASSUME HeldTyped, status \in Statuses, Heal
  PROVE  /\ HeldTyped' /\ OthersStay(Healer)
         /\ status' \in Statuses /\ enabled' = enabled
         /\ UNCHANGED row \/ status' # "disabled"
         /\ ~FailingOver(Healer)
<1> DEFINE Quiet == /\ status' \in Statuses /\ enabled' = enabled
                    /\ UNCHANGED row \/ status' # "disabled"
           Goal == HeldTyped' /\ OthersStay(Healer) /\ Quiet /\ ~FailingOver(Healer)
<1> SUFFICES Goal
  OBVIOUS
<1>0. Healer \in Procs /\ work[Healer] \in Work
  BY DEF Procs, HeldTyped
<1>1. ~FailingOver(Healer)
  <2> USE DEF FailingOver, At, Observing
  <2>1. CASE Target \/ HealProbeFails \/ HealProbeSucceeds \/ HealProbeIsSlow
    BY <2>1 DEF Target, HealProbeFails, HealProbeSucceeds, HealProbeIsSlow, Damp
  <2>2. CASE StartHook \/ HookEnds \/ HookAborts \/ HookNotRegistered \/ Recovered
    BY <2>2 DEF StartHook, HookEnds, HookAborts, HookNotRegistered, Recovered
  <2>3. CASE Canary(Healer) \/ Revive \/ Clear \/ NotWritten(Healer)
    BY <2>3 DEF Canary, ObserveReply, ObserveLoss, ObserveNothing, UseReply, Revive, Clear, NotWritten
  <2> QED BY <2>1, <2>2, <2>3 DEF Heal
<1>r. UNCHANGED row => Quiet
  BY DEF row
<1>g. \A where \in Places : Moves(Healer, To(Healer, where)) /\ UNCHANGED row => Goal
  BY <1>0, <1>1, <1>r, HeldGoes
<1>l. Leaves(Healer) /\ UNCHANGED row => Goal
  BY <1>0, <1>1, <1>r, HeldLeaves
<1>w. \A w \in Work : (Moves(Healer, w) \/ Rewrites(Healer, w)) /\ UNCHANGED row => Goal
  BY <1>0, <1>1, <1>r, HeldStep
<1>p. HealerPcs \subseteq Places
  BY DEF Places
<1> HIDE DEF Goal
<1>2. CASE Target
  <2>1. [Rest EXCEPT !.pc = "target", !.current = TRUE] \in Work
    BY DEF Rest, Work, Places, HealerPcs, Statuses
  <2> QED BY <1>2, <1>w, <2>1 DEF Target, WorkOnly
<1>3. CASE HealProbeFails \/ HookAborts \/ Clear \/ NotWritten(Healer)
  BY <1>3, <1>l DEF HealProbeFails, HookAborts, Clear, NotWritten, WorkOnly
<1>4. CASE HealProbeSucceeds \/ HealProbeIsSlow
  <2>1. PICK quick \in BOOLEAN : Damp(quick)
    BY <1>4 DEF HealProbeSucceeds, HealProbeIsSlow
  <2> DEFINE w == [To(Healer, "proved") EXCEPT !.slow = ~quick]
  <2>2. To(Healer, "proved") \in Work
    BY <1>0, HeldTo DEF Places, HealerPcs
  <2>3. w \in Work
    BY <2>2 DEF Work
  <2>4. UNCHANGED row /\ (Moves(Healer, w) \/ Leaves(Healer))
    BY <2>1 DEF Damp, Leaves, WorkOnly
  <2> HIDE DEF w
  <2> QED BY <1>w, <1>l, <2>3, <2>4
<1>5. CASE StartHook
  <2>1. To(Healer, "hooking") \in Work /\ Outdated(To(Healer, "hooking")) \in Work
    BY <1>0, HeldTo, HeldForms DEF Places, HealerPcs
  <2> QED BY <1>5, <1>w, <1>l, <2>1 DEF StartHook
<1>6. CASE HookEnds
  BY <1>6, <1>g, <1>p DEF HookEnds, HealerPcs
<1>7. CASE HookNotRegistered
  <2>1. CASE enabled
    <3>1. work' = [q \in Procs |-> IF q = Healer THEN Rest ELSE Outdated(work[q])]
      BY <1>7, <2>1 DEF HookNotRegistered, Declare
    <3>2. HeldTyped' /\ OthersStay(Healer)
      BY <3>1, HeldForms DEF HeldTyped, OthersStay
    <3>3. status' = "degraded" /\ enabled' = enabled
      BY <1>7, <2>1 DEF HookNotRegistered, Declare
    <3> QED BY <1>1, <3>2, <3>3 DEF Goal, Statuses
  <2>2. CASE ~enabled
    <3>1. work' = [q \in Procs |-> IF q = Healer THEN Rest ELSE work[q]]
      BY <1>7, <2>2 DEF HookNotRegistered, Declare
    <3>2. HeldTyped' /\ OthersStay(Healer)
      BY <3>1, HeldForms DEF HeldTyped, OthersStay
    <3>3. UNCHANGED row
      BY <1>7, <2>2 DEF HookNotRegistered, Declare, row
    <3> QED BY <1>1, <1>r, <3>2, <3>3 DEF Goal
  <2> QED BY <2>1, <2>2
<1>8. CASE Recovered
  <2> DEFINE w == [To(Healer, "overtaken") EXCEPT !.current = TRUE]
  <2>1. To(Healer, "overtaken") \in Work
    BY <1>0, HeldTo DEF Places, HealerPcs
  <2>2. w \in Work
    BY <2>1 DEF Work
  <2>3. \/ \E where \in {"healing", "revive"} : Moves(Healer, To(Healer, where))
        \/ Leaves(Healer) \/ Moves(Healer, w)
    BY <1>8 DEF Recovered, BeginCanary
  <2> HIDE DEF w
  <2> QED BY <1>8, <1>g, <1>l, <1>w, <1>p, <2>2, <2>3 DEF Recovered, WorkOnly, HealerPcs
<1>9. CASE Revive
  <2>1. CASE Leaves(Healer) /\ UNCHANGED row
    BY <1>l, <2>1
  <2>2. ASSUME NEW st \in {"degraded", "active"}, Writes(Healer, st, "none", "clear") PROVE Goal
    <3>1. HeldTyped' /\ OthersStay(Healer) /\ status' = st /\ enabled' = enabled
      BY <1>0, <1>p, <2>2, HeldWrites DEF HealerPcs
    <3> QED BY <1>1, <3>1 DEF Goal, Statuses
  <2> QED BY <1>9, <2>1, <2>2 DEF Revive
<1>10. CASE Canary(Healer)
  <2>1. CASE ObserveReply(Healer)
    <3>1. Concluded(work[Healer].pc) \in ProberPcs \cup HealerPcs
      BY <2>1 DEF ObserveReply, Observing, Concluded, HealerPcs, ProberPcs
    <3> QED BY <1>g, <2>1, <3>1 DEF ObserveReply, WorkOnly, Places
  <2>2. CASE ObserveLoss(Healer) \/ ObserveNothing(Healer)
    BY <1>l, <2>2 DEF ObserveLoss, ObserveNothing, WorkOnly, Leaves
  <2>3. CASE UseReply(Healer)
    <3>1. Leaves(Healer) \/ \E where \in {"block", "promote", "revive"} : Moves(Healer, To(Healer, where))
      BY <2>3 DEF UseReply, Leaves, At
    <3> QED BY <1>g, <1>l, <2>3, <3>1 DEF UseReply, WorkOnly, Places, ProberPcs, HealerPcs
  <2> QED BY <1>10, <2>1, <2>2, <2>3 DEF Canary
<1> QED BY <1>2, <1>3, <1>4, <1>5, <1>6, <1>7, <1>8, <1>9, <1>10 DEF Heal

\* Nobody goes anywhere, unless a fence stops the healer that is attaching.
AllStay == \A q \in Procs : \/ work'[q].pc = work[q].pc
                            \/ work[q].pc = "hooking" /\ work'[q].pc = "fenced"

\* The administrator and the scheduler leave everybody where they are.  What is disabled for
\* its health after such a step was so before, or was out of service and so without
\* sessions but strays (backend_enable.go:409-465, backend_lifecycle.go:164-248,
\* orchestrator/vpn_tasks.go:463-478).
LEMMA AdministerGoes ==
  ASSUME HeldTyped, status \in Statuses,
         EnableBackend \/ EnableNotRegistered \/ EnableAborts \/ FinishEnableBackend
           \/ MoveBackend \/ SyncDevice \/ Check
  PROVE  /\ HeldTyped' /\ AllStay /\ status' \in Statuses
         /\ enabled => enabled'
         /\ StillOwed' => StillOwed \/ ~enabled
<1> DEFINE Goal == /\ HeldTyped' /\ AllStay /\ status' \in Statuses
                   /\ enabled => enabled'
                   /\ StillOwed' => StillOwed \/ ~enabled
<1> SUFFICES Goal
  OBVIOUS
<1>1. UNCHANGED work => HeldTyped' /\ AllStay
  BY DEF HeldTyped, AllStay
<1>2. work' = [q \in Procs |-> Outdated(work[q])] => HeldTyped' /\ AllStay
  BY HeldForms DEF HeldTyped, AllStay
<1>3. work' = [q \in Procs |-> Fenced(Outdated(work[q]))] => HeldTyped' /\ AllStay
  BY HeldForms DEF HeldTyped, AllStay
<1>4. CASE EnableBackend \/ EnableAborts
  BY <1>1, <1>4 DEF EnableBackend, EnableAborts, row, StillOwed
<1>5. CASE EnableNotRegistered
  <2>1. HeldTyped' /\ AllStay
    <3>1. work' = [q \in Procs |-> IF q = Nobody THEN Rest ELSE IF enabled THEN Outdated(work[q]) ELSE work[q]]
      BY <1>5 DEF EnableNotRegistered, Declare
    <3>2. \A q \in Procs : q # Nobody
      BY FailoverAssumption
    <3> QED BY <3>1, <3>2, HeldForms DEF HeldTyped, AllStay
  <2>2. /\ enabled' = enabled /\ reason' = reason
        /\ status' = "degraded" \/ UNCHANGED status
    BY <1>5 DEF EnableNotRegistered, Declare
  <2> QED BY <2>1, <2>2 DEF HeldTyped, StillOwed, Statuses
<1>6. CASE FinishEnableBackend
  <2>1. \/ work' = [q \in Procs |-> IF enabled /\ reason = "none" THEN work[q] ELSE Outdated(work[q])]
        \/ UNCHANGED work
        \/ work' = [q \in Procs |-> Outdated(work[q])]
    BY <1>6 DEF FinishEnableBackend
  <2>2. HeldTyped' /\ AllStay
    BY <1>1, <1>2, <2>1, HeldForms DEF HeldTyped, AllStay
  <2>3. /\ status' \in Statuses
        /\ enabled => enabled'
        /\ StillOwed' => StillOwed \/ ~enabled
    BY <1>6 DEF FinishEnableBackend, Provenance, StillOwed, Statuses, row
  <2> QED BY <2>2, <2>3
<1>7. CASE MoveBackend
  BY <1>3, <1>7 DEF MoveBackend, row, StillOwed
<1>8. CASE SyncDevice
  <2>1. UNCHANGED work \/ work' = [q \in Procs |-> Fenced(Outdated(work[q]))]
    BY <1>8 DEF SyncDevice
  <2>2. /\ status' \in Statuses /\ enabled' = enabled
        /\ StillOwed' => StillOwed
    BY <1>8 DEF SyncDevice, StillOwed, Statuses
  <2> QED BY <1>1, <1>3, <2>1, <2>2
<1>9. CASE Check
  <2>1. UNCHANGED work \/ work' = [q \in Procs |-> Outdated(work[q])]
    BY <1>9 DEF Check, CheckAttaches, CheckPromotes, CheckDowngrades, CheckLoses, CheckMisses, Reports
  <2>2. enabled' = enabled /\ status' \in Statuses
    BY <1>9 DEF Check, CheckAttaches, CheckPromotes, CheckDowngrades, CheckLoses, CheckMisses, Reports,
                row, Statuses
  <2>3. ~StillOwed'
    BY <1>9, CheckRewrites DEF StillOwed
  <2> QED BY <1>1, <1>2, <2>1, <2>2, <2>3
<1> QED BY <1>4, <1>5, <1>6, <1>7, <1>8, <1>9

-----------------------------------------------------------------------------
(* Types.                                                                   *)

SessionsTyped ==
    /\ strays \subseteq pinned /\ pinned \subseteq Sessions
    /\ admitting \in (Sessions \ pinned) \cup {Nobody}
    /\ alternative \in BOOLEAN /\ debt \in BOOLEAN /\ dropped \in BOOLEAN

TodoTyped ==
    /\ todo \in [Procs -> SUBSET Sessions]
    /\ \A p \in Procs : todo[p] # {} => At(p, "moving")

Typed == FailoverTypeOK /\ status \in Statuses

\* The state is well typed when its parts are.
LEMMA TypedParts ==
  /\ Typed <=> HeldTyped /\ SessionsTyped /\ TodoTyped /\ status \in Statuses
  /\ Typed' <=> HeldTyped' /\ SessionsTyped' /\ TodoTyped' /\ status' \in Statuses
  BY DEF Typed, FailoverTypeOK, HeldTyped, SessionsTyped, TodoTyped, At

\* Who has nothing to move may go anywhere.
LEMMA TodoStays ==
  ASSUME TodoTyped, NEW p \in Procs, OthersStay(p), todo[p] = {}, UNCHANGED todo
  PROVE  TodoTyped'
  BY DEF TodoTyped, OthersStay, At

\* Ending a failover, the retry looks once more and a notification rests.
LEMMA EndsGoes ==
  ASSUME HeldTyped, NEW p \in Procs, Ends(p)
  PROVE  HeldTyped' /\ OthersStay(p) /\ work'[p].pc \in {"idle", "rechecking"}
<1>1. CASE p = Healer
  BY <1>1, HeldGoes, FailoverAssumption DEF Ends, Places
<1>2. CASE p # Healer
  BY <1>2, HeldLeaves DEF Ends, Leaves
<1> QED BY <1>1, <1>2

\* A failover keeps the types, and touches no row (backend_health_disable.go:56-179).
LEMMA FailoverTyped ==
  ASSUME Typed, NEW p \in Procs, Failover(p)
  PROVE  Typed' /\ OthersStay(p) /\ UNCHANGED <<row, admitting>>
<1> DEFINE Goal == HeldTyped' /\ SessionsTyped' /\ TodoTyped' /\ OthersStay(p)
<1>0. HeldTyped /\ SessionsTyped /\ TodoTyped /\ status \in Statuses
  BY TypedParts
<1>1. UNCHANGED <<row, admitting>>
  BY DEF Failover, NotifyFailover, FindTargets, ListSessions, MoveSession, SettleDebt,
         UnchangedHealth, failover, sessions
<1>2. ~At(p, "moving") => todo[p] = {}
  BY <1>0 DEF TodoTyped
<1> SUFFICES Goal
  BY <1>0, <1>1, TypedParts DEF row
<1>3. CASE NotifyFailover(p)
  <2>1. todo[p] = {} /\ UNCHANGED failover
    BY <1>2, <1>3 DEF NotifyFailover, At
  <2>2. HeldTyped' /\ OthersStay(p)
    <3>1. CASE StillOwed
      <4> DEFINE w == [To(p, "failing") EXCEPT !.current = TRUE]
      <4>1. To(p, "failing") \in Work
        BY <1>0, HeldTo, FailoverAssumption DEF Places
      <4>2. w \in Work
        BY <4>1 DEF Work
      <4>3. Moves(p, w)
        BY <1>3, <3>1 DEF NotifyFailover
      <4> HIDE DEF w
      <4> QED BY <1>0, <4>2, <4>3, HeldStep
    <3>2. CASE ~StillOwed
      BY <1>0, <1>3, <3>2, HeldLeaves DEF NotifyFailover, Leaves
    <3> QED BY <3>1, <3>2
  <2>3. SessionsTyped'
    BY <1>0, <2>1 DEF SessionsTyped, failover, sessions
  <2> QED BY <1>0, <2>1, <2>2, <2>3, TodoStays DEF failover
<1>4. CASE FindTargets(p)
  <2>1. todo[p] = {} /\ UNCHANGED <<sessions, alternative, todo>>
    BY <1>2, <1>4 DEF FindTargets, At
  <2>2. Moves(p, To(p, "listing")) \/ Ends(p)
    BY <1>4 DEF FindTargets
  <2>3. HeldTyped' /\ OthersStay(p)
    BY <1>0, <2>2, HeldGoes, EndsGoes, FailoverAssumption DEF Places
  <2>4. StillOwed \in BOOLEAN
    BY DEF StillOwed
  <2>5. debt' \in BOOLEAN /\ dropped' \in BOOLEAN
    BY <1>0, <1>4, <2>4, Zenon DEF FindTargets, Refused, SessionsTyped
  <2>6. SessionsTyped'
    BY <1>0, <2>1, <2>5 DEF SessionsTyped, sessions
  <2> QED BY <1>0, <2>1, <2>3, <2>6, TodoStays
<1>5. CASE ListSessions(p)
  <2>1. UNCHANGED <<sessions, alternative, dropped>> /\ debt' \in BOOLEAN
    BY <1>0, <1>5 DEF ListSessions, SessionsTyped
  <2>2. SessionsTyped'
    BY <1>0, <2>1 DEF SessionsTyped, sessions
  <2>3. CASE pinned = {}
    <3>1. todo[p] = {} /\ UNCHANGED todo
      BY <1>2, <1>5, <2>3 DEF ListSessions, At
    <3>2. Ends(p) \/ Leaves(p)
      BY <1>5, <2>3 DEF ListSessions
    <3> QED BY <1>0, <2>2, <3>1, <3>2, EndsGoes, HeldLeaves, TodoStays
  <2>4. CASE pinned # {}
    <3>1. Moves(p, To(p, "moving")) /\ todo' = [todo EXCEPT ![p] = pinned]
      BY <1>5, <2>4 DEF ListSessions
    <3>2. HeldTyped' /\ OthersStay(p) /\ work'[p].pc = "moving"
      BY <1>0, <3>1, HeldGoes, FailoverAssumption DEF Places
    <3>3. TodoTyped'
      BY <1>0, <3>1, <3>2 DEF TodoTyped, OthersStay, At, SessionsTyped
    <3> QED BY <2>2, <3>2, <3>3
  <2> QED BY <2>3, <2>4
<1>6. CASE MoveSession(p)
  <2>1. PICK s \in todo[p] : todo' = [todo EXCEPT ![p] = @ \ {s}]
    BY <1>6 DEF MoveSession
  <2>2. UNCHANGED <<work, admitting, alternative, debt, dropped>>
    BY <1>6 DEF MoveSession
  <2>3. \/ UNCHANGED <<pinned, strays>>
        \/ \E t : pinned' = pinned \ {t} /\ strays' = strays \ {t}
    BY <1>6 DEF MoveSession
  <2>4. SessionsTyped'
    BY <1>0, <2>2, <2>3 DEF SessionsTyped
  <2>5. TodoTyped'
    BY <1>0, <2>1, <2>2 DEF TodoTyped, At
  <2> QED BY <1>0, <2>2, <2>4, <2>5 DEF HeldTyped, OthersStay
<1>7. CASE SettleDebt(p)
  <2>1. todo[p] = {} /\ UNCHANGED <<sessions, alternative, todo, dropped>> /\ Ends(p)
    BY <1>7 DEF SettleDebt
  <2>2. (pinned # {}) \in BOOLEAN
    OBVIOUS
  <2>3. debt' \in BOOLEAN
    BY <1>7, <2>2, Zenon DEF SettleDebt
  <2>4. SessionsTyped'
    BY <1>0, <2>1, <2>3 DEF SessionsTyped, sessions
  <2> QED BY <1>0, <2>1, <2>4, EndsGoes, TodoStays
<1> QED BY <1>3, <1>4, <1>5, <1>6, <1>7 DEF Failover

\* The retry keeps them too (health_failover_retry.go:138-207).
LEMMA RetryTyped ==
  ASSUME Typed, RetryFailover \/ Recheck \/ StaysDead
  PROVE  Typed' /\ OthersStay(Healer) /\ UNCHANGED <<row, sessions, dropped>>
<1>0. HeldTyped /\ SessionsTyped /\ TodoTyped /\ status \in Statuses /\ Healer \in Procs
  BY TypedParts DEF Procs
<1>1. ~At(Healer, "moving")
  BY DEF RetryFailover, Recheck, StaysDead, At
<1>2. todo[Healer] = {} /\ UNCHANGED <<row, sessions, dropped, todo, alternative>>
  BY <1>0, <1>1 DEF RetryFailover, Recheck, StaysDead, TodoTyped, UnchangedHealth, failover
<1>3. [Rest EXCEPT !.pc = "failing", !.current = TRUE] \in Work
  BY FailoverAssumption DEF Rest, Work, Places, Statuses
<1>4. UNCHANGED work \/ Leaves(Healer) \/ Moves(Healer, [Rest EXCEPT !.pc = "failing", !.current = TRUE])
  BY DEF RetryFailover, Recheck, StaysDead
<1>5. HeldTyped' /\ OthersStay(Healer)
  BY <1>0, <1>3, <1>4, HeldStep, HeldLeaves DEF HeldTyped, OthersStay
<1>6. (debt /\ pinned # {}) \in BOOLEAN
  OBVIOUS
<1>7. debt' \in BOOLEAN
  BY <1>0, <1>6, Zenon DEF RetryFailover, Recheck, StaysDead, SessionsTyped, failover
<1>8. SessionsTyped'
  BY <1>0, <1>2, <1>7 DEF SessionsTyped, sessions
<1> QED BY <1>0, <1>2, <1>5, <1>8, TodoStays, TypedParts DEF row

\* Sessions that come and go, and other backends, keep them (vpn_ingress.go:204-363).
LEMMA SessionsKeep ==
  ASSUME Typed,
         \/ \E s \in Sessions : ChooseBackend(s) \/ SessionLeaves(s)
         \/ CreateSession \/ AlternativeChanges
  PROVE  Typed' /\ UNCHANGED <<work, row, debt, dropped>>
<1>0. HeldTyped /\ SessionsTyped /\ TodoTyped /\ status \in Statuses
  BY TypedParts
<1>1. UNCHANGED <<work, row, todo, debt, dropped>>
  BY DEF ChooseBackend, SessionLeaves, CreateSession, AlternativeChanges, vars
<1>2. SessionsTyped'
  <2>1. CASE \E s \in Sessions : ChooseBackend(s)
    BY <1>0, <1>1, <2>1 DEF ChooseBackend, SessionsTyped
  <2>2. CASE \E s \in Sessions : SessionLeaves(s)
    BY <1>0, <1>1, <2>2 DEF SessionLeaves, SessionsTyped
  <2>3. CASE CreateSession
    BY <1>0, <1>1, <2>3 DEF CreateSession, SessionsTyped
  <2>4. CASE AlternativeChanges
    BY <1>0, <1>1, <2>4 DEF AlternativeChanges, SessionsTyped, sessions
  <2> QED BY <2>1, <2>2, <2>3, <2>4
<1> QED BY <1>0, <1>1, <1>2, TypedParts DEF HeldTyped, TodoTyped, At, row

\* Every step keeps the types.
LEMMA StepTyped == Typed /\ [FailoverNext]_allVars => Typed'
<1> SUFFICES ASSUME Typed, [FailoverNext]_allVars PROVE Typed'
  OBVIOUS
<1>0. HeldTyped /\ SessionsTyped /\ TodoTyped /\ status \in Statuses
  BY TypedParts
<1>1. CASE UNCHANGED allVars
  BY <1>1 DEF allVars, vars, failover, sessions, row, Typed, FailoverTypeOK, At
<1>2. ASSUME NEW p \in Running, ProbeStep(p) PROVE Typed'
  <2>1. p \in Probers /\ p \in Procs
    BY FailoverAssumption DEF Procs
  <2>2. HeldTyped' /\ OthersStay(p) /\ status' \in Statuses
    BY <1>0, <1>2, <2>1, ProbeGoes DEF ProbeStep, RowGoes
  <2>3. /\ todo[p] = {} /\ UNCHANGED <<pinned, admitting, alternative, debt, todo>>
        /\ strays' = {} \/ strays' = strays
    BY <1>0, <1>2, <2>1, ProbeStands DEF ProbeStep, TodoTyped
  <2>4. (dropped \/ (At(p, "commit") /\ ~Current(p) /\ StillOwed)) \in BOOLEAN
    OBVIOUS
  <2>5. dropped' \in BOOLEAN
    BY <1>2, <2>4, Zenon DEF ProbeStep
  <2>6. SessionsTyped'
    BY <1>0, <2>3, <2>5 DEF SessionsTyped
  <2> QED BY <1>0, <2>1, <2>2, <2>3, <2>6, TodoStays, TypedParts
<1>3. CASE HealStep
  <2>1. HeldTyped' /\ OthersStay(Healer) /\ status' \in Statuses /\ ~FailingOver(Healer)
    BY <1>0, <1>3, HealGoes DEF HealStep
  <2>2. Healer \in Procs /\ todo[Healer] = {} /\ UNCHANGED failover
    BY <1>0, <1>3, <2>1 DEF HealStep, TodoTyped, FailingOver, At, Procs
  <2>3. SessionsTyped' /\ UNCHANGED todo
    BY <1>0, <2>2 DEF SessionsTyped, failover, sessions
  <2> QED BY <1>0, <2>1, <2>2, <2>3, TodoStays, TypedParts
<1>4. ASSUME AllStay, HeldTyped', SessionsTyped', status' \in Statuses, UNCHANGED todo PROVE Typed'
  <2>1. TodoTyped'
    BY <1>0, <1>4 DEF AllStay, TodoTyped, At
  <2> QED BY <1>4, <2>1, TypedParts
<1>5. CASE DisableStep
  <2>1. /\ UNCHANGED <<admitting, alternative, debt, todo, dropped, status>>
        /\ pinned' \subseteq pinned /\ strays' = pinned' /\ admitting = Nobody
    BY <1>5 DEF DisableStep, DisableBackend
  <2>2. SessionsTyped'
    BY <1>0, <2>1 DEF SessionsTyped
  <2>3. work' = [q \in Procs |-> Fenced(IF ~enabled /\ reason = "admin" THEN work[q] ELSE Outdated(work[q]))]
    BY <1>5 DEF DisableStep, DisableBackend
  <2>4. HeldTyped' /\ AllStay
    BY <1>0, <2>3, HeldForms DEF HeldTyped, AllStay
  <2> QED BY <1>0, <1>4, <2>1, <2>2, <2>4
<1>6. CASE RestartStep
  <2>1. /\ work' = [q \in Procs |-> Rest] /\ todo' = [q \in Procs |-> {}]
        /\ UNCHANGED alternative
        /\ pinned' = {} /\ strays' = {} /\ admitting' = Nobody /\ debt' = FALSE /\ dropped' = FALSE
        /\ status' = "connecting" \/ UNCHANGED status
    BY <1>6 DEF RestartStep, Restart, StartupHealth
  <2>2. SessionsTyped'
    BY <1>0, <2>1 DEF SessionsTyped
  <2>3. HeldTyped' /\ TodoTyped'
    BY <2>1, HeldForms DEF HeldTyped, TodoTyped
  <2> QED BY <1>0, <2>1, <2>2, <2>3, TypedParts DEF Statuses
<1>7. CASE AdminStep
  <2>1. HeldTyped' /\ AllStay /\ status' \in Statuses /\ UNCHANGED failover
    BY <1>0, <1>7, AdministerGoes DEF AdminStep
  <2>2. SessionsTyped' /\ UNCHANGED todo
    BY <1>0, <2>1 DEF SessionsTyped, failover, sessions
  <2> QED BY <1>4, <2>1, <2>2
<1>8. ASSUME NEW p \in Running \cup {Healer}, Failover(p) PROVE Typed'
  BY <1>8, FailoverTyped, FailoverAssumption DEF Procs
<1> QED BY <1>1, <1>2, <1>3, <1>5, <1>6, <1>7, <1>8, SessionsKeep, RetryTyped DEF FailoverNext

\* A service that starts is well typed.
LEMMA InitTyped == FailoverInit => Typed
<1> SUFFICES ASSUME FailoverInit PROVE Typed
  OBVIOUS
<1>1. status \in Statuses
  BY DEF FailoverInit, HealthInit, Statuses
<1>2. HeldTyped /\ TodoTyped
  BY HeldForms DEF FailoverInit, HealthInit, HeldTyped, TodoTyped
<1>3. SessionsTyped
  BY DEF FailoverInit, SessionsTyped
<1> QED BY <1>1, <1>2, <1>3, TypedParts

\* What the failover keeps is always well typed (health_failover_retry.go).
THEOREM FailoverTypes == FailoverSpec => []FailoverTypeOK
<1>1. Typed => FailoverTypeOK
  BY DEF Typed
<1> QED BY <1>1, InitTyped, StepTyped, PTL DEF FailoverSpec

-----------------------------------------------------------------------------
(* The health of a backend whose sessions fail over.                        *)

\* Every step is one of TunnelHealth, or a failover's, or a probe that a dead
\* backend does not answer.
LEMMA StepKinds ==
  ASSUME [FailoverNext]_allVars
  PROVE  \/ [HealthNext]_vars
         \/ \E p \in Running \cup {Healer} : Failover(p)
         \/ RetryFailover \/ Recheck \/ StaysDead
<1>1. ASSUME NEW s \in Sessions, ChooseBackend(s) \/ SessionLeaves(s) PROVE UNCHANGED vars
  BY <1>1 DEF ChooseBackend, SessionLeaves
<1>2. CASE CreateSession \/ AlternativeChanges
  BY <1>2 DEF CreateSession, AlternativeChanges
<1>3. ASSUME NEW p \in Running, ProbeStep(p) PROVE HealthNext
  BY <1>3, FailoverAssumption DEF ProbeStep, HealthNext
<1>4. CASE HealStep
  BY <1>4 DEF HealStep, HealthNext
<1>5. CASE DisableStep \/ RestartStep \/ AdminStep
  BY <1>5 DEF DisableStep, RestartStep, AdminStep, HealthNext, Administer
<1>6. CASE UNCHANGED allVars
  BY <1>6 DEF allVars
<1> QED BY <1>1, <1>2, <1>3, <1>4, <1>5, <1>6 DEF FailoverNext

\* A failover touches nothing of the health of the backend, and counts on the version it
\* read only while the backend is owed a failover or it was failing over already
\* (backend_health_disable.go, health_failover_retry.go).
FailsOver(p) ==
    /\ UnchangedHealth
    /\ faults' \in 0..MaxFaults
    /\ \/ work' = work
       \/ Leaves(p)
       \/ /\ work' \in [Procs -> Work] /\ Alone(p)
          /\ work'[p].pc \in Elsewhere
          /\ work'[p].current => StillOwed \/ (work[p].current /\ work[p].pc \in Elsewhere)

\* ... be it of who disabled the backend or of the healer's retry.
LEMMA FailoverFailsOver ==
  ASSUME HealthTypeOK, NEW p \in Procs, \/ Failover(p)
                                        \/ p = Healer /\ (RetryFailover \/ Recheck)
  PROVE  FailsOver(p)
<1> USE FailoverAssumption
<1>0. work[p] \in Work /\ MaxFaults \in Nat /\ faults \in 0..MaxFaults
  BY HealthAssumption DEF HealthTypeOK
<1>f. \A step : FailoverFails(step) => faults' \in 0..MaxFaults
  BY <1>0 DEF FailoverFails
<1>u. UnchangedHealth /\ faults' \in 0..MaxFaults
  BY <1>0, <1>f
     DEF Failover, NotifyFailover, FindTargets, ListSessions, MoveSession, SettleDebt,
         RetryFailover, Recheck
<1>l. Leaves(p) => FailsOver(p)
  BY <1>u, LeavesTyped DEF FailsOver
<1>t. ASSUME NEW where \in Elsewhere, Moves(p, To(p, where)),
             StillOwed \/ work[p].pc \in Elsewhere
      PROVE  FailsOver(p)
  <2>1. /\ work' \in [Procs -> Work] /\ Alone(p)
        /\ work'[p].pc = where /\ work'[p].current = work[p].current
    BY <1>t, MovesTo
  <2> QED BY <1>u, <1>t, <2>1 DEF FailsOver
<1>e. ASSUME Ends(p), work[p].pc \in Elsewhere PROVE FailsOver(p)
  <2>1. CASE p = Healer
    BY <1>e, <1>t, <2>1 DEF Ends
  <2>2. CASE p # Healer
    BY <1>e, <1>l, <2>2 DEF Ends, Leaves
  <2> QED BY <2>1, <2>2
<1>1. CASE NotifyFailover(p)
  <2>1. CASE StillOwed
    <3> DEFINE w == [To(p, "failing") EXCEPT !.current = TRUE]
    <3>1. w \in Work /\ w.pc = "failing"
      <4>1. To(p, "failing") \in Work /\ To(p, "failing").pc = "failing"
        BY ToTyped
      <4> QED BY <4>1 DEF Work
    <3>2. Moves(p, w)
      BY <1>1, <2>1 DEF NotifyFailover
    <3> HIDE DEF w
    <3>3. work' \in [Procs -> Work] /\ work'[p] = w /\ Alone(p)
      BY <3>1, <3>2, MovesTyped
    <3> QED BY <1>u, <2>1, <3>1, <3>3 DEF FailsOver
  <2>2. CASE ~StillOwed
    BY <1>1, <1>l, <2>2 DEF NotifyFailover, Leaves
  <2> QED BY <2>1, <2>2
<1>2. CASE FindTargets(p)
  <2>1. work[p].pc \in Elsewhere /\ (Moves(p, To(p, "listing")) \/ Ends(p))
    BY <1>2 DEF FindTargets, At
  <2> QED BY <1>t, <1>e, <2>1
<1>3. CASE ListSessions(p)
  <2>1. work[p].pc \in Elsewhere /\ (Moves(p, To(p, "moving")) \/ Ends(p) \/ Leaves(p))
    BY <1>3 DEF ListSessions, At
  <2> QED BY <1>t, <1>e, <1>l, <2>1
<1>4. CASE MoveSession(p)
  BY <1>4, <1>u DEF MoveSession, FailsOver
<1>5. CASE SettleDebt(p)
  <2>1. work[p].pc \in Elsewhere /\ Ends(p)
    BY <1>5 DEF SettleDebt, At
  <2> QED BY <1>e, <2>1
<1>6. CASE p = Healer /\ RetryFailover
  <2>1. CASE UNCHANGED work
    BY <1>u, <2>1 DEF FailsOver
  <2>2. CASE StillOwed /\ Moves(Healer, [Rest EXCEPT !.pc = "failing", !.current = TRUE])
    <3> DEFINE w == [Rest EXCEPT !.pc = "failing", !.current = TRUE]
    <3>1. w \in Work /\ w.pc = "failing"
      BY DEF Rest, Work, Statuses
    <3> HIDE DEF w
    <3>2. work' \in [Procs -> Work] /\ work'[p] = w /\ Alone(p)
      BY <1>6, <2>2, <3>1, MovesTyped DEF w
    <3> QED BY <1>u, <2>2, <3>1, <3>2 DEF FailsOver
  <2> QED BY <1>6, <2>1, <2>2 DEF RetryFailover
<1>7. CASE p = Healer /\ Recheck
  BY <1>7, <1>l DEF Recheck
<1> QED BY <1>1, <1>2, <1>3, <1>4, <1>5, <1>6, <1>7 DEF Failover

\* A failover leaves the health of the backend as sound as it was.
LEMMA FailsOverSound ==
  ASSUME HealthTypeOK, Sound, NEW p \in Procs, FailsOver(p)
  PROVE  HealthTypeOK' /\ Sound'
<1> USE DEF UnchangedHealth, row, counters, canaries, operator, history, damping
<1>1. CASE work' = work
  <2>1. HealthTypeOK'
    BY <1>1 DEF FailsOver, HealthTypeOK
  <2>2. Counted' /\ Proven' /\ DisabledWhy'
    BY DEF FailsOver, Sound, Counted, Proven, DisabledWhy
  <2>3. RecoverableWhenDisabled' /\ DisabledIsDetached' /\ ActiveIsAttached'
    BY DEF FailsOver, Sound, RecoverableWhenDisabled, DisabledIsDetached, ActiveIsAttached
  <2>4. \A q \in Procs : Fits(q)'
    BY <1>1 DEF FailsOver, Sound, Fits, Current, ProberFits, HealerFits
  <2> QED BY <2>1, <2>2, <2>3, <2>4 DEF Sound
<1>c. failCount' <= failCount /\ canaryFail' <= canaryFail /\ success' <= success
  BY DEF FailsOver, HealthTypeOK
<1>2. CASE Leaves(p)
  <2>1. work' \in [Procs -> Work] /\ Alone(p) /\ work'[p].pc = "idle" /\ ~work'[p].current
    BY <1>2, LeavesTyped
  <2>2. WorkTyped'
    BY <2>1, StandsTyped DEF ProberPcs, HealerPcs
  <2>3. HealthTypeOK'
    BY <2>2 DEF FailsOver, HealthTypeOK, WorkTyped
  <2> QED BY <1>c, <2>1, <2>3, QuietSound DEF FailsOver
<1>3. CASE ~Leaves(p) /\ work' # work
  <2>1. /\ work' \in [Procs -> Work] /\ Alone(p)
        /\ work'[p].pc \in Elsewhere
        /\ work'[p].current => StillOwed \/ (work[p].current /\ work[p].pc \in Elsewhere)
    BY <1>3 DEF FailsOver
  <2>2. WorkTyped'
    BY <2>1, StandsTyped
  <2>3. HealthTypeOK'
    BY <2>2 DEF FailsOver, HealthTypeOK, WorkTyped
  <2>4. Fits(p)
    BY DEF Sound
  <2>5. work'[p].current => enabled /\ (p = Healer => status = "disabled")
    BY <2>1, <2>4, ElsewhereAssumption
       DEF StillOwed, Fits, Current, HealerFits, ProberFits, HealerPcs
  <2>6. work'[p].current => IF p = Healer THEN HealerFits(work'[p]) ELSE ProberFits(work'[p])
    BY <2>1, <2>5, ElsewhereAssumption
       DEF FailsOver, HealerFits, ProberFits, NeedsDevice, Recovering, Damped, HealerPcs, ProberPcs
  <2> QED BY <1>c, <2>1, <2>3, <2>6, QuietSound DEF FailsOver
<1> QED BY <1>1, <1>2, <1>3


\* A backend that stays dead takes the healer's proofs back (health_selfheal.go:306-340).
LEMMA StaysDeadSound ==
  ASSUME HealthTypeOK, Sound, StaysDead PROVE HealthTypeOK' /\ Sound'
<1> USE DEF row, counters, canaries, operator
<1>1. /\ success' = 0 /\ proofs' = 0 /\ Leaves(Healer)
      /\ UNCHANGED <<enabled, status, reason, attached, failCount, canaryFail, ahead, late, latest,
                     admin, changes, halfEnabled, faults, streak, leftover>>
  BY DEF StaysDead
<1>2. Healer \in Procs
  BY DEF Procs
<1>3. work' \in [Procs -> Work] /\ Alone(Healer) /\ work'[Healer].pc = "idle" /\ ~work'[Healer].current
  BY <1>1, <1>2, LeavesTyped
<1>4. WorkTyped'
  BY <1>2, <1>3, StandsTyped DEF HealerPcs
<1>5. HealthTypeOK'
  BY <1>1, <1>4 DEF HealthTypeOK, WorkTyped
<1>6. Counted' /\ Proven' /\ Fits(Healer)'
  BY <1>1, <1>3 DEF Sound, Counted, Proven, Fits, Current
<1>7. streak <= streak'
  BY <1>1 DEF HealthTypeOK
<1> QED BY <1>1, <1>3, <1>5, <1>6, <1>7, HealerSound

\* Whatever is added to it, the health of the backend stays sound.
LEMMA StepKeepsHealth ==
  HealthTypeOK /\ Sound /\ [FailoverNext]_allVars => (HealthTypeOK /\ Sound)'
<1> SUFFICES ASSUME HealthTypeOK, Sound, [FailoverNext]_allVars
             PROVE  HealthTypeOK' /\ Sound'
  OBVIOUS
<1>1. CASE [HealthNext]_vars
  BY <1>1, StepHealthTyped, StepSound
<1>2. ASSUME NEW p \in Running \cup {Healer}, Failover(p) PROVE HealthTypeOK' /\ Sound'
  <2>1. p \in Procs
    BY FailoverAssumption DEF Procs
  <2> QED BY <1>2, <2>1, FailoverFailsOver, FailsOverSound
<1>3. CASE RetryFailover \/ Recheck
  BY <1>3, FailoverFailsOver, FailsOverSound DEF Procs
<1>4. CASE StaysDead
  BY <1>4, StaysDeadSound
<1> QED BY <1>1, <1>2, <1>3, <1>4, StepKinds

\* Nothing that is added to it writes the status of the backend.
LEMMA StepWritesStatus ==
  ASSUME HealthTypeOK, [FailoverNext]_allVars
  PROVE  [HealthNext]_vars \/ UNCHANGED status
<1>1. ASSUME NEW p \in Running \cup {Healer}, Failover(p) PROVE UNCHANGED status
  <2>1. p \in Procs
    BY FailoverAssumption DEF Procs
  <2> QED BY <1>1, <2>1, FailoverFailsOver DEF FailsOver, UnchangedHealth, row
<1>2. CASE RetryFailover \/ Recheck
  BY <1>2, FailoverFailsOver DEF Procs, FailsOver, UnchangedHealth, row
<1>3. CASE StaysDead
  BY <1>3 DEF StaysDead, row
<1> QED BY <1>1, <1>2, <1>3, StepKinds

\* It is sound throughout.
LEMMA HealthThroughout == FailoverSpec => [](HealthTypeOK /\ Sound)
<1>1. FailoverInit => HealthTypeOK /\ Sound
  BY InitHealthTyped, InitSound DEF FailoverInit
<1> QED BY <1>1, StepKeepsHealth, PTL DEF FailoverSpec

\* With sessions, admissions, failovers and their retries around it, a backend is never
\* left disabled with nobody to bring it back, and stays detached when it is disabled
\* by hand (health_selfheal.go:160-178, backend_lifecycle.go:36-99).
THEOREM FailoverLosesNoTunnel ==
  FailoverSpec => [](RecoverableWhenDisabled /\ DisabledIsDetached /\ ActiveIsAttached)
<1>1. Sound => RecoverableWhenDisabled /\ DisabledIsDetached /\ ActiveIsAttached
  BY DEF Sound
<1> QED BY <1>1, HealthThroughout, PTL

\* Nor does a failover or its retry shorten a grace period or a recovery: the healer
\* that has moved sessions proves the tunnel as often as one that had none, with the
\* exception that FlapDamping names, a success count left behind by a disable
\* (health_failover_retry.go, health.go:198-288).
THEOREM FailoverKeepsPatience == FailoverSpec => GracePeriod /\ FlapDamping
<1> DEFINE Grace == Available /\ status' = "disabled" => streak >= FailureThreshold
           Damping == enabled /\ status = "disabled" /\ status' = "active" =>
                        leftover \/ proofs >= SelfHealingThreshold
<1>1. HealthTypeOK /\ Sound /\ [FailoverNext]_allVars => [Grace]_vars /\ [Damping]_vars
  <2> SUFFICES ASSUME HealthTypeOK, Sound, [FailoverNext]_allVars PROVE Grace /\ Damping
    OBVIOUS
  <2>1. CASE [HealthNext]_vars
    BY <2>1, StepRewrites
  <2>2. CASE UNCHANGED status
    BY <2>2 DEF Available
  <2> QED BY <2>1, <2>2, StepWritesStatus
<1> QED BY <1>1, HealthThroughout, PTL DEF FailoverSpec, GracePeriod, FlapDamping

-----------------------------------------------------------------------------
(* Sessions of a backend that is disabled for its health.                   *)

\* A backend that is out of service has no sessions but strays, which were admitted to it
\* nevertheless or which its disable left behind: it may be found disabled for its health
\* when it comes back, and owe them nothing.
OutOfServiceIsStray == ~enabled => pinned \subseteq strays

FailoverInv == Typed /\ OutOfServiceIsStray /\ StrandedIsOwed

\* Whoever sees to the sessions goes on doing so while the backend stays disabled.
LEMMA GoesOn ==
  ASSUME StrandedIsOwed, StillOwed' => StillOwed, dropped => dropped',
         pinned' \ strays' \subseteq pinned \ strays, debt => debt',
         \A q \in Procs : FailingOver(q) => FailingOver(q)' \/ (StillOwed => dropped' \/ debt')
  PROVE  StrandedIsOwed'
  BY DEF StrandedIsOwed

\* Who goes nowhere goes on failing over.
LEMMA OthersGoOn ==
  ASSUME NEW p \in Procs, OthersStay(p), NEW q \in Procs, q # p, FailingOver(q)
  PROVE  FailingOver(q)'
  BY DEF OthersStay, FailingOver

\* A probe hands over to the failover, or is refused one for its version
\* (health.go:600-632, health.go:728-737).
LEMMA ProbeOwes ==
  ASSUME Typed, StrandedIsOwed, NEW p \in Probers, ProbeStep(p)
  PROVE  StrandedIsOwed'
<1>0. HeldTyped /\ status \in Statuses /\ p \in Procs
  BY TypedParts DEF Procs
<1>1. OthersStay(p) /\ RowGoes(p)
  BY <1>0, ProbeGoes DEF ProbeStep
<1>2. FailingOver(p) => At(p, "commit") /\ (Current(p) => FailingOver(p)')
  BY <1>0, ProbeStands DEF ProbeStep, FailingOver
<1>3. UNCHANGED <<pinned, debt>>
  BY DEF ProbeStep
<1>4. CASE status' # "disabled"
  BY <1>4 DEF StrandedIsOwed, StillOwed
<1>5. CASE work'[p].pc = "commit"
  BY <1>0, <1>5 DEF StrandedIsOwed, FailingOver
<1>6. CASE UNCHANGED row
  <2>1. StillOwed' = StillOwed /\ ~DisablesAnew
    BY <1>6 DEF row, StillOwed, DisablesAnew
  <2>2. dropped' = (dropped \/ (At(p, "commit") /\ ~Current(p) /\ StillOwed))
    BY <2>1, Zenon DEF ProbeStep
  <2>3. FailingOver(p) => FailingOver(p)' \/ (StillOwed => dropped')
    BY <1>2, <2>2
  <2>4. \A q \in Procs : FailingOver(q) => FailingOver(q)' \/ (StillOwed => dropped')
    BY <1>0, <1>1, <2>3, OthersGoOn
  <2>5. dropped => dropped'
    BY <2>2
  <2>6. strays' = strays
    BY <2>1 DEF ProbeStep
  <2> QED BY <1>3, <2>1, <2>4, <2>5, <2>6, GoesOn
<1> QED BY <1>1, <1>4, <1>5, <1>6 DEF RowGoes

\* A failover ends when there is nothing left to move, or records a debt, or is refused
\* (backend_health_disable.go:56-113, health_failover_retry.go:53-81).
LEMMA FailoverOwes ==
  ASSUME Typed, StrandedIsOwed, NEW p \in Procs, Failover(p)
  PROVE  StrandedIsOwed'
<1>0. HeldTyped
  BY TypedParts
<1>1. OthersStay(p) /\ StillOwed' = StillOwed
  BY FailoverTyped DEF row, StillOwed
<1>2. \A q \in Procs : q # p /\ FailingOver(q) => FailingOver(q)'
  BY <1>1, OthersGoOn
<1>3. ASSUME pinned' \ strays' \subseteq pinned \ strays, FailingOver(p)', UNCHANGED dropped
      PROVE  StrandedIsOwed'
  BY <1>1, <1>3 DEF StrandedIsOwed
<1>4. CASE NotifyFailover(p)
  <2>1. UNCHANGED <<pinned, strays, debt, dropped>>
    BY <1>4 DEF NotifyFailover, failover, sessions
  <2>2. CASE StillOwed
    <3> DEFINE w == [To(p, "failing") EXCEPT !.current = TRUE]
    <3>1. To(p, "failing") \in Work /\ To(p, "failing").pc = "failing"
      BY <1>0, HeldTo, FailoverAssumption DEF Places
    <3>2. w \in Work /\ w.pc = "failing"
      BY <3>1 DEF Work
    <3>3. Moves(p, w)
      BY <1>4, <2>2 DEF NotifyFailover
    <3> HIDE DEF w
    <3>4. work'[p].pc = "failing"
      BY <1>0, <3>2, <3>3, HeldStep
    <3> QED BY <1>3, <2>1, <3>4 DEF FailingOver
  <2>3. CASE ~StillOwed
    BY <1>1, <2>3 DEF StrandedIsOwed
  <2> QED BY <2>2, <2>3
<1>5. CASE FindTargets(p)
  <2>1. UNCHANGED <<pinned, strays>>
    BY <1>5 DEF FindTargets, sessions
  <2>2. CASE Moves(p, To(p, "listing")) /\ UNCHANGED dropped
    <3>1. work'[p].pc = "listing"
      BY <1>0, <2>2, HeldGoes, FailoverAssumption DEF Places
    <3> QED BY <1>3, <2>1, <2>2, <3>1 DEF FailingOver
  <2>3. CASE debt' = TRUE
    BY <2>3 DEF StrandedIsOwed
  <2>4. CASE Refused
    BY <1>1, <2>4 DEF Refused, StrandedIsOwed
  <2> QED BY <1>5, <2>2, <2>3, <2>4 DEF FindTargets
<1>6. CASE ListSessions(p)
  <2>1. UNCHANGED <<pinned, strays, dropped>>
    BY <1>6 DEF ListSessions, sessions
  <2>2. CASE pinned = {}
    BY <2>1, <2>2 DEF StrandedIsOwed
  <2>3. CASE pinned # {}
    <3>1. Moves(p, To(p, "moving"))
      BY <1>6, <2>3 DEF ListSessions
    <3>2. work'[p].pc = "moving"
      BY <1>0, <3>1, HeldGoes, FailoverAssumption DEF Places
    <3> QED BY <1>3, <2>1, <3>2 DEF FailingOver
  <2> QED BY <2>2, <2>3
<1>7. CASE MoveSession(p)
  <2>1. work' = work /\ dropped' = dropped /\ work[p].pc = "moving"
    BY <1>7 DEF MoveSession, At
  <2>2. \/ UNCHANGED <<pinned, strays>>
        \/ \E s : pinned' = pinned \ {s} /\ strays' = strays \ {s}
    BY <1>7 DEF MoveSession
  <2>3. pinned' \ strays' \subseteq pinned \ strays
    BY <2>2
  <2> QED BY <1>3, <2>1, <2>3 DEF FailingOver
<1>8. CASE SettleDebt(p)
  <2>1. UNCHANGED <<pinned, strays>>
    BY <1>8 DEF SettleDebt, sessions
  <2>2. CASE debt' = (pinned # {})
    BY <2>1, <2>2 DEF StrandedIsOwed
  <2>3. CASE debt' = TRUE
    BY <2>3 DEF StrandedIsOwed
  <2> QED BY <1>8, <2>2, <2>3 DEF SettleDebt
<1> QED BY <1>4, <1>5, <1>6, <1>7, <1>8 DEF Failover

\* The retry forgets a debt only when nothing is owed (health_failover_retry.go:138-207).
LEMMA RetryOwes ==
  ASSUME Typed, StrandedIsOwed, RetryFailover \/ Recheck \/ StaysDead
  PROVE  StrandedIsOwed'
<1>0. Healer \in Procs
  BY DEF Procs
<1>1. OthersStay(Healer) /\ StillOwed' = StillOwed /\ UNCHANGED <<pinned, strays, dropped>>
  BY RetryTyped DEF row, StillOwed, sessions
<1>2. ~FailingOver(Healer)
  BY DEF RetryFailover, Recheck, StaysDead, At, FailingOver
<1>3. \A q \in Procs : FailingOver(q) => FailingOver(q)'
  BY <1>0, <1>1, <1>2, OthersGoOn
<1>4. CASE StillOwed => pinned = {}
  BY <1>1, <1>4 DEF StrandedIsOwed
<1>5. CASE debt => debt'
  BY <1>1, <1>3, <1>5, GoesOn
<1>6. (debt' = (debt /\ pinned # {})) => (pinned = {} \/ (debt => debt'))
  BY Zenon
<1>7. (StillOwed => pinned = {}) \/ (debt => debt')
  BY <1>6 DEF RetryFailover, Recheck, StaysDead, failover
<1> QED BY <1>4, <1>5, <1>7

\* Who holds the tunnel as it is holds one that is in service (pool.go:470-504).
LEMMA CurrentIsEnabled ==
  ASSUME Sound, NEW p \in Procs, Current(p) PROVE enabled
  BY DEF Sound, Fits, Current, ProberFits, HealerFits

\* Every step keeps to it.
LEMMA StepOwes == Sound /\ FailoverInv /\ [FailoverNext]_allVars => FailoverInv'
<1> SUFFICES ASSUME Sound, FailoverInv, [FailoverNext]_allVars
             PROVE  OutOfServiceIsStray' /\ StrandedIsOwed'
  BY StepTyped DEF FailoverInv
<1> USE DEF FailoverInv
<1>0. HeldTyped /\ status \in Statuses
  BY TypedParts
<1>1. CASE UNCHANGED allVars
  BY <1>1
     DEF allVars, vars, failover, sessions, row, OutOfServiceIsStray, StrandedIsOwed, StillOwed, FailingOver
<1>2. CASE \/ \E s \in Sessions : ChooseBackend(s) \/ SessionLeaves(s)
           \/ CreateSession \/ AlternativeChanges
  <2>1. UNCHANGED <<work, row, debt, dropped>>
    BY <1>2, SessionsKeep
  <2>2. CASE CreateSession /\ Admissible
    BY <2>1, <2>2 DEF Admissible, OutOfServiceIsStray, StrandedIsOwed, StillOwed, row
  <2>3. CASE ~(CreateSession /\ Admissible)
    <3>1. pinned' \ strays' \subseteq pinned \ strays
      BY <1>2, <2>3 DEF ChooseBackend, SessionLeaves, CreateSession, AlternativeChanges, sessions
    <3>2. OutOfServiceIsStray'
      BY <2>1, <3>1 DEF OutOfServiceIsStray, row
    <3>3. StillOwed' = StillOwed /\ \A q \in Procs : FailingOver(q) => FailingOver(q)'
      BY <2>1 DEF StillOwed, row, FailingOver
    <3> QED BY <2>1, <3>1, <3>2, <3>3, GoesOn
  <2> QED BY <2>2, <2>3
<1>3. ASSUME NEW p \in Running, ProbeStep(p) PROVE OutOfServiceIsStray' /\ StrandedIsOwed'
  <2>1. p \in Probers
    BY FailoverAssumption
  <2>2. /\ enabled' = enabled /\ UNCHANGED pinned
        /\ UNCHANGED row \/ status' # "disabled" \/ Current(p)
    BY <1>0, <1>3, <2>1, ProbeGoes DEF ProbeStep, RowGoes
  <2>3. StrandedIsOwed'
    BY <1>3, <2>1, ProbeOwes
  <2>4. Current(p) => enabled
    BY <2>1, CurrentIsEnabled DEF Procs
  <2>5. DisablesAnew => enabled
    BY <2>2, <2>4 DEF DisablesAnew, row
  <2> QED BY <1>3, <2>2, <2>3, <2>5 DEF ProbeStep, OutOfServiceIsStray
<1>4. ASSUME NEW p \in Running \cup {Healer}, Failover(p) PROVE OutOfServiceIsStray' /\ StrandedIsOwed'
  <2>1. p \in Procs
    BY FailoverAssumption DEF Procs
  <2>2. enabled' = enabled
    BY <1>4, <2>1, FailoverTyped DEF row
  <2>3. pinned' \ strays' \subseteq pinned \ strays
    BY <1>4 DEF Failover, NotifyFailover, FindTargets, ListSessions, MoveSession, SettleDebt,
                failover, sessions
  <2> QED BY <1>4, <2>1, <2>2, <2>3, FailoverOwes DEF OutOfServiceIsStray
<1>5. CASE RetryFailover \/ Recheck \/ StaysDead
  BY <1>5, RetryOwes, RetryTyped DEF OutOfServiceIsStray, row, sessions
<1>6. CASE HealStep
  <2>1. /\ OthersStay(Healer) /\ enabled' = enabled /\ ~FailingOver(Healer)
        /\ UNCHANGED row \/ status' # "disabled"
        /\ UNCHANGED <<pinned, strays, debt, dropped>>
    BY <1>0, <1>6, HealGoes DEF HealStep, failover, sessions
  <2>2. StillOwed' => StillOwed
    BY <2>1 DEF StillOwed, row
  <2>3. \A q \in Procs : FailingOver(q) => FailingOver(q)'
    BY <2>1, OthersGoOn DEF Procs
  <2> QED BY <2>1, <2>2, <2>3, GoesOn DEF OutOfServiceIsStray
<1>7. CASE DisableStep \/ RestartStep
  BY <1>7 DEF DisableStep, RestartStep, OutOfServiceIsStray, StrandedIsOwed
<1>8. CASE AdminStep
  <2>1. /\ AllStay /\ (enabled => enabled') /\ (StillOwed' => StillOwed \/ ~enabled)
        /\ UNCHANGED <<pinned, strays, debt, dropped>>
    BY <1>0, <1>8, AdministerGoes DEF AdminStep, failover, sessions
  <2>2. \A q \in Procs : FailingOver(q) => FailingOver(q)'
    BY <2>1 DEF AllStay, FailingOver
  <2>3. CASE enabled
    BY <2>1, <2>2, <2>3, GoesOn DEF OutOfServiceIsStray
  <2>4. CASE ~enabled
    BY <2>1, <2>4 DEF OutOfServiceIsStray, StrandedIsOwed
  <2> QED BY <2>3, <2>4
<1> QED BY <1>1, <1>2, <1>3, <1>4, <1>5, <1>6, <1>7, <1>8 DEF FailoverNext

\* Whatever probes, admissions, failed migrations and reads, retries and administrative
\* changes interleave: while a backend is disabled for its health, somebody moves its
\* sessions or owes them a move (StrandedIsOwed; health_failover_retry.go:53-207).
\* Excepted are the strays, admitted too late or left behind by an administrative disable,
\* until the next health disable lists them, and all of them while `dropped` holds, after
\* a failover that was refused for its version alone.
THEOREM StrandedAreOwed == FailoverSpec => []StrandedIsOwed
<1>1. FailoverInit => OutOfServiceIsStray /\ StrandedIsOwed
  BY DEF FailoverInit, OutOfServiceIsStray, StrandedIsOwed
<1>2. FailoverInit => FailoverInv
  BY <1>1, InitTyped DEF FailoverInv
<1>3. FailoverInv => StrandedIsOwed
  BY DEF FailoverInv
<1>4. FailoverSpec => []Sound
  BY HealthThroughout, PTL
<1> QED BY <1>2, <1>3, <1>4, StepOwes, PTL DEF FailoverSpec
=============================================================================
