----------------------------- MODULE EvController -----------------------------
(***************************************************************************)
(* The direct path of the EV charging controller (ev_active.py): one cycle *)
(* at a time under the controller's lock, suspended at every save and at   *)
(* every service call, while the car, its cloud link, the site and the     *)
(* operator go on.  A cycle looks at the car once, decides from what it    *)
(* saw, stores the reconciliation record, then sends its commands one by   *)
(* one, each behind the live gate.  Memory is lost in a crash; what was    *)
(* stored is not, but a save may store the defaults instead (Kept).        *)
(***************************************************************************)
EXTENDS EvSessions

CONSTANT MaxEvents   \* bound: changes of the environment and faults in a behaviour

ASSUME MaxEventsAssumption == MaxEvents \in Nat

VARIABLES
    baseline, \* the configured protected baseline current: 0 or 1
    car,      \* plugged in, charging switch, requested current, charge limit
    link,     \* the vehicle cloud: "ok", "blind" (no number entities), "dark"
    window,   \* whether the free window is open
    offer,    \* what the site offers outside it (see Offers)
    gate,     \* ev_control_gate_status: "ready", "locked" (rehearsal), "closed"
    full,     \* the stored charge-to-full request
    mem,      \* the controller's fields
    disk,     \* the stored part of them
    pc,       \* where the cycle is suspended
    job,      \* what the cycle captured and still has to send
    pace,     \* history: target, number and age of the last positive batches, and
              \* whether a restart has found the defaults instead of their record
    clock,    \* history: ticks since the full request was first acted on, or Lapsed
    events    \* environment changes and faults so far

world == <<baseline, car, link, window, offer, gate>>
vars == <<world, full, mem, disk, pc, job, pace, clock, events>>

\* "off": no policy is enabled; "none": enabled, nothing to give; "reject":
\* planning evidence is missing; "nophase": the phase current is missing.
Offers == {"off", "none", "solar", "daily", "reserve", "reject", "nophase"}
NoDecision == [full |-> FALSE, stale |-> TRUE, made |-> FALSE]
NoPace == [amps |-> Unset, limit |-> "none", n |-> 0, age |-> 0, lapsed |-> FALSE]

\* The clock of a request that was acted on, whose stored start a restart has not found.
Lapsed == -2

\* capture_ev_feedback: what the mapped entities say now.
View == [connected |-> link # "dark" /\ car.plugged,
         absent    |-> link # "dark" /\ ~car.plugged,
         visible   |-> link = "ok",
         on        |-> car.on, amps |-> car.amps, limit |-> car.limit]

NoView == [connected |-> FALSE, absent |-> FALSE, visible |-> FALSE, on |-> FALSE,
           amps |-> 1, limit |-> "soft"]
NoJob == [obs |-> NoView, window |-> FALSE, noPhase |-> FALSE, kind |-> "none",
          cmds |-> << >>, first |-> FALSE, entered |-> FALSE, lossy |-> FALSE]

\* _zero_stop_feedback_confirmed reads the car again, never the captured view.
ZeroConfirmed == link # "dark" /\ ~car.on

\* Mutant: the reconciliation record is not among the stored fields.
StoredWithoutRecord(m) == [rec |-> NoRecord, active |-> m.active, stop |-> m.stop,
                           fullAge |-> m.fullAge, control |-> m.control, lapsed |-> FALSE]

\* The fields async_save stores and async_restore brings back.  lapsed (history):
\* the last save stored the defaults.
Stored(m) == [rec |-> m.rec, active |-> m.active, stop |-> m.stop,
              fullAge |-> m.fullAge, control |-> m.control, lapsed |-> FALSE]

NewDisk == [rec |-> NoRecord, active |-> FALSE, stop |-> NoStop, fullAge |-> Unset,
            control |-> FALSE, lapsed |-> FALSE]

\* validated_for_storage: a stamp later than the save costs the whole group.
Defaults == [NewDisk EXCEPT !.lapsed = TRUE]
Kept(m, lossy) == IF lossy THEN Defaults ELSE Stored(m)

\* Mutant: a restart starts the clock of a charge-to-full request again.
RestoredAnew(d, wasFull) ==
    [rec |-> d.rec, active |-> d.active, stop |-> d.stop, fullAge |-> Unset,
     control |-> d.control, targetActive |-> FALSE, stopReq |-> FALSE,
     target |-> d.rec.amps, limit |-> d.rec.limit, route |-> "none",
     decision |-> NoDecision, latch |-> FALSE, boot |-> wasFull]

Restored(d, wasFull) ==
    [rec |-> d.rec, active |-> d.active, stop |-> d.stop, fullAge |-> d.fullAge,
     control |-> d.control, targetActive |-> FALSE, stopReq |-> FALSE,
     target |-> d.rec.amps, limit |-> d.rec.limit, route |-> "none",
     decision |-> NoDecision, latch |-> FALSE, boot |-> wasFull]

Init ==
    /\ baseline \in {0, 1}
    /\ car \in [plugged : BOOLEAN, on : {FALSE}, amps : {1}, limit : {"soft"}]
    /\ link = "ok" /\ gate = "ready" /\ full = FALSE /\ window = FALSE
    /\ offer \in {"off", "none"}
    /\ disk = NewDisk /\ mem = Restored(NewDisk, FALSE)
    /\ pc = "idle" /\ job = NoJob
    /\ pace = NoPace /\ clock = Unset /\ events = 0

-------------------------------------------------------------------------------
(* Bookkeeping shared by the steps.                                         *)

Spend == events < MaxEvents /\ events' = events + 1

\* A fresh episode of the record starts a fresh pace (another target, a reset, or
\* a target that was confirmed for the longest interval); a crash never does.
SetMemory(m) ==
    /\ mem' = m
    /\ pace' = IF \/ m.rec.amps # Unset /\ (m.rec.amps # pace.amps \/ m.rec.limit # pace.limit)
                  \/ m.rec.attempts < mem.rec.attempts
                  \/ mem.rec.confirmed /\ ~m.rec.confirmed /\ pace.age = LastAge
               THEN NoPace ELSE pace

\* async_save: it stores the fields or raises, which ends the cycle.
SaveOk(m)  == disk' = Stored(m) /\ events' = events
SaveKept(m, lossy) == disk' = Kept(m, lossy) /\ events' = events
SaveFailed == disk' = disk /\ Spend

SetFull(f) == full' = f /\ clock' = IF f THEN clock ELSE Unset

End == pc' = "idle" /\ job' = NoJob
ReturnWith(m) == SetMemory(m) /\ UNCHANGED <<disk, events>> /\ End

\* Save and return.  When the save raises, memory is either kept or rolled back.
SaveAndReturn(m, rollback) ==
    /\ End
    /\ \/ SetMemory(m) /\ SaveOk(m)
       \/ SetMemory(rollback) /\ SaveFailed

Begin(kind, cmds, lossy) ==
    /\ pc' = "send"
    /\ job' = [job EXCEPT !.kind = kind, !.cmds = cmds, !.first = TRUE, !.lossy = lossy]

-------------------------------------------------------------------------------
(* The start of a cycle: capture, retire or hand over, store.               *)

Unowned(m, f) == ~m.active /\ ~m.targetActive /\ ~f /\ m.fullAge = Unset

\* _async_retire_disconnected_reconciliation: an unowned episode ends with the
\* unplugged car; a pending stop is acknowledged with it.
Retirable(m, f) ==
    /\ ~car.plugged /\ ZeroConfirmed /\ Unowned(m, f)
    /\ m.control => m.stop.pending \/ m.stopReq
    /\ \/ m.stop.pending \/ m.stopReq
       \/ m.rec # NoRecord \/ m.target # Unset \/ m.limit # "none"
       \/ m.decision.made \/ m.route # "none"

Retired(m) ==
    LET stopping == m.stop.pending \/ m.stopReq
    IN [m EXCEPT !.rec = NoRecord, !.target = Unset, !.limit = "none",
                 !.decision = NoDecision, !.route = "none", !.stopReq = FALSE,
                 !.stop = IF stopping THEN NoStop ELSE @,
                 !.control = IF stopping THEN FALSE ELSE @]

\* _async_complete_baseline_handoff: the stop ends with the proved baseline.
HandsOver(m, obs, inWindow) ==
    /\ m.stop.pending /\ baseline > 0 /\ ~inWindow /\ obs.connected /\ obs.visible /\ obs.on
    /\ Unowned(m, full) /\ m.control /\ m.rec.confirmed
    /\ m.target = baseline /\ m.rec.amps = baseline /\ m.limit = m.rec.limit
    /\ Matches(obs, baseline, m.limit)

HandedOver(m) == [m EXCEPT !.stop = NoStop, !.stopReq = FALSE]

\* _async_reconcile_cycle up to its minute save, which may not be due.
Look ==
    LET m == IF Retirable(mem, full) THEN Retired(mem)
             ELSE IF HandsOver(mem, View, window) THEN HandedOver(mem) ELSE mem
    IN /\ pc = "idle"
       /\ UNCHANGED <<world, full, clock>>
       /\ \/ /\ SetMemory(m)
             /\ \/ SaveOk(m)
                \/ m = mem /\ UNCHANGED <<disk, events>>
             /\ pc' = "decide"
             /\ job' = [NoJob EXCEPT !.obs = View, !.window = window, !.noPhase = offer = "nophase"]
          \/ SetMemory(mem) /\ SaveFailed /\ End

-------------------------------------------------------------------------------
(* The decision.  Each action is one way through the cycle.                 *)

\* _async_expire_unobserved_full and the affirmative unplug that follows it.
ExpireFull(m, unplugged) ==
    /\ full /\ m.fullAge # Unset
    /\ m.fullAge >= MaxFull \/ unplugged

\* _startup_evidence_pending: restored Full intent waits for its first evidence.
BootPending == mem.boot /\ full /\ ~job.obs.absent /\ ~(job.obs.connected /\ job.obs.visible)
Booted(m) == [m EXCEPT !.boot = BootPending]

\* _async_reconcile_outside_stop, given what the switch is believed to be.
StopStep(m, on) ==
    LET retire == /\ baseline = 0 /\ m.target = 0 /\ m.rec.amps > 0
                  /\ m.stop.pending \/ m.stopReq
                  /\ Unowned(m, full)
        stopped == [m EXCEPT !.stop = NoStop, !.control = FALSE, !.stopReq = FALSE,
                             !.rec = IF retire THEN NoRecord ELSE @,
                             !.decision = IF retire THEN NoDecision ELSE @]
    IN \/ ~on /\ ZeroConfirmed /\ SaveAndReturn(stopped, m)
       \/ ~on /\ ~ZeroConfirmed /\ ReturnWith(m)
       \/ on /\ (Waiting(m.stop) \/ gate = "locked") /\ ReturnWith(m)
       \/ on /\ ~Waiting(m.stop) /\ gate # "locked"
          /\ SetMemory(m) /\ UNCHANGED <<disk, events>> /\ Begin("stop", <<"stop">>, FALSE)

\* _async_restore_ready_by_baseline: end the session, only ever decrease.  The
\* record is stored after its commands here, not before them.
RestoreBaseline(m0, obs) ==
    LET m == [EndDaily(m0) EXCEPT !.targetActive = FALSE]
        next == [m EXCEPT !.target = baseline, !.limit = "soft"]
        r == Reconcile(m.rec, obs, baseline, "soft")
        kept == [next EXCEPT !.rec = r.rec]
    IN IF baseline = 0 THEN StopStep([m EXCEPT !.target = 0], obs.on)
       ELSE \/ (~obs.on \/ baseline > obs.amps) /\ ReturnWith(m)
            \/ obs.on /\ baseline <= obs.amps /\ gate = "locked" /\ ReturnWith(next)
            \/ /\ obs.on /\ baseline <= obs.amps /\ gate # "locked"
               /\ IF r.cmds = << >>
                  THEN SaveAndReturn(IF HandsOver(kept, obs, FALSE) THEN HandedOver(kept) ELSE kept, kept)
                  ELSE /\ SetMemory(kept) /\ UNCHANGED <<disk, events>>
                       /\ Begin("reduce", r.cmds, FALSE)

\* The gate of the capability, before any planning.
DecideGated ==
    /\ gate = "closed" /\ SetFull(full) /\ ReturnWith(mem)

\* Without the phase current an elapsed or unplugged request still ends.
ExpireWithoutPhases ==
    LET m == [mem EXCEPT !.fullAge = Unset]
    IN /\ gate # "closed" /\ job.noPhase /\ ExpireFull(mem, job.obs.absent)
       /\ SetFull(FALSE) /\ SetMemory(m)
       /\ \/ SaveOk(m) /\ pc' = "decide" /\ job' = job
          \/ SaveFailed /\ End

\* _async_reconcile_missing_multiphase_current: no current decision; only the
\* stop of an unprotected charge, stored before its command.
DecideWithoutPhases ==
    LET obs == job.obs
        idle == \/ ~obs.connected \/ ~obs.visible \/ job.window \/ full \/ baseline > 0
                \/ ~obs.on /\ ~mem.stop.pending
        m == [mem EXCEPT !.route = "outside", !.target = 0, !.stopReq = TRUE, !.control = TRUE,
                         !.stop = IF @.pending THEN @ ELSE NewStop]
    IN /\ gate # "closed" /\ job.noPhase /\ ~ExpireFull(mem, obs.absent)
       /\ SetFull(full)
       /\ \/ idle /\ ReturnWith(mem)
          \/ ~idle /\ mem.stop.pending /\ StopStep(m, obs.on)
          \/ ~idle /\ ~mem.stop.pending
             /\ SetMemory(m)
             /\ \/ SaveOk(m) /\ pc' = "stop" /\ job' = job
                \/ SaveFailed /\ End

\* The stop that was just stored is pursued after the save.
StopAfterSave ==
    /\ pc = "stop"
    /\ UNCHANGED <<world, full, clock>>
    /\ StopStep(mem, job.obs.on)

\* Full intent without qualified presence waits; only its timeout can end it.
DecideFullUnqualified ==
    LET obs == job.obs
        expired == ExpireFull(mem, FALSE)
        m == IF expired THEN [Booted(mem) EXCEPT !.fullAge = Unset] ELSE Booted(mem)
    IN /\ gate # "closed" /\ ~job.noPhase
       /\ BootPending \/ (full /\ ~obs.connected /\ ~obs.absent)
       /\ SetFull(full /\ ~expired)
       /\ IF expired THEN SaveAndReturn(m, m) ELSE ReturnWith(m)

Qualified ==
    /\ gate # "closed" /\ ~job.noPhase
    /\ ~BootPending /\ ~(full /\ ~job.obs.connected /\ ~job.obs.absent)

\* Not connected: an unacknowledged stop is kept, everything else is dropped.
DecideDisconnected ==
    LET m0 == Booted(mem)
        kept == (m0.stop.pending \/ m0.stopReq) /\ (car.plugged \/ ~ZeroConfirmed)
        clear == full /\ m0.fullAge # Unset
        m1 == CleanupDisconnected(m0)
    IN /\ Qualified /\ ~job.obs.connected
       /\ IF kept THEN SetFull(full) /\ ReturnWith(m0)
          ELSE /\ SetFull(full /\ ~clear)
               /\ IF Retirable(m1, full /\ ~clear)
                  THEN SaveAndReturn(Retired(m1), m1) ELSE ReturnWith(m1)

\* Connected without readable actuators: only a zero-baseline stop goes on.
DecideBlind ==
    LET m == [Booted(mem) EXCEPT !.target = 0, !.targetActive = FALSE]
    IN /\ Qualified /\ job.obs.connected /\ ~job.obs.visible
       /\ SetFull(full)
       /\ IF mem.stop.pending /\ baseline = 0 THEN StopStep(m, job.obs.on)
          ELSE ReturnWith(Booted(mem))

(* Connected and readable: the ordinary cycle.                              *)

Site == IF offer = "nophase" THEN "none" ELSE offer

\* The memory after advance_charge_to_full; done: the car reached full charge.
Advanced(done) == AdvanceFull(Booted(mem), baseline, full, done)
StillFull(done) == full /\ Advanced(done).fullAge # Unset
Routed(done) ==
    LET m == Advanced(done)
    IN [m EXCEPT !.route = Route(m, baseline, job.window, StillFull(done), Site, job.obs.on)]

Eligible == Qualified /\ job.obs.connected /\ job.obs.visible

EnteredFree(done) == job.entered \/ (Routed(done).route = "free" /\ mem.route \notin {"none", "free"})

\* The free window is a new authority: a pending stop ends with it, stored first.
DecideWindowOpens == \E done \in BOOLEAN :
    LET m1 == Routed(done)
        m2 == [m1 EXCEPT !.stop = NoStop, !.control = FALSE, !.stopReq = FALSE]
    IN /\ Eligible /\ (done => full) /\ job.window /\ m1.stop.pending
       /\ SetFull(StillFull(done)) /\ SetMemory(m2)
       /\ \/ SaveOk(m2) /\ pc' = "decide" /\ job' = [job EXCEPT !.entered = EnteredFree(done)]
          \/ SaveFailed /\ End

\* _async_reconcile_general_limit_only: one limit write per observed pair.
DecideGeneral == \E done \in BOOLEAN :
    LET m == [Routed(done) EXCEPT !.target = Unset, !.limit = "soft"]
    IN /\ Eligible /\ (done => full) /\ m.route = "general"
       /\ SetFull(StillFull(done))
       /\ \/ job.obs.limit = "soft" /\ ReturnWith([m EXCEPT !.latch = FALSE])
          \/ job.obs.limit # "soft" /\ (m.latch \/ gate = "locked") /\ ReturnWith(m)
          \/ job.obs.limit # "soft" /\ ~m.latch /\ gate # "locked"
             /\ SetMemory([m EXCEPT !.latch = TRUE]) /\ UNCHANGED <<disk, events>>
             /\ Begin("limit", <<"limit">>, FALSE)

\* _calculate_target
FreeTarget(m, f) ==
    [ok |-> Site # "reject",
     mem |-> IF Site = "reject" THEN m
             ELSE [m EXCEPT !.target = 2, !.limit = Capped("full", f)]]

\* _outside_uses_current_budget: with a budget the car is looked at once more
\* before the outside decision, otherwise the captured view still counts.
Seen(again) == IF again THEN View ELSE job.obs

\* _calculate_outside_target
OutsideTarget(m, f, again) ==
    LET on == Seen(again).on
        lost == again /\ (window \/ link # "ok")
        m0 == [m EXCEPT !.stopReq = FALSE]
        reserve == Site = "reserve" /\ ~f
        m1 == IF f /\ Site # "off" THEN m0 ELSE AdvanceDaily(m0, Site)
        m2 == Own(m1, baseline, f, Site, on)
        owned == m2.targetActive \/ m2.control
    IN CASE lost -> [ok |-> FALSE, mem |-> m]
         [] ~lost /\ Site = "reject" -> [ok |-> FALSE, mem |-> m0]
         [] ~lost /\ reserve ->
              [ok |-> baseline > 0 \/ on, mem |-> AbortAtReserve(m0, baseline, on)]
         [] OTHER ->
              [ok |-> owned,
               mem |-> IF owned THEN [m2 EXCEPT !.target = StageAmps(m1, baseline, f, Site),
                                                !.limit = Capped("full", f)]
                       ELSE m2]

\* evaluate_ev_decision_cadence: outside it always decides.
Due(m, f) == \/ ~job.window \/ m.target = Unset
             \/ ~m.decision.made \/ m.decision.stale \/ m.decision.full # f

Target(m, f, again) ==
    LET t == IF job.window THEN FreeTarget(m, f) ELSE OutsideTarget(m, f, again)
    IN IF ~Due(m, f) THEN [ok |-> TRUE, mem |-> [m EXCEPT !.limit = Capped(@, f)]]
       ELSE IF ~t.ok THEN t
       ELSE [ok |-> TRUE,
             mem |-> [t.mem EXCEPT !.decision = [full |-> f, stale |-> FALSE, made |-> TRUE],
                                   !.limit = Capped(@, f)]]

\* finalize_direct_evse_reconciliation: a confirmed idle target releases the ownership.
Released(m, enabled) ==
    [m EXCEPT !.control = @ /\ (job.window \/ enabled \/ m.targetActive \/ ~m.rec.confirmed)]

\* A decision with a current budget reads the clock again: the hold of a solar stage
\* or the start of a session may bear a stamp later than the saves of this cycle.
Stamps(again) == IF again /\ Site \in {"solar", "daily"} THEN BOOLEAN ELSE {FALSE}

\* The reconciliation at the end of the cycle: its record is stored before the
\* first command.
ReconcileStep(m, obs, fresh, enabled, lossy) ==
    LET prior == IF fresh THEN NoRecord ELSE m.rec
    IN \E r \in {Reconcile(prior, obs, m.target, m.limit)} :
       \E next \in {[m EXCEPT !.rec = r.rec]} :
         LET released == Released(next, enabled)
             last == IF HandsOver(released, job.obs, job.window)
                     THEN HandedOver(released) ELSE released
         IN \/ /\ r.cmds = << >> /\ End
               /\ \/ SetMemory(last) /\ SaveKept(last, lossy)
                  \/ SetMemory(next) /\ SaveFailed
            \/ /\ r.cmds # << >>
               /\ IF fresh THEN mem' = next /\ pace' = NoPace ELSE SetMemory(next)
               /\ \/ SaveKept(next, lossy) /\ Begin("direct", r.cmds, lossy)
                  \/ SaveFailed /\ End

\* Free window or outside policy: no target, a stop, a rehearsal or a reconciliation.
DecideDirect == \E done, again \in BOOLEAN :
    /\ Eligible /\ (done => full) /\ SetFull(StillFull(done)) /\ ~(again /\ job.window)
    /\ \E f \in {StillFull(done)}, m1 \in {Routed(done)} : \E t \in {Target(m1, f, again)} :
         LET m == t.mem
             obs == Seen(again)
             enabled == OutsideEnabled(m1, baseline, f, Site, job.obs.on)
         IN /\ m1.route # "general" /\ ~(job.window /\ m1.stop.pending)
            /\ \/ ~t.ok /\ (job.window \/ ~m.stop.pending) /\ ReturnWith(m)
               \/ ~t.ok /\ ~job.window /\ m.stop.pending /\ RestoreBaseline(m, job.obs)
               \/ t.ok /\ m.stopReq /\ StopStep(m, obs.on)
               \/ t.ok /\ ~m.stopReq /\ gate = "locked" /\ ReturnWith(m)
               \/ t.ok /\ ~m.stopReq /\ gate # "locked"
                  /\ \E lossy \in Stamps(again) :
                       ReconcileStep(m, obs, EnteredFree(done), enabled, lossy)

Decide ==
    /\ pc = "decide" /\ UNCHANGED world
    /\ \/ DecideGated \/ ExpireWithoutPhases \/ DecideWithoutPhases \/ DecideFullUnqualified
       \/ DecideDisconnected \/ DecideBlind \/ DecideWindowOpens \/ DecideGeneral \/ DecideDirect

-------------------------------------------------------------------------------
(* The adapter: one command per step, each behind the live gate.            *)

Applied(c) ==
    CASE c = "limit" -> [car EXCEPT !.limit = mem.limit]
      [] c = "amps"  -> [car EXCEPT !.amps = mem.target]
      [] c = "start" -> [car EXCEPT !.on = car.plugged]
      [] c = "stop"  -> [car EXCEPT !.on = FALSE]

Next1 == IF Len(job.cmds) = 1 THEN pc' = "log" /\ job' = [job EXCEPT !.cmds = << >>, !.first = FALSE]
         ELSE pc' = "send" /\ job' = [job EXCEPT !.cmds = Tail(@), !.first = FALSE]

\* The batches with the next one, counted anew past a restart that lost their record.
Batches(p) == IF p.lapsed THEN 1 ELSE Attempt(p.n)

\* The first positive command of a batch counts the batch; a repair since its
\* decision has ended the episode it belongs to.
CountBatch ==
    /\ pace' = IF job.kind = "direct" /\ job.first /\ mem.rec.attempts > 0
            THEN [amps |-> mem.target, limit |-> mem.limit, n |-> Batches(pace), age |-> 0,
                  lapsed |-> FALSE]
            ELSE pace
    /\ clock' = IF full /\ job.kind = "direct" /\ clock \in {Unset, Lapsed} THEN 0 ELSE clock

\* The service accepts the command; the car may still lose it.
Send ==
    /\ pc = "send" /\ gate = "ready"
    /\ \/ car' = Applied(Head(job.cmds)) /\ UNCHANGED events
       \/ car' = car /\ Spend
    /\ CountBatch /\ Next1
    /\ UNCHANGED <<baseline, link, window, offer, gate, full, mem, disk>>

\* The gate closed, or the call raised before or after it took effect: the
\* rest of the plan is dropped and the attempt is not a counted stop.
SendFails ==
    /\ pc = "send"
    /\ \/ gate # "ready" /\ UNCHANGED <<baseline, car, pace, clock, events>>
       \/ gate = "ready" /\ car' \in {car, Applied(Head(job.cmds))} /\ Spend /\ CountBatch
    /\ pc' = "log" /\ job' = [job EXCEPT !.kind = "blocked", !.cmds = << >>, !.first = FALSE]
    /\ UNCHANGED <<baseline, link, window, offer, gate, full, mem, disk>>

\* The outcome is stored; an issued stop is counted and stored again.
Log ==
    LET counted == [mem EXCEPT !.stop.attempts = Attempt(@), !.stop.age = 0]
    IN /\ pc = "log"
       /\ UNCHANGED <<world, full, pace, clock>>
       /\ End
       /\ \/ job.kind # "stop" /\ mem' = mem /\ (SaveKept(mem, job.lossy) \/ SaveFailed)
          \/ job.kind = "stop" /\ mem' = counted /\ SaveOk(counted)
          \/ job.kind = "stop" /\ mem' = mem /\ SaveFailed
          \/ job.kind = "stop" /\ mem' = counted /\ disk' = Stored(mem) /\ Spend

Cycle == Look \/ Decide \/ StopAfterSave \/ Send \/ SendFails \/ Log

-------------------------------------------------------------------------------
(* The environment.                                                         *)

\* The driver, the car or its app: plugging in may resume a charge.
Drive ==
    /\ Spend
    /\ \/ ~car.plugged /\ \E on \in BOOLEAN : car' = [car EXCEPT !.plugged = TRUE, !.on = on]
       \/ car.plugged /\ car' = [car EXCEPT !.plugged = FALSE, !.on = FALSE]
       \/ car.plugged /\ car' = [car EXCEPT !.on = ~@]
       \/ car' = [car EXCEPT !.amps = 3 - @]
       \/ car' = [car EXCEPT !.limit = IF @ = "soft" THEN "full" ELSE "soft"]
    /\ UNCHANGED <<baseline, link, window, offer, gate, full, mem, disk, pc, job, pace, clock>>

Surroundings ==
    /\ Spend
    /\ \/ \E l \in {"ok", "blind", "dark"} \ {link} : link' = l /\ UNCHANGED <<window, offer, gate>>
       \/ window' = ~window /\ UNCHANGED <<link, offer, gate>>
       \/ \E o \in Offers \ {offer} : offer' = o /\ UNCHANGED <<link, window, gate>>
       \/ \E g \in {"ready", "locked", "closed"} \ {gate} : gate' = g /\ UNCHANGED <<link, window, offer>>
    /\ UNCHANGED <<baseline, car, full, mem, disk, pc, job, pace, clock>>

\* async_request_charge_to_full waits for the controller's lock.
RequestFull ==
    /\ pc = "idle" /\ Spend /\ SetFull(~full)
    /\ UNCHANGED <<world, mem, disk, pc, job, pace>>

\* async_supervisory_repair opens a fresh reconciliation epoch, then waits for the
\* lock: the record may go in the middle of a cycle.
Repair ==
    /\ gate = "ready" /\ Spend
    /\ mem' = [mem EXCEPT !.rec = NoRecord, !.decision = NoDecision]
    /\ pace' = NoPace
    /\ UNCHANGED <<world, full, disk, pc, job, clock>>

\* The process dies anywhere and starts from what was stored.
Crash ==
    /\ Spend
    /\ mem' = Restored(disk, full) /\ End
    /\ pace' = [pace EXCEPT !.lapsed = @ \/ disk.lapsed]
    /\ clock' = IF disk.lapsed /\ clock # Unset THEN Lapsed ELSE clock
    /\ UNCHANGED <<world, full, disk>>

Older(tries) == IF tries.attempts > 0 /\ tries.age < LastAge THEN [tries EXCEPT !.age = @ + 1] ELSE tries
OlderFull(a) == IF a >= 0 /\ a < MaxFull THEN a + 1 ELSE a
OlderState(m) == [m EXCEPT !.rec = Older(@), !.stop = Older(@), !.fullAge = OlderFull(@)]

\* Time passes between cycles; a cycle reads the clock once.
Tick ==
    /\ pc = "idle"
    /\ mem' = [OlderState(mem) EXCEPT !.decision.stale = TRUE]
    /\ disk' = OlderState(disk)
    /\ pace' = IF pace.n > 0 /\ pace.age < LastAge THEN [pace EXCEPT !.age = @ + 1] ELSE pace
    /\ clock' = OlderFull(clock)
    /\ UNCHANGED <<world, full, pc, job, events>>

Next == Cycle \/ Drive \/ Surroundings \/ RequestFull \/ Repair \/ Crash \/ Tick

\* The interval timer keeps running cycles, a cycle finishes what it awaits,
\* and time passes between cycles.
Spec == Init /\ [][Next]_vars /\ WF_vars(Cycle) /\ SF_vars(Tick)

-------------------------------------------------------------------------------
(* Properties.                                                              *)

\* The restart-safe backoff: a batch of positive commands for an unchanged target
\* starts only when the interval after the previous batches has passed, whatever
\* crashes, failing saves and failing services came between them.  Left out, because
\* the code does not keep it: the first batch after a restart that found the defaults,
\* which a save had stored instead of the record (Kept).  The batches after it are
\* paced again.
WritesPaced ==
    pc = "send" /\ job.kind = "direct" /\ job.first /\ pace.n > 0 /\ ~pace.lapsed
        => pace.age >= Intervals[pace.n]

\* The limit leaves the policy cap only for a charge-to-full request that still
\* stands and whose time, counted from the first cycle that acted on it and not
\* from a restart, is not over.  Left out, because the code does not keep it: a restart
\* that found the defaults instead of the request's start (Kept).  The time is then
\* counted anew from the next batch.
FullLimitBounded ==
    pc = "send" /\ mem.limit = "full" /\ job.kind # "stop"
        => full /\ (clock # Lapsed => clock < MaxFull)

\* With a zero baseline a charge nobody authorises does not go on: while the
\* car can be seen and commanded, and is neither asked for nor offered a stage,
\* it is stopped in the end, across failing saves, lost commands and restarts.
Unauthorised ==
    /\ baseline = 0 /\ car.on /\ link = "ok" /\ gate = "ready" /\ ~full /\ ~window
    /\ offer \in {"off", "none", "reserve", "nophase"}
UnauthorisedChargeEnds == []<>~Unauthorised

\* A valid target is retried until the car follows it; no number of failed
\* attempts makes the controller give it up.
Behind ==
    /\ car.plugged /\ link = "ok" /\ gate = "ready"
    /\ \/ window /\ offer \notin {"reject", "nophase"}
       \/ ~window /\ offer = "daily"
    /\ [on |-> car.on, amps |-> car.amps, limit |-> car.limit]
         # [on |-> TRUE, amps |-> 2, limit |-> Capped("full", full)]
TargetReached == []<>~Behind

===============================================================================
