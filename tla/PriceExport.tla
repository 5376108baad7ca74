----------------------------- MODULE PriceExport -----------------------------
(***************************************************************************)
(* The price-triggered authority of the export session: the permission the *)
(* market monitor gives (active.py _price_window), the policy that turns   *)
(* it into a deadline (planner/foxess_export_policy.py), the reducer       *)
(* around the ordinary export transitions of FoxessSessions                *)
(* (planner/export_session.py _advance_price_session), and the controller  *)
(* that stores the session, sends its commands one by one under a write    *)
(* guard and ends it by commands that are retried without limit.           *)
(*                                                                         *)
(* One tick is the 30 s of a retry.  Price intervals are shortened to two  *)
(* ticks and their publication grace to one.  Energy is an input: for how  *)
(* many more ticks it lasts.  Both stores are readable and no ordinary     *)
(* window is open, so every session here is owned by the price; a listener *)
(* or the deadline timer only brings forward a reconciliation that may     *)
(* come at any moment.                                                     *)
(***************************************************************************)
EXTENDS FoxessSessions, FiniteSets

CONSTANTS
    LastTick, LastInterval,     \* the price comes and goes up to here
    RetryDelays,                \* the backoff of a stop, in ticks
    MaxEvents                   \* changes of the world and faults
ASSUME PriceBoundsAssumption ==
    /\ {LastTick, LastInterval, MaxEvents} \subseteq Nat
    /\ RetryDelays \in Seq(Nat \ {0}) /\ RetryDelays # <<>>

VARIABLES
    now,            \* ticks
    permit,         \* the interval whose confirmed price permits export, or 0
    inv, forcer,    \* the inverter, and who selected its mode
    link,           \* what of the inverter can be seen and commanded
    gate,           \* write gates, manual sessions, maintenance and mapping
    up,             \* the integration runs
    sess, disk,     \* export_session and its stored journal
    lock, job,      \* what the holder of the lock does next, and remembers
    events
plant == <<inv, forcer>>
vars == <<now, permit, plant, link, gate, up, sess, disk, lock, job, events>>

Start0(i) == 2 * (i - 1)
End(i) == 2 * i + 1
Spend == events < MaxEvents /\ events' = events + 1
Larger(a, b) == IF a >= b THEN a ELSE b

\* "full": fresh evidence and every capability.  "old": the telemetry is not
\* fresh.  "restore": only Self Use and zero powers can be commanded.  "deaf":
\* not even that.  "blind": no feedback, but the entities take commands.
Links == {"full", "old", "restore", "deaf", "blind", "gone"}
Observed == link \in {"full", "old", "restore", "deaf"}
ExportSourceAvailable == link \in {"full", "old"}
CleanupCapable == link \in {"full", "old", "restore", "blind"}

\* _price_window: the permission at the time t of a decision.
PriceWindow(t) ==
    IF /\ permit # 0 /\ Start0(permit) <= now /\ now < End(permit)
       /\ Start0(permit) <= t /\ t < End(permit)
      THEN permit ELSE 0

-----------------------------------------------------------------------------
(* Sessions.  since is the age of last_command_at in ticks, up to the longest *)
(* delay, which None reads like; deadline and end are price_deadline and      *)
(* price_permission_end.                                                      *)

Old == RetryDelays[Len(RetryDelays)]
Idle == [phase |-> "idle", power |-> 0, attempts |-> 0, since |-> Old,
         deadline |-> 0, end |-> 0]
Running(s) == s.phase \in {"starting", "active"}
Latched(s) == s.phase # "idle"

Plain(s) == [phase |-> s.phase, power |-> s.power, attempts |-> s.attempts,
             fresh |-> s.since < 1]

\* A transition of the ordinary reducer under the price authority again.
Priced(s, step, deadline, end) ==
    Step(IF step.state.phase = "idle" THEN Idle
         ELSE [phase |-> step.state.phase, power |-> step.state.power,
               attempts |-> step.state.attempts,
               since |-> IF step.plan # <<>> THEN 0
                         ELSE IF step.state.fresh = Plain(s).fresh THEN s.since ELSE Old,
               deadline |-> deadline, end |-> Larger(s.end, end)],
         step.plan)

\* Only a session that still runs is renewed, and by a newer interval.
PermissionCanRenew(s, end) == Running(s) /\ now < s.deadline /\ end > s.end

Deadline(s, proposed, end) ==
    IF ~Latched(s) \/ PermissionCanRenew(s, end) THEN proposed
    ELSE Lesser(s.deadline, proposed)

-----------------------------------------------------------------------------
(* The policy *)

\* What the policy finds: the ticks the energy lasts beyond its margins, or None;
\* whether the EV, the allowance and the settings let the battery export; the limit.
None == -1
Evidence == [lasts : {None, 0, 1, 3}, allowed : BOOLEAN, limit : Powers]
StartHorizon == 2

\* An offer of the policy to the reducer.
Policy(s, t, e) ==
    LET w == IF ExportSourceAvailable THEN PriceWindow(t) ELSE 0
        lasts == IF link = "full" THEN e.lasts ELSE None
        limit == e.limit
        power == IF Latched(s) THEN Lesser(limit, s.power) ELSE limit
        known == lasts # None /\ power > 0
        base == IF w # 0 THEN Deadline(s, End(w), End(w)) ELSE s.deadline
        deadline == IF known THEN Lesser(base, t + lasts) ELSE base
    IN  [available |-> IF Latched(s) /\ (w = 0 \/ lasts = None)
                         THEN CleanupCapable ELSE ExportSourceAvailable,
         open |-> /\ w # 0 /\ e.allowed /\ s.phase # "stopping" /\ known
                  /\ t < deadline
                  /\ Running(s) \/ deadline - t >= StartHorizon,
         limit |-> limit, power |-> power, deadline |-> deadline,
         end |-> IF w # 0 THEN End(w) ELSE 0]

-----------------------------------------------------------------------------
(* The reducer *)

Backoff(attempts) == RetryDelays[Lesser(Larger(attempts, 1), Len(RetryDelays))]

\* Fault for the runs: a stop gives up after as many attempts as a start.
StoppingBounded(s, o) ==
    IF s.since < Backoff(s.attempts) \/ s.attempts >= MaxAttempts
      THEN Quiet(Plain(s)) ELSE Stop("export", Plain(s), o)

\* A stop is repeated at growing intervals without end.
Stopping(s, o) ==
    IF s.since < Backoff(s.attempts) THEN Quiet(Plain(s)) ELSE Stop("export", Plain(s), o)

Ended(s, o) ==
    IF s.phase = "stopping" THEN Stopping(s, o)
    ELSE Stop("export", [Plain(s) EXCEPT !.attempts = 0, !.fresh = FALSE], o)

\* A target follows the limit down, never up.
Curtailed(s, offer) ==
    IF Latched(s) THEN [Plain(s) EXCEPT !.power = Lesser(s.power, offer.power)] ELSE Plain(s)

AdvancePriceSession(s, o, offer) ==
    LET deadline == Deadline(s, offer.deadline, offer.end)
        permitted == offer.open /\ now < deadline
        in == [available |-> offer.available, open |-> offer.open, eligible |-> offer.open,
               limit |-> offer.limit]
        step == IF ~offer.available THEN SourceUnavailable(Plain(s))
                ELSE IF Latched(s) /\ (s.phase = "stopping" \/ ~permitted) THEN Ended(s, o)
                ELSE IF ~Latched(s) /\ (~permitted \/ o.mode # "SelfUse")
                  THEN Quiet(IdleSession)
                ELSE AdvanceSession("export", Curtailed(s, offer), o, in)
        restored == Latched(s) /\ offer.available /\ ResponseMatches(RestoreSelfUse, o)
                      /\ (s.phase = "stopping" \/ ~permitted)
    IN  IF restored THEN Step(Idle, <<>>) ELSE Priced(s, step, deadline, offer.end)

-----------------------------------------------------------------------------
(* Reconciliations *)

NoJob == [plan |-> <<>>, bound |-> 0, at |-> 0, window |-> 0, prev |-> Idle]
Release == lock' = "free" /\ job' = NoJob

Forcing(c) == IsForce(c) \/ (c.act = "set_discharge_power" /\ c.kw > 0)
Positive(plan) == \E i \in DOMAIN plan : Forcing(plan[i])

\* Self Use alone is no proof: without fresh power readings the stop goes on.
Confirmed(previous, step) ==
    IF Latched(previous) /\ step.state.phase = "idle" /\ link = "old"
      THEN Step([previous EXCEPT !.phase = "stopping"], step.plan) ELSE step

\* What _async_reconcile_export comes to; an idle session needs an eligible price.
Decision(offer) ==
    IF ~Latched(sess) /\ ~offer.open THEN Step(sess, <<>>)
    ELSE Confirmed(sess, AdvancePriceSession(sess, inv, offer))

\* Up to its save.
ReconcileExport ==
    \E offer \in {Policy(sess, now, e) : e \in Evidence} :
    \E step \in {Decision(offer)} :
        /\ sess' = step.state
        /\ IF step.state = sess THEN Release
           ELSE /\ lock' = "save"
                /\ job' = IF Positive(step.plan)
                            THEN [plan |-> step.plan, bound |-> step.state.deadline,
                                  at |-> now, window |-> 0, prev |-> sess]
                            ELSE [NoJob EXCEPT !.plan = step.plan, !.prev = sess]

\* Without feedback an owned journal permits a blind return to Self Use.
UnknownFeedbackCleanup ==
    IF ~CleanupCapable \/ (sess.phase = "stopping" /\ sess.since < Backoff(sess.attempts))
      THEN Release /\ UNCHANGED sess
      ELSE /\ sess' = [sess EXCEPT !.phase = "stopping", !.attempts = Bump(@), !.since = 0]
           /\ lock' = "cleanup"
           /\ job' = [NoJob EXCEPT
                !.plan = <<SelectMode("SelfUse"), SetCharge(0), SetDischarge(0)>>]

\* Somebody else's forced mode is left alone (planner/foxess_ownership.py).
Held == inv.mode # "SelfUse" /\ ~(inv.mode = "ForceDischarge" /\ Latched(sess))

ReconcileLocked ==
    \/ ~gate /\ Release /\ UNCHANGED sess
    \/ gate /\ ~Observed /\ Latched(sess) /\ UnknownFeedbackCleanup
    \/ gate /\ ~Observed /\ ~Latched(sess) /\ Release /\ UNCHANGED sess
    \/ gate /\ Observed /\ Held /\ Release /\ UNCHANGED sess
    \/ gate /\ Observed /\ ~Held /\ ReconcileExport

Reconcile ==
    /\ up /\ lock = "free"
    /\ UNCHANGED <<now, permit, plant, link, gate, up, disk, events>>
    /\ ReconcileLocked

ReconcileAgain ==
    /\ lock = "again"
    /\ UNCHANGED <<now, permit, plant, link, gate, up, disk, events>>
    /\ ReconcileLocked

\* The supervisor re-arms a session that lost its mode; a repair of Self Use
\* would find a Force Discharge, which it leaves alone.
Rearm ==
    /\ up /\ lock = "free" /\ gate /\ Observed /\ Spend
    /\ inv.mode # "ForceDischarge" /\ (Running(sess) \/ sess.phase = "recovering")
    /\ sess' = [sess EXCEPT !.phase = "recovering", !.attempts = 0, !.since = Old]
    /\ lock' = "rearm" /\ job' = NoJob
    /\ UNCHANGED <<now, permit, plant, link, gate, up, disk>>

\* The signature is the permission after the save, at the time of the decision.
Execute ==
    IF job.plan = <<>> THEN Release
    ELSE lock' = "exec" /\ job' = [job EXCEPT !.prev = Idle, !.at = 0,
                                     !.window = IF job.bound > 0 THEN PriceWindow(job.at)
                                                                 ELSE 0]

SaveSucceeds ==
    /\ lock \in {"save", "cleanup", "rearm"}
    /\ disk' = sess
    /\ IF lock = "rearm" THEN lock' = "again" /\ job' = NoJob ELSE Execute
    /\ UNCHANGED <<now, permit, plant, link, gate, up, sess, events>>

\* Fault for the runs: any command goes out although its session is not stored.
CleansUpAlways == TRUE

\* Only a stop goes on without its journal.
CleansUp == lock = "cleanup" \/ (lock = "save" /\ Latched(job.prev) /\ ~Positive(job.plan))

SaveFails ==
    /\ lock \in {"save", "cleanup", "rearm"} /\ Spend
    /\ IF CleansUp THEN Execute ELSE Release
    /\ sess' = IF lock = "save" /\ (~CleansUp \/ sess.phase = "idle") THEN job.prev ELSE sess
    /\ UNCHANGED <<now, permit, plant, link, gate, up, disk>>

-----------------------------------------------------------------------------
(* Commands *)

\* Fault for the runs: a plan is bound by the decision it came from alone.
AuthorizedOnce == gate

\* _writes_still_authorized, between two commands of a plan.
Authorized ==
    /\ gate
    /\ job.bound > 0 => /\ now < job.bound
                        /\ job.window # 0 /\ PriceWindow(now) = job.window
                        /\ ExportSourceAvailable /\ link = "full"

ForcerAfter(c) ==
    IF c.act # "select_mode" THEN forcer ELSE IF IsForce(c) THEN "heo" ELSE "none"
Accept(c) == inv' = Apply(c, inv) /\ forcer' = ForcerAfter(c)

ExecuteCommand ==
    /\ lock = "exec" /\ Authorized
    /\ Accept(Head(job.plan))
    /\ IF Len(job.plan) = 1 THEN Release
       ELSE lock' = lock /\ job' = [job EXCEPT !.plan = Tail(@)]
    /\ UNCHANGED <<now, permit, link, gate, up, sess, disk, events>>

\* The allowance, the energy and the EV's handoff may also block a positive plan.
CommandBlocked ==
    /\ lock = "exec" /\ (~Authorized \/ job.bound > 0)
    /\ Release
    /\ UNCHANGED <<now, permit, plant, link, gate, up, sess, disk, events>>

CommandFails ==
    /\ lock = "exec" /\ Authorized /\ Spend
    /\ Accept(Head(job.plan)) \/ UNCHANGED plant
    /\ Release
    /\ UNCHANGED <<now, permit, link, gate, up, sess, disk>>

-----------------------------------------------------------------------------
(* The world *)

\* A price is confirmed in its interval; a correction, a restriction, a trip or
\* a free window withdraws it.
MarketChanges ==
    /\ Spend
    /\ permit' \in {0} \cup {i \in 1 .. LastInterval : Start0(i) <= now /\ now < Start0(i + 1)}
    /\ permit' # permit
    /\ UNCHANGED <<now, plant, link, gate, up, sess, disk, lock, job>>

LinkChanges ==
    /\ Spend /\ link' \in Links \ {link}
    /\ UNCHANGED <<now, permit, plant, gate, up, sess, disk, lock, job>>

GateChanges ==
    /\ Spend /\ gate' = ~gate
    /\ UNCHANGED <<now, permit, plant, link, up, sess, disk, lock, job>>

SomebodySelects ==
    /\ Spend
    /\ \E m \in {"SelfUse", "ForceCharge"} \ {inv.mode} :
          /\ inv' = [inv EXCEPT !.mode = m]
          /\ forcer' = IF m = "SelfUse" THEN "none" ELSE "other"
    /\ UNCHANGED <<now, permit, link, gate, up, sess, disk, lock, job>>

Crash ==
    /\ up /\ Spend
    /\ up' = FALSE /\ sess' = Idle /\ Release
    /\ UNCHANGED <<now, permit, plant, link, gate, disk>>
\* The monitor's bridge is not restored; a price has to be confirmed again.
Boot ==
    /\ ~up /\ up' = TRUE /\ sess' = disk /\ permit' = 0
    /\ UNCHANGED <<now, plant, link, gate, disk, lock, job, events>>

Aged(s) == [s EXCEPT !.since = Lesser(@ + 1, Old)]
Tick ==
    /\ now' = Lesser(now + 1, LastTick)
    /\ sess' = Aged(sess) /\ disk' = Aged(disk) /\ job' = [job EXCEPT !.prev = Aged(@)]
    /\ UNCHANGED <<permit, plant, link, gate, up, lock, events>>

Init ==
    /\ now = 0 /\ permit = 0 /\ events = 0
    /\ inv = SelfUseObservation /\ forcer = "none" /\ link = "full" /\ gate = TRUE
    /\ up = TRUE /\ sess = Idle /\ disk = Idle /\ lock = "free" /\ job = NoJob

Next ==
    \/ Reconcile \/ ReconcileAgain \/ Rearm \/ SaveSucceeds \/ SaveFails
    \/ ExecuteCommand \/ CommandBlocked \/ CommandFails
    \/ MarketChanges \/ LinkChanges \/ GateChanges \/ SomebodySelects
    \/ Crash \/ Boot \/ Tick

Spec == Init /\ [][Next]_vars

\* The timer recurs, and the holder of the lock goes on.
Proceed ==
    Reconcile \/ ReconcileAgain \/ SaveSucceeds \/ ExecuteCommand \/ CommandBlocked
FairSpec == Spec /\ WF_vars(Tick) /\ WF_vars(Boot) /\ WF_vars(Proceed)

-----------------------------------------------------------------------------
(* Properties *)

\* Whenever a command forces the battery, a price of this moment permits it, the
\* stored journal's deadline has not passed, and it lies within that permission.
PermittedWrites ==
    [][/\ lock = "exec" /\ Forcing(Head(job.plan))
       /\ inv' # inv /\ inv' = Apply(Head(job.plan), inv)
       => /\ PriceWindow(now) # 0 /\ disk.phase = "starting"
          /\ now < disk.deadline /\ disk.deadline <= End(PriceWindow(now))]_vars

\* The session implements Obligation: the battery is forced, and stays forced, only
\* under a journal, although a stop goes on when its own journal cannot be stored.
Ledger == INSTANCE Obligation WITH acting <- (forcer = "heo"), recorded <- Latched(disk)
PriceObligation == Ledger!Spec

\* After the price the battery is returned and the session closed, whatever was
\* lost before: unlike an ordinary stop, a price stop never gives up.
Unreturned ==
    /\ up /\ gate /\ link = "full" /\ PriceWindow(now) = 0
    /\ forcer = "heo" \/ (Latched(sess) /\ forcer # "other")
PriceExportEnds == []<>~Unreturned
=============================================================================
