-------------------------- MODULE BatteryController --------------------------
(***************************************************************************)
(* The automatic FoxESS controller (active.py) between its storage, the    *)
(* inverter it drives and the conformance supervisor that may repair it.   *)
(*                                                                         *)
(* One asyncio lock serialises reconciliations.  Its holder suspends at    *)
(* every store write and every service call, and between two of its steps  *)
(* the inverter, the write gates, the session windows and the stores may   *)
(* change and Home Assistant may stop.  "lock" says what the holder will   *)
(* do next; "job" is what it remembers across the suspension.              *)
(*                                                                         *)
(* The price-triggered authority of the export session and the explicit    *)
(* manual sessions, with their store, are not in this module.              *)
(***************************************************************************)
EXTENDS FoxessSessions, FiniteSets

CONSTANTS
    ExternalModes,  \* modes that FoxESS Cloud, the app or the inverter select
    Faults          \* what else the environment may do, of FaultKinds

FaultKinds == {
    "crash",     \* Home Assistant stops at any suspension point
    "reload",    \* the config entry is unloaded and set up again
    "save",      \* a store write raises
    "service",   \* a service call raises, with or without its effect
    "gate",      \* the write authority or the maintenance fence changes
    "offline",   \* the mapped FoxESS entities are unavailable
    "source",    \* the capability or the native limit changes
    "lag",       \* entity states trail what the inverter has accepted
    "early",     \* an entity reconciles before the stores are loaded
    "mismatch",  \* a mode mismatch outlasts the supervisor's grace
    "corrupt" }  \* a store file does not decode at the next start

ASSUME FaultsAssumption ==
    ExternalModes \subseteq Modes /\ Faults \subseteq FaultKinds

VARIABLES
    inv,       \* what the inverter has accepted
    seen,      \* the entity states the integration reads
    forcer,    \* history: who selected the inverter's forced mode
    gate,      \* the write gates and the maintenance fence allow writing
    windows,   \* channels whose enabled session window is open
    sess,      \* charge_session and export_session
    disk,      \* their last saved payloads
    stat,      \* _charge_storage_status, _export_storage_status
    fileStat,  \* what decoding the store files would report
    life,      \* setup progress of the config entry
    lock,      \* _reconcile_lock: "free", or the holder's next step
    job,       \* the holder's local variables
    pending    \* expected mode of a repair the supervisor awaits the lock for

vars == <<inv, seen, forcer, gate, windows, sess, disk, stat, fileStat, life,
          lock, job, pending>>
plant == <<inv, seen, forcer>>
stores == <<disk, fileStat>>

Inverter == Observations(Powers)
FileStatus == {"valid", "missing", "malformed"}
Stages == {"down", "platforms", "charge_loaded", "up", "stopping"}
Steps == {"free", "mark", "reset", "decide", "save", "exec", "rearm", "again"}
Expected == {"SelfUse"} \cup ForcedModes

AnySession == SessionOf("charge") \cup SessionOf("export")
Sessions == {f \in [Channels -> AnySession] : \A ch \in Channels : f[ch] \in SessionOf(ch)}
Job == [chan : Channels \cup {"supervisor", "none"}, plan : Seq(Commands(Powers)),
        saves : Seq(Channels), prev : AnySession, obs : Inverter]
NoJob == [chan |-> "none", plan |-> <<>>, saves |-> <<>>, prev |-> IdleSession,
          obs |-> SelfUseObservation]

Init ==
    /\ inv = SelfUseObservation /\ seen = inv /\ forcer = "none"
    /\ gate = TRUE /\ windows = {}
    /\ sess = [ch \in Channels |-> IdleSession] /\ disk = sess
    /\ stat = [s \in Channels |-> "not_loaded"]
    /\ fileStat \in {[s \in Channels |-> "missing"], [s \in Channels |-> "valid"]}
    /\ life = "down" /\ lock = "free" /\ job = NoJob /\ pending = "none"

Release == lock' = "free" /\ job' = NoJob
Latched(ch) == sess[ch].phase # "idle"
NoneLatched == \A ch \in Channels : ~Latched(ch)
NoneOwned == \A ch \in Channels : ~Owned(sess[ch])

-----------------------------------------------------------------------------
(* planner/foxess_ownership.py, with no manual session and valid manual storage. *)

Degraded == \E s \in Channels : stat[s] # "valid"

MatchingOwner(o) ==
    \/ \E ch \in Channels : (o.mode = ForcedMode(ch) /\ Owned(sess[ch]))
    \/ /\ o.mode = "FeedIn" /\ Owned(sess["export"]) /\ ~Owned(sess["charge"])
       /\ stat["export"] = "valid"
    \/ o.mode \in {"SelfUse", "BackUp"} /\ ~NoneOwned

HoldOwnership(o) == ~MatchingOwner(o) /\ o.mode # "SelfUse"
ResetOwnership(o) == ~MatchingOwner(o) /\ o.mode = "SelfUse" /\ Degraded

-----------------------------------------------------------------------------
(* One reconciliation under the lock. *)

\* The two policies: charge needs a positive limit to have a source at all.
Offered(ch) ==
    {in \in Inputs :
        /\ in.open <=> ch \in windows
        /\ (in.available /\ ch = "charge") => in.limit > 0
        /\ "source" \notin Faults => (in.available /\ in.limit = MaxKw)}

\* Fault for the runs: the commands go out before the step is stored.
AdvanceUnsaved(ch, o) ==
    \E in \in Offered(ch) :
        LET step == AdvanceSession(ch, sess[ch], o, in) IN
        /\ sess' = [sess EXCEPT ![ch] = step.state]
        /\ IF step.plan = <<>> THEN Release
           ELSE lock' = "exec" /\ job' = [NoJob EXCEPT !.chan = ch, !.plan = step.plan]

\* The reducer's step is stored before any of its commands is executed.
Advance(ch, o) ==
    \E in \in Offered(ch) :
        LET step == AdvanceSession(ch, sess[ch], o, in) IN
        /\ sess' = [sess EXCEPT ![ch] = step.state]
        /\ IF step.state # sess[ch]
             THEN /\ lock' = "save"
                  /\ job' = [NoJob EXCEPT !.chan = ch, !.plan = step.plan,
                                          !.saves = <<ch>>, !.prev = sess[ch]]
           ELSE IF step.plan # <<>>
             THEN lock' = "exec" /\ job' = [NoJob EXCEPT !.chan = ch, !.plan = step.plan]
           ELSE Release

\* Fault for the runs: an open window does not wait for the other session.
DecideByWindow(o) ==
    \/ \E ch \in windows : windows = {ch} /\ Advance(ch, o)
    \/ Latched("charge") /\ Advance("charge", o)
    \/ Latched("export") /\ Advance("export", o)

\* A latched session goes first, charge before export; overlapping enabled
\* windows start nothing.
Decide(o) ==
    \/ Latched("charge") /\ Advance("charge", o)
    \/ ~Latched("charge") /\ Latched("export") /\ Advance("export", o)
    \/ NoneLatched /\ \E ch \in windows : windows = {ch} /\ Advance(ch, o)
    \/ NoneLatched /\ Cardinality(windows) # 1 /\ Release /\ UNCHANGED sess

MarkSaves == (IF Owned(sess["charge"]) THEN <<"charge">> ELSE <<>>)
                \o (IF Latched("export") THEN <<"export">> ELSE <<>>)

\* Feedback is missing: owned sessions await recovery, without a command.
MarkSessionsUnavailable ==
    /\ sess' = [ch \in Channels |-> MarkUnavailable(sess[ch])]
    /\ IF MarkSaves = <<>> THEN Release
       ELSE lock' = "mark" /\ job' = [NoJob EXCEPT !.saves = MarkSaves]

\* Self Use with degraded evidence: every store is rewritten idle, and the
\* observation taken before is used after the writes.
ResetSessions(o) ==
    /\ sess' = [ch \in Channels |-> IdleSession]
    /\ lock' = "reset"
    /\ job' = [NoJob EXCEPT !.saves = <<"charge", "export">>, !.obs = o]

Ready == gate /\ life # "stopping"

Evaluate(o) ==
    \/ HoldOwnership(o) /\ Release /\ UNCHANGED sess
    \/ ResetOwnership(o) /\ ResetSessions(o)
    \/ ~HoldOwnership(o) /\ ~ResetOwnership(o) /\ Decide(o)

ReconcileLocked ==
    \/ ~Ready /\ Release /\ UNCHANGED sess
    \/ Ready /\ "offline" \in Faults /\ MarkSessionsUnavailable
    \/ Ready /\ Evaluate(seen)

Running == life = "up" \/ ("early" \in Faults /\ life \in {"platforms", "charge_loaded"})

\* A tick, a setting change, an entity or a price listener.
Reconcile ==
    /\ Running /\ lock = "free" /\ ReconcileLocked
    /\ UNCHANGED <<plant, gate, windows, stores, stat, life, pending>>

\* The first evaluation after the supervisor re-armed a session.
ReconcileAgain ==
    /\ lock = "again" /\ ReconcileLocked
    /\ UNCHANGED <<plant, gate, windows, stores, stat, life, pending>>

DecideAfterReset ==
    /\ lock = "decide" /\ Decide(job.obs)
    /\ UNCHANGED <<plant, gate, windows, stores, stat, life, pending>>

-----------------------------------------------------------------------------
(* Store writes of the lock holder. *)

Saving == {"mark", "reset", "save", "rearm"}

NextSave == Len(job.saves) > 1 /\ lock' = lock /\ job' = [job EXCEPT !.saves = Tail(@)]
LastSave ==
    /\ Len(job.saves) = 1
    /\ \/ lock = "mark" /\ Release
       \/ lock = "rearm" /\ lock' = "again" /\ job' = NoJob
       \/ lock = "reset" /\ lock' = "decide" /\ job' = [job EXCEPT !.saves = <<>>]
       \/ lock = "save" /\ job.plan = <<>> /\ Release
       \/ /\ lock = "save" /\ job.plan # <<>> /\ lock' = "exec"
          /\ job' = [NoJob EXCEPT !.chan = job.chan, !.plan = job.plan]

\* In-memory statuses become valid after a reset and after an export save; a
\* charge save leaves its status alone.
StatAfterSave(store) ==
    [s \in Channels |->
        IF store = "export" /\ (lock = "reset" \/ (lock = "save" /\ s = "export"))
          THEN "valid" ELSE stat[s]]

SaveSucceeds ==
    /\ lock \in Saving
    /\ LET store == Head(job.saves) IN
       /\ disk' = [ch \in Channels |-> IF ch = store THEN sess[ch] ELSE disk[ch]]
       /\ fileStat' = [fileStat EXCEPT ![store] = "valid"]
       /\ stat' = StatAfterSave(store)
    /\ NextSave \/ LastSave
    /\ UNCHANGED <<plant, gate, windows, sess, life, pending>>

\* The exception ends the reconciliation; only a stored export step rolls back.
SaveFails ==
    /\ "save" \in Faults /\ lock \in Saving
    /\ sess' = IF lock = "save" /\ job.chan = "export"
                 THEN [sess EXCEPT !["export"] = job.prev] ELSE sess
    /\ Release
    /\ UNCHANGED <<plant, gate, windows, stores, stat, life, pending>>

-----------------------------------------------------------------------------
(* Execution of a plan, one command at a time (foxess_adapter.py). *)

\* _writes_still_authorized: a forced export also needs its paid allowance and
\* the EV handoff, both part of its window here.
Authorized ==
    Ready /\ (sess["export"].phase \in {"starting", "active"} => "export" \in windows)

ForcerAfter(c) ==
    IF c.act # "select_mode" THEN forcer
    ELSE IF c.mode \in ForcedModes THEN "heo" ELSE "none"

Accept(c) ==
    /\ inv' = Apply(c, inv)
    /\ forcer' = ForcerAfter(c)
    /\ seen' = IF "lag" \in Faults THEN seen ELSE inv'

ExecuteCommand ==
    /\ lock = "exec" /\ Ready
    /\ Accept(Head(job.plan))
    /\ IF Len(job.plan) = 1 THEN Release
       ELSE lock' = lock /\ job' = [job EXCEPT !.plan = Tail(@)]
    /\ UNCHANGED <<gate, windows, sess, stores, stat, life, pending>>

\* The window may have closed for its time only, which the guard does not check.
CommandBlocked ==
    /\ lock = "exec" /\ ~Authorized
    /\ Release
    /\ UNCHANGED <<plant, gate, windows, sess, stores, stat, life, pending>>

CommandFails ==
    /\ "service" \in Faults /\ lock = "exec" /\ Ready
    /\ Accept(Head(job.plan)) \/ UNCHANGED plant
    /\ Release
    /\ UNCHANGED <<gate, windows, sess, stores, stat, life, pending>>

-----------------------------------------------------------------------------
(* control_supervisor.py: one repair of a persistent mismatch. *)

ExpectedMode ==
    IF sess["charge"].phase \in {"starting", "active", "recovering"} THEN "ForceCharge"
    ELSE IF sess["export"].phase \in {"starting", "active", "recovering"}
      THEN "ForceDischarge"
    ELSE "SelfUse"

\* The five-minute grace is not measured: any mismatch may be one that lasted.
\* An unexpected Force Discharge is reported and never repaired.
Supervise ==
    /\ "mismatch" \in Faults /\ life = "up" /\ gate /\ pending = "none"
    /\ seen.mode # ExpectedMode /\ seen.mode # "ForceDischarge"
    /\ pending' = ExpectedMode
    /\ UNCHANGED <<plant, gate, windows, sess, stores, stat, life, lock, job>>

ChannelOf(mode) == IF mode = ForcedMode("charge") THEN "charge" ELSE "export"

Rearm(ch) ==
    IF sess[ch].phase \in {"starting", "active", "recovering"}
      THEN /\ sess' = [sess EXCEPT ![ch].phase = "recovering", ![ch].attempts = 0,
                                   ![ch].fresh = FALSE]
           /\ lock' = "rearm" /\ job' = [NoJob EXCEPT !.saves = <<ch>>]
      ELSE Release /\ UNCHANGED sess

\* The restore looks at the inverter again, never at the sessions.
RepairSelfUse ==
    LET plan == PlanRestoreMode(seen) IN
    /\ IF plan = <<>> THEN Release
       ELSE lock' = "exec" /\ job' = [NoJob EXCEPT !.chan = "supervisor", !.plan = plan]
    /\ UNCHANGED sess

Repair ==
    /\ life \in {"up", "stopping"} /\ lock = "free" /\ pending # "none"
    /\ pending' = "none"
    /\ \/ (~gate \/ "offline" \in Faults) /\ Release /\ UNCHANGED sess
       \/ gate /\ pending \in ForcedModes /\ Rearm(ChannelOf(pending))
       \/ gate /\ pending = "SelfUse" /\ RepairSelfUse
    /\ UNCHANGED <<plant, gate, windows, stores, stat, life>>

-----------------------------------------------------------------------------
(* Setup and stop of the config entry (__init__.py). *)

Boot ==
    /\ life = "down" /\ life' = "platforms"
    /\ UNCHANGED <<plant, gate, windows, sess, stores, stat, lock, job, pending>>

\* A malformed file decodes as idle, a missing one leaves the session as it is.
LoadSession(ch) ==
    /\ stat' = [stat EXCEPT ![ch] = fileStat[ch]]
    /\ sess' = [sess EXCEPT ![ch] = CASE fileStat[ch] = "valid"     -> disk[ch]
                                      [] fileStat[ch] = "malformed" -> IdleSession
                                      [] fileStat[ch] = "missing"   -> @]
    /\ UNCHANGED <<plant, gate, windows, stores, lock, job, pending>>

LoadCharge == life = "platforms" /\ life' = "charge_loaded" /\ LoadSession("charge")
LoadExport == life = "charge_loaded" /\ life' = "up" /\ LoadSession("export")

ForgetMemory ==
    /\ life' = "down" /\ Release /\ pending' = "none"
    /\ sess' = [ch \in Channels |-> IdleSession]
    /\ stat' = [s \in Channels |-> "not_loaded"]
    /\ UNCHANGED <<plant, gate, windows, stores>>

Crash == "crash" \in Faults /\ life # "down" /\ ForgetMemory

\* async_stop closes the write guard, then waits for the lock.
Unload ==
    /\ "reload" \in Faults /\ life = "up" /\ life' = "stopping"
    /\ UNCHANGED <<plant, gate, windows, sess, stores, stat, lock, job, pending>>
Unloaded == life = "stopping" /\ lock = "free" /\ ForgetMemory

Corrupt ==
    /\ "corrupt" \in Faults /\ life = "down"
    /\ \E s \in Channels : fileStat[s] = "valid" /\ fileStat' = [fileStat EXCEPT ![s] = "malformed"]
    /\ UNCHANGED <<plant, gate, windows, sess, disk, stat, life, lock, job, pending>>

-----------------------------------------------------------------------------
(* The environment. *)

ExternalWrite ==
    /\ \E m \in ExternalModes \ {inv.mode} :
          /\ inv' = [inv EXCEPT !.mode = m]
          /\ forcer' = IF m \in ForcedModes THEN "external" ELSE "none"
    /\ seen' = IF "lag" \in Faults THEN seen ELSE inv'
    /\ UNCHANGED <<gate, windows, sess, stores, stat, life, lock, job, pending>>

Refresh ==
    /\ seen # inv /\ seen' = inv
    /\ UNCHANGED <<inv, forcer, gate, windows, sess, stores, stat, life, lock, job, pending>>

ToggleGate ==
    /\ "gate" \in Faults /\ gate' = ~gate
    /\ UNCHANGED <<plant, windows, sess, stores, stat, life, lock, job, pending>>

ToggleWindow ==
    /\ \E ch \in Channels :
           windows' = IF ch \in windows THEN windows \ {ch} ELSE windows \cup {ch}
    /\ UNCHANGED <<plant, gate, sess, stores, stat, life, lock, job, pending>>

Older(s) == [s EXCEPT !.fresh = FALSE]

\* Thirty seconds pass for every stamp, in memory and in the stores.
Elapse ==
    /\ \E ch \in Channels : sess[ch].fresh \/ disk[ch].fresh
    /\ sess' = [ch \in Channels |-> Older(sess[ch])]
    /\ disk' = [ch \in Channels |-> Older(disk[ch])]
    /\ job' = [job EXCEPT !.prev = Older(@)]
    /\ UNCHANGED <<plant, gate, windows, stat, fileStat, life, lock, pending>>

-----------------------------------------------------------------------------
Hold == \/ ReconcileAgain \/ DecideAfterReset \/ SaveSucceeds
        \/ ExecuteCommand \/ CommandBlocked
Setup == Boot \/ LoadCharge \/ LoadExport \/ Unloaded
Environment == \/ Crash \/ Unload \/ Corrupt \/ ExternalWrite \/ Refresh \/ ToggleGate
               \/ ToggleWindow \/ Elapse

Next == \/ Reconcile \/ Hold \/ SaveFails \/ CommandFails
        \/ Supervise \/ Repair \/ Setup \/ Environment

Spec == Init /\ [][Next]_vars
-----------------------------------------------------------------------------
(* Properties. *)

\* The range of every variable.
TypeOK ==
    /\ inv \in Inverter /\ seen \in Inverter /\ forcer \in {"none", "heo", "external"}
    /\ gate \in BOOLEAN /\ windows \subseteq Channels
    /\ sess \in Sessions /\ disk \in Sessions
    /\ stat \in [Channels -> FileStatus \cup {"not_loaded"}]
    /\ fileStat \in [Channels -> FileStatus]
    /\ life \in Stages /\ lock \in Steps /\ job \in Job
    /\ pending \in Expected \cup {"none"}

\* A plan of a session is executed only while the stored journal is the session
\* it came from; a command that forces the battery needs a stored "starting"
\* session of its direction and at least its power; the supervisor forces nothing.
JournalBeforeActuation ==
    lock = "exec" =>
        /\ job.chan \in Channels =>
              disk[job.chan] = sess[job.chan] /\ fileStat[job.chan] = "valid"
        /\ \A i \in DOMAIN job.plan : IsPositive(job.plan[i]) =>
              /\ job.chan \in Channels
              /\ disk[job.chan].phase = "starting"
              /\ job.plan[i].kw <= disk[job.chan].power
              /\ job.plan[i].mode \in {"none", ForcedMode(job.chan)}
\* Each charge start and each charge stop gets at most MaxAttempts plans.
ChargeRetryBudget == sess["charge"].attempts <= MaxAttempts

\* A forced mode HEO selected always has an owner a restart will find: the stored
\* session of its direction is unfinished, unless the file no longer decodes.
NoLostObligation ==
    forcer = "heo" =>
        \E ch \in Channels :
            inv.mode = ForcedMode(ch) /\ (Owned(disk[ch]) \/ fileStat[ch] = "malformed")

\* The same as an implementation of Obligation: a forced mode is entered only under a
\* stored owner, and the last owner is given up only after the forced mode has ended.
Forced == forcer = "heo"
Journaled == \E ch \in Channels : Owned(disk[ch]) \/ fileStat[ch] = "malformed"
Ledger == INSTANCE Obligation WITH acting <- Forced, recorded <- Journaled
ImplementsObligation == Ledger!Spec

\* The two automatic sessions are never unfinished together, in memory or for a
\* restart to find.
OneDirection ==
    /\ \E ch \in Channels : ~Owned(sess[ch])
    /\ \E ch \in Channels : ~Owned(disk[ch])

\* A forced mode is entered only when the opposite target is clear and its own is within
\* the stored power of its owner: wherever the plans before were abandoned, the battery
\* is never forced at a power nobody asked for.
ForcedModeLast ==
    [][\A ch \in Channels : forcer' = "heo" /\ inv'.mode = ForcedMode(ch) /\ inv.mode # inv'.mode
         => LET own == IF ch = "charge" THEN inv'.chg ELSE inv'.dis IN
            own \in 1 .. disk[ch].power /\ inv'.chg + inv'.dis = own]_vars

\* A raised limit never raises the power of a session that is being started, held
\* or recovered.
FrozenPower ==
    [][\A ch \in Channels :
         {sess[ch].phase, sess'[ch].phase} \subseteq {"starting", "active", "recovering"}
         => sess'[ch].power <= sess[ch].power]_vars

-----------------------------------------------------------------------------
(* Fairness: the event loop resumes a suspended holder, setup and the entity  *)
(* refreshes finish, the asyncio lock is first come first served, the 30 s    *)
(* tick recurs, and the mapped entities are not unavailable at every tick.    *)

ReconcileWithFeedback ==
    /\ Reconcile /\ Ready /\ Evaluate(seen)
    /\ \A ch \in Channels : sess'[ch].phase # "recovering"

Fairness ==
    /\ WF_vars(Hold) /\ WF_vars(Setup) /\ WF_vars(Refresh) /\ WF_vars(Elapse)
    /\ SF_vars(SaveSucceeds) /\ SF_vars(ExecuteCommand) /\ SF_vars(ReconcileWithFeedback)

FairSpec == Spec /\ Fairness

\* The windows stay closed, the gate stays open and no restart comes any more.
Undisturbed == <>[](windows = {} /\ gate /\ life = "up")
Restored == inv = SelfUseObservation /\ NoneLatched
GaveUp ==
    \E ch \in Channels : sess[ch].phase = "stopping" /\ sess[ch].attempts >= MaxAttempts

\* After the last window the battery is back in complete Self Use for good and
\* both sessions are idle, whatever was lost or interrupted before, unless the
\* stop used up its attempts.
StopRestoresOrGivesUp == Undisturbed => (<>[]Restored \/ <>[]GaveUp)
=============================================================================
