# Home Energy Orchestrator: TLA+ models, TLC runs and TLAPS proofs

The Home Energy Orchestrator (HEO) is a Home Assistant integration
(`src/custom_components/home_energy_orchestrator`, below `heo/`) that drives a
FoxESS inverter and one or more EV chargers: it charges the battery in a free
tariff window, exports in a premium window or while a price permission lasts,
charges cars, and must return the battery to Self Use afterwards, through
restarts, lost feedback and failing service calls. Everything runs on one asyncio
event loop, so all interleaving happens where a coroutine awaits: a lock, a store
write, a service call, a network request.

This directory holds the specification of that control logic: modules, TLC
configurations, and theorems that TLAPS checks. `PROJECT.json` maps every
definition to the lines it models.

## 1. Inventory

| component | state it keeps | operations | what makes it correct |
|---|---|---|---|
| FoxESS planner (`planner/foxess.py`) | none (pure) | plan commands for a decision, match feedback | plans converge from every inverter state, resume after an interruption, never force before the targets are set |
| Session reducers (`planner/charge_session.py`, `export_session.py`, `foxess_recovery.py`) | phase, power, attempts, last command | advance one reconciliation, mark unavailable | bounded retries, frozen power, an owner is let go only on a confirmed Self Use |
| Automatic FoxESS controller (`active.py`, `foxess_adapter.py`, `planner/foxess_ownership.py`) | two sessions, their store status, the reconcile lock | tick, price listener, load, stop, degraded reset, supervisor repair | journal before actuation; no forced mode without a stored owner; never two directions; Self Use in the end |
| Session stores (`persistence.py`) | one payload per session | load (valid, missing, malformed), save | memory and store agree between reconciliations |
| Control supervisor (`control_supervisor.py`, `planner/control_supervision.py`) | mismatch clock, one repair in flight | observe, repair battery or EV, release | a repair decided on old state does no harm; foreign modes are left alone |
| Admission policies (`planner/foxess_charge_policy.py`, `foxess_export_policy.py`, `export.py`) | none (pure) | offer a power and a permission | an offer implies window, reserve and price conditions |
| Config-entry lifecycle (`__init__.py`) | setup progress | setup, platforms, first tick, unload | stores are loaded before anything reconciles |
| Manual diagnostic test (`manual_test.py`, `planner/manual_test.py`) | one journal, generation, expiry timer | start, stop, expire, restore, unload | a superseded generation never writes; an expired test is restored |
| Manual inverter session (`manual_inverter.py`) | request journal, hold | request, release, reload | a manual hold survives a restart, automation does not resume under it |
| Price permission and AEMO monitor (`aemo_monitor.py`, `amber_price.py`) | price intervals, settings generation | fetch, commit, expire | a fetch of an old generation never commits; an expired price authorises nothing |
| EV charging controller (`ev_active.py`, `planner/ev*.py`) | per-vehicle commands, attempts, leases, outside-window history | reconcile, set limit and current, start, stop, charge to full, hand back | writes paced through restarts; a charge nobody authorised is stopped; the battery gives only spare energy; one power cycle per episode |
| Trip charge (`trip_charge.py`, `planner/trip_charge.py`) | one-shot schedule, Full lease, checkpoint | arm, edit, start, pause, finish, hand off | a paid override is never replayed; an edit fences a suspended admission |
| Node and fleet maintenance (`maintenance.py`, `fleet_maintenance.py`) | operation journal, write fence | update, restart, confirm, lease | no controller writes while files change; an interrupted update is found again |
| Meters (`planner/daily_meter.py`, `meter_cycle.py`, `paid_export.py`) | daily totals, last sample, checkpoint | observe, restore, save | no energy counted twice or in the wrong window; a restart loses less than the threshold |
| Windows and tariff (`planner/control_windows.py`, `tariff.py`) | none (pure) | bounds, overlap, position | wrap-around windows and day changes |
| Coordinator (`coordinator.py`, `telemetry*.py`, `normalise.py`) | snapshots, stores of the meters | refresh, checkpoint | one step failing leaves the rest consistent |
| Forecast, learning, profiles | estimators | observe, estimate | numeric, not modelled |
| Configuration and entities | forms, presentation | call the controllers | not modelled beyond those calls |

Interaction. Every actuation of the battery goes through one `asyncio.Lock` of the
controller; the tick, entity and price listeners, the supervisor, manual tests and
maintenance contend for it. A holder suspends at each store write and each service
call; settings, windows, write gates and the inverter itself may change meanwhile,
and a write guard is evaluated again before each command. The inverter is observed
through entity states that another integration polls, so an observation can be
older than the last accepted command. FoxESS Cloud, the app or the owner may select
another mode at any time.

Hard behaviours, all listed with their lines under `hazards` in `PROJECT.json`: a
stop of Home Assistant between a journal write and its command; plans abandoned
half-way; a save that fails after memory moved on; entities that reconcile before
the stores are loaded; attempts spent on commands never sent; two windows opening
while the other session is still restoring; a repair decided before and executed
after a session changed; limits that fall and rise during a frozen session; operator
messages out of order; a price that ends under a suspended write; reports replayed from
a stale index; a lease checkpointed before a delayed entry write; an update cut at any call;
a current held while the energy that pays for it drains.

## 2. Modules

| module | models | how it corresponds to the code |
|---|---|---|
| `Obligation` | what every owner of an actuator promises | two bits: the actuator acts, a restart would find a record; it acts only under a record, and the record is given up only when nothing acts |
| `FoxessPlanner` | `planner/foxess.py` | pure operators: `PlanFoxessCommands`, `ResponseMatches`; `Apply` is the external inverter |
| `FoxessSessions` | the two session reducers | `AdvanceSession(ch, session, observation, inputs)` returns the new session and its plan; one operator per phase |
| `BatteryController` | `active.py` with stores, supervisor, lifecycle and environment | `lock` is the holder's next step (program counter at a suspension), `job` its locals; one action per step between two awaits |
| `PriceExport` | price-triggered export: `_price_window`, its policy, the price authority in `export_session.py`, the controller's cleanup | EXTENDS `FoxessSessions`: the reducer wraps the ordinary export transitions |
| `ManualControl` | `manual_test.py`, `manual_inverter.py` and the automatic controller they contend with | each call in progress is a `task` with its program counter; the three locks are variables |
| `ControlWindows`, `SiteWindows` | `planner/control_windows.py`, and the windows of one site | pure operators over ticks of local time; `SiteWindows` is the abstract clock of a site |
| `DailyMeters`, `MeterCycle` | `planner/daily_meter.py`, `planner/meter_cycle.py` and the stores of `coordinator.py` | a meter is a record, `Observe` and `Restore` its methods; `update` is the cycle's place in the list of meters |
| `PaidExport` | `planner/paid_export.py`, its checkpoint and its reader | EXTENDS `MeterCycle`: the paid meter takes its turn (`step`) before the others |
| `EvSessions`, `EvController` | the direct path of `ev_active.py` with `planner/ev*.py` and `ev_adapter.py` | pure decisions below, the cycle above: look, decide, store the record, then one command after the other behind the live gate |
| `SmartSocket` | the smart-socket path of the same controller | a staged current before power, and one stored recovery that switches the socket off and on |
| `SolarStages`, `SolarPacing` | outside the windows: morning solar, pre-free session, the two combined, afternoon soak (`ev_active.py`, `planner/ev_outside_window.py`, `planner/timed_average.py`) | arithmetic below, the cycle above; EXTENDS `SiteWindows` for its clock |
| `FreeWindowCurrent` | the current of the free window, the daily allowance, the charge limit (`planner/ev.py`) | pure operators over records of measurements, and what they promise as operators of the same records |
| `TripCharge` | `trip_charge.py`, its journal, the configuration entry and the EV lock | a step goes from one save to the next; edits queue for the lock in `waiting` |
| `NodeMaintenance` | `maintenance.py` with its safety, barrier and adapter; the hub as requests that are lost, late or repeated | `node.todo` is the rest of `_run`, its head the call that is awaited |
| `MarketMonitor` | `aemo_monitor.py`, `amber_price.py` | a download, a save that holds the lock, an expiry timer and a settings change interleave |
| `MC*` | instances for TLC | sets of faults, configurations, sites |
| `FoxessSessionsProofs`, `BatteryControllerProofs`, `PriceExportProofs` (and the market monitor), `ManualControlProofs`, `EvControllerProofs`, `RestartProofs` (maintenance and smart socket), `SolarPacingProofs`, `TripChargeProofs` | theorems | section 4 |

Composition. `BatteryController` and `PriceExport` EXTEND `FoxessSessions`, which EXTENDS
`FoxessPlanner`: the controllers execute exactly the plans of the planner. `PaidExport`
EXTENDS `MeterCycle`, which EXTENDS `DailyMeters` and `ControlWindows`: the cap and the
meters it competes with live in the same update. `SolarPacing` runs on a site of
`SiteWindows` and implements it (theorem `RunsOnASite`). `BatteryController`,
`ManualControl` and `PriceExport` each implement `Obligation`, with their own meaning of
"acting" and "recorded": the refinement mapping is `ImplementsObligation` in the first two and
`PriceObligation` in the third. `MarketMonitor` ends where `PriceExport` begins, at
`export_result`: the monitor's answer is the free input `permit` there.

State of `BatteryController`: `inv` is what the inverter accepted and `seen` what
the entities show (equal unless the fault `"lag"` is on); `forcer` is a history
variable (who selected the forced mode); `sess` and `disk` are the sessions in memory
and in their stores; `stat` the in-memory store status and `fileStat` what a load
would report; `life` the setup progress; `pending` the repair the supervisor awaits
the lock for. Actions: `Reconcile`, `ReconcileAgain`, `DecideAfterReset` (the
decision part of `_async_reconcile_locked`), `SaveSucceeds`/`SaveFails` (one store
write), `ExecuteCommand`/`CommandBlocked`/`CommandFails` (one service call with its
guard), `Supervise`/`Repair`, `Boot`/`LoadCharge`/`LoadExport`/`Unload`/`Unloaded`/
`Crash`, and the environment (`ExternalWrite`, `Refresh`, `ToggleGate`,
`ToggleWindow`, `Elapse`, `Corrupt`).

State of the EV modules: `car` and `link` are what the vehicle does and whether its cloud
shows it; `mem` and `disk` the controller's fields and their stored part; `pc` and `job`
the cycle's suspension and what it captured; `pace`, `clock`, `cuts`, `run` are history
variables. `Cycle` is one step of the cycle (capture, decision, save, command), `Tick` lets
time pass between cycles. State of `MeterCycle` and `PaidExport`: `meters` and `files` are
the accumulators in memory and in their stores, `saved` the totals of the last writes; `paid`,
`paidFile`, `paidSaved` the same for the paid-export counter; `ready` is
`_paid_export_storage_ready` and `ledger` the `paid_export_kwh` of `coordinator.data`,
which changes only when an update ends well (`FinishUpdate`): the export controller reads
one of them live and the other from the last ledger.

### Abstractions

* **Battery.** Powers are whole steps of a kilowatt, so the 0.01 kW tolerance is equality.
  Time is one bit per session, `fresh`: the last command is younger than the 30 s used both
  as acceptance timeout and as retry interval. What the policies decide is an arbitrary
  offer (`Offered`) consistent with what they can return. The write gates are one Boolean.
  The supervisor's grace is not measured: any mismatch may be one that lasted. Attempts are
  counted up to one above the limit.
* **Price export.** A tick is the 30 s of a retry; a price interval has two and its
  publication grace one. Energy, the handoff to the EV and the paid allowance are free
  inputs; `gate` stands for write gates, manual sessions, the maintenance fence and a changed
  mapping. Listeners and the deadline timer only bring forward reconciliations. The
  cut at the next free window, the clock set back and the region in the permission's
  signature are left out.
* **Manual control.** The automatic controller is one session; entity states follow the
  inverter at once; only charge tests; the retry backoff is not measured; operator requests
  before the end of the setup are left out.
* **Meters.** A tick is the distance of two possible samples; power is in steps, energy is
  counted twice over so that the mean of two powers is whole. Daylight saving is left out.
* **Direct EV path.** The current is nothing, the minimum or the ceiling (the planned value
  is in `FreeWindowCurrent`), the limit "soft" or "full"; the decision interval is a tick;
  the retry intervals are two; the completion of a full charge is a free choice; what the
  site offers is configuration and evidence. Before-export top-up, prompt backfill ownership,
  ready-by timing, the telemetry hold at startup and the rejection of learned limits are left
  out; pre-free sessions and the soak are in `SolarPacing`.
* **Smart socket.** One positive target; stable cloud evidence is nondeterministic; the
  `smart_socket_command_invalid_after_settle` state is left out; the car's state follows
  within a tick.
* **Solar pacing.** Currents are whole amps, energy amp-ticks; one cycle per tick. The bonus
  and discharge windows coincide, the morning reserve and the soak floor share a battery
  level, the sun is always up, settings do not change. The commands of a plan are atomic
  (`EvController` has them one by one), the backoff is a withheld write, the stop obligation
  one bit. The free-window stage is external.
* **Free-window current.** Currents in tenths of an ampere, energies in units times
  minutes; the vehicle's energy need, the averages and their validity are inputs; records
  of measurements have the types that the code's ValueErrors enforce.
* **Trip charge.** The legacy helper, a cancelled caller and the missing entry are left out;
  the startup hold is the car state "unknown"; a lease without a start time is always ended.
* **Maintenance.** Request ids are numbers in order of issue; expiry and a changed setting
  are one reason to lapse; the verification's health is a free choice; the catalog of HACS,
  the release check and the hub's polling are left out.
* **Market.** A tick is 150 s, half an interval; one download at a time; a failed or empty
  download is a result without a record; each record is held once; the import threshold
  and the regions are left out; Amber's stamps may go backwards.

## 3. Runs

Every run passes; each property is also violated by a mutant of a mapped definition, a
plausible bug in the code (`mutants` in `PROJECT.json`; the mutated forms stand before the
definitions they replace).

| run | checks | what it shows |
|---|---|---|
| `obligations` | `JournalBeforeActuation`, `ImplementsObligation`, `ForcedModeLast` | with crashes, failing saves and services, gates, repairs, corrupt files and an outsider: no command without its stored session, no forced mode HEO selected without a stored owner, a forced mode entered after its targets are set |
| `durability` | `OneDirection`, `FrozenPower` | with crashes, failing services, lost feedback, changing limits and entities that trail: charge and export never unfinished together, no power raised in a session |
| `restoration` | `StopRestoresOrGivesUp` | after the last window and the last interruption the battery returns to Self Use, or the stop has used up its attempts |
| `price` | `PermittedWrites`, `PriceObligation`, `PriceExportEnds` | a forcing command is permitted by a price of its moment and by its stored deadline; forced only under a journal; a price stop never gives up |
| `manual` | `NewestRequestWins`, `ImplementsObligation`, `OperatorPrevails`, `TestEnds` | no acknowledged request is displaced by an older one; a forced mode always has a stored owner; what was in flight does not outlast the operator; a test ends |
| `paid` | `RestartLosesLittle`, `PaidOnce`, `CountsItsWindow`, `CapNeverRefilled` | meters and cap through samples at any distance, midnight, outages and failing writes: exact against a tick-by-tick reference, little lost by a restart, export paid once, the day's cap never refilled |
| `ev` | `WritesPaced`, `FullLimitBounded`, `UnauthorisedChargeEnds`, `TargetReached` | the same target is not written again before its interval and a full limit ends after its time, through every crash, unless the restart finds the defaults a save had stored in place of both (divergence 6); a charge nobody authorised is stopped; no number of lost commands makes the controller give a target up |
| `smart` | `OnePowerCycle`, `PowerReturns`, `RecoveryEnds` | one power cycle per episode, no car left unpowered, every recovery ends |
| `solar` | `SolarIsMeasured`, `SpendsOnlySpare`, `SteadyBetweenAdjustments`, `OpenWindowKeepsItsBounds` | a solar hold never inherits a battery allowance; the battery gives a car only spare energy; an accepted total does not decay within its interval; bounds of an overnight window hold past midnight |
| `trip` | `NeverReplayed`, `TripBounded`, `CancelHolds`, `LeaseEnds` | a paid override is never replayed, lasts no longer than its hours, and is given back; it does not survive its cancel, unless the rollback of a failed release save overwrites the cancel (divergence 8) or the memory is lost before the cancel is stored |
| `market` | `EvidenceIsConfigured`, `VetoHolds`, `WithdrawalHolds`, `CandidateEnds` | no evidence of other settings; a correction or a withdrawal is not undone by an older report, another provider or a restart, but for an intervention the direct source reports (divergence 7); an announced candidate is cleared |
| `maintenance` | `OneShot`, `RecoverableBackup`, `Fenced`, `MaintenanceEnds` | at most one install and one restart per request; a backup of the running version while a restart is due; no command under the fence; it always ends |

### Bounds

* `obligations`, `durability`, `restoration`: faults are divided by what each can separate
  (`obligations` those that part journal, memory and inverter, `durability` those that part
  observation and inverter) and are not counted: each may happen at any suspension, any number
  of times. Three powers in `durability` are a limit below, at and above a frozen power.
  `MaxAttempts` is 1 or 2, "at least one more" and "exhausted". A failing save is left out of
  `durability` because a failed charge save really leaves memory ahead of its store;
  `early` and `lag` are left out of `obligations` because of divergence 2, and because under
  lag a stop may be confirmed by an observation older than the start.
* `price`: two intervals of two ticks with a tick of grace, six ticks of clock, four
  events; one attempt and one power.
* `manual`: two operator messages in any order, one test and one other event, one
  restoration attempt: every pair of "in flight" and "overtaken" occurs.
* `paid`: a day of four ticks, two hours, a gap of two ticks, five ticks of clock
  for one midnight and a sample on either side; meters of each kind, windows
  inside the day and ending with it; an allowance of three units that one interval can exhaust
  half-way. `RestartLosesLittle` speaks of meters whose last write did not fail (`failed`): a
  checkpoint that was due only because a flow ended, or because midnight had emptied the
  meter, is not asked for again once the reason has passed.
* `ev`, `smart`: three events anywhere (a lost command, a failing save or service, a crash,
  a change of the cloud, the car, the driver, the window, the offer, the gate), saves that store
  the defaults besides; two retry intervals; two ticks of a full charge, or one of each recovery phase. Time is not bounded.
* `solar`: a day of 16 ticks on an overnight site, three starts (a morning into the free
  window, an afternoon into the export, its midnight), five ticks, two events, currents to
  3 A, an adjustment interval of three ticks, longer than the soak's. `SpendsOnlySpare` covers
  the stages that spend the battery, whose cycle ran on time and whose command landed (the
  soak also when the house changed before its write). `SteadyBetweenAdjustments` leaves out
  house and car events, lost writes and failed saves, after which the target is to be lowered,
  and a crash between the save of a lowered target and its command: the store then holds less
  than the car draws, and the restart lowers it in mid-interval. The interval ends with the
  free window.
* `trip`: two hours of lease, three events. Four events were checked once, without `LeaseEnds` (4.1 million states).
* `market`: two intervals, two reports and two stamps in each, three configurations, three
  events. Its invariants were checked once with four (3.9 million states).
* `maintenance`: two requests, two releases, two disturbances. Its invariants were checked
  once with three (2.0 million states). `MaintenanceEnds` leaves out a node whose store failed
  (observation 14).
* Actions that only bound a run (`Rest`) stutter. `CHECK_DEADLOCK FALSE` is in the runs whose
  counters end (`manual`, `market`, `maintenance`).

The assumption `PlannerChecked` of `MCEvController` evaluates the free-window planner
against its promises on a grid of small measurements at the start of the `ev` run, before
they are proved for all of them.

### Fairness

* `restoration`: the event loop resumes a suspended holder (`WF Hold`), setup finishes
  (`WF Setup`), entities refresh and time passes (`WF Refresh`, `WF Elapse`), and the 30 s tick
  recurs and gets the first-come-first-served lock with feedback infinitely often
  (`SF ReconcileWithFeedback`, and `SF` for a save and a command tried again and again).
  Faults are only excluded by what `Undisturbed` states: from some time on the windows stay
  closed, the gate open and the entry up.
* `manual`: every call in progress goes on (`WF` per task), timers, setup and unload happen,
  the tick recurs (`SF`).
* `ev`, `smart`: a cycle ends what it awaits (`WF Cycle`) and time passes between cycles
  (`SF Tick`, which a cycle disables while it runs).
* `trip`: the holder of the asyncio lock goes on and the lock is first come, first served.
* `maintenance`: each call returns or is cut by the 1800 s timeout, the hour of a request
  ends, timers fire.
* `market`: time, a save under way, a restart and the expiry timer; downloads and entity
  updates need not happen.
* `price`: time, the restart, and the holder of the lock.

## 4. Proofs

The theorems hold for every value of the constants that the ASSUMEs allow.

* Reducers. `AdvanceSound`: a step returns a typed session and a plan licensed by it, lets an
  owner go only on an observed Self Use, and never raises the power of a forcing session; one
  lemma per phase. `ChargeBudgetStep`: no step leaves the attempt budget of a charge.
* Controller, for every `MaxAttempts`, `MaxKw`, `ExternalModes` and `Faults`. `TypeCorrect`:
  `TypeOK` alone is not inductive, because the next save needs the holder's `saves` to be
  non-empty and the rollback copy to be of its channel's type; `HolderOK` adds that.
  `ChargeBudget` by `BudgetInv`: the budget must also hold of the stored session, which a
  restart brings back. `Journal` (without `"early"`) by `JournalInv`: a plan is licensed by
  the session that waits to be stored, and then by the stored one; outside `up` and `stopping`
  nobody holds the lock. `Obligation` (without `"early"` and `"lag"`) by `ObligationInv`: the
  session answering for a forced mode is unfinished in the store, in memory once loaded,
  and in the copy a failed write rolls back to. `Implementation`: under the same conditions the
  controller implements `Obligation`; initial states map to initial states and each
  action to a step of the abstract specification or a stutter.
* Directions and powers. `Direction` (without `"early"` and `"save"`) by `DirectionInv`: the
  property relates the two sessions in memory, but a restart can break it through the stores, so
  the invariant also says that at most one stored session is unfinished, that a stored one is
  answered for in memory unless its save is waiting, and where the reset of both has got to.
  `"save"` is excluded because a failed charge write is not rolled back: memory then runs ahead
  of the store. `"early"` is, here and below, because a journal that has not been read yet is
  overwritten. `Frozen` (without `"early"`): the power clause of the reducers, carried through
  saves and rollbacks. `ForcedLast` (without `"early"`, `"lag"` and `"source"`) from the order of
  a plan (`OrderedStep`: targets before the mode that uses them); `"lag"`, because a plan is
  computed from what the entities show; `"source"`, because an export can be recovered at limit 0
  after its source was switched.
* Price export, with every fault. `PriceInvariant`: `PermitInv` says that a plan that forces is
  bound by the deadline of the session in memory, once executed also of the stored one, and that
  this deadline lies inside every permission still to come (`Covered`), since the price may
  be withdrawn or renewed while a write is suspended; `HandInv` says that the session of a
  battery HEO forced is open in the store, in memory, and in the copy a failed write rolls back
  to. `WritesPermitted` follows from the first and `ImplementsLedger`, the refinement of
  `Obligation`, from the second.
* Manual control. `TypeInvariant` says where each kind of call may be suspended and to what it
  returns. `RequestsKeepTheirOrder`, for all requests, by `OrderInv`: an acknowledgement reads
  the memory of the session, but a restart brings back its journal, so the journal too is at
  least as new as whatever was answered; only the holder of the journal's lock is writing
  (`Written`), the page it writes is at least as new as the journal, and once the generation in
  memory counts as durable the journal knows its stamp. A damaged journal loses the order with
  everything else, so the history `acked` starts anew there; the operator's journal is read
  before any other, and a session without one (`Untrusted`) answers nothing as durable.
  `ForcedModeIsJournaled`, the refinement of `Obligation`: a forced mode always has a duty in one
  of the three journals (`DutyInv`: `AutoDuty`, `TestDuty`, `HandDuty`), and no step changes
  the inverter and a journal at once (`OneSide`), so every step is one of the ledger's. That a
  duty stands when a command lands, and that the last one ends only in Self Use, needs
  everything the suspended calls rely on (`Owners`). `LockInv`: only the holder of the shared
  lock sends. `GenInv`: a call is never newer than its session. `HandInv`: the
  operator's journal covers an attempt from the surrender of the other owners on, also in the
  page being written. `HoldInv`: the hold is lifted in Self Use, when no other call will write
  the journal. `QuietInv`: nothing is tested from the surrender to the end of the hold.
  `TurnInv`: the automatic session is stored before its commands. `TestInv` for the
  diagnostic: its start commands under a durable record (`StartInv`), one restoration at a
  time answers for a test, and none takes the charge power back from a start that waits
  (`RestoreInv`). The power is set before the mode, so while the command that forces is on its
  way no restoration can find the inverter already restored and give up the record under it.
  Each part was checked by TLC as an invariant before it was proved.
* Market monitor, for every set of configurations and every bound on time, reports, stamps and
  changes, by `MonitorInv`. `Sources`: every record that can be read as evidence, in memory, in
  the store, among the observations, says of its interval what was published under its number
  (`Honest`). `Configured`: what is in memory was judged under the settings in force, and so
  will be a download that is under way, or it is dropped. `Newest`: the newest official report
  used is among the observations, none of which is newer, and the official price in force is
  the one of the newest that has a price (`Evident`, `Confirms`); a restart finds the same one
  again, since it starts from the observations. `Withdrawn`: the newest Amber reading used is
  remembered, or would be found again among the observations (`Matches`). The steps under the
  lock are one lemma for each kind of source (`AmberCommits`, `PlainCommits`), and what the
  monitor answers is read off at the present moment (`AmberNow`, `PlainNow`), also when the clock
  has moved on without a step of the monitor. `EvidenceStaysConfigured`, `VetoStands` and
  `WithdrawalStands` follow. The newest of the observations is a greatest element, so it is
  shown to exist from finite sets (`NewestOfficialIs`), not computed.
* Direct EV path. `EvInvariant`: the record in memory and the one in the store both cover the
  history of the writes (`PaceInv`), because a crash between a command and the next save brings
  the older record back and it must not allow the retry earlier (`Backoff`); a full request is
  in memory and store at least as old as its first use (`FullInv`), hence `FullBounded`: a restart
  does not start its time again. Both hold of a store that has the record. A save may store the
  defaults instead (`Kept`, divergence 6); a restart that finds them ends what is known of the
  past (`pace.lapsed`, `clock = Lapsed`), the two properties leave out what comes up to the next
  batch, and the invariant shows that they hold again from there.
* Smart socket. `SocketInvariant`: the count of power-offs stays in step with the phase of the
  recovery in memory and in the store, and returns to nothing only where the code closes an
  episode; `PowerCycledOnce` follows.
* Outside the windows. `RunsOnASite`: `SolarPacing` implements `SiteWindows`, by `ClockInv` (the
  ticks to come fit before the end of the clock) and the lemma that only `Pass` moves it;
  `SolarWindowKept` and `SolarPreFree` follow from the site's theorems. `SolarInvariant`: held
  targets are measured in memory and in the store (`HoldInv`); an undisturbed cycle decides by
  the car that is (`ViewInv`), the target of a stage that spends the battery is paid for by the
  baseline, the sun and the spare energy (`TargetInv`), and a target that needs no command is
  the car's (`DueInv`), so that the charge that counts spends spare energy (`SpendInv`). One
  lemma per stage (`SoakStage`, `SpillStage`, `MorningStage`, `PreFreeStage`, `MeasuredStage`,
  `PacedStage`, `SelectedStage`) says what it leaves in memory and what it offers; the soak's
  current is paid for by the check before its write instead, which is why it may count after a
  disturbance. `TargetsMeasured` and `OnlySpareSpent` follow. The soak's current is the least
  whole one that reaches a mean; that there is one is `Least`, from the well-foundedness of the
  naturals, so that no sum over the samples has to be typed.
  `SteadyTarget` needs `CalmInvariant` besides, which says what the energy left still owes. As
  long as all goes to plan an undisturbed cycle decides at the present time (`PlanInv`), and
  (`HeldInv`) the car draws at most the shared target or is about to be told, while what is left
  of the spare energy and of the car's room pays for that target until its interval ends
  (`Sustained`). A cycle divides what is left anew, over a horizon that has shrunk
  (`WholeHorizon`, `PartPays`, `RatePaces`), so it offers at least the held total and keeps it
  (`DecidedSustained`, `SustainedKept`); the tick between two cycles takes the current once
  (`TickPays`, `PassPays`, `CalmPass`).
* Sites, for every `Day`, `Horizon` and site. `Agreement`, `Overlaps`, `PreFreeInBetween`,
  `WindowKept`, `Deadline`: dates first (`DateBounds`, `DateOrder`, `DateUnique`: an instant
  lies in exactly one day), then bounds counted from midnight, then windows on the face of a
  clock, where two windows that do not meet leave out the start of one and the last tick of
  the other. Only `TypeInv` is needed of the state.
* Trip charge. `TripInvariant` has four parts, each of memory and, in `FileInv`, of the journal:
  the task under way may still do what is left of it (`TaskInv`), an OFF that was recorded as
  ended stays ended (`OffInv`), every copy that may be read again, journal, save under way or rollback, knows a start at least
  as old as the trip's (`TimeInv`),
  a trip that is called off is armed in none of them (`CallInv`), unless the code has lost the
  request: `called` is then "undone", by the rollback that arms the trip again (divergence 8),
  or "forgotten", by lost memory, and `CancelHolds` names both. `EndedNeverReplayed`, `TripIsBounded` and
  `CancelIsHeld` follow. The first attempt failed on an unreadable journal: someone who cancels
  or asks for ON then forgets the OFF in it (observation 12), so the property's history `off` ends
  there, which the bounds of the `trip` run had not reached.
* Maintenance. `Maintained` is the conjunction of `QueueInv` (what may stand in the rest of
  `_run`, and in which order), `Counted` (no request later than the stored record has called
  anything, and what is left to call has not been called), `Guarded` (a controller that is past
  its lock holds it, and before the fence goes up the task has each lock or will still wait for
  it) and `Backed` (until an install the record names no backup or the one of the running version).
  `ActsOnce`, `CommandsFenced` and `BackupKept` are their consequences for any number of
  requests, releases and disturbances.
* Free-window planner, for all measurements. `Ratings`, `OverrunFirst`, `BatteryFirst`,
  `Allowance`, `ChargeLimit`, from lemmas on each stage: rounding (`SteppedBounds`,
  `FloorBounds`), the share of an energy over a time (`ShareFits`), the alignment to the
  grid target (`AlignedBounds`), the target before the cap (`BaseBounds`) and the cap
  (`CeilingBounds`).

Each preservation proof goes action by action; lemmas about a pure step (`AdvanceCases`,
`MarkCases`, `ReconcileCases` of the battery; the stages of the sun; the edits of a trip) say
once what it does to sessions, lock, job and record. Each module keeps one type invariant; those
of the modules with proofs are proved rather than run.

Only model-checked:

* liveness (the properties ending in `Ends`, `Returns`, `Prevails`, `Reached`, and
  `StopRestoresOrGivesUp`), which involves fairness and ENABLED and is out of the prover's reach;
* `RestartLosesLittle`, `PaidOnce`, `CountsItsWindow` and `CapNeverRefilled`: the meters add up
  energy over the intervals of a sample with folds, and what a fold computes for every input is
  induction over data.

## 5. Divergences and observations

Met while modelling, each read in the code; the first group disagrees with a text of the
repository. None is shown by a run of its own: where the code cannot keep a property, the property
says which case it leaves out.

1. Restarts use up stop attempts: an attempt is stored before its command and an
   export stop inherits the attempts of its start (`export_session.py:413`), against
   `docs/zerohero-export-policy.md:93-95`. Hence "or gives up" in the `restoration` run.
2. Early reconcile: platforms are forwarded before the stores are loaded
   (`__init__.py:246-248`, `active.py:1302-1305`, `switch.py:141-149`); an entity that reconciles
   in between resets unread journals, against
   `docs/maintainability/malformed-session-storage.md:21-23`.
3. External mode: the supervisor restores Self Use over a mode HEO does not own
   (`control_supervisor.py:149-156`, `active.py:960-981`), against lines 19-20 of the same page.
4. Overnight meter: `_window_overlap_hours` starts at the day of the sample
   (`daily_meter.py:226`), so an overnight window counts nothing after midnight, against its
   docstring (`:222`) and `docs/local-modbus-free-charge.md:22`. The meters' windows in the
   `paid` run therefore do not wrap.
5. Stale cap: the paid counter is ready before the other meters are stored; if one of their
   writes raises, `_paid_exported_kwh` (`active.py:472-481`) goes on reading an
   earlier ledger (`coordinator.py:456-458`), against `docs/tariff-meters.md:82-83`.
6. EV checkpoint: a cycle with a current budget (`_outside_uses_current_budget`,
   `ev_active.py:2230`) decides with a fresh `now` (`:2246`), later than the cycle's. A stamp it
   leaves (a hold's `changed_at`, a `pending_since`, a frozen start) lies in the future
   of the same cycle's save, where `validated_for_storage` (`ev_persistence.py:270-272`)
   replaces the whole group by its defaults: reconciliation record, pre-free session, hold,
   stop obligation, start of a full charge. What is checkpointed before the first positive
   command of a solar stage is empty until the next cycle, against
   `docs/ev-charging-policy.md:124-126`, `docs/ev-solar-spill-and-pre-free-policy.md:105` and
   `docs/ev-combined-pre-free.md:93`. `EvController` and `SolarPacing` have it (`job.lossy`,
   `Defaults`). `WritesPaced` leaves out the first batch after a restart that found the defaults,
   `FullLimitBounded` the time of a request whose start was lost that way; without these
   exclusions TLC finds both violated.
7. Intervention: with the direct source a report under intervention carries no price and is
   no observation, and `_prevent_dispatch_replay` (`aemo_monitor.py:1122-1152`) compares only
   priced reports, so an older firm report of a stale index permits export again, against
   `docs/price-triggered-export.md:141-142`. `VetoHolds` leaves exactly this case out.
8. Trip rollback: after a failed release save `self._state = pending` (`trip_charge.py:591`,
   `:563`) overwrites an edit or a cancel made meanwhile, against the comment at `:475-477`: the
   trip is armed again and may charge. `CancelHolds` leaves such a cancel out; without that
   exclusion TLC finds it violated, with a fourth event.
9. Unload: a diagnostic is restored after the controller is gone (`__init__.py:272-283`),
   against the docstring at `manual_test.py:137`.
10. The age of `no_power` may predate power-on (`planner/ev.py:944-975`), against
    `docs/ev-charging-policy.md:29`; an unreadable level rejects a cycle before ownership, so
    an unauthorised charge is not stopped then, against the end of the same page.
11. A carried-over backup is shown as "verified" for a new restart request, against
    `docs/fleet-maintenance.md`.

Other observations:

12. An edit whose save fails while a trip is paused leaves a journal that
    `from_payload` refuses (`planner/trip_charge.py:213-214`); an acknowledged unreadable
    journal forgets the tombstone of an OFF.
13. EV: restoring the baseline sends before it stores its record (`ev_active.py:1358-1421`);
    a stop attempt is not recorded when the service raises (`:1494-1498`); the fingerprint
    of the general limit is latched before its command (`:1617-1619`); the backoff of a stop
    for the battery reserve starts anew (`planner/ev_outside_state.py:273-291`); a repair resets
    the record before it waits for the lock (`:526-533`), so a batch under way is not counted in
    the new episode.
14. Maintenance: after a failed admission save (`maintenance.py:347`) the record in memory
    stays "waiting" with no task until a restart, and a repeat of the request reports it.
15. Free-window current: the least current may lie under the protected baseline (the settling
    branch returns the configured minimum); an overrun is corrected to the grid target without
    the battery's shortfall.
16. Manual session: a damaged journal forgets the newest stamp as well, so the first request
    that reduces is accepted whatever its age (`manual_inverter.py`, `trusted`).
17. A solar-only hold may draw on the battery until import is seen or its interval ends;
    this is what its pacing means.

## 6. Plan

Done: battery, price export, manual control, meters, windows, the EV paths, trip, maintenance,
market; `Obligation` and its three implementations, all proved.

Left to model: before-export top-up and prompt backfill ownership in `SolarPacing`'s cycle
(`planner/ev_before_export.py`, `ev_candidates.py`); the EV branch of the supervisor; the price
span of the paid counter; the hub's polling in `fleet_maintenance.py`.

Proved: section 4; all the safety properties that the runs check except the four meter
properties.

## 7. Not modelled, and why

Forecasts, learning and profiles are estimators over real numbers. Configuration forms,
entities, diagnostics and the trip's impact present state and call the modelled operations.
Tariff rates are prices over real numbers; which rates pay is an input. Telemetry
normalisation is numeric conversion. Network I/O, Modbus transport, HACS and Home Assistant
itself are external and appear only as nondeterministic outcomes. Repository scripts are
release tooling. Rehearsal and hold decisions of the planner issue no command. Daylight-saving
changes and clocks that go back are left out, the slightly older `now` that the supervisor
passes to an EV repair among them.
