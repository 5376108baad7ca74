----------------------------- MODULE SolarPacing -----------------------------
(***************************************************************************)
(* The outside-window cycle of the EV controller (ev_active.py) while it    *)
(* follows the sun and spends the battery's spare energy: morning capture,  *)
(* the pre-free session, the two combined, and the afternoon soak.  A cycle *)
(* captures the car, may store, decides, stores and commands; the house,    *)
(* the car and the clock go on at every await, and a crash keeps only what  *)
(* was stored.  Sites without before-export top-up, daily backfill and      *)
(* charge-to-full; EvController has the ownership machinery in full.        *)
(***************************************************************************)
EXTENDS SolarStages, SiteWindows

CONSTANTS
    Sites,        \* the clock times looked at
    Starts,       \* instants a behaviour may start at
    Policies,     \* the configurations looked at
    MaxSurplus,   \* bound: amps of house surplus
    MaxSpare,     \* bound: amp-ticks of spare energy
    SmallRoom,    \* amp-ticks a nearly full car takes
    Ticks,        \* bound: length of a behaviour
    MaxEvents     \* bound: changes of the environment and faults in a behaviour

ASSUME SolarBoundsAssumption ==
    /\ {MaxSurplus, MaxSpare, SmallRoom, Ticks, MaxEvents} \subseteq Nat
    /\ Sites \subseteq Site /\ Starts \subseteq 0 .. Horizon - Ticks
    /\ Policies \subseteq [morning : BOOLEAN, spill : BOOLEAN, preFree : BOOLEAN, base : Nat]

VARIABLES
    policy,  \* stages enabled and the protected baseline
    house,   \* surplus, spare energy, battery level, pre-free ceiling, trouble
    car,     \* plugged in, energy it still takes, charging switch, requested current
    mem,     \* the controller's fields
    disk,    \* the stored part of them
    pc,      \* where the cycle is suspended
    job,     \* what the cycle captured and has decided
    run,     \* history: the stage the car charges by, and whether all went to plan
    left,    \* ticks still to come
    events   \* environment changes and faults so far

vars == <<now, site, policy, house, car, mem, disk, pc, job, run, left, events>>

Ample == 99     \* a car that takes whatever the behaviour gives it

\* battery: 0 at the outside reserve, 1 above it, 2 above the morning reserve and the
\* soak floor, 3 full.  limit: whether the service and inverter headroom carries a
\* charge.  trouble: what the site's measurements say besides the power flows.
Houses == [surplus : 0 .. MaxSurplus, spare : 0 .. MaxSpare, battery : 0 .. 3,
           limit : BOOLEAN, trouble : {"none", "stale", "import", "export"}]

Boosted(t) == BoostedWindowActive(t, site.start, site.finish)
ToFree(t) == NextAt(t, site.freeStart) - t

Draw == IF car.plugged /\ car.on /\ car.room > 0 THEN car.amps ELSE 0
\* What the charge takes from the battery beyond the protected baseline.
Spending == Larger(Draw - policy.base - house.surplus, 0)
View == [plugged |-> car.plugged, on |-> car.on, amps |-> car.amps, draw |-> Draw]
\* EV power as captured, signed grid flow and battery charge as they are now.
Surplus(v) == Larger(v.draw + house.surplus - Draw, 0)
Low == car.room > 0
\* Grid, battery and charging current are one coherent, recent set of samples.
Coherent == house.trouble # "stale"
\* _outside_service_ceiling_a and _outside_inverter_ceiling_a
Headroom == IF house.limit THEN Ceiling ELSE 0
PreFreeCeiling == Larger(Headroom, policy.base)

\* _before_export_energy_budget: what the battery may give the car now, after the house,
\* its reserves and the promised export; nothing while the site imports or exports.
Budget == IF house.trouble = "none" /\ house.battery > 0 THEN house.spare ELSE 0
\* _combined_pre_free_budget: the same pool, while the morning reserve is kept.
CombinedBudget ==
    IF Coherent /\ house.trouble # "import" /\ house.battery >= 2 THEN house.spare ELSE 0

-------------------------------------------------------------------------------
(* What is stored, and what a restart brings back.                          *)

Stored(m) == [hold |-> m.hold, active |-> m.active, stop |-> m.stop, samples |-> m.samples]
\* validated_for_storage: a record that bears an instant later than the save's own is
\* replaced by the defaults; only the averages are kept.
Defaults(m) == [hold |-> NoHold, active |-> FALSE, stop |-> FALSE, samples |-> m.samples]

Restored(d, t) ==
    LET soaking == d.hold.phase = "spill" /\ ~Broken(d.samples, t)
    IN [hold |-> IF d.hold.phase = "spill" /\ ~soaking THEN NoHold ELSE d.hold,
        active |-> d.active, stop |-> d.stop, soak |-> soaking,
        samples |-> IF Broken(d.samples, t) THEN << >> ELSE d.samples]

NoMemory == [hold |-> NoHold, active |-> FALSE, stop |-> FALSE, soak |-> FALSE,
             samples |-> << >>]

-------------------------------------------------------------------------------
(* The stages.  Each takes the memory, the instant and the car it decides by. *)

ResetSoak(m) ==
    [m EXCEPT !.soak = FALSE, !.samples = << >>,
              !.hold = IF @.phase = "spill" THEN NoHold ELSE @]

\* _solar_soak_authority with the live budget behind it.
SoakAuthority(t) ==
    /\ policy.spill /\ ~InFree(t) /\ ~InPreFree(t) /\ ~Boosted(t)
    /\ house.battery >= 2 /\ Budget > 0

\* _solar_spill_decision for the afternoon: the buffered soak.
Soak(m, t, v) ==
    LET cut == [m EXCEPT !.hold = IF Broken(m.samples, t) /\ @.phase = "spill" THEN NoHold ELSE @,
                         !.samples = Observed(m.samples, t, Surplus(v)), !.soak = TRUE]
        solar == SoakSolar(Mean(cut.samples, t), Budget, Low, PreFreeCeiling)
    IN IF ~SoakAuthority(t) THEN [mem |-> ResetSoak(m), solar |-> None("unavailable")]
       ELSE [mem |-> IF solar.phase = "active" THEN cut ELSE ResetSoak(cut), solar |-> solar]

\* The spill stage: the soak after the free window, the old full-battery rule before it.
Spill(m, t, v) ==
    IF ~policy.spill \/ (InPreFree(t) /\ policy.morning) THEN [mem |-> m, solar |-> None("disabled")]
    ELSE IF ~InPreFree(t) THEN Soak(m, t, v)
    ELSE [mem |-> IF m.samples # << >> THEN ResetSoak(m) ELSE m,
          solar |-> MeasuredSolar(Surplus(v), Coherent, house.battery = 3, Low,
                                  Boosted(t), Ceiling)]

Morning(t, v) ==
    IF policy.morning /\ InPreFree(t)
      THEN MeasuredSolar(Surplus(v), Coherent, house.battery >= 2, Low, FALSE, Ceiling)
      ELSE None("disabled")

\* Mutant: a held total is not lowered when less energy is left.
CombinedHeld(hold, t, total, energy, surplus) ==
    LET prev == IF hold.share THEN hold ELSE NoHold
        limited == RateLimit(prev, t, "morning", total, surplus, FALSE, FALSE, AdjustTicks)
    IN [limited EXCEPT !.hold.amps = Smaller(@, PreFreeCeiling), !.hold.share = TRUE]
\* _combined_pre_free_adjustment: an accepted target is held for its interval; a
\* reduction must be affordable over the new interval it starts.
Combined(hold, t, total, energy, surplus) ==
    LET prev == IF hold.share THEN hold ELSE NoHold
        reduced == prev.phase # "none" /\ total < prev.amps
        whole == CombinedCurrent(policy.base, energy, surplus,
                                 SpendingHorizon(NoHold, t, ToFree(t)), PreFreeCeiling, Low)
        asked == IF reduced THEN Smaller(total, whole) ELSE total
        limited == RateLimit(prev, t, "morning", asked, surplus, reduced, FALSE, AdjustTicks)
    IN [limited EXCEPT !.hold.amps = Smaller(@, PreFreeCeiling), !.hold.share = TRUE]

\* With morning capture the early spending is an extension of it, under its budget.
Joint(t) == policy.morning /\ InPreFree(t)
\* The energy a session may plan with, and whether the morning asks for it already.
PreFreeEnergy(t) ==
    IF InPreFree(t) THEN Smaller(IF Joint(t) THEN CombinedBudget ELSE house.spare, car.room) ELSE 0
Requested(m, t, v, morning) ==
    Joint(t) /\ \/ morning.phase \in {"active", "below"} /\ Surplus(v) > 0
                \/ m.active /\ m.hold.share

\* The pre-free stage: the session, the fixed current it spends energy by, and the
\* combined current that spends it sooner together with the morning's sun.
PreFree(m, t, v, morning) ==
    LET base == policy.base
        energy == PreFreeEnergy(t)
        surplus == Surplus(v)
        early == Requested(m, t, v, morning)
        total == CombinedCurrent(base, energy, surplus, SpendingHorizon(m.hold, t, ToFree(t)),
                                 PreFreeCeiling, Low)
        together == early /\ total > base /\ total >= Minimum /\ house.trouble # "export"
        eligible == /\ InPreFree(t) /\ house.trouble # "export" /\ energy > 0 /\ Low
                    /\ IF early THEN together ELSE Planned(energy, base, PreFreeCeiling)
        active == Session(m.active, eligible,
                          together \/ LatestStart(energy, base, PreFreeCeiling, ToFree(t)))
        adjusted == Combined(m.hold, t, total, energy, surplus)
        amps == adjusted.hold.amps
        plain == [m EXCEPT !.active = active]
        withdrawn == [m EXCEPT !.active = FALSE, !.hold = NoHold]
        fixed == PreFreeCurrent(active, base, energy, ToFree(t), PreFreeCeiling, Low)
    IN IF ~policy.preFree
         THEN [mem |-> [m EXCEPT !.active = FALSE], amps |-> base, combined |-> FALSE, stamped |-> FALSE]
       ELSE IF ~(together /\ active)
         THEN [mem |-> plain, amps |-> fixed, combined |-> FALSE, stamped |-> FALSE]
       ELSE IF amps > base /\ amps >= Minimum
         THEN [mem |-> [plain EXCEPT !.hold = adjusted.hold], amps |-> amps, combined |-> TRUE,
               stamped |-> adjusted.stamped \/ ~m.active]
       ELSE [mem |-> withdrawn, amps |-> base, combined |-> FALSE, stamped |-> FALSE]

\* Mutant: a solar-only successor inherits the total that contained a battery allowance.
InheritAllowance(hold) == hold
DropAllowance(hold) == IF hold.share THEN NoHold ELSE hold

\* Mutant: an accepted soak target outlives the energy that paid for it.
CurtailOnImport(m) == house.trouble = "import"
\* _apply_measured_solar_adjustment: what lowers a held solar target at once.
Curtail(m) ==
    \/ house.trouble = "import"
    \/ m.soak /\ m.hold.amps > 0 /\ SoakCeiling(Budget, PreFreeCeiling) < m.hold.amps

Measured(m, t, morning, spill) ==
    LET phase == IF morning.phase = "active" THEN "morning" ELSE "spill"
        solar == IF phase = "morning" THEN morning ELSE spill
    IN IF solar.phase # "active" THEN [hold |-> NoHold, stamped |-> FALSE]
       ELSE RateLimit(m.hold, t, phase, solar.amps, solar.amps, Curtail(m), ~m.soak,
                      IF m.soak THEN SoakTicks ELSE AdjustTicks)

\* The hold after the pre-free stage: a session owns the handover, a solar stage is paced,
\* and with both policies the morning target stays under the pre-free ceiling.
Paced(p, t, morning, spill) ==
    LET m == [p.mem EXCEPT !.hold = DropAllowance(@)]
        solar == Measured(m, t, morning, spill)
        bounded == Smaller(solar.hold.amps, PreFreeCeiling)
        cut == policy.preFree /\ solar.hold.phase = "morning" /\ bounded < solar.hold.amps
    IN IF p.combined THEN [mem |-> p.mem, stamped |-> p.stamped]
       ELSE IF m.active THEN [mem |-> [m EXCEPT !.hold = NoHold], stamped |-> p.stamped]
       ELSE [mem |-> [m EXCEPT !.hold = IF ~cut THEN solar.hold
                                        ELSE IF bounded < Minimum THEN NoHold
                                        ELSE [solar.hold EXCEPT !.amps = bounded]],
             stamped |-> solar.stamped]

\* select_outside_stage_candidate; a stage other than the paced ones drops their state.
Select(p, m) ==
    LET stage == IF p.combined THEN "combined" ELSE IF m.active THEN "pre_free"
                 ELSE IF m.hold.phase # "none" THEN m.hold.phase ELSE "base"
        amps == IF m.active THEN p.amps ELSE IF stage = "base" THEN policy.base ELSE m.hold.amps
        kept == IF stage = "spill" THEN m ELSE ResetSoak(m)
    IN [mem |-> kept, stage |-> IF kept.soak THEN "soak" ELSE stage, amps |-> Smaller(amps, Ceiling)]

-------------------------------------------------------------------------------
(* The decision of a cycle.                                                  *)

NoTarget == -1
Aim(m, target, stage, stamped) == [mem |-> m, target |-> target, stage |-> stage, stamped |-> stamped]
\* Without a target or a baseline a charge that is on is stopped, and a stop that was
\* asked for ends when the car is seen off.
Halt(m, v) == Aim([m EXCEPT !.stop = v.on], IF v.on THEN 0 ELSE NoTarget, "base", FALSE)

\* _reject_outside_candidate
Rejected(m) == [ResetSoak(m) EXCEPT !.hold = NoHold]

\* _observed_outside_target
Outside(m, t, v) ==
    LET ended == [Rejected(m) EXCEPT !.active = FALSE]
        spill == Spill([m EXCEPT !.soak = FALSE], t, v)
        morning == Morning(t, v)
        free == PreFree(spill.mem, t, v, morning)
        paced == Paced(free, t, morning, spill.solar)
        won == Select(free, paced.mem)
        reserve == house.battery = 0
    IN IF policy.base = 0 /\ (reserve \/ won.stage = "base")
         THEN Halt(IF reserve THEN ended ELSE won.mem, v)
       ELSE IF reserve THEN Aim(ended, policy.base, "base", FALSE)
       ELSE Aim(won.mem, won.amps, won.stage, paced.stamped)

\* _outside_uses_current_budget
UsesCurrentBudget(m, t) == m.soak \/ (policy.spill /\ ~InPreFree(t))

\* The part of _async_reconcile_cycle before the commands, with _calculate_outside_target.
\* Inside the free window EvController's free-window stage has the car.
Outcome ==
    LET t == job.at
        rejected == Rejected(mem)
    IN IF ~job.view.plugged
         THEN Aim(IF mem.stop /\ car.on THEN ResetSoak(mem) ELSE NoMemory, NoTarget, "base", FALSE)
       ELSE IF InFree(t) THEN Aim(NoMemory, NoTarget, "base", FALSE)
       ELSE IF ~UsesCurrentBudget(mem, t) THEN Outside(mem, t, job.view)
       ELSE IF ~InFree(now) THEN Outside(mem, now, View)
       ELSE IF mem.stop THEN Halt([rejected EXCEPT !.active = FALSE], job.view)
       ELSE Aim(rejected, NoTarget, "base", FALSE)

\* Whether the car that the target is compared with differs from it.
Due(target, v) == target = 0 \/ ~v.on \/ v.amps # target

-------------------------------------------------------------------------------
(* One cycle a tick.                                                         *)

NoJob == [at |-> -1, view |-> [plugged |-> FALSE, on |-> FALSE, amps |-> 0, draw |-> 0],
          target |-> NoTarget, stage |-> "base", lossy |-> FALSE, due |-> FALSE, clean |-> FALSE]
NoRun == [stage |-> "none", calm |-> FALSE]

Spend == events < MaxEvents /\ events' = events + 1
End == pc' = "idle" /\ job' = [NoJob EXCEPT !.at = job.at]
Disturbed == run' = NoRun /\ job' = [job EXCEPT !.clean = FALSE]

\* The capture and the minute's save; a save that raises ends the cycle.
Look ==
    /\ pc = "idle" /\ job.at # now
    /\ \/ /\ pc' = "decide" /\ job' = [NoJob EXCEPT !.at = now, !.view = View, !.clean = TRUE]
          /\ disk' \in {disk, Stored(mem)} /\ UNCHANGED <<run, events>>
       \/ /\ Spend /\ pc' = "idle" /\ job' = [NoJob EXCEPT !.at = now]
          /\ run' = NoRun /\ UNCHANGED disk
    /\ UNCHANGED <<now, site, policy, house, car, mem, left>>

Decide ==
    /\ pc = "decide"
    /\ \E o \in {Outcome} :
         LET fresh == UsesCurrentBudget(mem, job.at)
             accepted == o.mem.hold.share /\ (~mem.hold.share \/ o.mem.hold.since # mem.hold.since)
         IN /\ mem' = o.mem
            /\ run' = [run EXCEPT !.calm = IF accepted THEN job.clean /\ car.room = Ample ELSE @]
            /\ IF o.target = NoTarget THEN End
               ELSE /\ pc' = "store"
                    /\ job' = [job EXCEPT !.target = o.target, !.stage = o.stage,
                                          !.lossy = fresh /\ o.stamped,
                                          !.due = Due(o.target, IF fresh THEN View ELSE job.view)]
    /\ UNCHANGED <<now, site, policy, house, car, disk, left, events>>

\* The record of a command is stored before it is sent; a target the car already has
\* is stored when its record changed.
Store ==
    /\ pc = "store"
    /\ \/ /\ disk' = IF job.lossy THEN Defaults(mem) ELSE Stored(mem)
          /\ UNCHANGED events /\ IF job.due THEN pc' = "act" /\ UNCHANGED <<job, run>>
                                 ELSE End /\ run' = [run EXCEPT !.stage = IF job.clean THEN job.stage ELSE "none"]
       \/ /\ ~job.due /\ End /\ UNCHANGED <<disk, events>>
          /\ run' = [run EXCEPT !.stage = IF job.clean THEN job.stage ELSE "none"]
       \/ Spend /\ End /\ run' = NoRun /\ UNCHANGED disk
    /\ UNCHANGED <<now, site, policy, house, car, mem, left>>

\* Mutant: the soak's command is sent on the authority its decision had.
SoakWriteOnDecision == TRUE
\* _solar_soak_write_authorized: a soak command needs live authority for its target.
SoakWriteAuthorized ==
    /\ SoakAuthority(now) /\ car.plugged /\ Low
    /\ job.target <= PreFreeCeiling /\ job.target <= Budget

Act ==
    /\ pc = "act" /\ End
    /\ \/ /\ mem.soak => SoakWriteAuthorized
          /\ car' = IF ~car.plugged THEN car
                    ELSE IF job.target = 0 THEN [car EXCEPT !.on = FALSE]
                    ELSE [car EXCEPT !.on = TRUE, !.amps = job.target]
          /\ run' = [run EXCEPT !.stage = IF job.clean \/ mem.soak THEN job.stage ELSE "none"]
          /\ UNCHANGED events
       \/ mem.soak /\ ~SoakWriteAuthorized /\ run' = NoRun /\ UNCHANGED <<car, events>>
       \/ Spend /\ run' = NoRun /\ UNCHANGED car
    /\ UNCHANGED <<now, site, policy, house, mem, disk, left>>

-------------------------------------------------------------------------------
(* The rest of the world.                                                    *)

\* A tick passes after its cycle; a skipped cycle or a slow save is an event.
Pass ==
    /\ left > 0 /\ left' = left - 1 /\ now' = now + 1
    /\ IF pc = "idle" /\ job.at = now THEN UNCHANGED <<events, job>>
       ELSE Spend /\ job' = [job EXCEPT !.clean = FALSE]
    /\ house' = [house EXCEPT !.spare = Larger(@ - Spending, 0)]
    /\ car' = [car EXCEPT !.room = IF @ = Ample THEN @ ELSE Larger(@ - Draw, 0)]
    /\ run' = [stage |-> "none", calm |-> run.calm /\ pc = "idle"]
    /\ UNCHANGED <<site, policy, mem, disk, pc>>

HouseChange ==
    /\ Spend /\ Disturbed
    /\ \/ \E amps \in 0 .. MaxSurplus : house' = [house EXCEPT !.surplus = amps]
       \/ \E energy \in 0 .. MaxSpare : house' = [house EXCEPT !.spare = energy]
       \/ \E level \in 0 .. 3 : house' = [house EXCEPT !.battery = level]
       \/ \E trouble \in {"none", "stale", "import", "export"} :
              house' = [house EXCEPT !.trouble = trouble]
       \/ house' = [house EXCEPT !.limit = ~@]
    /\ UNCHANGED <<now, site, policy, car, mem, disk, pc, left>>

\* A car charges as it is plugged in, or waits; its driver uses the switch and the dial.
CarChange ==
    /\ Spend /\ Disturbed
    /\ \/ car.plugged /\ car' = [car EXCEPT !.plugged = FALSE, !.on = FALSE]
       \/ /\ ~car.plugged
          /\ \E on \in BOOLEAN, room \in {SmallRoom, Ample} :
                 car' = [car EXCEPT !.plugged = TRUE, !.on = on, !.room = room]
       \/ car.plugged /\ car' = [car EXCEPT !.on = ~@]
       \/ car.plugged /\ \E amps \in Minimum .. Ceiling : car' = [car EXCEPT !.amps = amps]
    /\ UNCHANGED <<now, site, policy, house, mem, disk, pc, left>>

\* A process that dies comes back with what was stored; that goes to plan when it was
\* stored in full and no command that lowers the car is lost.
Crash ==
    /\ Spend /\ mem' = Restored(disk, now)
    /\ pc' = "idle" /\ job' = NoJob
    /\ run' = [stage |-> "none", calm |-> /\ run.calm /\ disk.hold = mem.hold
                                         /\ disk.active = mem.active /\ Draw <= mem.hold.amps]
    /\ UNCHANGED <<now, site, policy, house, car, disk, left>>

\* The bound of a behaviour.
Rest == left = 0 /\ pc = "idle" /\ job.at = now /\ UNCHANGED vars

Init ==
    /\ now \in Starts /\ site \in Sites /\ left = Ticks /\ policy \in Policies
    /\ house \in {h \in Houses : h.battery >= 2 /\ h.limit /\ h.trouble = "none"}
    /\ car = [plugged |-> TRUE, room |-> Ample, on |-> FALSE, amps |-> Minimum]
    /\ mem = NoMemory /\ disk = Stored(NoMemory)
    /\ pc = "idle" /\ job = NoJob /\ run = NoRun /\ events = 0

Next == Look \/ Decide \/ Store \/ Act \/ Pass \/ HouseChange \/ CarChange \/ Crash \/ Rest
Spec == Init /\ [][Next]_vars

-------------------------------------------------------------------------------
(* Properties.                                                               *)

\* A solar-only target was measured: no hold without a battery allowance stands above
\* the largest solar request it was accepted or renewed for, so an allowance that has
\* gone is never inherited by the solar stage that follows it.
SolarIsMeasured ==
    mem.hold.phase # "none" /\ ~mem.hold.share => mem.hold.amps <= mem.hold.peak

\* The battery energy a tick of a battery-backed stage spends was spare when the tick
\* began: a held combined or soak target, or a session's current, is lowered as soon as
\* what pays for it shrinks, whenever the cycle ran on time and its command landed.
SpendsOnlySpare ==
    [][Pass /\ run.stage \in {"combined", "pre_free", "soak"} => Spending <= house.spare]_vars

\* Energy spent as planned keeps an accepted combined target up for its whole interval:
\* each cycle replans over what is left of the interval, so the target does not decay as
\* the energy drains, also across skipped cycles and a restart that kept the record, as
\* long as the free window it was accepted for has not begun.
SteadyBetweenAdjustments ==
    [][Decide /\ run.calm /\ mem.hold.share /\ InPreFree(job.at)
         /\ job.at < Smaller(mem.hold.since + AdjustTicks, NextAt(mem.hold.since, site.freeStart))
           => mem'.hold.share /\ mem'.hold.amps >= mem.hold.amps]_vars
=============================================================================
