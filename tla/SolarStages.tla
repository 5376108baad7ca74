----------------------------- MODULE SolarStages -----------------------------
(***************************************************************************)
(* The arithmetic of the outside-window EV stages that follow the sun and   *)
(* the battery's spare energy (planner/ev_outside_window.py,                *)
(* planner/timed_average.py): measured-solar currents, the hold that paces  *)
(* their changes, the mean of the afternoon soak, and the pre-free plan that *)
(* spends the battery's spare energy before the free window.               *)
(*                                                                         *)
(* Time is a number of ticks of the control interval, current a number of   *)
(* whole amps, energy a number of amp-ticks, so a division rounds down as    *)
(* the code's step does.                                                   *)
(***************************************************************************)
EXTENDS ControlWindows, Sequences, FiniteSetsExt

CONSTANTS
    Minimum,       \* the physical charging minimum
    Ceiling,       \* the charging path's ceiling
    AdjustTicks,   \* ticks between ordinary changes of a measured-solar target
    SoakTicks,     \* the same for the buffered afternoon soak
    AverageTicks,  \* ticks the soak averages over
    GapTicks       \* the longest silence its history survives

ASSUME CurrentsAssumption == Minimum \in Nat \ {0} /\ Ceiling \in Nat /\ Minimum <= Ceiling
ASSUME PacingAssumption == {AdjustTicks, SoakTicks, AverageTicks, GapTicks} \subseteq Nat \ {0}

-------------------------------------------------------------------------------
(* The restart-safe hold of an accepted target.  share: it contains a battery *)
(* allowance.  peak is history: the largest solar request it has stood for.   *)

NoHold == [phase |-> "none", amps |-> 0, since |-> 0, pend |-> 0, pendSince |-> 0,
           share |-> FALSE, peak |-> 0]

\* rate_limit_measured_solar_current.  stamped: the result bears the time t.
RateLimit(h, t, phase, asked, solar, curtail, stable, every) ==
    LET accepted == [NoHold EXCEPT !.phase = phase, !.amps = asked, !.since = t, !.peak = solar]
        seen     == IF h.phase = phase THEN Larger(h.peak, solar) ELSE solar
        steady   == [h EXCEPT !.pend = 0, !.pendSince = 0, !.share = FALSE, !.peak = seen]
        waiting  == IF h.pend = asked THEN h.pendSince ELSE t
        held     == [steady EXCEPT !.pend = asked, !.pendSince = waiting]
        due      == t - h.since >= every /\ (stable => t - waiting >= every)
    IN IF asked < Minimum THEN [hold |-> NoHold, stamped |-> FALSE, held |-> FALSE]
       ELSE IF h.phase # phase \/ (asked < h.amps /\ curtail) \/ (asked # h.amps /\ due)
         THEN [hold |-> accepted, stamped |-> TRUE, held |-> FALSE]
       ELSE IF asked = h.amps THEN [hold |-> steady, stamped |-> FALSE, held |-> FALSE]
       ELSE [hold |-> held, stamped |-> h.pend # asked, held |-> TRUE]

-------------------------------------------------------------------------------
(* The soak's mean: time-weighted steps over a bounded contiguous history.   *)

\* TimedAverageWindow._prune keeps one sample at or before the cutoff.
Pruned(samples, t) ==
    LET old == {i \in DOMAIN samples : samples[i].at <= t - AverageTicks}
    IN IF old = {} THEN samples ELSE SubSeq(samples, Max(old), Len(samples))

\* TimedAverageWindow.observe, after SolarSoakAverage.observe has cut a gap.
Broken(samples, t) ==
    samples = << >> \/ t - samples[Len(samples)].at > GapTicks
Observed(samples, t, amps) ==
    LET kept == IF Broken(samples, t) THEN << >> ELSE samples
        earlier == SelectSeq(kept, LAMBDA s : s.at < t)
    IN Pruned(Append(earlier, [at |-> t, amps |-> amps]), t)

\* TimedAverageWindow.result as amp-ticks and the ticks they cover; the first
\* observation stands for itself.
Mean(samples, t) ==
    LET from(i) == Larger(samples[i].at, t - AverageTicks)
        to(i)   == IF i = Len(samples) THEN t ELSE samples[i + 1].at
        covered == t - from(1)
    IN IF covered = 0 THEN [sum |-> samples[Len(samples)].amps, ticks |-> 1]
       ELSE [sum |-> MapThenSumSet(LAMBDA i : samples[i].amps * (to(i) - from(i)), DOMAIN samples),
             ticks |-> covered]

-------------------------------------------------------------------------------
(* Measured solar current.                                                   *)

None(phase) == [amps |-> 0, phase |-> phase]
Charge(amps, ceiling) ==
    IF amps < Minimum THEN None("below") ELSE [amps |-> Smaller(amps, ceiling), phase |-> "active"]

\* _plan_measured_solar_current: enough: the battery is past the stage's threshold.
MeasuredSolar(surplus, valid, enough, low, boosted, ceiling) ==
    IF ~valid THEN None("unavailable")
    ELSE IF ~enough THEN None("reserve")
    ELSE IF ~low \/ boosted THEN None("ineligible")
    ELSE Charge(surplus, ceiling)

\* plan_solar_spill_current, buffered: the mean rounded up once, which is the least whole
\* current that reaches it, bounded by what the spare energy pays for one control tick.
SoakCeiling(spare, ceiling) == Smaller(ceiling, spare)
SoakSolar(mean, spare, low, ceiling) ==
    LET most  == SoakCeiling(spare, ceiling)
        asked == Min({amps \in 0 .. most : amps = most \/ amps * mean.ticks >= mean.sum})
    IN IF mean.sum = 0 \/ ~low THEN None("ineligible")
       ELSE IF asked < Minimum THEN None("below")
       ELSE [amps |-> asked, phase |-> "active"]

-------------------------------------------------------------------------------
(* The pre-free plan: spare battery energy, spent by the free window.        *)

\* Mutant: the spending horizon rolls on with the clock.
RollingHorizon(h, t, toFree) == Larger(Smaller(toFree, AdjustTicks), 1)

\* pre_free_frontload_horizon_hours: until the next ordinary adjustment of the
\* accepted target, never shorter than one control tick.
SpendingHorizon(h, t, toFree) ==
    LET anchored == h.phase = "morning" /\ h.share /\ t - h.since \in 0 .. AdjustTicks - 1
        spending == AdjustTicks - (IF anchored THEN t - h.since ELSE 0)
    IN Larger(Smaller(toFree, spending), 1)

\* plan_combined_pre_free_current
CombinedCurrent(base, energy, surplus, horizon, ceiling, low) ==
    LET total == Smaller(base + surplus + energy \div horizon, ceiling)
    IN IF energy = 0 \/ ~low \/ total < Minimum THEN base ELSE total

\* plan_pre_free_current
PreFreeCurrent(active, base, energy, toFree, ceiling, low) ==
    IF ~active \/ energy = 0 \/ ~low THEN base
    ELSE Smaller(base + energy \div toFree, ceiling)

\* calculate_pre_free_plan: whether there is a plan, and whether its latest start
\* has come, which is free start - energy / (ceiling - base).
Planned(energy, base, ceiling) == energy > 0 /\ ceiling > base
LatestStart(energy, base, ceiling, toFree) ==
    Planned(energy, base, ceiling) /\ toFree * (ceiling - base) <= energy

\* advance_pre_free_session
Session(active, eligible, started) == eligible /\ (active \/ started)
=============================================================================
