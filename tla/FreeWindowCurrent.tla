-------------------------- MODULE FreeWindowCurrent --------------------------
(***************************************************************************)
(* The charging current of the free window and the charge limit, planned    *)
(* from measurements (planner/ev.py).  The car follows the site's averaged  *)
(* import with feedback: the service limit comes first, then the operator's *)
(* priority, then what the house battery still lacks, and the whole is      *)
(* capped by the day's allowance.  Currents are whole units (a tenth of an  *)
(* ampere, so that the deadband is whole), energies units times minutes.    *)
(***************************************************************************)
EXTENDS Integers

AtMost(a, cap) == IF a <= cap THEN a ELSE cap
AtLeast(a, floor) == IF a >= floor THEN a ELSE floor

\* What a decision is taken from: a path without a rating has none.  An average that is
\* missing counts as zero.
\* grid: its samples cover the window; feedback: the car draws and its average is valid.
Evidence ==
    [ceiling : Nat \ {0}, physical : Nat \ {0}, step : Nat \ {0}, baseline : Nat, minimum : Nat,
     requested : Nat, limit : Nat, headroom : Nat, average : Int, grid : BOOLEAN,
     drawn : Nat, feedback : BOOLEAN, battery : BOOLEAN, batteryFull : BOOLEAN,
     claim : Nat, charge : Int, slack : Nat, settled : BOOLEAN, full : BOOLEAN,
     priority : BOOLEAN, soc : Nat, policy : Nat]

\* The projection of the day's import; meter: the import so far is known, known: the rest.
Projections ==
    [known : BOOLEAN, meter : BOOLEAN, allowance : Nat, imported : Nat, margin : Nat,
     need : Nat, batteryGap : Nat, load : Nat, carInLoad : BOOLEAN, drawn : Nat,
     remaining : Nat, limit : Nat]

Deadband == 5      \* half an ampere

\* A current is a multiple of the charger's step, rounded downwards.
Stepped(a, step) == (a \div step) * step

\* The protected baseline and the least current worth charging by, within the path.
Baseline(e) == AtMost(AtLeast(AtLeast(e.baseline, e.physical), e.step), e.ceiling)
Minimum(e)  == AtMost(AtLeast(e.minimum, e.physical), e.ceiling)
Hold(e) == AtMost(AtLeast(AtLeast(AtMost(e.requested, e.ceiling), Baseline(e)), Minimum(e)), e.ceiling)

GridTarget(e) == AtLeast(e.limit - e.headroom, 0)
GridError(e) == GridTarget(e) - e.average
Overrun(e) == e.average > e.limit

\* What the house battery still lacks of its charge; small losses do not count.
Shortfall(e) ==
    LET missing == AtLeast(e.claim - AtLeast(e.charge, 0), 0)
    IN IF missing <= e.slack THEN 0 ELSE missing

\* The car's average moved by what the site has left, in whole steps.
Aligned(e, spare, floor) == AtLeast(AtMost(Stepped(e.drawn + spare, e.step), e.ceiling), floor)

\* plan_free_window_current for a connected car inside the window.
PlanCurrent(e) ==
    IF Overrun(e) THEN IF e.feedback THEN Aligned(e, GridError(e), Baseline(e)) ELSE Baseline(e)
    ELSE IF e.full \/ (e.priority /\ e.soc < e.policy) THEN e.ceiling
    ELSE IF ~e.settled \/ ~e.grid \/ e.limit = 0 THEN Minimum(e)
    ELSE IF ~e.feedback THEN Hold(e)
    ELSE IF ~e.battery \/ e.claim = 0 THEN Minimum(e)
    ELSE IF e.batteryFull THEN e.ceiling
    ELSE IF Shortfall(e) = 0 /\ GridError(e) \in -Deadband .. Deadband THEN Hold(e)
    ELSE Aligned(e, GridError(e) - Shortfall(e), Minimum(e))

\* evaluate_free_window_target: at the policy limit the car keeps its baseline.
BaseTarget(e) == IF e.full \/ e.soc < e.policy THEN PlanCurrent(e) ELSE Baseline(e)

-------------------------------------------------------------------------------
(* The daily allowance.                                                     *)

\* house_load_excluding_ev_kw
HouseLoad(p) == IF p.carInLoad THEN AtLeast(p.load - p.drawn, 0) ELSE p.load
\* estimate_other_free_window_import_kwh
OtherImport(p) == p.batteryGap + HouseLoad(p) * p.remaining
\* What the car may still take.
CarBudget(p) == p.allowance - p.imported - OtherImport(p) - p.margin

\* Not even the service limit sustained to the window's end reaches the allowance.
Unreachable(p) == p.imported + p.limit * p.remaining + p.margin <= p.allowance

\* apply_daily_allowance_ceiling
AllowanceCeiling(base, floor, physical, step, p) ==
    LET kept == AtMost(floor, base)
        cap == AtMost(Stepped(CarBudget(p) \div p.remaining, step), base)
    IN IF ~p.meter THEN kept
       ELSE IF Unreachable(p) \/ p.need <= CarBudget(p) THEN base
       ELSE IF p.remaining = 0 \/ CarBudget(p) <= 0 THEN kept
       ELSE IF cap < physical THEN kept
       ELSE AtLeast(cap, kept)

\* evaluate_allowance_projection: evidence is missing, or the supply is not described.
Projected(p) == p.known /\ p.limit > 0

\* The target of the free window; guard: the allowance guard is enabled.
FreeWindowTarget(e, p, guard) ==
    IF ~guard THEN BaseTarget(e)
    ELSE IF ~Projected(p) THEN Baseline(e)
    ELSE AllowanceCeiling(BaseTarget(e), Baseline(e), e.physical, e.step, p)

-------------------------------------------------------------------------------
(* The charge limit.                                                        *)

NonOverrideLimit == 90

\* Inputs of the limit; protected: a powered baseline needs headroom above the car's level.
LimitEvidence ==
    [connected : BOOLEAN, policy : Nat, current : Nat, soc : Nat, known : BOOLEAN,
     protected : BOOLEAN, headroom : Nat, least : Nat, most : Nat, step : Nat \ {0},
     full : BOOLEAN]

Most(c) == IF c.full THEN c.most ELSE AtMost(c.most, NonOverrideLimit)
Clipped(v, c) == AtLeast(AtMost(v, Most(c)), c.least)
\* Rounded upwards to a whole step.
Guard(c) == -Stepped(-(c.soc + c.headroom), c.step)

\* plan_charge_limit_target
ChargeLimitTarget(c) ==
    IF ~c.connected THEN AtMost(c.current, Most(c))
    ELSE IF ~c.protected \/ ~c.known THEN AtMost(Clipped(c.policy, c), Most(c))
    ELSE AtMost(AtLeast(Clipped(c.policy, c), Clipped(Guard(c), c)), Most(c))

-------------------------------------------------------------------------------
(* What the planner promises.                                               *)

\* The path's rating bounds every target, and a charging car keeps the smaller of its
\* baseline and its least current, so that no correction or cap makes it pause.
WithinRatings(e, p, guard) ==
    FreeWindowTarget(e, p, guard) \in AtMost(Baseline(e), Minimum(e)) .. e.ceiling

\* An import above the service limit lowers the car by the whole excess over the grid
\* target, or to its baseline, before every priority, also that of charge-to-full, and
\* whatever the allowance says.
OverrunCorrected(e, p, guard) ==
    Overrun(e) => FreeWindowTarget(e, p, guard) <= AtLeast(e.drawn + GridError(e), Baseline(e))

\* Without a priority and below the taper, what the house battery lacks is not given to
\* the car: beyond its least current it takes what the grid target leaves after the
\* battery's claim.
BatteryComesFirst(e, p, guard) ==
    LET shared == /\ e.settled /\ e.grid /\ e.feedback /\ e.battery /\ ~e.batteryFull
                  /\ ~e.full /\ ~e.priority /\ ~Overrun(e) /\ e.limit > 0 /\ Shortfall(e) > 0
    IN shared => FreeWindowTarget(e, p, guard)
                   <= AtLeast(AtLeast(e.drawn + GridError(e) - Shortfall(e), Minimum(e)), Baseline(e))

\* A guarded current above the protected baseline keeps the day inside its allowance:
\* what is imported already, the rest of the site, the margin and the car's own energy
\* fit, unless the service itself cannot reach the allowance.
AllowanceKept(e, p) ==
    LET amps == FreeWindowTarget(e, p, TRUE)
    IN amps > Baseline(e) =>
         \/ Unreachable(p)
         \/ p.imported + OtherImport(p) + p.margin + AtMost(p.need, amps * p.remaining) <= p.allowance

\* Only charge-to-full writes a limit above 90 percent, and a protected car is never
\* given a limit at or under its own level while the cap leaves room for headroom.
LimitKept(c) ==
    /\ ~c.full => ChargeLimitTarget(c) <= NonOverrideLimit
    /\ c.connected /\ c.protected /\ c.known
         => ChargeLimitTarget(c) >= AtMost(c.soc + c.headroom, Most(c))
=============================================================================
