---------------------------- MODULE FoxessPlanner ----------------------------
(***************************************************************************)
(* The pure planner of the FoxESS actuator (planner/foxess.py): which      *)
(* ordered commands bring the observed inverter to a decision, and when    *)
(* feedback confirms it.  Powers are natural numbers of kilowatt steps, so *)
(* the 0.01 kW tolerance of the code is equality.  The waits that the code *)
(* attaches to commands are suspension points of the caller and are        *)
(* modelled there, not here.                                               *)
(***************************************************************************)
EXTENDS Integers, Sequences

\* The work modes the integration tells apart.
Modes == {"SelfUse", "ForceCharge", "ForceDischarge", "BackUp", "FeedIn"}
ForcedModes == {"ForceCharge", "ForceDischarge"}

Observations(kws) == [mode : Modes, chg : kws, dis : kws]
SelfUseObservation == [mode |-> "SelfUse", chg |-> 0, dis |-> 0]

\* The decisions of the controller, with their power.
ForceCharge(p) == [action |-> "force_charge", kw |-> p]
ForceDischarge(p) == [action |-> "force_discharge", kw |-> p]
RestoreSelfUse == [action |-> "restore_self_use", kw |-> 0]

\* One command: a mode selection carries no power, a power write no mode.
Commands(kws) ==
    [act : {"select_mode"}, mode : {"SelfUse"} \cup ForcedModes, kw : {0}]
        \cup [act : {"set_charge_power", "set_discharge_power"},
              mode : {"none"}, kw : kws]
SelectMode(m) == [act |-> "select_mode", mode |-> m, kw |-> 0]
SetCharge(p) == [act |-> "set_charge_power", mode |-> "none", kw |-> p]
SetDischarge(p) == [act |-> "set_discharge_power", mode |-> "none", kw |-> p]

Lesser(a, b) == IF a <= b THEN a ELSE b
Unless(done, command) == IF done THEN <<>> ELSE <<command>>

\* Fault for the runs: the mode is selected before the targets are set.
PlanForceChargeModeFirst(o, p) ==
    Unless(o.mode = "ForceCharge", SelectMode("ForceCharge"))
        \o Unless(o.dis = 0, SetDischarge(0)) \o Unless(o.chg = p, SetCharge(p))

\* Forcing clears the opposite target, sets its own, and selects the mode last.
PlanForceCharge(o, p) ==
    Unless(o.dis = 0, SetDischarge(0)) \o Unless(o.chg = p, SetCharge(p))
        \o Unless(o.mode = "ForceCharge", SelectMode("ForceCharge"))
PlanForceDischarge(o, p) ==
    Unless(o.chg = 0, SetCharge(0)) \o Unless(o.dis = p, SetDischarge(p))
        \o Unless(o.mode = "ForceDischarge", SelectMode("ForceDischarge"))

\* Restoring leaves the forced mode first, then clears both targets.
PlanRestoreMode(o) ==
    Unless(o.mode = "SelfUse", SelectMode("SelfUse"))
        \o Unless(o.chg = 0, SetCharge(0)) \o Unless(o.dis = 0, SetDischarge(0))

PlanFoxessCommands(d, o, limit) ==
    CASE d.action = "force_charge"     -> PlanForceCharge(o, Lesser(d.kw, limit))
      [] d.action = "force_discharge"  -> PlanForceDischarge(o, Lesser(d.kw, limit))
      [] d.action = "restore_self_use" -> PlanRestoreMode(o)

ResponseMatches(d, o) ==
    \/ d.action = "force_charge" /\ o = [mode |-> "ForceCharge", chg |-> d.kw, dis |-> 0]
    \/ d.action = "force_discharge"
         /\ o = [mode |-> "ForceDischarge", chg |-> 0, dis |-> d.kw]
    \/ d.action = "restore_self_use" /\ o = SelfUseObservation

\* What an accepted command does to the inverter (the Home Assistant select and
\* number services of the mapped entities).
Apply(c, inverter) ==
    CASE c.act = "select_mode"         -> [inverter EXCEPT !.mode = c.mode]
      [] c.act = "set_charge_power"    -> [inverter EXCEPT !.chg = c.kw]
      [] c.act = "set_discharge_power" -> [inverter EXCEPT !.dis = c.kw]

IsForce(c) == c.act = "select_mode" /\ c.mode \in ForcedModes
IsPositive(c) == IsForce(c) \/ c.kw > 0
=============================================================================
