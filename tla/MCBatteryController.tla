------------------------- MODULE MCBatteryController -------------------------
(* Instances of BatteryController for TLC. *)
EXTENDS BatteryController

\* Everything that can separate the stores, the inverter and memory, while the
\* entity states follow the inverter and the stores are loaded before a tick.
SeparatingFaults == {"crash", "save", "service", "gate", "mismatch", "corrupt"}
NoExternalModes == {}
ChargeIntruder == {"SelfUse", "ForceCharge"}

\* Every fault but failing store writes, with entity states that trail.
LaggingFaults == {"crash", "service", "offline", "source", "lag"}

\* Interruptions of a stop.
InterruptingFaults ==
    {"crash", "reload", "offline", "gate", "service", "source", "mismatch"}
=============================================================================
