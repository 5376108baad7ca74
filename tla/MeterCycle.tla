----------------------------- MODULE MeterCycle -----------------------------
(***************************************************************************)
(* One coordinator update advances every accounting meter in a fixed order *)
(* from one grid reading and awaits the store of each meter whose total    *)
(* has moved far enough (planner/meter_cycle.py, coordinator.py).  A store *)
(* write that raises ends the update before the later meters; Home         *)
(* Assistant may stop at any write, and the meters restart from their      *)
(* stores.                                                                 *)
(***************************************************************************)
EXTENDS DailyMeters, Sequences, SequencesExt

CONSTANTS
    MaxKw,      \* largest grid flow in steps, either way
    Coarse,     \* checkpoint threshold of 0.05 kWh
    Fine,       \* checkpoint threshold of 0.01 kWh
    Tracked,    \* the meters followed
    Windows,    \* daily windows a site may configure
    Horizon,    \* ticks the clock runs for
    Faults      \* of FaultKinds

FaultKinds == {
    "crash",        \* Home Assistant stops at any suspension point
    "save",         \* the store write of a meter raises
    "save_paid",    \* the store write of the paid-export meter raises
    "corrupt" }     \* the paid-export store does not decode at the next start
Order == <<"daily_import", "daily_export", "standard_rate_export",
           "free_window_import", "peak_import", "zerohero_import", "zerohero_export">>
Names == Range(Order)

ASSUME CycleAssumption ==
    /\ MaxKw \in Nat /\ Coarse \in Nat \ {0} /\ Fine \in Nat \ {0} /\ Horizon \in Nat
    /\ Tracked \subseteq Names /\ Windows \subseteq [start : Clock, end : Clock]
    /\ Faults \subseteq FaultKinds

KindOf(n) ==
    CASE n \in {"daily_import", "daily_export"} -> "daily"
      [] n = "zerohero_import"                  -> "hourly"
      [] OTHER                                  -> "window"
IsExport(n) == n \in {"daily_export", "standard_rate_export", "zerohero_export"}
StepOf(n) ==
    IF n \in {"standard_rate_export", "zerohero_import", "zerohero_export"} THEN Fine ELSE Coarse
Cycle == SelectSeq(Order, LAMBDA n : n \in Tracked)

\* Grid readings: imports are positive, exports negative.
Missing == MaxKw + 1
Readings == -MaxKw .. MaxKw \cup {Missing}
FlowOf(n, grid) == Larger(0, IF IsExport(n) THEN -grid ELSE grid)

VARIABLES
    now,        \* local time
    window,     \* the window of every windowed meter
    life,       \* "down", "first" until the first update succeeds, "up"
    meters,     \* the accumulators
    saved,      \* the totals last saved, Never before the first save
    files,      \* the stores
    update,     \* whether one runs, its reading, the meters still to advance, and
                \* whether the first of them waits for its store
    failed      \* history: meters whose last write failed

vars == <<now, window, life, meters, saved, files, update, failed>>

Idle == [running |-> FALSE, grid |-> Missing, todo |-> <<>>, saving |-> FALSE]
Lifeless(n) == Fresh(KindOf(n), Never)
Init ==
    /\ now = 0 /\ window \in Windows /\ life = "down"
    /\ meters = [n \in Tracked |-> Lifeless(n)] /\ files = meters
    /\ saved = [n \in Tracked |-> Never]
    /\ update = Idle /\ failed = {}

-----------------------------------------------------------------------------
\* async_load_daily_import: nothing counts as saved until a meter is saved again.
\* Home Assistant may have been down for any time.
Load ==
    /\ life = "down" /\ life' = "first"
    /\ now' \in now .. Horizon
    /\ meters' = [n \in Tracked |-> Restore(KindOf(n), files[n], now')]
    /\ UNCHANGED <<window, saved, files, update, failed>>

\* Every update has an instant of its own; the time between two is not bounded.
StartUpdate ==
    /\ life # "down" /\ update = Idle
    /\ now' \in now + 1 .. Horizon
    /\ \E grid \in Readings :
          update' = [running |-> TRUE, grid |-> grid, todo |-> Cycle, saving |-> FALSE]
    /\ UNCHANGED <<window, life, meters, saved, files, failed>>

Advanced(n) == Observe(KindOf(n), window, meters[n], FlowOf(n, update.grid), now)

\* Fault for the runs: the threshold is measured from the last sample.
MustSaveJump(n) ==
    \/ Total(Advanced(n)) - Total(meters[n]) >= StepOf(n)
    \/ FlowEnded(KindOf(n), meters[n], FlowOf(n, update.grid), now)

MustSave(n) ==
    LET total == Total(Advanced(n)) IN
    \/ saved[n] = Never \/ total < saved[n] \/ total - saved[n] >= StepOf(n)
    \/ FlowEnded(KindOf(n), meters[n], FlowOf(n, update.grid), now)

AdvanceMeter ==
    /\ update.todo # <<>> /\ ~update.saving /\ update.grid # Missing
    /\ LET n == Head(update.todo) IN
       /\ meters' = [meters EXCEPT ![n] = Advanced(n)]
       /\ update' = IF MustSave(n) THEN [update EXCEPT !.saving = TRUE]
                                   ELSE [update EXCEPT !.todo = Tail(@)]
    /\ UNCHANGED <<now, window, life, saved, files, failed>>

\* Without a reading no meter moves.
SkipMeters ==
    /\ update.todo # <<>> /\ update.grid = Missing
    /\ update' = [update EXCEPT !.todo = <<>>]
    /\ UNCHANGED <<now, window, life, meters, saved, files, failed>>

SaveMeter ==
    /\ update.saving
    /\ LET n == Head(update.todo) IN
       /\ files' = [files EXCEPT ![n] = meters[n]]
       /\ saved' = [saved EXCEPT ![n] = Total(meters[n])]
       /\ failed' = failed \ {n}
    /\ update' = [update EXCEPT !.todo = Tail(@), !.saving = FALSE]
    /\ UNCHANGED <<now, window, life, meters>>

FinishUpdate ==
    /\ update.running /\ update.todo = <<>>
    /\ update' = Idle /\ life' = "up"
    /\ UNCHANGED <<now, window, meters, saved, files, failed>>

ForgetMemory ==
    /\ life' = "down" /\ update' = Idle /\ failed' = {}
    /\ meters' = [n \in Tracked |-> Lifeless(n)]
    /\ saved' = [n \in Tracked |-> Never]

\* The exception ends the update; the first one ends the setup with it.
SaveFails ==
    /\ "save" \in Faults /\ update.saving
    /\ IF life = "first" THEN ForgetMemory
       ELSE /\ update' = Idle /\ failed' = failed \cup {Head(update.todo)}
            /\ UNCHANGED <<life, meters, saved>>
    /\ UNCHANGED <<now, window, files>>

Crash ==
    /\ "crash" \in Faults /\ life # "down" /\ ForgetMemory
    /\ UNCHANGED <<now, window, files>>

\* The clock stops at the bound of the run.
Rest == now = Horizon /\ update = Idle /\ UNCHANGED vars

Next == \/ Load \/ StartUpdate \/ AdvanceMeter \/ SkipMeters \/ SaveMeter \/ FinishUpdate
        \/ SaveFails \/ Crash \/ Rest
Spec == Init /\ [][Next]_vars
-----------------------------------------------------------------------------
\* The ticks of an interval that a meter is for, one by one.
Belongs(n, t, bucket) ==
    CASE KindOf(n) = "daily"  -> TRUE
      [] KindOf(n) = "window" -> BoostedWindowActive(t, window.start, window.end)
      [] KindOf(n) = "hourly" -> /\ BoostedWindowActive(t, window.start, window.end)
                                 /\ (t % Day) \div Hour = bucket
Belonging(n, a, b, bucket) ==
    Cardinality({t \in a .. b - 1 : Belongs(n, t, bucket)})

\* A sample adds to each bucket the mean power times exactly the time that was in the
\* meter's window, and a gap in the samples no more than Gap.
CountsItsWindow ==
    [][\A n \in Tracked :
         meters'[n].date = meters[n].date /\ meters[n].at # Never /\ life' = life =>
            \A b \in Buckets(KindOf(n)) :
                meters'[n].energy[b] - meters[n].energy[b] =
                    (meters[n].kw + meters'[n].kw)
                      * Belonging(n, Larger(meters[n].at, meters'[n].at - Gap),
                                  meters'[n].at, b)]_vars

Quiet == life # "down" /\ update = Idle
Restored(n) == Restore(KindOf(n), files[n], now)

\* Between updates a restart would lose less than the checkpoint threshold of any
\* meter whose last write did not fail, and would not find more than was measured.
RestartLosesLittle ==
    Quiet => \A n \in Tracked \ failed : meters[n].date = Date(now) =>
        Total(meters[n]) - Total(Restored(n)) \in 0 .. StepOf(n) - 1

=============================================================================
