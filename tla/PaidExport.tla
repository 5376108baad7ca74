----------------------------- MODULE PaidExport -----------------------------
(***************************************************************************)
(* The paid-export cap: the meter that counts measured export once across  *)
(* the tariffs that pay for it (planner/paid_export.py), its checkpoint    *)
(* before the other meters move (coordinator.py), and the value the export *)
(* controller grants its remaining allowance from (active.py).  Energy     *)
(* that only a price interval qualifies is not in this module.             *)
(***************************************************************************)
EXTENDS MeterCycle

CONSTANTS
    Tariffs,    \* tariffs a site may have: the standard window and which rates pay
    Allowance,  \* bonus energy a day pays for
    Legacy      \* export totals of the first day an upgrade may find
Tariff == [window : [start : Clock, end : Clock], standard : BOOLEAN, offpeak : BOOLEAN,
           bonus : BOOLEAN]
ASSUME TariffAssumption ==
    /\ Tariffs \subseteq Tariff /\ Allowance \in Nat /\ Legacy \subseteq Nat
    /\ {"daily_export", "zerohero_export"} \subseteq Tracked

VARIABLES
    tariff,     \* the configured rates
    paid,       \* the paid-export meter
    paidFile,   \* its store
    paidSaved,  \* the total last saved, Never while a checkpoint is owed
    step,       \* the paid meter's turn: "none", "advance", or the store write that
                \* is awaited in "setup" or in an "update"
    ready,      \* _paid_export_storage_ready
    ledger,     \* paid_export_kwh of the last ledger, Never for None
    granted,    \* history: the day of the last ledger and the most it has shown
    calm        \* history: no fault, no missing reading and no legacy seed so far

paidVars == <<tariff, paid, paidFile, paidSaved, step, ready, ledger, granted, calm>>
allVars == <<vars, paidVars>>

NewDay(date) ==
    [date |-> date, energy |-> 0, at |-> Never, kw |-> 0, valid |-> TRUE, blocked |-> FALSE]
NoMeter == NewDay(Never)

PaidInit ==
    /\ Init /\ tariff \in Tariffs
    /\ paid = NoMeter /\ paidSaved = Never
    /\ paidFile = [state |-> "missing", payload |-> NoMeter]
    /\ step = "none" /\ ready = FALSE /\ ledger = Never
    /\ granted = [date |-> Never, energy |-> 0] /\ calm = TRUE

\* An upgrade of a site whose total export meter has been counting today.
UpgradeInit ==
    \E total \in Legacy :
        /\ now = 0 /\ window \in Windows /\ life = "down"
        /\ meters = [n \in Tracked |-> Lifeless(n)]
        /\ files = [meters EXCEPT !["daily_export"] =
                       [date |-> 0, energy |-> [b \in {0} |-> total], at |-> 0, kw |-> 0]]
        /\ saved = [n \in Tracked |-> Never] /\ update = Idle /\ failed = {}
        /\ tariff \in Tariffs
        /\ paid = NoMeter /\ paidSaved = Never
        /\ paidFile = [state |-> "missing", payload |-> NoMeter]
        /\ step = "none" /\ ready = FALSE /\ ledger = Never
        /\ granted = [date |-> Never, energy |-> 0] /\ calm = FALSE

-----------------------------------------------------------------------------
(* planner/paid_export.py *)

\* Fault for the runs: the bonus is paid on top of a rate that already pays.
PaidTickSum(t, energy, left) ==
    LET inBonus == BoostedWindowActive(t, window.start, window.end)
        basePaid == IF BoostedWindowActive(t, tariff.window.start, tariff.window.end)
                      THEN tariff.standard ELSE tariff.offpeak
    IN (IF basePaid THEN energy ELSE 0)
         + (IF inBonus /\ tariff.bonus THEN Smaller(energy, left) ELSE 0)

\* What one tick of export counts: once, and through the bonus alone only as much as
\* is left of its allowance.
PaidTick(t, energy, left) ==
    LET inBonus == BoostedWindowActive(t, window.start, window.end)
        basePaid == IF BoostedWindowActive(t, tariff.window.start, tariff.window.end)
                      THEN tariff.standard ELSE tariff.offpeak
    IN IF basePaid THEN energy
       ELSE IF inBonus /\ tariff.bonus THEN Smaller(energy, left) ELSE 0

\* All export in the bonus window uses up its allowance, tick by tick.
BonusLeftAt(t, from, energy, left) ==
    Larger(0, left - energy * Cardinality(
                  {u \in from .. t - 1 : BoostedWindowActive(u, window.start, window.end)}))
PaidEnergy(p, kw, left) ==
    LET from == now - Smaller(now - p.at, Gap)
        energy == p.kw + kw
    IN MapThenSumSet(LAMBDA t : PaidTick(t, energy, BonusLeftAt(t, from, energy, left)),
                     from .. now - 1)

TodayPaid == IF paid.date = Date(now) THEN paid ELSE NewDay(Date(now))

\* observe, as [meter, changed, required]: a missing reading breaks the anchor, a
\* blocked day and an instant already seen change nothing.
PaidObserve(grid, left) ==
    LET p == TodayPaid
        result(m, changed, required) == [meter |-> m, changed |-> changed, required |-> required]
        kw == FlowOf("daily_export", grid)
    IN IF p.blocked THEN result(p, FALSE, FALSE)
       ELSE IF grid = Missing
         THEN result([p EXCEPT !.at = Never, !.kw = 0, !.valid = FALSE],
                     p.at # Never \/ p.valid, TRUE)
       ELSE IF p.at # Never /\ now <= p.at THEN result(p, FALSE, FALSE)
       ELSE result([p EXCEPT !.energy = IF p.at = Never THEN @ ELSE @ + PaidEnergy(p, kw, left),
                             !.at = now, !.kw = kw, !.valid = TRUE],
                   TRUE, paid.date # Date(now) \/ ~p.valid \/ (p.kw > 0 /\ kw = 0))

\* Fault for the runs: a store that does not decode grants a fresh day.
PaidRestoreLenient(date) ==
    IF paidFile.state = "stored" /\ paidFile.payload.date = date THEN paidFile.payload
    ELSE NewDay(date)
\* restore: a store that does not decode blocks the cap for the day.
PaidRestore(date) ==
    IF paidFile.state = "malformed"
      THEN [NewDay(date) EXCEPT !.valid = FALSE, !.blocked = TRUE]
    ELSE IF paidFile.state = "stored" /\ paidFile.payload.date = date
      THEN paidFile.payload
    ELSE NewDay(date)

\* seed_legacy: without a store the first day starts from today's total export.
Seeded(date, daily) ==
    IF paidFile.state = "missing" THEN [PaidRestore(date) EXCEPT !.energy = Total(daily)]
    ELSE PaidRestore(date)

-----------------------------------------------------------------------------
(* coordinator.py *)

LoadPaid ==
    /\ step = "none" /\ Load
    /\ paid' = Seeded(Date(now'), meters'["daily_export"])
    /\ step' = "setup"
    /\ UNCHANGED <<tariff, paidFile, paidSaved, ready, ledger, granted, calm>>

BonusRemaining ==
    LET bonus == meters["zerohero_export"] IN
    Larger(0, Allowance - IF bonus.date = Date(now) THEN Total(bonus) ELSE 0)

PaidMustSave(seen) ==
    /\ seen.changed
    /\ \/ paidSaved = Never \/ seen.meter.energy < paidSaved
       \/ seen.meter.energy - paidSaved >= Fine \/ seen.required

\* The cap closes until the meter is stored again, and a write that fails is owed.
AdvancePaid ==
    /\ step = "advance"
    /\ LET seen == PaidObserve(update.grid, BonusRemaining)
           owed == PaidMustSave(seen)
       IN /\ paid' = seen.meter
          /\ step' = IF owed THEN "update" ELSE "none"
          /\ paidSaved' = IF owed THEN Never ELSE paidSaved
          /\ ready' = (~owed /\ seen.meter.valid /\ paidSaved # Never)
    /\ UNCHANGED <<vars, tariff, paidFile, ledger, granted, calm>>

StartPaidUpdate ==
    /\ step = "none" /\ StartUpdate /\ step' = "advance"
    /\ calm' = (calm /\ update'.grid # Missing)
    /\ UNCHANGED <<tariff, paid, paidFile, paidSaved, ready, ledger, granted>>

Awaiting == step \in {"setup", "update"}
SavePaid ==
    /\ Awaiting /\ step' = "none"
    /\ paidFile' = [state |-> "stored", payload |-> paid]
    /\ paidSaved' = paid.energy /\ ready' = paid.valid
    /\ UNCHANGED <<vars, tariff, paid, ledger, granted, calm>>

ForgetPaid ==
    /\ paid' = NoMeter /\ paidSaved' = Never /\ step' = "none" /\ ready' = FALSE
    /\ ledger' = Never /\ calm' = FALSE
    /\ UNCHANGED <<tariff, paidFile, granted>>

KeepPaid == UNCHANGED <<tariff, paid, paidFile, paidSaved, ready, ledger, granted>>

\* After the exception the counter stays as it is, not ready and owed to the store.
PaidSaveFails ==
    /\ "save_paid" \in Faults /\ Awaiting
    /\ IF life = "first" THEN ForgetMemory /\ ForgetPaid
       ELSE /\ update' = Idle /\ step' = "none" /\ calm' = FALSE
            /\ UNCHANGED <<life, meters, saved, failed>> /\ KeepPaid
    /\ UNCHANGED <<now, window, files>>

MeterStep == step = "none" /\ (AdvanceMeter \/ SkipMeters \/ SaveMeter) /\ UNCHANGED paidVars

\* The other meters' failure leaves the ledger of the last successful update.
MeterSaveFails ==
    /\ step = "none" /\ SaveFails
    /\ IF life = "first" THEN ForgetPaid ELSE KeepPaid /\ calm' = FALSE /\ UNCHANGED step

Shown(total) ==
    [date |-> Date(now),
     energy |-> IF granted.date = Date(now) THEN Larger(granted.energy, total) ELSE total]
FinishPaidUpdate ==
    /\ step = "none" /\ FinishUpdate
    /\ ledger' = IF ready THEN paid.energy ELSE Never
    /\ granted' = IF ready THEN Shown(paid.energy) ELSE granted
    /\ UNCHANGED <<tariff, paid, paidFile, paidSaved, step, ready, calm>>

CrashAll == Crash /\ ForgetPaid

Corrupt ==
    /\ "corrupt" \in Faults /\ life = "down" /\ paidFile.state = "stored"
    /\ paidFile' = [paidFile EXCEPT !.state = "malformed"] /\ calm' = FALSE
    /\ UNCHANGED <<vars, tariff, paid, paidSaved, step, ready, ledger, granted>>

PaidRest == step = "none" /\ Rest /\ UNCHANGED paidVars

PaidNext == \/ LoadPaid \/ StartPaidUpdate \/ AdvancePaid \/ SavePaid \/ PaidSaveFails
            \/ MeterStep \/ MeterSaveFails \/ FinishPaidUpdate \/ CrashAll \/ Corrupt
            \/ PaidRest
PaidSpec == (PaidInit \/ UpgradeInit) /\ [][PaidNext]_allVars
-----------------------------------------------------------------------------
(* Properties. *)

\* _paid_exported_kwh: what the export controller takes for exported so far.
CapRead == IF ready THEN ledger ELSE Never

\* Nothing refills the day's cap: no restart, failed write or unreadable store shows a
\* total lower by a checkpoint step or more than one shown before on the same day.
CapNeverRefilled ==
    [][ledger' # ledger /\ ledger' # Never /\ granted.date = Date(now)
         => granted.energy - ledger' < Fine]_allVars

\* The three meters of one day agree when nothing was lost: each bonus step counts once
\* under a rate that already pays, and at most the allowance when only the bonus pays.
PaidOnce ==
    /\ Quiet /\ step = "none" /\ calm
    /\ \A date \in {paid.date, meters["daily_export"].date, meters["zerohero_export"].date} :
          date = Date(now)
    => LET all == Total(meters["daily_export"])  bonus == Total(meters["zerohero_export"]) IN
       CASE tariff.standard /\ ~tariff.offpeak /\ tariff.window = window -> paid.energy = bonus
         [] ~tariff.standard /\ ~tariff.offpeak ->
               paid.energy = IF tariff.bonus THEN Smaller(Allowance, bonus) ELSE 0
         [] OTHER -> paid.energy <= all
=============================================================================
