----------------------------- MODULE DailyMeters -----------------------------
(***************************************************************************)
(* The accumulators of daily energy (planner/daily_meter.py): a whole-day  *)
(* meter, a meter of one daily window, and one with a bucket per hour of a *)
(* window.  Power is a natural number of steps and energy the product of   *)
(* ticks and twice the mean power, so the trapezoid rule stays integral.   *)
(***************************************************************************)
EXTENDS ControlWindows, FiniteSetsExt

CONSTANTS
    Hour,   \* ticks of an hour
    Gap     \* max_gap_hours: the longest interval a sample can account for
ASSUME HourAssumption == Hour \in Nat \ {0} /\ Day % Hour = 0
ASSUME GapAssumption == Gap \in Nat \ {0}

Never == -1     \* no sample yet, no day yet, nothing saved yet

Kinds == {"daily", "window", "hourly"}
\* A meter without hours keeps its energy in bucket 0.
Buckets(kind) == IF kind = "hourly" THEN 0 .. (Day \div Hour) - 1 ELSE {0}

NoEnergy(kind) == [b \in Buckets(kind) |-> 0]
Fresh(kind, date) == [date |-> date, energy |-> NoEnergy(kind), at |-> Never, kw |-> 0]
Total(m) == MapThenSumSet(LAMBDA b : m.energy[b], DOMAIN m.energy)

\* Length of the intersection of two intervals.
Common(a, b, from, to) == Larger(0, Smaller(b, to) - Larger(a, from))

\* _window_overlap_hours: the windows that start on a day the interval touches.
WindowTicks(w, a, b) ==
    IF w.start = w.end THEN 0
    ELSE MapThenSumSet(
            LAMBDA d : Common(a, b, At(d, w.start),
                              At(IF w.end <= w.start THEN d + 1 ELSE d, w.end)),
            Date(a) .. Date(b))

\* An instant is given twice its clock, so that the middle of two ticks has one.
InWindowTwice(w, twice) ==
    IF w.start < w.end THEN 2 * w.start <= twice /\ twice < 2 * w.end
    ELSE w.start # w.end /\ (twice >= 2 * w.start \/ twice < 2 * w.end)

\* _hour_window_segments: what an hour has of the interval counts entirely or not at
\* all, by the middle of that part.
HourTicks(w, a, b, hour) ==
    LET from == Larger(a, hour * Hour)  to == Smaller(b, (hour + 1) * Hour) IN
    IF to > from /\ InWindowTwice(w, (from + to) % (2 * Day)) THEN to - from ELSE 0

Ticks(kind, w, a, b, bucket) ==
    CASE kind = "daily"  -> b - a
      [] kind = "window" -> WindowTicks(w, a, b)
      [] kind = "hourly" -> HourTicks(w, a, b, Date(a) * (Day \div Hour) + bucket)

\* Fault for the runs: an outage is charged in full at the last power.
CountedUncapped(kind, w, m, kw, now) ==
    [b \in Buckets(kind) |-> (m.kw + kw) * Ticks(kind, w, m.at, now, b)]

\* The energy one sample adds: the mean of two powers over at most Gap ticks.
Counted(kind, w, m, kw, now) ==
    LET from == now - Smaller(now - m.at, Gap) IN
    [b \in Buckets(kind) |-> (m.kw + kw) * Ticks(kind, w, from, now, b)]

\* observe: a new day starts from nothing, also without an anchor.
Today(kind, m, now) == IF m.date = Date(now) THEN m ELSE Fresh(kind, Date(now))
Observe(kind, w, meter, kw, now) ==
    LET m == Today(kind, meter, now)
        added == IF m.at # Never /\ now > m.at THEN Counted(kind, w, m, kw, now)
                 ELSE NoEnergy(kind)
    IN [m EXCEPT !.energy = [b \in Buckets(kind) |-> m.energy[b] + added[b]],
                 !.at = now, !.kw = kw]

\* checkpoint_required: the flow has just ended.
FlowEnded(kind, meter, kw, now) == Today(kind, meter, now).kw > 0 /\ kw = 0

\* restore: only a payload of the same day, else an empty meter of today.
Restore(kind, payload, now) ==
    IF payload.date = Date(now) THEN payload ELSE Fresh(kind, Date(now))
=============================================================================
