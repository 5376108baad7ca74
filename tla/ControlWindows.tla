---------------------------- MODULE ControlWindows ----------------------------
(***************************************************************************)
(* The daily windows both controllers work by (planner/control_windows.py): *)
(* when a window of local clock times opens and closes, whether two windows *)
(* collide, and which cycle a vehicle deadline belongs to.                 *)
(*                                                                         *)
(* Time is a number of ticks of local time with Day ticks a day; the first *)
(* day is day 0 and instants before it are negative.  A site without       *)
(* daylight saving is modelled: a local day always has Day ticks.          *)
(***************************************************************************)
EXTENDS Integers

CONSTANT Day    \* ticks of a day
ASSUME DayAssumption == Day \in Nat \ {0}

Clock == 0 .. Day - 1
Date(t) == t \div Day
At(date, clock) == date * Day + clock       \* datetime.combine

\* Fault for the runs: the after-midnight part belongs to the next window.
ControlWindowBoundsToday(now, start, finish) ==
    [from |-> At(Date(now), start),
     to   |-> At(Date(now) + (IF finish <= start THEN 1 ELSE 0), finish)]

\* Equal bounds are a whole day here.
ControlWindowBounds(now, start, finish) ==
    LET today == Date(now) IN
    IF finish > start
      THEN [from |-> At(today, start), to |-> At(today, finish)]
    ELSE IF now < At(today, finish)
      THEN [from |-> At(today - 1, start), to |-> At(today, finish)]
    ELSE [from |-> At(today, start), to |-> At(today + 1, finish)]

WindowActive(now, start, finish) ==
    LET bounds == ControlWindowBounds(now, start, finish) IN
    bounds.from <= now /\ now < bounds.to

\* Equal bounds are a disabled window here.
BoostedWindowActive(now, start, end) ==
    LET from == At(Date(now), start)  to == At(Date(now), end) IN
    \/ end > start /\ from <= now /\ now < to
    \/ end < start /\ (now >= from \/ now < to)

\* The next time the clock shows this time, later than now.
NextAt(now, clock) ==
    IF At(Date(now), clock) <= now THEN At(Date(now) + 1, clock) ELSE At(Date(now), clock)

\* A day is cut at midnight, so a window has one or two pieces of a clock day.
Segments(start, end) ==
    IF start < end THEN {<<start, end>>} ELSE {<<start, Day>>, <<0, end>>}
Larger(a, b) == IF a >= b THEN a ELSE b
Smaller(a, b) == IF a <= b THEN a ELSE b

SegmentsMeet(p, q) == Larger(p[1], q[1]) < Smaller(p[2], q[2])
DailyWindowsOverlap(start1, end1, start2, end2) ==
    \E p \in Segments(start1, end1), q \in Segments(start2, end2) : SegmentsMeet(p, q)

\* The deadline, the midnight its planning starts at, and the free window after it.
DailyReadyCycle(now, ready, freeStart) ==
    LET readyAt == NextAt(now, ready) IN
    [ready |-> readyAt, planning |-> At(Date(readyAt), 0),
     free |-> NextAt(readyAt, freeStart)]

\* The planning of a ready cycle that opens when the export before it has finished;
\* the code raises for bounds that this does not hold of.
PostExportOpening(cycle, finish) ==
    LET free == cycle.free - At(Date(cycle.free), 0) IN
    At(Date(cycle.free) - (IF finish >= free THEN 1 ELSE 0), finish)
PostExportCycle(cycle, finish) ==
    LET opening == PostExportOpening(cycle, finish) IN
    /\ finish # cycle.free - At(Date(cycle.free), 0)
    /\ opening < cycle.ready /\ cycle.ready < cycle.free

PreFreeFrom(free, freeStart, finish) ==
    At(Date(free) - (IF finish >= freeStart THEN 1 ELSE 0), finish)

\* From the end of the export to the next free window; equal clocks are a whole day.
PreFreeActive(now, freeStart, finish) ==
    LET free == NextAt(now, freeStart) IN
    PreFreeFrom(free, freeStart, finish) <= now /\ now < free
=============================================================================
