-------------------------- MODULE SolarPacingProofs --------------------------
(***************************************************************************)
(* The properties of SiteWindows for every length of the day, every site   *)
(* and every pace of the clock, and of the outside-window controller that  *)
(* runs on such a site: whatever its cycles, its faults and its environment *)
(* do, local time and the site's clock times behave as SiteWindows says.   *)
(***************************************************************************)
EXTENDS SolarPacing, WellFoundedInduction, TLAPS

\* Local time and the clock times of the site are in range.
TypeInv == now \in Nat /\ site \in Site

-----------------------------------------------------------------------------
(* Dates. *)

\* An instant lies within the Day ticks of its date.
LEMMA DateBounds ==
    ASSUME NEW t \in Int
    PROVE  Date(t) \in Int /\ At(Date(t), 0) <= t /\ t < At(Date(t), 0) + Day
  BY DayAssumption DEF Date, At

\* A clock time counts from the midnight of its date.
LEMMA AtDate ==
    ASSUME NEW d \in Int, NEW c \in Int
    PROVE  /\ At(d, 0) \in Int /\ At(d, c) = At(d, 0) + c
           /\ At(d + 1, c) = At(d, 0) + Day + c /\ At(d - 1, c) = At(d, 0) - Day + c
  BY DayAssumption DEF At

\* Midnight comes a day after midnight.
LEMMA NextMidnight ==
    ASSUME NEW d \in Int
    PROVE  At(d + 1, 0) = At(d, 0) + Day
  BY DayAssumption DEF At

\* Dates in order lie at least a day apart.
LEMMA DateOrder ==
    ASSUME NEW d \in Int, NEW e \in Int, d < e
    PROVE  At(d, 0) + Day <= At(e, 0)
  BY DayAssumption DEF At

\* The date of an instant is the one whose day it lies in.
LEMMA DateUnique ==
    ASSUME NEW t \in Int, NEW d \in Int, At(d, 0) <= t, t < At(d, 0) + Day
    PROVE  Date(t) = d
<1>1. Date(t) \in Int /\ At(Date(t), 0) <= t /\ t < At(Date(t), 0) + Day  BY DateBounds
<1>2. At(d, 0) \in Int /\ At(Date(t), 0) \in Int  BY <1>1, AtDate
<1>3. ~(d < Date(t))
  <2>1. SUFFICES ASSUME d < Date(t) PROVE FALSE  OBVIOUS
  <2>2. At(d, 0) + Day <= At(Date(t), 0)  BY <1>1, <2>1, DateOrder
  <2> QED  BY <1>1, <1>2, <2>2, DayAssumption
<1>4. ~(Date(t) < d)
  <2>1. SUFFICES ASSUME Date(t) < d PROVE FALSE  OBVIOUS
  <2>2. At(Date(t), 0) + Day <= At(d, 0)  BY <1>1, <2>1, DateOrder
  <2> QED  BY <1>1, <1>2, <2>2, DayAssumption
<1> QED  BY <1>1, <1>3, <1>4

-----------------------------------------------------------------------------
(* Windows. *)

\* The bounds, counted from the midnight of the instant they are asked for.
LEMMA Bounds ==
    ASSUME NEW t \in Int, NEW s \in Clock, NEW f \in Clock
    PROVE  LET m == At(Date(t), 0) IN
           ControlWindowBounds(t, s, f) =
               IF f > s THEN [from |-> m + s, to |-> m + f]
               ELSE IF t < m + f THEN [from |-> m - Day + s, to |-> m + f]
               ELSE [from |-> m + s, to |-> m + Day + f]
<1>1. Date(t) \in Int /\ s \in Int /\ f \in Int  BY DateBounds, DayAssumption DEF Clock
<1>2. /\ At(Date(t), s) = At(Date(t), 0) + s /\ At(Date(t), f) = At(Date(t), 0) + f
      /\ At(Date(t) - 1, s) = At(Date(t), 0) - Day + s
      /\ At(Date(t) + 1, f) = At(Date(t), 0) + Day + f
  BY <1>1, AtDate
<1> QED  BY <1>2 DEF ControlWindowBounds

\* Unless its bounds are equal, both controllers find a window open at the same time.
LEMMA MembershipAgrees ==
    ASSUME NEW t \in Int, NEW s \in Clock, NEW f \in Clock, s # f
    PROVE  WindowActive(t, s, f) <=> BoostedWindowActive(t, s, f)
<1> DEFINE m == At(Date(t), 0)
<1>1. m \in Int /\ m <= t /\ t < m + Day  BY DateBounds, AtDate
<1>2. At(Date(t), s) = m + s /\ At(Date(t), f) = m + f
  <2>1. Date(t) \in Int /\ s \in Int /\ f \in Int  BY DateBounds, DayAssumption DEF Clock
  <2> QED  BY <2>1, AtDate
<1>3. ControlWindowBounds(t, s, f) =
               IF f > s THEN [from |-> m + s, to |-> m + f]
               ELSE IF t < m + f THEN [from |-> m - Day + s, to |-> m + f]
               ELSE [from |-> m + s, to |-> m + Day + f]
  BY Bounds
<1> HIDE DEF m
<1> QED
  BY <1>1, <1>2, <1>3, DayAssumption DEF WindowActive, BoostedWindowActive, Clock

\* Until an open window ends, its bounds are found again at every later instant.
LEMMA BoundsKept ==
    ASSUME NEW t \in Int, NEW u \in Int, NEW s \in Clock, NEW f \in Clock, t <= u,
           WindowActive(t, s, f), u < ControlWindowBounds(t, s, f).to
    PROVE  ControlWindowBounds(u, s, f) = ControlWindowBounds(t, s, f)
<1> DEFINE d == Date(t)  m == At(d, 0)
<1>1. d \in Int /\ m \in Int /\ m <= t /\ t < m + Day  BY DateBounds, AtDate
<1>2. ControlWindowBounds(t, s, f) =
               IF f > s THEN [from |-> m + s, to |-> m + f]
               ELSE IF t < m + f THEN [from |-> m - Day + s, to |-> m + f]
               ELSE [from |-> m + s, to |-> m + Day + f]
  BY Bounds
<1>3. d + 1 \in Int /\ At(d + 1, 0) = m + Day  BY <1>1, NextMidnight
<1>4. ControlWindowBounds(u, s, f) =
               IF f > s THEN [from |-> At(Date(u), 0) + s, to |-> At(Date(u), 0) + f]
               ELSE IF u < At(Date(u), 0) + f
                 THEN [from |-> At(Date(u), 0) - Day + s, to |-> At(Date(u), 0) + f]
               ELSE [from |-> At(Date(u), 0) + s, to |-> At(Date(u), 0) + Day + f]
  BY Bounds
<1> HIDE DEF d, m
<1>5. s \in Int /\ f \in Int /\ 0 <= s /\ s < Day /\ 0 <= f /\ f < Day /\ Day \in Int
  BY DayAssumption DEF Clock
<1>6. CASE u < m + Day
  <2>1. At(Date(u), 0) = m
    <3>1. At(d, 0) = m  BY DEF m
    <3>2. Date(u) = d  BY <1>1, <1>6, <3>1, DateUnique
    <3> QED  BY <3>1, <3>2
  <2> QED  BY <1>1, <1>2, <1>4, <1>5, <1>6, <2>1 DEF WindowActive
<1>7. CASE ~(u < m + Day)
  <2>1. ~(f > s) /\ ~(t < m + f)  BY <1>1, <1>2, <1>5, <1>7
  <2>2. u < m + Day + f  BY <1>1, <1>2, <1>5, <2>1
  <2>3. Date(u) = d + 1  BY <1>1, <1>3, <1>5, <1>7, <2>2, DateUnique
  <2>4. At(Date(u), 0) = m + Day  BY <1>3, <2>3
  <2> QED  BY <1>1, <1>2, <1>4, <1>5, <1>7, <2>1, <2>2, <2>4
<1> QED  BY <1>6, <1>7

\* The next time on a clock, counted from the midnight of the instant.
LEMMA Next1 ==
    ASSUME NEW t \in Int, NEW c \in Clock
    PROVE  LET m == At(Date(t), 0) IN
           /\ NextAt(t, c) = IF m + c <= t THEN m + Day + c ELSE m + c
           /\ NextAt(t, c) \in Int /\ t < NextAt(t, c)
<1> DEFINE m == At(Date(t), 0)
<1>1. Date(t) \in Int /\ c \in Int /\ Day \in Int /\ 0 <= c  BY DateBounds, DayAssumption DEF Clock
<1>2. m \in Int /\ m <= t /\ t < m + Day  BY <1>1, DateBounds, AtDate
<1>3. At(Date(t), c) = m + c /\ At(Date(t) + 1, c) = m + Day + c  BY <1>1, AtDate
<1> HIDE DEF m
<1>4. NextAt(t, c) = IF m + c <= t THEN m + Day + c ELSE m + c  BY <1>3 DEF NextAt
<1>5. NextAt(t, c) \in Int /\ t < NextAt(t, c)  BY <1>1, <1>2, <1>4
<1> QED  BY <1>4, <1>5 DEF m

\* Until it is reached, the next time on a clock stays the same.
LEMMA NextKept ==
    ASSUME NEW t \in Int, NEW u \in Int, NEW c \in Clock, t <= u, u < NextAt(t, c)
    PROVE  NextAt(u, c) = NextAt(t, c)
<1> DEFINE d == Date(t)  m == At(d, 0)
<1>1. d \in Int /\ m \in Int /\ m <= t /\ t < m + Day  BY DateBounds, AtDate
<1>2. NextAt(t, c) = IF m + c <= t THEN m + Day + c ELSE m + c  BY Next1
<1>3. NextAt(u, c) = IF At(Date(u), 0) + c <= u THEN At(Date(u), 0) + Day + c
                     ELSE At(Date(u), 0) + c
  BY Next1
<1>4. d + 1 \in Int /\ At(d + 1, 0) = m + Day  BY <1>1, NextMidnight
<1>5. At(d, 0) = m  OBVIOUS
<1> HIDE DEF d, m
<1>6. c \in Int /\ 0 <= c /\ c < Day /\ Day \in Int  BY DayAssumption DEF Clock
<1>7. CASE u < m + Day
  <2>1. Date(u) = d  BY <1>1, <1>5, <1>7, DateUnique
  <2> QED  BY <1>1, <1>2, <1>3, <1>5, <1>6, <1>7, <2>1
<1>8. CASE ~(u < m + Day)
  <2>1. m + c <= t /\ u < m + Day + c  BY <1>1, <1>2, <1>6, <1>8
  <2>2. Date(u) = d + 1  BY <1>1, <1>4, <1>6, <1>8, <2>1, DateUnique
  <2> QED  BY <1>1, <1>2, <1>3, <1>4, <1>6, <1>8, <2>1, <2>2
<1> QED  BY <1>7, <1>8

\* The next time on a clock shows that time.
LEMMA NextShows ==
    ASSUME NEW t \in Int, NEW c \in Clock
    PROVE  /\ Date(NextAt(t, c)) \in Int
           /\ NextAt(t, c) = At(Date(NextAt(t, c)), 0) + c
<1> DEFINE d == Date(t)  m == At(d, 0)  n == NextAt(t, c)
<1>1. d \in Int /\ m \in Int  BY DateBounds, AtDate
<1>2. n = (IF m + c <= t THEN m + Day + c ELSE m + c) /\ n \in Int  BY Next1
<1>3. d + 1 \in Int /\ At(d + 1, 0) = m + Day  BY <1>1, NextMidnight
<1>4. At(d, 0) = m  OBVIOUS
<1>5. c \in Int /\ 0 <= c /\ c < Day /\ Day \in Int  BY DayAssumption DEF Clock
<1> HIDE DEF d, m, n
<1>6. CASE m + c <= t
  <2>1. Date(n) = d + 1  BY <1>1, <1>2, <1>3, <1>5, <1>6, DateUnique
  <2> QED  BY <1>1, <1>2, <1>3, <1>5, <1>6, <2>1 DEF n
<1>7. CASE ~(m + c <= t)
  <2>1. Date(n) = d  BY <1>1, <1>2, <1>4, <1>5, <1>7, DateUnique
  <2> QED  BY <1>1, <1>2, <1>4, <1>5, <1>7, <2>1 DEF n
<1> QED  BY <1>6, <1>7

-----------------------------------------------------------------------------
(* Windows on the face of a clock. *)

ClockOf(t) == t - At(Date(t), 0)
OnClock(c, s, f) == IF s < f THEN s <= c /\ c < f ELSE s <= c \/ c < f

\* The clock of an instant is a clock time.
LEMMA ClockInDay ==
    ASSUME NEW t \in Int
    PROVE  ClockOf(t) \in Clock /\ ClockOf(t) \in Int
<1>1. At(Date(t), 0) \in Int /\ At(Date(t), 0) <= t /\ t < At(Date(t), 0) + Day
  BY DateBounds, AtDate
<1> QED  BY <1>1, DayAssumption DEF ClockOf, Clock

\* Whether a window is open depends on the clock alone.
LEMMA WindowOnClock ==
    ASSUME NEW t \in Int, NEW s \in Clock, NEW f \in Clock
    PROVE  WindowActive(t, s, f) <=> OnClock(ClockOf(t), s, f)
<1> DEFINE m == At(Date(t), 0)
<1>1. m \in Int /\ m <= t /\ t < m + Day  BY DateBounds, AtDate
<1>2. ControlWindowBounds(t, s, f) =
               IF f > s THEN [from |-> m + s, to |-> m + f]
               ELSE IF t < m + f THEN [from |-> m - Day + s, to |-> m + f]
               ELSE [from |-> m + s, to |-> m + Day + f]
  BY Bounds
<1>3. ClockOf(t) = t - m  BY DEF ClockOf
<1> HIDE DEF m
<1> QED  BY <1>1, <1>2, <1>3, DayAssumption DEF WindowActive, OnClock, Clock

\* A clock time of a window lies in one of its pieces.
LEMMA SegmentOf ==
    ASSUME NEW s \in Clock, NEW f \in Clock, NEW c \in Clock, OnClock(c, s, f)
    PROVE  \E p \in Segments(s, f) : p[1] \in Int /\ p[2] \in Int /\ p[1] <= c /\ c < p[2]
<1>1. s \in Int /\ f \in Int /\ c \in Int /\ Day \in Int /\ 0 <= c /\ c < Day
  BY DayAssumption DEF Clock
<1>2. CASE s < f
  <2>1. <<s, f>> \in Segments(s, f)  BY <1>2 DEF Segments
  <2>2. <<s, f>>[1] = s /\ <<s, f>>[2] = f  OBVIOUS
  <2> QED  BY <1>1, <1>2, <2>1, <2>2 DEF OnClock
<1>3. CASE ~(s < f) /\ s <= c
  <2>1. <<s, Day>> \in Segments(s, f)  BY <1>3 DEF Segments
  <2>2. <<s, Day>>[1] = s /\ <<s, Day>>[2] = Day  OBVIOUS
  <2> QED  BY <1>1, <1>3, <2>1, <2>2
<1>4. CASE ~(s < f) /\ ~(s <= c)
  <2>1. <<0, f>> \in Segments(s, f)  BY <1>4 DEF Segments
  <2>2. <<0, f>>[1] = 0 /\ <<0, f>>[2] = f  OBVIOUS
  <2> QED  BY <1>1, <1>4, <2>1, <2>2 DEF OnClock
<1> QED  BY <1>2, <1>3, <1>4

\* An overlap is a clock time that both windows show.
LEMMA OverlapOnClock ==
    ASSUME NEW s \in Clock, NEW f \in Clock, NEW a \in Clock, NEW b \in Clock
    PROVE  DailyWindowsOverlap(s, f, a, b) <=>
               \E c \in Clock : OnClock(c, s, f) /\ OnClock(c, a, b)
<1>1. /\ s \in Int /\ f \in Int /\ a \in Int /\ b \in Int /\ Day \in Int
      /\ 0 <= s /\ 0 <= f /\ 0 <= a /\ 0 <= b /\ s < Day /\ f < Day /\ a < Day /\ b < Day
  BY DayAssumption DEF Clock
<1>2. ASSUME NEW p \in Segments(s, f), NEW q \in Segments(a, b), SegmentsMeet(p, q)
      PROVE  \E c \in Clock : OnClock(c, s, f) /\ OnClock(c, a, b)
  <2>1. p[1] \in Int /\ p[2] \in Int /\ 0 <= p[1] /\ p[2] <= Day
    BY <1>1 DEF Segments
  <2>2. q[1] \in Int /\ q[2] \in Int /\ 0 <= q[1] /\ q[2] <= Day
    BY <1>1 DEF Segments
  <2> DEFINE c == Larger(p[1], q[1])
  <2>3. c \in Int /\ p[1] <= c /\ c < p[2] /\ q[1] <= c /\ c < q[2]
    BY <1>2, <2>1, <2>2 DEF SegmentsMeet, Larger, Smaller
  <2>4. c \in Clock  BY <1>1, <2>1, <2>3 DEF Clock
  <2>5. OnClock(c, s, f)  BY <1>1, <2>3 DEF Segments, OnClock
  <2>6. OnClock(c, a, b)  BY <1>1, <2>3 DEF Segments, OnClock
  <2> QED  BY <2>4, <2>5, <2>6
<1>3. ASSUME NEW c \in Clock, OnClock(c, s, f), OnClock(c, a, b)
      PROVE  DailyWindowsOverlap(s, f, a, b)
  <2>1. c \in Int /\ 0 <= c /\ c < Day  BY <1>1 DEF Clock
  <2>2. PICK p \in Segments(s, f) : p[1] \in Int /\ p[2] \in Int /\ p[1] <= c /\ c < p[2]
    BY <1>3, SegmentOf
  <2>3. PICK q \in Segments(a, b) : q[1] \in Int /\ q[2] \in Int /\ q[1] <= c /\ c < q[2]
    BY <1>3, SegmentOf
  <2>4. SegmentsMeet(p, q)  BY <2>1, <2>2, <2>3 DEF SegmentsMeet, Larger, Smaller
  <2> QED  BY <2>4 DEF DailyWindowsOverlap
<1> QED  BY <1>2, <1>3 DEF DailyWindowsOverlap

\* Between the end of one window and the start of another that it does not meet,
\* neither is open.
LEMMA BetweenOnClock ==
    ASSUME NEW s \in Clock, NEW f \in Clock, NEW a \in Clock, NEW b \in Clock, NEW c \in Clock,
           f # a, ~DailyWindowsOverlap(a, b, s, f), OnClock(c, f, a)
    PROVE  ~OnClock(c, s, f) /\ ~OnClock(c, a, b)
<1>1. /\ s \in Int /\ f \in Int /\ a \in Int /\ b \in Int /\ c \in Int /\ Day \in Int
      /\ 0 <= s /\ 0 <= f /\ 0 <= a /\ 0 <= b /\ s < Day /\ f < Day /\ a < Day /\ b < Day
      /\ 0 <= c /\ c < Day
  BY DayAssumption DEF Clock
<1>2. \A x \in Clock : ~(OnClock(x, a, b) /\ OnClock(x, s, f))  BY OverlapOnClock
<1>3. ~OnClock(a, s, f)
  <2>1. OnClock(a, a, b)  BY <1>1 DEF OnClock
  <2> QED  BY <1>2, <2>1
<1> DEFINE x == IF f = 0 THEN Day - 1 ELSE f - 1
<1>4. ~OnClock(x, a, b)
  <2>1. x \in Clock  BY <1>1 DEF Clock
  <2>2. OnClock(x, s, f)  BY <1>1 DEF OnClock
  <2> QED  BY <1>2, <2>1, <2>2
<1>5. ~OnClock(c, s, f)  BY <1>1, <1>3 DEF OnClock
<1>6. ~OnClock(c, a, b)  BY <1>1, <1>4 DEF OnClock
<1> QED  BY <1>5, <1>6

\* The interval before a free window is the window between the two clock times.
LEMMA BeforeFree ==
    ASSUME NEW t \in Int, NEW free \in Int, NEW a \in Clock, NEW f \in Clock, f # a,
           free = At(Date(free), 0) + a, PreFreeFrom(free, a, f) <= t, t < free
    PROVE  OnClock(ClockOf(t), f, a)
<1> DEFINE d == Date(free)  m == At(d, 0)
<1>1. d \in Int /\ m \in Int  BY DateBounds, AtDate
<1>2. a \in Int /\ f \in Int /\ 0 <= a /\ a < Day /\ 0 <= f /\ f < Day /\ Day \in Int
  BY DayAssumption DEF Clock
<1>3. At(d, f) = m + f /\ At(d - 1, f) = m - Day + f  BY <1>1, <1>2, AtDate
<1>4. PreFreeFrom(free, a, f) = IF f >= a THEN m - Day + f ELSE m + f
  <2>1. PreFreeFrom(free, a, f) = IF f >= a THEN At(d - 1, f) ELSE At(d - 0, f)
    BY DEF PreFreeFrom
  <2>2. d - 0 = d  BY <1>1
  <2> QED  BY <1>3, <2>1, <2>2
<1>5. d - 1 \in Int /\ At(d - 1, 0) = m - Day
  <2>1. At(d - 1, 0) = m - Day + 0  BY <1>1, AtDate
  <2> QED  BY <1>1, <1>2, <2>1
<1>6. At(d, 0) = m /\ free = m + a  OBVIOUS
<1> HIDE DEF d, m
<1>7. CASE m <= t
  <2>1. Date(t) = d  BY <1>1, <1>2, <1>6, <1>7, DateUnique
  <2>2. ClockOf(t) = t - m  BY <1>6, <2>1 DEF ClockOf
  <2> QED  BY <1>1, <1>2, <1>4, <1>6, <1>7, <2>2 DEF OnClock
<1>8. CASE ~(m <= t)
  <2>1. f >= a /\ m - Day <= t /\ t < m - Day + Day  BY <1>1, <1>2, <1>4, <1>8
  <2>2. Date(t) = d - 1  BY <1>5, <2>1, DateUnique
  <2>3. ClockOf(t) = t - (m - Day)  BY <1>5, <2>2 DEF ClockOf
  <2> QED  BY <1>1, <1>2, <1>4, <1>8, <2>1, <2>3 DEF OnClock
<1> QED  BY <1>7, <1>8

-----------------------------------------------------------------------------
(* The site. *)

\* Local time and the configured site stay in range.
THEOREM TypeCorrect == WindowsSpec => []TypeInv
<1>1. WindowsInit => TypeInv  BY DEF WindowsInit, TypeInv
<1>2. TypeInv /\ [WindowsNext]_windowVars => TypeInv'
  BY HorizonAssumption DEF TypeInv, WindowsNext, ClockMoves, ClockRests, windowVars
<1> QED  BY <1>1, <1>2, PTL DEF WindowsSpec

\* The fields of a site are clock times.
LEMMA SiteClocks ==
    ASSUME TypeInv
    PROVE  /\ site.freeStart \in Clock /\ site.freeEnd \in Clock /\ site.start \in Clock
           /\ site.finish \in Clock /\ site.ready \in Clock /\ now \in Int
  BY DEF TypeInv, Site

\* The export session and the EV controller agree on every window whose bounds differ
\* (control_window_bounds, boosted_window_active), at every site and every instant.
THEOREM Agreement == WindowsSpec => []ControllersAgree
<1>1. TypeInv => ControllersAgree
  BY SiteClocks, MembershipAgrees DEF ControllersAgree, InExport
<1> QED  BY <1>1, TypeCorrect, PTL

\* A collision of two windows is reported if and only if they share an instant
\* (daily_windows_overlap).
THEOREM Overlaps == WindowsSpec => []OverlapExact
<1>1. TypeInv => OverlapExact
  <2> SUFFICES ASSUME TypeInv PROVE OverlapExact  OBVIOUS
  <2>1. Collide <=> \E c \in Clock : /\ OnClock(c, site.freeStart, site.freeEnd)
                                     /\ OnClock(c, site.start, site.finish)
    BY SiteClocks, OverlapOnClock DEF Collide
  <2>2. \A t \in Clock : t \in Int /\ ClockOf(t) = t
    <3> SUFFICES ASSUME NEW t \in Clock PROVE t \in Int /\ ClockOf(t) = t  OBVIOUS
    <3>1. t \in Int /\ 0 <= t /\ t < Day /\ Day \in Int  BY DayAssumption DEF Clock
    <3>2. At(0, 0) = 0  BY DayAssumption DEF At
    <3>3. Date(t) = 0  BY <3>1, <3>2, DateUnique
    <3> QED  BY <3>1, <3>2, <3>3 DEF ClockOf
  <2>3. \A t \in Clock : InExport(t) <=> OnClock(t, site.start, site.finish)
    BY <2>2, SiteClocks, WindowOnClock DEF InExport
  <2>4. \A t \in Clock : InFree(t) <=> OnClock(t, site.freeStart, site.freeEnd)
    BY <2>2, SiteClocks, WindowOnClock DEF InFree
  <2> QED  BY <2>1, <2>3, <2>4 DEF OverlapExact
<1> QED  BY <1>1, TypeCorrect, PTL

\* Until the free window, after the export: neither is open at any instant of the
\* interval that pre_free_window_position and the post-export planning go by.
LEMMA Between ==
    ASSUME TypeInv, ~Collide, site.finish # site.freeStart,
           NEW t \in Int, NEW free \in Int, free = At(Date(free), 0) + site.freeStart,
           PreFreeFrom(free, site.freeStart, site.finish) <= t, t < free
    PROVE  ~InExport(t) /\ ~InFree(t)
<1>1. OnClock(ClockOf(t), site.finish, site.freeStart)  BY SiteClocks, BeforeFree
<1>2. ClockOf(t) \in Clock  BY ClockInDay
<1>3. /\ ~OnClock(ClockOf(t), site.start, site.finish)
      /\ ~OnClock(ClockOf(t), site.freeStart, site.freeEnd)
  BY <1>1, <1>2, SiteClocks, BetweenOnClock DEF Collide
<1> QED  BY <1>3, SiteClocks, WindowOnClock DEF InExport, InFree

\* The vehicle's interval before the free window is free of export and charge
\* (pre_free_window_position), at every site whose windows do not collide.
THEOREM PreFreeInBetween == WindowsSpec => []PreFreeIsBetween
<1>1. TypeInv => PreFreeIsBetween
  <2> SUFFICES ASSUME TypeInv, ~Collide, site.finish # site.freeStart, InPreFree(now)
               PROVE  ~InExport(now) /\ ~InFree(now)
    BY DEF PreFreeIsBetween
  <2> DEFINE free == NextAt(now, site.freeStart)
  <2>1. now \in Int /\ free \in Int  BY SiteClocks, Next1
  <2>2. free = At(Date(free), 0) + site.freeStart  BY SiteClocks, NextShows
  <2>3. PreFreeFrom(free, site.freeStart, site.finish) <= now /\ now < free
    BY DEF InPreFree, PreFreeActive
  <2> HIDE DEF free
  <2> QED  BY <2>1, <2>2, <2>3, Between
<1> QED  BY <1>1, TypeCorrect, PTL

\* An open window is never moved by being evaluated later (control_window_bounds).
THEOREM WindowKept == WindowsSpec => OpenWindowKeepsItsBounds
<1>1. TypeInv /\ TypeInv' /\ [WindowsNext]_windowVars =>
        [InExport(now) /\ now' < ExportBounds(now).to
           => ExportBounds(now') = ExportBounds(now)]_windowVars
  <2> SUFFICES ASSUME TypeInv, TypeInv', [WindowsNext]_windowVars,
                      InExport(now), now' < ExportBounds(now).to
               PROVE  ExportBounds(now') = ExportBounds(now)
    BY DEF windowVars
  <2>1. site' = site  BY DEF WindowsNext, ClockMoves, ClockRests, windowVars
  <2>2. now \in Int /\ now' \in Int /\ now <= now'
    BY HorizonAssumption DEF TypeInv, WindowsNext, ClockMoves, ClockRests, windowVars
  <2> QED  BY <2>1, <2>2, SiteClocks, BoundsKept DEF InExport, ExportBounds
<1> QED  BY <1>1, TypeCorrect, PTL DEF WindowsSpec, OpenWindowKeepsItsBounds

\* A deadline is kept until it is reached, is followed by its free window, and its
\* planning after the export sees no export (daily_ready_cycle_bounds,
\* post_export_daily_planning_start).
THEOREM Deadline == WindowsSpec => DeadlineKept
<1>1. TypeInv /\ TypeInv' /\ [WindowsNext]_windowVars =>
        [/\ now' < Cycle(now).ready => Cycle(now') = Cycle(now)
         /\ now' < Cycle(now').ready /\ Cycle(now').ready < Cycle(now').free
         /\ PostExportCycle(Cycle(now'), site.finish) /\ ~Collide
              => \A t \in PostExportOpening(Cycle(now'), site.finish) .. Cycle(now').free - 1 :
                     ~InExport(t)]_windowVars
  <2> SUFFICES ASSUME TypeInv, TypeInv', [WindowsNext]_windowVars
               PROVE  /\ now' < Cycle(now).ready => Cycle(now') = Cycle(now)
                      /\ now' < Cycle(now').ready /\ Cycle(now').ready < Cycle(now').free
                      /\ PostExportCycle(Cycle(now'), site.finish) /\ ~Collide
                           => \A t \in PostExportOpening(Cycle(now'), site.finish)
                                         .. Cycle(now').free - 1 : ~InExport(t)
    OBVIOUS
  <2>1. now \in Int /\ now' \in Int /\ now <= now' /\ site' = site
    BY HorizonAssumption DEF TypeInv, WindowsNext, ClockMoves, ClockRests, windowVars
  <2> DEFINE ready == NextAt(now', site.ready)  free == NextAt(ready, site.freeStart)
  <2>2. ready \in Int /\ now' < ready  BY <2>1, SiteClocks, Next1
  <2>3. free \in Int /\ ready < free  BY <2>2, SiteClocks, Next1
  <2>4. free = At(Date(free), 0) + site.freeStart  BY <2>2, SiteClocks, NextShows
  <2>5. Cycle(now').ready = ready /\ Cycle(now').free = free
    BY <2>1 DEF Cycle, DailyReadyCycle
  <2>6. ASSUME now' < Cycle(now).ready PROVE Cycle(now') = Cycle(now)
    <3>1. NextAt(now', site.ready) = NextAt(now, site.ready)
      BY <2>1, <2>6, SiteClocks, NextKept DEF Cycle, DailyReadyCycle
    <3> QED  BY <2>1, <3>1 DEF Cycle, DailyReadyCycle
  <2>7. ASSUME PostExportCycle(Cycle(now'), site.finish), ~Collide,
               NEW t \in PostExportOpening(Cycle(now'), site.finish) .. Cycle(now').free - 1
        PROVE  ~InExport(t)
    <3>1. Date(free) \in Int /\ At(Date(free), 0) \in Int  BY <2>3, DateBounds, AtDate
    <3>2. site.freeStart \in Int  BY SiteClocks, DayAssumption DEF Clock
    <3>3. free - At(Date(free), 0) = site.freeStart  BY <2>4, <3>1, <3>2
    <3> HIDE DEF free
    <3>4. site.finish # site.freeStart  BY <2>5, <2>7, <3>3 DEF PostExportCycle
    <3>5. PostExportOpening(Cycle(now'), site.finish)
            = PreFreeFrom(free, site.freeStart, site.finish)
      BY <2>5, <3>3 DEF PostExportOpening, PreFreeFrom
    <3>6. t \in Int /\ PreFreeFrom(free, site.freeStart, site.finish) <= t /\ t < free
      BY <2>3, <2>5, <2>7, <3>5
    <3> QED  BY <2>3, <2>4, <2>7, <3>4, <3>6, Between
  <2> QED  BY <2>2, <2>3, <2>5, <2>6, <2>7
<1> QED  BY <1>1, TypeCorrect, PTL DEF WindowsSpec, DeadlineKept

-----------------------------------------------------------------------------
(* The controller runs on a site of SiteWindows. *)

\* The ticks still to come fit before the end of the clock.
ClockInv == now \in Nat /\ left \in Nat /\ now + left <= Horizon /\ site \in Site

\* Only a tick that passes moves the clock.
LEMMA OnlyPassMoves ==
    ASSUME [Next]_vars
    PROVE  \/ now' = now /\ site' = site /\ left' = left
           \/ left > 0 /\ left' = left - 1 /\ now' = now + 1 /\ site' = site
<1>1. CASE Look  BY <1>1 DEF Look
<1>2. CASE Decide  BY <1>2 DEF Decide
<1>3. CASE Store  BY <1>3 DEF Store
<1>4. CASE Act  BY <1>4 DEF Act
<1>5. CASE Pass  BY <1>5 DEF Pass
<1>6. CASE HouseChange  BY <1>6 DEF HouseChange
<1>7. CASE CarChange  BY <1>7 DEF CarChange
<1>8. CASE Crash  BY <1>8 DEF Crash
<1>9. CASE Rest \/ UNCHANGED vars  BY <1>9 DEF Rest, vars
<1> QED  BY <1>1, <1>2, <1>3, <1>4, <1>5, <1>6, <1>7, <1>8, <1>9 DEF Next

\* The clock stays inside the bound of the run.
LEMMA ClockTyped == Spec => []ClockInv
<1>1. Init => ClockInv
  BY SolarBoundsAssumption, HorizonAssumption DEF Init, ClockInv
<1>2. ClockInv /\ [Next]_vars => ClockInv'
  BY OnlyPassMoves, HorizonAssumption DEF ClockInv
<1> QED  BY <1>1, <1>2, PTL DEF Spec

\* The controller implements SiteWindows: every instant at which a cycle of
\* _async_reconcile_cycle may ask for a window is one of that specification's.
THEOREM RunsOnASite == Spec => WindowsSpec
<1>1. Init => WindowsInit
  BY SolarBoundsAssumption, HorizonAssumption DEF Init, WindowsInit
<1>2. ClockInv /\ [Next]_vars => [WindowsNext]_windowVars
  BY OnlyPassMoves, HorizonAssumption DEF ClockInv, WindowsNext, ClockMoves, windowVars
<1> QED  BY <1>1, <1>2, ClockTyped, PTL DEF Spec, WindowsSpec

\* An open export window keeps the bounds it opened with for every controller run
\* (control_window_bounds).
THEOREM SolarWindowKept == Spec => OpenWindowKeepsItsBounds
<1> QED  BY RunsOnASite, WindowKept, PTL

\* The pre-free stage, which spends the battery's energy, never runs while the battery
\* exports or is charged (pre_free_window_position).
THEOREM SolarPreFree == Spec => []PreFreeIsBetween
<1> QED  BY RunsOnASite, PreFreeInBetween, PTL

-----------------------------------------------------------------------------
(* What a current is measured by, and what the battery gives.               *)

Phases == {"none", "morning", "spill"}
Measures == {"morning", "spill"}
Holds == [phase : Phases, amps : Int, since : Int, pend : Int,
          pendSince : Int, share : BOOLEAN, peak : Int]
Views == [plugged : BOOLEAN, on : BOOLEAN, amps : Int, draw : Int]

\* A hold without a battery allowance stands for a solar request as large.
MeasuredHold(h) == h.phase # "none" /\ ~h.share => h.amps <= h.peak

\* A set of numbers that is not empty has a least one.
LEMMA Least ==
    ASSUME NEW S, S \subseteq Nat, S # {}
    PROVE  Min(S) \in S
<1> DEFINE R == OpToRel(<, Nat)
<1>1. IsWellFoundedOn(R, Nat)  BY NatLessThanWellFounded
<1>2. \A x, y \in Nat : x < y => <<x, y>> \in R  BY DEF OpToRel
<1> HIDE DEF R
<1>3. PICK x \in S : \A y \in S : ~(<<y, x>> \in R)  BY <1>1, WFMin
<1>4. ASSUME NEW y \in S PROVE x <= y
  <2>1. x \in Nat /\ y \in Nat  OBVIOUS
  <2>2. ~(y < x)  BY <1>2, <1>3, <2>1
  <2> QED  BY <2>1, <2>2
<1> QED  BY <1>3, <1>4 DEF Min

\* The larger and the smaller of two numbers.
LEMMA LargerSmaller ==
    ASSUME NEW a \in Int, NEW b \in Int
    PROVE  /\ Larger(a, b) \in Int /\ Larger(a, b) >= a /\ Larger(a, b) >= b
           /\ Larger(a, b) = a \/ Larger(a, b) = b
           /\ Smaller(a, b) \in Int /\ Smaller(a, b) <= a /\ Smaller(a, b) <= b
           /\ Smaller(a, b) = a \/ Smaller(a, b) = b
  BY DEF Larger, Smaller

\* A part of an energy is no more than the energy.
LEMMA PartOfEnergy ==
    ASSUME NEW e \in Nat, NEW n \in Int, n >= 1
    PROVE  e \div n \in Nat /\ e \div n <= e
<1>1. e \div n \in Int /\ n * (e \div n) <= e /\ e \div n >= 0  OBVIOUS
<1> DEFINE q == e \div n
<1> HIDE DEF q
<1>2. q \in Nat /\ n * q <= e  BY <1>1 DEF q
<1>3. q <= n * q  BY <1>2
<1> QED  BY <1>2, <1>3 DEF q

\* The soak asks for no more than the spare energy, whatever the mean.
LEMMA SoakBounded ==
    ASSUME NEW mean, NEW spare \in Nat, NEW low, NEW ceiling \in Nat,
           NEW solar, solar = SoakSolar(mean, spare, low, ceiling), solar.phase = "active"
    PROVE  solar.amps \in Int /\ solar.amps <= SoakCeiling(spare, ceiling)
<1> DEFINE most == SoakCeiling(spare, ceiling)
           reach == {amps \in 0 .. most : amps = most \/ amps * mean.ticks >= mean.sum}
           asked == Min(reach)
<1>1. most \in Nat  BY DEF SoakCeiling, Smaller
<1>2. reach \subseteq Nat /\ most \in reach  BY <1>1
<1>3. asked \in reach  BY <1>2, Least
<1>4. asked \in Int /\ asked <= most  BY <1>1, <1>3
<1>5. solar = IF mean.sum = 0 \/ ~low THEN None("ineligible")
              ELSE IF asked < Minimum THEN None("below")
              ELSE [amps |-> asked, phase |-> "active"]
  BY DEF SoakSolar
<1> HIDE DEF asked, most
<1>6. solar.amps = asked  BY <1>5 DEF None
<1> QED  BY <1>4, <1>6 DEF most

\* A measured-solar stage asks for a number of amps.
LEMMA MeasuredTyped ==
    ASSUME NEW surplus \in Int, NEW valid, NEW enough, NEW low, NEW boosted, NEW ceiling \in Int
    PROVE  MeasuredSolar(surplus, valid, enough, low, boosted, ceiling).amps \in Int
  BY DEF MeasuredSolar, Charge, None, Smaller

\* The pacing of a target: a hold keeps or renews what was measured, and a target above
\* the request is kept only when nothing curtails it (rate_limit_measured_solar_current).
LEMMA RateLimited ==
    ASSUME NEW h \in Holds, NEW t \in Int, NEW phase \in Measures,
           NEW asked \in Int, NEW solar \in Int, NEW curtail, NEW stable, NEW every \in Int,
           NEW r, r = RateLimit(h, t, phase, asked, solar, curtail, stable, every)
    PROVE  /\ r.hold \in Holds /\ ~r.hold.share
           /\ r.hold = NoHold \/ r.hold.phase = phase
           /\ asked <= solar /\ ~h.share /\ MeasuredHold(h) => MeasuredHold(r.hold)
           /\ r.hold.phase = phase =>
                \/ r.hold.amps <= asked
                \/ h.phase = phase /\ r.hold.amps = h.amps /\ ~(asked < h.amps /\ curtail)
<1> DEFINE no == FALSE  zero == 0
           accepted == [NoHold EXCEPT !.phase = phase, !.amps = asked, !.since = t, !.peak = solar]
           seen == IF h.phase = phase THEN Larger(h.peak, solar) ELSE solar
           steady == [h EXCEPT !.pend = zero, !.pendSince = zero, !.share = no, !.peak = seen]
           waiting == IF h.pend = asked THEN h.pendSince ELSE t
           held == [steady EXCEPT !.pend = asked, !.pendSince = waiting]
           due == t - h.since >= every /\ (stable => t - waiting >= every)
<1>1. r = IF asked < Minimum THEN [hold |-> NoHold, stamped |-> FALSE, held |-> FALSE]
          ELSE IF h.phase # phase \/ (asked < h.amps /\ curtail) \/ (asked # h.amps /\ due)
            THEN [hold |-> accepted, stamped |-> TRUE, held |-> FALSE]
          ELSE IF asked = h.amps THEN [hold |-> steady, stamped |-> FALSE, held |-> FALSE]
          ELSE [hold |-> held, stamped |-> h.pend # asked, held |-> TRUE]
  BY DEF RateLimit
<1>2. seen \in Int /\ (h.phase = phase => seen >= h.peak)
  BY LargerSmaller DEF Holds
<1>3. waiting \in Int  BY DEF Holds
<1>4. NoHold \in Holds /\ NoHold.share = FALSE /\ NoHold.phase = "none"
  BY DEF NoHold, Holds, Phases
<1>5. no \in BOOLEAN /\ ~no  OBVIOUS
<1>6. zero \in Int  OBVIOUS
<1>7. phase \in Phases /\ phase # "none"  BY DEF Phases, Measures
<1> HIDE DEF no, zero, seen, waiting, due
<1>8. /\ accepted \in Holds /\ accepted.share = FALSE /\ accepted.phase = phase
      /\ accepted.amps = asked /\ accepted.peak = solar
  BY <1>4, <1>7 DEF Holds
<1>9. /\ steady \in Holds /\ steady.share = no /\ steady.phase = h.phase
      /\ steady.amps = h.amps /\ steady.peak = seen
  BY <1>2, <1>5, <1>6 DEF Holds
<1> HIDE DEF steady
<1>10. /\ held \in Holds /\ held.share = steady.share /\ held.phase = steady.phase
       /\ held.amps = steady.amps /\ held.peak = steady.peak
  BY <1>3, <1>9 DEF Holds
<1>11. h.amps \in Int /\ h.peak \in Int  BY DEF Holds
<1> HIDE DEF accepted, held
<1>12. CASE r.hold = NoHold
  BY <1>4, <1>12, <1>7 DEF MeasuredHold
<1>13. CASE r.hold = accepted
  BY <1>8, <1>13 DEF MeasuredHold
<1>14. CASE /\ h.phase = phase /\ ~(asked < h.amps /\ curtail)
            /\ r.hold \in {steady, held}
  <2>1. /\ r.hold \in Holds /\ ~r.hold.share /\ r.hold.phase = phase
        /\ r.hold.amps = h.amps /\ r.hold.peak = seen
    BY <1>9, <1>10, <1>14, <1>5
  <2>2. ~h.share /\ MeasuredHold(h) => MeasuredHold(r.hold)
    BY <1>2, <1>11, <1>14, <2>1 DEF MeasuredHold
  <2> QED  BY <1>14, <2>1, <2>2
<1> QED  BY <1>1, <1>12, <1>13, <1>14

\* The world as far as currents and energies are numbers.
Troubles == {"none", "stale", "import", "export"}
Measurements == [surplus : Nat, spare : Nat, battery : Int, limit : BOOLEAN, trouble : Troubles]
Cars == [plugged : BOOLEAN, room : Nat, on : BOOLEAN, amps : Int]
World == house \in Measurements /\ car \in Cars /\ policy.base \in Nat /\ site \in Site

\* The controller's fields, with a hold that was measured or contains an allowance.
Memory(m) ==
    /\ m = [hold |-> m.hold, active |-> m.active, stop |-> m.stop, soak |-> m.soak,
            samples |-> m.samples]
    /\ m.hold \in Holds /\ MeasuredHold(m.hold) /\ m.soak \in BOOLEAN

\* What the site offers, as numbers: no budget exceeds the spare energy.
LEMMA Offers ==
    ASSUME World
    PROVE  /\ Draw \in Int /\ PreFreeCeiling \in Nat
           /\ Budget \in Nat /\ Budget <= house.spare
           /\ CombinedBudget \in Nat /\ CombinedBudget <= house.spare
           /\ SoakCeiling(Budget, PreFreeCeiling) \in Int
           /\ SoakCeiling(Budget, PreFreeCeiling) <= Budget
           /\ house.spare \in Nat /\ house.surplus \in Nat /\ policy.base \in Nat
<1>1. house.spare \in Nat /\ house.surplus \in Nat /\ policy.base \in Nat
  BY DEF World, Measurements
<1>2. Draw \in Int  BY DEF World, Cars, Draw
<1>3. PreFreeCeiling \in Nat
  BY <1>1, CurrentsAssumption DEF PreFreeCeiling, Headroom, Larger
<1>4. Budget \in Nat /\ Budget <= house.spare  BY <1>1 DEF Budget
<1>5. CombinedBudget \in Nat /\ CombinedBudget <= house.spare  BY <1>1 DEF CombinedBudget
<1> QED  BY <1>1, <1>2, <1>3, <1>4, <1>5 DEF SoakCeiling, Smaller

\* The house surplus a cycle sees; a car as it was captured sees the surplus that is.
LEMMA SurplusTyped ==
    ASSUME World, NEW v \in Views
    PROVE  Surplus(v) \in Nat /\ (v = View => Surplus(v) = house.surplus)
<1>1. Draw \in Int /\ house.surplus \in Nat /\ v.draw \in Int  BY Offers DEF Views
<1>2. v = View => v.draw = Draw  BY DEF View
<1> HIDE DEF Draw
<1> QED  BY <1>1, <1>2 DEF Surplus, Larger

\* The energy a pre-free session plans with is spare.
LEMMA PreFreeOffers ==
    ASSUME World, NEW t \in Int
    PROVE  PreFreeEnergy(t) \in Nat /\ PreFreeEnergy(t) <= house.spare
           /\ ToFree(t) \in Int /\ ToFree(t) >= 1
<1>1. car.room \in Nat  BY DEF World, Cars
<1>2. PreFreeEnergy(t) \in Nat /\ PreFreeEnergy(t) <= house.spare
  BY <1>1, Offers DEF PreFreeEnergy, Smaller
<1>3. site.freeStart \in Clock  BY DEF World, Site
<1>4. NextAt(t, site.freeStart) \in Int /\ t < NextAt(t, site.freeStart)  BY <1>3, Next1
<1> QED  BY <1>2, <1>4 DEF ToFree

\* What is left of the spending interval is at least a tick.
LEMMA HorizonTyped ==
    ASSUME NEW h \in Holds, NEW t \in Int, NEW toFree \in Int
    PROVE  SpendingHorizon(h, t, toFree) \in Int /\ SpendingHorizon(h, t, toFree) >= 1
<1> DEFINE anchored == h.phase = "morning" /\ h.share /\ t - h.since \in 0 .. AdjustTicks - 1
           spending == AdjustTicks - (IF anchored THEN t - h.since ELSE 0)
<1>1. h.since \in Int /\ AdjustTicks \in Int  BY PacingAssumption DEF Holds
<1> HIDE DEF anchored
<1>2. spending \in Int  BY <1>1
<1> HIDE DEF spending
<1>3. SpendingHorizon(h, t, toFree) = Larger(Smaller(toFree, spending), 1)
  BY DEF SpendingHorizon, anchored, spending
<1> QED  BY <1>2, <1>3 DEF Larger, Smaller

\* A combined current above the baseline is paid by the sun and the energy it plans with.
LEMMA CombinedPaid ==
    ASSUME NEW base \in Nat, NEW energy \in Nat, NEW surplus \in Nat, NEW horizon \in Int,
           horizon >= 1, NEW ceiling \in Nat, NEW low,
           NEW total, total = CombinedCurrent(base, energy, surplus, horizon, ceiling, low)
    PROVE  total \in Int /\ total <= base + surplus + energy
<1> DEFINE part == energy \div horizon
<1>1. part \in Nat /\ part <= energy  BY PartOfEnergy
<1> HIDE DEF part
<1>2. total = IF energy = 0 \/ ~low \/ Smaller(base + surplus + part, ceiling) < Minimum
                THEN base ELSE Smaller(base + surplus + part, ceiling)
  BY DEF CombinedCurrent, part
<1>3. /\ Smaller(base + surplus + part, ceiling) \in Int
      /\ Smaller(base + surplus + part, ceiling) <= base + surplus + part
  BY <1>1 DEF Smaller
<1> QED  BY <1>1, <1>2, <1>3

\* The fixed current of a session is paid by the energy it plans with.
LEMMA FixedPaid ==
    ASSUME NEW active, NEW base \in Nat, NEW energy \in Nat, NEW toFree \in Int, toFree >= 1,
           NEW ceiling \in Nat, NEW low,
           NEW amps, amps = PreFreeCurrent(active, base, energy, toFree, ceiling, low)
    PROVE  amps \in Int /\ amps <= base + energy
<1> DEFINE part == energy \div toFree
<1>1. part \in Nat /\ part <= energy  BY PartOfEnergy
<1> HIDE DEF part
<1>2. amps = IF ~active \/ energy = 0 \/ ~low THEN base ELSE Smaller(base + part, ceiling)
  BY DEF PreFreeCurrent, part
<1> QED  BY <1>1, <1>2 DEF Smaller

\* No hold is one, and it is measured.
LEMMA NoHoldTyped == NoHold \in Holds /\ MeasuredHold(NoHold) /\ ~NoHold.share /\ NoHold.phase = "none"
  BY DEF NoHold, Holds, Phases, MeasuredHold

\* Without the soak its hold is dropped.
LEMMA SoakReset ==
    ASSUME NEW m, Memory(m), NEW k, k = ResetSoak(m)
    PROVE  /\ Memory(k) /\ k.soak = FALSE /\ k.active = m.active
           /\ k.hold = IF m.hold.phase = "spill" THEN NoHold ELSE m.hold
<1> DEFINE h == IF m.hold.phase = "spill" THEN NoHold ELSE m.hold
           no == FALSE
<1>1. h \in Holds /\ MeasuredHold(h)  BY NoHoldTyped DEF Memory
<1>2. no \in BOOLEAN  OBVIOUS
<1>3. k = [m EXCEPT !.soak = no, !.samples = << >>, !.hold = h]  BY DEF ResetSoak
<1> HIDE DEF h, no
<1>4. Memory(k) /\ k.soak = no /\ k.active = m.active /\ k.hold = h  BY <1>1, <1>2, <1>3 DEF Memory
<1> QED  BY <1>4 DEF h, no

\* A measured-solar stage asks for a current.
Active(solar) == solar.phase = "active"

\* The memory of a soak that goes on.
Soaking(m, h, samples, soak) == [m EXCEPT !.hold = h, !.samples = samples, !.soak = soak]

\* A memory that is given another hold, flag and history.
LEMMA SoakWritten ==
    ASSUME NEW m, Memory(m), NEW h \in Holds, MeasuredHold(h), NEW samples, NEW soak \in BOOLEAN,
           NEW k, k = Soaking(m, h, samples, soak)
    PROVE  Memory(k) /\ k.hold = h /\ k.soak = soak /\ k.active = m.active
  BY DEF Memory, Soaking

\* The soak keeps its flag only with a target that the spare energy pays for
\* (_solar_spill_decision).
LEMMA SoakStage ==
    ASSUME World, NEW t \in Int, NEW v \in Views, NEW m, Memory(m),
           NEW s, s = Soak(m, t, v)
    PROVE  /\ Memory(s.mem) /\ s.mem.active = m.active
           /\ s.mem.hold = m.hold \/ s.mem.hold = NoHold
           /\ Active(s.solar) =>
                s.solar.amps \in Int /\ s.solar.amps <= SoakCeiling(Budget, PreFreeCeiling)
           /\ s.mem.soak => Active(s.solar)
<1> DEFINE h == IF Broken(m.samples, t) /\ m.hold.phase = "spill" THEN NoHold ELSE m.hold
           yes == TRUE
           history == Observed(m.samples, t, Surplus(v))
           cut == [m EXCEPT !.hold = h, !.samples = history, !.soak = yes]
           solar == SoakSolar(Mean(cut.samples, t), Budget, Low, PreFreeCeiling)
<1>1. s = IF ~SoakAuthority(t) THEN [mem |-> ResetSoak(m), solar |-> None("unavailable")]
          ELSE [mem |-> IF Active(solar) THEN cut ELSE ResetSoak(cut), solar |-> solar]
  BY DEF Soak, Active
<1>2. h \in Holds /\ MeasuredHold(h) /\ (h = m.hold \/ h = NoHold)  BY NoHoldTyped DEF Memory
<1>3. yes \in BOOLEAN  OBVIOUS
<1> HIDE DEF h, yes, history
<1>4. Memory(cut) /\ cut.hold = h /\ cut.active = m.active
  <2>1. cut = Soaking(m, h, history, yes)  BY DEF Soaking
  <2> HIDE DEF cut
  <2> QED  BY <1>2, <1>3, <2>1, SoakWritten
<1>5. Active(solar) =>
         solar.amps \in Int /\ solar.amps <= SoakCeiling(Budget, PreFreeCeiling)
  <2> HIDE DEF cut
  <2>1. Budget \in Nat /\ PreFreeCeiling \in Nat  BY Offers
  <2> QED  BY <2>1, SoakBounded DEF Active
<1> HIDE DEF cut, solar
<1>6. CASE ~SoakAuthority(t)
  <2>1. s.mem = ResetSoak(m) /\ ~Active(s.solar)  BY <1>1, <1>6 DEF None, Active
  <2> QED  BY <2>1, SoakReset
<1>7. CASE SoakAuthority(t) /\ Active(solar)
  <2>1. s.mem = cut /\ s.solar = solar  BY <1>1, <1>7
  <2> QED  BY <1>2, <1>4, <1>5, <1>7, <2>1
<1>8. CASE SoakAuthority(t) /\ ~Active(solar)
  <2>1. s.mem = ResetSoak(cut) /\ s.solar = solar  BY <1>1, <1>8
  <2> QED  BY <1>2, <1>4, <1>8, <2>1, SoakReset
<1> QED  BY <1>6, <1>7, <1>8

\* The spill stage, entered without the soak's flag.
LEMMA SpillStage ==
    ASSUME World, NEW t \in Int, NEW v \in Views, NEW m, Memory(m), ~m.soak,
           NEW s, s = Spill(m, t, v)
    PROVE  /\ Memory(s.mem) /\ s.mem.active = m.active
           /\ s.mem.hold = m.hold \/ s.mem.hold = NoHold
           /\ Active(s.solar) => s.solar.amps \in Int
           /\ s.mem.soak => /\ Active(s.solar)
                            /\ s.solar.amps <= SoakCeiling(Budget, PreFreeCeiling)
<1> DEFINE measured == MeasuredSolar(Surplus(v), Coherent, house.battery = 3, Low, Boosted(t), Ceiling)
<1>1. \/ s.mem = m /\ s.solar = None("disabled")
      \/ s = Soak(m, t, v)
      \/ (s.mem = m \/ s.mem = ResetSoak(m)) /\ s.solar = measured
  BY DEF Spill
<1>2. CASE s.mem = m /\ s.solar = None("disabled")  BY <1>2 DEF None, Active
<1>3. CASE s = Soak(m, t, v)  BY <1>3, SoakStage
<1>4. CASE (s.mem = m \/ s.mem = ResetSoak(m)) /\ s.solar = measured
  <2>1. measured.amps \in Int
    <3>1. Surplus(v) \in Int /\ Ceiling \in Int  BY SurplusTyped, CurrentsAssumption
    <3> QED  BY <3>1, MeasuredTyped
  <2> HIDE DEF measured
  <2>2. /\ Memory(s.mem) /\ s.mem.soak = FALSE /\ s.mem.active = m.active
        /\ s.mem.hold = m.hold \/ s.mem.hold = NoHold
    <3>1. m.soak = FALSE  BY DEF Memory
    <3> QED  BY <1>4, <3>1, SoakReset
  <2>3. s.solar = measured  BY <1>4
  <2> QED  BY <2>1, <2>2, <2>3
<1> QED  BY <1>1, <1>2, <1>3, <1>4

\* Morning capture asks for a number of amps.
LEMMA MorningStage ==
    ASSUME World, NEW t \in Int, NEW v \in Views
    PROVE  Morning(t, v).amps \in Int
<1>1. Surplus(v) \in Int /\ Ceiling \in Int  BY SurplusTyped, CurrentsAssumption
<1> QED  BY <1>1 DEF Morning, MeasuredSolar, Charge, None, Smaller

\* A held combined target is no higher than the total that is affordable now
\* (_combined_pre_free_adjustment).
LEMMA CombinedHeldPaid ==
    ASSUME World, NEW hold \in Holds, NEW t \in Int, NEW total \in Int, NEW energy \in Nat,
           NEW surplus \in Nat, NEW r, r = Combined(hold, t, total, energy, surplus)
    PROVE  /\ r.hold \in Holds /\ r.hold.share
           /\ r.hold.amps <= 0 \/ r.hold.amps <= total
<1> DEFINE prev == IF hold.share THEN hold ELSE NoHold
           reduced == prev.phase # "none" /\ total < prev.amps
           whole == CombinedCurrent(policy.base, energy, surplus,
                                    SpendingHorizon(NoHold, t, ToFree(t)), PreFreeCeiling, Low)
           asked == IF reduced THEN Smaller(total, whole) ELSE total
           morning == "morning"  no == FALSE
           limited == RateLimit(prev, t, morning, asked, surplus, reduced, no, AdjustTicks)
           amps == Smaller(limited.hold.amps, PreFreeCeiling)
           yes == TRUE
<1>1. r = [limited EXCEPT !.hold.amps = amps, !.hold.share = yes]  BY DEF Combined
<1>2. prev \in Holds /\ prev.amps \in Int  BY NoHoldTyped DEF Holds
<1> HIDE DEF prev
<1>3. whole \in Int
  <2>1. policy.base \in Nat /\ PreFreeCeiling \in Nat  BY Offers
  <2>2. ToFree(t) \in Int  BY PreFreeOffers
  <2>3. SpendingHorizon(NoHold, t, ToFree(t)) \in Int /\ SpendingHorizon(NoHold, t, ToFree(t)) >= 1
    BY <2>2, NoHoldTyped, HorizonTyped
  <2> QED  BY <2>1, <2>3, CombinedPaid
<1> HIDE DEF whole
<1>4. asked \in Int /\ asked <= total  BY <1>3 DEF Smaller
<1>5. yes \in BOOLEAN /\ yes /\ morning \in Measures
      /\ AdjustTicks \in Int /\ surplus \in Int
  BY PacingAssumption DEF Measures
<1>6. ~reduced /\ prev.phase = morning => prev.amps <= total  BY <1>2
<1>7. reduced => asked <= total  BY <1>4
<1>8. reduced /\ prev.phase = morning => asked < prev.amps  BY <1>2, <1>4
<1>9. morning # "none"  OBVIOUS
<1> HIDE DEF reduced, asked, no, morning, yes
<1>10. /\ limited.hold \in Holds
       /\ limited.hold = NoHold \/ limited.hold.phase = morning
       /\ limited.hold.phase = morning =>
            \/ limited.hold.amps <= asked
            \/ /\ prev.phase = morning /\ limited.hold.amps = prev.amps
               /\ ~(asked < prev.amps /\ reduced)
  <2>1. limited = RateLimit(prev, t, morning, asked, surplus, reduced, no, AdjustTicks)  OBVIOUS
  <2> HIDE DEF limited
  <2> QED  BY <1>2, <1>4, <1>5, <2>1, RateLimited
<1>11. limited.hold.amps <= 0 \/ limited.hold.amps <= total
  <2>1. limited.hold.amps \in Int  BY <1>10 DEF Holds
  <2>2. NoHold.amps = 0  BY DEF NoHold
  <2> HIDE DEF limited
  <2> QED  BY <1>2, <1>4, <1>6, <1>10, <1>8, <2>1, <2>2
<1>12. limited = [hold |-> limited.hold, stamped |-> limited.stamped, held |-> limited.held]
  BY DEF RateLimit
<1> HIDE DEF limited
<1>13. amps \in Int /\ amps <= limited.hold.amps /\ limited.hold.amps \in Int
  <2>1. limited.hold.amps \in Int /\ PreFreeCeiling \in Nat  BY <1>10, Offers DEF Holds
  <2> QED  BY <2>1 DEF Smaller
<1> HIDE DEF amps
<1>14. r.hold = [limited.hold EXCEPT !.amps = amps, !.share = yes]  BY <1>1, <1>12
<1>15. r.hold \in Holds /\ r.hold.share = yes /\ r.hold.amps = amps
  BY <1>5, <1>10, <1>13, <1>14 DEF Holds
<1> QED  BY <1>5, <1>11, <1>13, <1>15

\* A memory with another session, and one with another hold as well.
WithSession(m, active) == [m EXCEPT !.active = active]
WithHold(m, hold) == [m EXCEPT !.hold = hold]

\* Either leaves the rest of the memory alone.
LEMMA SessionWritten ==
    ASSUME NEW m, Memory(m), NEW active, NEW k, k = WithSession(m, active)
    PROVE  Memory(k) /\ k.hold = m.hold /\ k.soak = m.soak /\ k.active = active
  BY DEF Memory, WithSession

\* The same for a hold.
LEMMA HoldWritten ==
    ASSUME NEW m, Memory(m), NEW h \in Holds, MeasuredHold(h), NEW k, k = WithHold(m, h)
    PROVE  Memory(k) /\ k.hold = h /\ k.soak = m.soak /\ k.active = m.active
  BY DEF Memory, WithHold

\* The pre-free stage asks for no more than the baseline, the sun and the spare energy pay,
\* whether it keeps a held total, spends a fixed current or has nothing to spend.
LEMMA PreFreeStage ==
    ASSUME World, NEW t \in Int, NEW v \in Views, NEW m, Memory(m), NEW morning,
           NEW p, p = PreFree(m, t, v, morning)
    PROVE  /\ Memory(p.mem) /\ p.mem.soak = m.soak
           /\ p.amps \in Int /\ p.amps <= policy.base + Surplus(v) + house.spare
           /\ p.combined => p.mem.active
<1> DEFINE base == policy.base
           energy == PreFreeEnergy(t)
           surplus == Surplus(v)
           early == Requested(m, t, v, morning)
           total == CombinedCurrent(base, energy, surplus, SpendingHorizon(m.hold, t, ToFree(t)),
                                    PreFreeCeiling, Low)
           together == early /\ total > base /\ total >= Minimum /\ house.trouble # "export"
           eligible == /\ InPreFree(t) /\ house.trouble # "export" /\ energy > 0 /\ Low
                       /\ IF early THEN together ELSE Planned(energy, base, PreFreeCeiling)
           active == Session(m.active, eligible,
                             together \/ LatestStart(energy, base, PreFreeCeiling, ToFree(t)))
           adjusted == Combined(m.hold, t, total, energy, surplus)
           amps == adjusted.hold.amps
           fixed == PreFreeCurrent(active, base, energy, ToFree(t), PreFreeCeiling, Low)
           plain == WithSession(m, active)
           paid == base + surplus + house.spare
<1>1. p = IF ~policy.preFree
            THEN [mem |-> WithSession(m, FALSE), amps |-> base, combined |-> FALSE, stamped |-> FALSE]
          ELSE IF ~(together /\ active)
            THEN [mem |-> plain, amps |-> fixed, combined |-> FALSE, stamped |-> FALSE]
          ELSE IF amps > base /\ amps >= Minimum
            THEN [mem |-> WithHold(plain, adjusted.hold), amps |-> amps, combined |-> TRUE,
                  stamped |-> adjusted.stamped \/ ~m.active]
          ELSE [mem |-> WithHold(WithSession(m, FALSE), NoHold), amps |-> base,
                combined |-> FALSE, stamped |-> FALSE]
  <2>1. [m EXCEPT !.active = FALSE, !.hold = NoHold] = WithHold(WithSession(m, FALSE), NoHold)
    BY DEF WithHold, WithSession, Memory
  <2> QED  BY <2>1 DEF PreFree, WithHold, WithSession
<1>2. /\ base \in Nat /\ energy \in Nat /\ surplus \in Nat /\ energy <= house.spare
      /\ house.spare \in Nat /\ PreFreeCeiling \in Nat /\ ToFree(t) \in Int /\ ToFree(t) >= 1
  BY Offers, SurplusTyped, PreFreeOffers
<1>3. m.hold \in Holds  BY DEF Memory
<1> HIDE DEF base, energy, surplus, early, eligible
<1>4. total \in Int /\ total <= base + surplus + energy
  <2>1. /\ SpendingHorizon(m.hold, t, ToFree(t)) \in Int
        /\ SpendingHorizon(m.hold, t, ToFree(t)) >= 1
    BY <1>2, <1>3, HorizonTyped
  <2> QED  BY <1>2, <2>1, CombinedPaid
<1>5. fixed \in Int /\ fixed <= base + energy
  <2> HIDE DEF active
  <2> QED  BY <1>2, FixedPaid
<1> HIDE DEF total, fixed, active, together
<1>6. /\ adjusted.hold \in Holds /\ adjusted.hold.share
      /\ amps \in Int /\ (amps <= 0 \/ amps <= total)
  <2>1. /\ adjusted.hold \in Holds /\ adjusted.hold.share
        /\ adjusted.hold.amps <= 0 \/ adjusted.hold.amps <= total
    <3> HIDE DEF adjusted
    <3>1. adjusted = Combined(m.hold, t, total, energy, surplus)  BY DEF adjusted
    <3> QED  BY <1>2, <1>3, <1>4, <3>1, CombinedHeldPaid
  <2> QED  BY <2>1 DEF Holds
<1>7. MeasuredHold(adjusted.hold)  BY <1>6 DEF MeasuredHold
<1> HIDE DEF adjusted
<1>8. Memory(plain) /\ plain.soak = m.soak /\ plain.active = active  BY SessionWritten
<1>9. /\ Memory(WithSession(m, FALSE)) /\ WithSession(m, FALSE).soak = m.soak
  BY SessionWritten
<1> HIDE DEF plain
<1>10. paid \in Int /\ base <= paid /\ (amps > base => amps <= paid) /\ fixed <= paid
  <2>1. base \in Int /\ 0 <= base /\ surplus \in Int /\ 0 <= surplus /\ house.spare \in Int
        /\ 0 <= house.spare /\ energy \in Int /\ 0 <= energy
    BY <1>2
  <2>2. paid \in Int /\ base <= paid /\ base + surplus + energy <= paid /\ base + energy <= paid
    BY <1>2, <2>1
  <2> HIDE DEF amps, paid
  <2>3. amps > base => amps <= paid
    BY <1>4, <1>6, <2>1, <2>2
  <2>4. fixed <= paid
    BY <1>5, <2>1, <2>2
  <2> QED  BY <2>2, <2>3, <2>4
<1> DEFINE kept == WithHold(plain, adjusted.hold)
           released == WithSession(m, FALSE)
           withdrawn == WithHold(released, NoHold)
           whole == amps > base /\ amps >= Minimum
           both == together /\ active
<1>11. paid = policy.base + Surplus(v) + house.spare  BY DEF base, surplus
<1>12. Memory(kept) /\ kept.soak = m.soak /\ kept.active = active
  BY <1>6, <1>7, <1>8, HoldWritten
<1>13. Memory(withdrawn) /\ withdrawn.soak = m.soak
  BY <1>9, NoHoldTyped, HoldWritten
<1>14. base \in Int /\ fixed \in Int /\ amps \in Int
  <2> HIDE DEF amps, kept, released, withdrawn, whole, both
  <2> QED  BY <1>2, <1>5, <1>6
<1>15. Memory(released) /\ released.soak = m.soak  BY <1>9
<1>16. (whole => amps > base) /\ (both => active)  OBVIOUS
<1> HIDE DEF paid, kept, released, withdrawn, amps, whole, both
<1>17. p = IF ~policy.preFree
             THEN [mem |-> released, amps |-> base, combined |-> FALSE, stamped |-> FALSE]
           ELSE IF ~both THEN [mem |-> plain, amps |-> fixed, combined |-> FALSE, stamped |-> FALSE]
           ELSE IF whole
             THEN [mem |-> kept, amps |-> amps, combined |-> TRUE,
                   stamped |-> adjusted.stamped \/ ~m.active]
           ELSE [mem |-> withdrawn, amps |-> base, combined |-> FALSE, stamped |-> FALSE]
  BY <1>1 DEF both, whole, kept, released, withdrawn
<1>18. \/ p.mem = released /\ p.amps = base /\ p.combined = FALSE
       \/ p.mem = plain /\ p.amps = fixed /\ p.combined = FALSE
       \/ both /\ whole /\ p.mem = kept /\ p.amps = amps
       \/ p.mem = withdrawn /\ p.amps = base /\ p.combined = FALSE
  BY <1>17
<1> QED  BY <1>8, <1>10, <1>11, <1>12, <1>13, <1>14, <1>18, <1>15, <1>16

\* The paced solar target: measured, and for the soak within what is spare now, because a
\* held target above it is curtailed (_apply_measured_solar_adjustment).
LEMMA MeasuredStage ==
    ASSUME World, NEW t \in Int, NEW m, Memory(m), ~m.hold.share, NEW morning, NEW spill,
           morning.amps \in Int, Active(spill) => spill.amps \in Int,
           m.soak => Active(spill) /\ spill.amps <= SoakCeiling(Budget, PreFreeCeiling),
           NEW r, r = Measured(m, t, morning, spill)
    PROVE  /\ r.hold \in Holds /\ MeasuredHold(r.hold) /\ ~r.hold.share
           /\ m.soak /\ r.hold.phase = "spill" => r.hold.amps <= Budget
<1> DEFINE day == "morning"  dusk == "spill"
           phase == IF Active(morning) THEN day ELSE dusk
           solar == IF Active(morning) THEN morning ELSE spill
           every == IF m.soak THEN SoakTicks ELSE AdjustTicks
           limit == RateLimit(m.hold, t, phase, solar.amps, solar.amps, Curtail(m), ~m.soak, every)
<1>1. r = IF ~Active(solar) THEN [hold |-> NoHold, stamped |-> FALSE] ELSE limit
  BY DEF Measured, Active
<1>2. /\ phase \in Measures /\ m.hold \in Holds /\ MeasuredHold(m.hold) /\ every \in Int
      /\ m.hold.amps \in Int
  <2>1. m.hold \in Holds /\ MeasuredHold(m.hold)  BY DEF Memory
  <2>2. every \in Int  BY PacingAssumption
  <2>3. phase \in Measures  BY DEF Measures
  <2> QED  BY <2>1, <2>2, <2>3 DEF Holds
<1>3. Active(solar) => solar.amps \in Int  OBVIOUS
<1>4. phase = dusk => solar = spill  OBVIOUS
<1>5. dusk # "none"  OBVIOUS
<1> HIDE DEF phase, solar, every, day, limit
<1>6. CASE ~Active(solar)
  <2>1. r.hold = NoHold  BY <1>1, <1>6
  <2>2. NoHold.phase # "spill"  BY DEF NoHold
  <2> QED  BY <2>1, <2>2, NoHoldTyped
<1>7. CASE Active(solar)
  <2>1. r = limit  BY <1>1, <1>7
  <2>2. limit = RateLimit(m.hold, t, phase, solar.amps, solar.amps, Curtail(m), ~m.soak, every)
    BY DEF limit
  <2>3. solar.amps \in Int /\ solar.amps <= solar.amps  BY <1>3, <1>7
  <2>4. /\ r.hold \in Holds /\ MeasuredHold(r.hold) /\ ~r.hold.share
        /\ r.hold = NoHold \/ r.hold.phase = phase
        /\ r.hold.phase = phase =>
             \/ r.hold.amps <= solar.amps
             \/ r.hold.amps = m.hold.amps /\ ~(solar.amps < m.hold.amps /\ Curtail(m))
    BY <1>2, <2>1, <2>2, <2>3, RateLimited
  <2>5. ASSUME m.soak, r.hold.phase = dusk PROVE r.hold.amps <= Budget
    <3>1. r.hold.phase = phase /\ solar = spill
      <4>1. NoHold.phase # dusk  BY DEF NoHold
      <4> QED  BY <1>4, <2>4, <2>5, <4>1
    <3>2. /\ solar.amps <= SoakCeiling(Budget, PreFreeCeiling)
          /\ SoakCeiling(Budget, PreFreeCeiling) <= Budget
          /\ SoakCeiling(Budget, PreFreeCeiling) \in Int /\ Budget \in Nat
      BY <2>5, <3>1, Offers
    <3> DEFINE most == SoakCeiling(Budget, PreFreeCeiling)
    <3>3. m.hold.amps > 0 /\ most < m.hold.amps => Curtail(m)  BY <2>5 DEF Curtail
    <3>4. r.hold.amps \in Int  BY <2>4 DEF Holds
    <3> HIDE DEF most
    <3>5. solar.amps <= most /\ most <= Budget /\ most \in Int /\ Budget \in Nat
      BY <3>2 DEF most
    <3>6. CASE r.hold.amps <= solar.amps  BY <2>3, <3>4, <3>5, <3>6
    <3>7. CASE r.hold.amps = m.hold.amps /\ ~(solar.amps < m.hold.amps /\ Curtail(m))
      <4>1. SUFFICES ASSUME m.hold.amps > Budget PROVE FALSE
        BY <1>2, <3>5, <3>7
      <4>2. m.hold.amps > 0 /\ most < m.hold.amps /\ solar.amps < m.hold.amps
        BY <1>2, <2>3, <3>5, <4>1
      <4> QED  BY <3>3, <3>7, <4>2
    <3> QED  BY <2>4, <3>1, <3>6, <3>7
  <2> QED  BY <2>4, <2>5
<1> QED  BY <1>6, <1>7

\* The hold after the pre-free stage (_calculate_outside_target).
LEMMA PacedStage ==
    ASSUME World, NEW t \in Int, NEW p, Memory(p.mem), NEW morning, NEW spill,
           morning.amps \in Int, Active(spill) => spill.amps \in Int,
           p.mem.soak => Active(spill) /\ spill.amps <= SoakCeiling(Budget, PreFreeCeiling),
           NEW q, q = Paced(p, t, morning, spill)
    PROVE  /\ Memory(q.mem) /\ q.mem.active = p.mem.active
           /\ IF p.combined THEN q.mem = p.mem ELSE ~q.mem.hold.share
           /\ ~p.combined /\ ~q.mem.active /\ q.mem.soak /\ q.mem.hold.phase = "spill"
                => q.mem.hold.amps <= Budget
<1> DEFINE drop == DropAllowance(p.mem.hold)
           m == WithHold(p.mem, drop)
           solar == Measured(m, t, morning, spill)
           bounded == Smaller(solar.hold.amps, PreFreeCeiling)
           cut == policy.preFree /\ solar.hold.phase = "morning" /\ bounded < solar.hold.amps
           lower == [solar.hold EXCEPT !.amps = bounded]
           hold == IF ~cut THEN solar.hold ELSE IF bounded < Minimum THEN NoHold ELSE lower
<1>1. q = IF p.combined THEN [mem |-> p.mem, stamped |-> p.stamped]
          ELSE IF m.active THEN [mem |-> WithHold(m, NoHold), stamped |-> p.stamped]
          ELSE [mem |-> WithHold(m, hold), stamped |-> solar.stamped]
  BY DEF Paced, WithHold
<1>2. p.mem.hold \in Holds /\ MeasuredHold(p.mem.hold)  BY DEF Memory
<1>3. drop \in Holds /\ MeasuredHold(drop) /\ ~drop.share
  BY <1>2, NoHoldTyped DEF DropAllowance
<1> HIDE DEF drop
<1>4. Memory(m) /\ m.hold = drop /\ m.soak = p.mem.soak /\ m.active = p.mem.active
  BY <1>3, HoldWritten
<1> HIDE DEF m
<1>5. /\ solar.hold \in Holds /\ MeasuredHold(solar.hold) /\ ~solar.hold.share
      /\ m.soak /\ solar.hold.phase = "spill" => solar.hold.amps <= Budget
  BY <1>3, <1>4, MeasuredStage
<1> HIDE DEF solar
<1>6. bounded \in Int /\ bounded <= solar.hold.amps /\ solar.hold.amps \in Int /\ solar.hold.peak \in Int
  <2>1. solar.hold.amps \in Int /\ PreFreeCeiling \in Nat /\ solar.hold.peak \in Int
    BY <1>5, Offers DEF Holds
  <2> QED  BY <2>1 DEF Smaller
<1> HIDE DEF bounded
<1>7. /\ lower \in Holds /\ lower.phase = solar.hold.phase /\ lower.share = solar.hold.share
      /\ lower.amps = bounded /\ lower.peak = solar.hold.peak
  BY <1>5, <1>6 DEF Holds
<1> HIDE DEF lower
<1>8. MeasuredHold(lower) /\ ~lower.share  BY <1>5, <1>6, <1>7 DEF MeasuredHold
<1>9. /\ hold \in Holds /\ MeasuredHold(hold) /\ ~hold.share
      /\ m.soak /\ hold.phase = "spill" => hold.amps <= Budget
  <2>1. CASE ~cut  BY <1>5, <2>1
  <2>2. CASE cut
    <3>1. lower.phase # "spill" /\ NoHold.phase # "spill"  BY <1>7, <2>2 DEF NoHold
    <3> QED  BY <1>7, <1>8, <2>2, <3>1, NoHoldTyped
  <2> QED  BY <2>1, <2>2
<1> HIDE DEF hold
<1>10. /\ Memory(WithHold(m, NoHold)) /\ WithHold(m, NoHold).active = m.active
       /\ WithHold(m, NoHold).hold = NoHold
  BY <1>4, NoHoldTyped, HoldWritten
<1>11. /\ Memory(WithHold(m, hold)) /\ WithHold(m, hold).active = m.active
       /\ WithHold(m, hold).soak = m.soak /\ WithHold(m, hold).hold = hold
  BY <1>4, <1>9, HoldWritten
<1>12. CASE p.combined
  <2>1. q.mem = p.mem  BY <1>1, <1>12
  <2> QED  BY <1>12, <2>1
<1>13. CASE ~p.combined /\ m.active
  <2>1. q.mem = WithHold(m, NoHold)  BY <1>1, <1>13
  <2>2. ~q.mem.hold.share  BY <1>10, <2>1, NoHoldTyped
  <2>3. Memory(q.mem) /\ q.mem.active = p.mem.active /\ q.mem.active  BY <1>4, <1>10, <1>13, <2>1
  <2> QED  BY <1>13, <2>2, <2>3
<1>14. CASE ~p.combined /\ ~m.active
  <2>1. q.mem = WithHold(m, hold)  BY <1>1, <1>14
  <2>2. /\ Memory(q.mem) /\ q.mem.active = p.mem.active /\ q.mem.soak = m.soak
        /\ q.mem.hold = hold
    BY <1>4, <1>11, <2>1
  <2>3. ~q.mem.hold.share  BY <1>9, <2>2
  <2>4. q.mem.soak /\ q.mem.hold.phase = "spill" => q.mem.hold.amps <= Budget  BY <1>9, <2>2
  <2> QED  BY <1>14, <2>2, <2>3, <2>4
<1> QED  BY <1>12, <1>13, <1>14

\* The stages that spend the battery's energy, and what they may ask of a house.
Backed == {"combined", "pre_free", "soak"}
Paid(v) == policy.base + Surplus(v) + house.spare

\* The selected stage (select_outside_stage_candidate) is paid for if it is backed by the
\* battery: a soak's hold and a pre-free current both are.
LEMMA SelectedStage ==
    ASSUME World, NEW v \in Views, NEW p, NEW m, Memory(m),
           p.amps \in Int, p.amps <= Paid(v), p.combined => m.active,
           ~p.combined /\ ~m.active /\ m.soak /\ m.hold.phase = "spill" => m.hold.amps <= Budget,
           NEW w, w = Select(p, m)
    PROVE  /\ Memory(w.mem) /\ w.amps \in Int
           /\ w.stage \in Backed => w.amps <= Paid(v)
<1> DEFINE held == m.hold.phase
           stage == IF p.combined THEN "combined" ELSE IF m.active THEN "pre_free"
                    ELSE IF held # "none" THEN held ELSE "base"
           amps == IF m.active THEN p.amps ELSE IF stage = "base" THEN policy.base ELSE m.hold.amps
           kept == IF stage = "spill" THEN m ELSE ResetSoak(m)
           final == IF kept.soak THEN "soak" ELSE stage
<1>1. w = [mem |-> kept, stage |-> final, amps |-> Smaller(amps, Ceiling)]  BY DEF Select
<1>2. Memory(kept) /\ (stage # "spill" => kept.soak = FALSE) /\ (stage = "spill" => kept.soak = m.soak)
  BY SoakReset
<1>3. m.hold.amps \in Int /\ held \in Phases  BY DEF Memory, Holds
<1>4. amps \in Int  BY <1>3, Offers
<1>5. Paid(v) \in Int /\ Budget <= Paid(v) /\ Budget \in Int
  <2>1. /\ Surplus(v) \in Nat /\ house.spare \in Nat /\ policy.base \in Nat /\ Budget \in Nat
        /\ Budget <= house.spare
    BY SurplusTyped, Offers
  <2> QED  BY <2>1 DEF Paid
<1>6. final \in Backed => amps <= Paid(v)
  <2>1. CASE stage = "spill"
    <3>1. ~p.combined /\ ~m.active /\ held = "spill"  BY <2>1
    <3>2. amps = m.hold.amps  BY <2>1, <3>1
    <3> HIDE DEF amps, stage, kept
    <3>3. final \in Backed => m.soak  BY <1>2, <2>1 DEF Backed
    <3> QED  BY <1>3, <1>5, <3>1, <3>2, <3>3
  <2>2. CASE stage = "combined"
    <3>1. p.combined  BY <1>3, <2>2 DEF Phases
    <3>2. amps = p.amps  BY <3>1
    <3> QED  BY <3>2
  <2>3. CASE stage = "pre_free"
    <3>1. m.active  BY <1>3, <2>3 DEF Phases
    <3>2. amps = p.amps  BY <3>1
    <3> QED  BY <3>2
  <2>4. CASE stage \notin {"spill", "combined", "pre_free"}
    <3>1. stage # "soak"  BY <1>3 DEF Phases
    <3> HIDE DEF stage, amps, kept
    <3>2. final = stage  BY <1>2, <2>4
    <3> QED  BY <2>4, <3>1, <3>2 DEF Backed
  <2> QED  BY <2>1, <2>2, <2>3, <2>4
<1> HIDE DEF kept, final, amps, stage
<1>7. Smaller(amps, Ceiling) \in Int /\ Smaller(amps, Ceiling) <= amps
  BY <1>4, CurrentsAssumption DEF Smaller
<1> QED  BY <1>1, <1>2, <1>4, <1>5, <1>6, <1>7

\* What a decision may leave: a memory, a target, and for a stage backed by the battery a
\* target that the baseline, the sun and the spare energy pay.
Decided(o, v) == Memory(o.mem) /\ o.target \in Int /\ (o.stage \in Backed => o.target <= Paid(v))

\* A stop and a baseline spend nothing.
LEMMA HaltDecided ==
    ASSUME World, NEW v \in Views, NEW c, NEW m, Memory(m), NEW o, o = Halt(m, c)
    PROVE  Decided(o, v)
<1> DEFINE k == [m EXCEPT !.stop = c.on]
           target == IF c.on THEN 0 ELSE NoTarget
<1>1. Memory(k)  BY DEF Memory
<1>2. target \in Int  BY DEF NoTarget
<1> HIDE DEF k, target
<1>3. o = [mem |-> k, target |-> target, stage |-> "base", stamped |-> FALSE]
  BY DEF Halt, Aim, k, target
<1>4. o.stage \notin Backed  BY <1>3 DEF Backed
<1> QED  BY <1>1, <1>2, <1>3, <1>4 DEF Decided

\* A rejected candidate leaves no hold.
LEMMA RejectedMemory ==
    ASSUME NEW m, Memory(m)
    PROVE  Memory(Rejected(m)) /\ Memory([Rejected(m) EXCEPT !.active = FALSE])
<1>1. Memory(ResetSoak(m))  BY SoakReset
<1>2. Rejected(m) = WithHold(ResetSoak(m), NoHold)  BY DEF Rejected, WithHold
<1>3. Memory(Rejected(m))  BY <1>1, <1>2, NoHoldTyped, HoldWritten
<1>4. [Rejected(m) EXCEPT !.active = FALSE] = WithSession(Rejected(m), FALSE)  BY DEF WithSession
<1>5. Memory(WithSession(Rejected(m), FALSE))  BY <1>3, SessionWritten
<1> QED  BY <1>3, <1>4, <1>5

\* A cycle outside the free window (_observed_outside_target).
LEMMA OutsideDecided ==
    ASSUME World, NEW t \in Int, NEW v \in Views, NEW m, Memory(m), NEW o, o = Outside(m, t, v)
    PROVE  Decided(o, v)
<1> DEFINE ended == [Rejected(m) EXCEPT !.active = FALSE]
           quiet == [m EXCEPT !.soak = FALSE]
           spill == Spill(quiet, t, v)
           morning == Morning(t, v)
           free == PreFree(spill.mem, t, v, morning)
           paced == Paced(free, t, morning, spill.solar)
           won == Select(free, paced.mem)
           reserve == house.battery = 0
<1>1. o = IF policy.base = 0 /\ (reserve \/ won.stage = "base")
            THEN Halt(IF reserve THEN ended ELSE won.mem, v)
          ELSE IF reserve THEN Aim(ended, policy.base, "base", FALSE)
          ELSE Aim(won.mem, won.amps, won.stage, paced.stamped)
  BY DEF Outside
<1>2. Memory(ended)  BY RejectedMemory
<1>3. Memory(quiet) /\ ~quiet.soak
  <2> DEFINE no == FALSE
  <2>1. no \in BOOLEAN /\ ~no  OBVIOUS
  <2>2. quiet = [m EXCEPT !.soak = no]  OBVIOUS
  <2> HIDE DEF no, quiet
  <2>3. Memory(quiet) /\ quiet.soak = no  BY <2>1, <2>2 DEF Memory
  <2> QED  BY <2>1, <2>3
<1> HIDE DEF ended, quiet
<1>4. /\ Memory(spill.mem)
      /\ Active(spill.solar) => spill.solar.amps \in Int
      /\ spill.mem.soak => /\ Active(spill.solar)
                           /\ spill.solar.amps <= SoakCeiling(Budget, PreFreeCeiling)
  BY <1>3, SpillStage
<1>5. morning.amps \in Int  BY MorningStage
<1> HIDE DEF spill, morning
<1>6. /\ Memory(free.mem) /\ free.mem.soak = spill.mem.soak
      /\ free.amps \in Int /\ free.amps <= Paid(v)
      /\ free.combined => free.mem.active
  BY <1>4, PreFreeStage DEF Paid
<1> HIDE DEF free
<1>7. /\ Memory(paced.mem) /\ paced.mem.active = free.mem.active
      /\ ~free.combined /\ ~paced.mem.active /\ paced.mem.soak /\ paced.mem.hold.phase = "spill"
           => paced.mem.hold.amps <= Budget
  <2> DEFINE solar == spill.solar
  <2>1. paced = Paced(free, t, morning, solar)  OBVIOUS
  <2>2. /\ Active(solar) => solar.amps \in Int
        /\ free.mem.soak => Active(solar) /\ solar.amps <= SoakCeiling(Budget, PreFreeCeiling)
    BY <1>4, <1>6
  <2> HIDE DEF paced, solar
  <2> QED  BY <1>5, <1>6, <2>1, <2>2, PacedStage
<1> HIDE DEF paced
<1>8. /\ Memory(won.mem) /\ won.amps \in Int
      /\ won.stage \in Backed => won.amps <= Paid(v)
  BY <1>6, <1>7, SelectedStage
<1> HIDE DEF won, reserve
<1>9. policy.base \in Int  BY Offers
<1>10. CASE o = Halt(IF reserve THEN ended ELSE won.mem, v)
  BY <1>2, <1>8, <1>10, HaltDecided
<1>11. CASE o = Aim(ended, policy.base, "base", FALSE)
  BY <1>2, <1>9, <1>11 DEF Aim, Decided, Backed
<1>12. CASE o = Aim(won.mem, won.amps, won.stage, paced.stamped)
  BY <1>8, <1>12 DEF Aim, Decided
<1> QED  BY <1>1, <1>10, <1>11, <1>12

-----------------------------------------------------------------------------
(* The inductive invariant of the cycle.                                    *)

\* The record that a restart brings back.
Record(d) ==
    /\ d = [hold |-> d.hold, active |-> d.active, stop |-> d.stop, samples |-> d.samples]
    /\ d.hold \in Holds /\ MeasuredHold(d.hold)

\* Memory and store hold no target that was not measured.
HoldInv == Memory(mem) /\ Record(disk)

\* What the cycle captured and decided.
JobInv ==
    /\ job = [at |-> job.at, view |-> job.view, target |-> job.target, stage |-> job.stage,
              lossy |-> job.lossy, due |-> job.due, clean |-> job.clean]
    /\ job.at \in Int /\ job.view \in Views /\ job.target \in Int
    /\ run = [stage |-> run.stage, calm |-> run.calm]

\* Undisturbed, the cycle decides by the car that is, its target is paid for, and a target
\* that needs no command is the car's; then the charge spends spare energy.
ViewInv == pc = "decide" /\ job.clean => job.view = View
TargetInv == pc \in {"store", "act"} /\ job.clean /\ job.stage \in Backed => job.target <= Paid(View)
DueInv == pc = "store" /\ job.clean /\ ~job.due => car.amps = job.target
SpendInv == run.stage \in Backed => Spending <= house.spare

SolarInv == /\ ClockInv /\ World /\ HoldInv /\ JobInv
            /\ ViewInv /\ TargetInv /\ DueInv /\ SpendInv

\* The car as a cycle captures it.
LEMMA ViewTyped ==
    ASSUME World
    PROVE  View \in Views /\ Paid(View) = policy.base + house.surplus + house.spare
<1>1. Draw \in Int  BY Offers
<1>2. car \in Cars  BY DEF World
<1> DEFINE draw == Draw
<1>3. draw \in Int  BY <1>1
<1> HIDE DEF draw
<1>4. View = [plugged |-> car.plugged, on |-> car.on, amps |-> car.amps, draw |-> draw]
  BY DEF View, draw
<1>5. View \in Views  BY <1>2, <1>3, <1>4 DEF Views, Cars
<1> QED  BY <1>5, SurplusTyped DEF Paid

\* An empty memory.
LEMMA NoMemoryTyped == Memory(NoMemory) /\ Record(Stored(NoMemory))
<1>1. Memory(NoMemory)
  <2> DEFINE no == FALSE
  <2>1. no \in BOOLEAN  OBVIOUS
  <2>2. NoMemory = [hold |-> NoHold, active |-> no, stop |-> no, soak |-> no, samples |-> << >>]
    BY DEF NoMemory
  <2> HIDE DEF no
  <2> QED  BY <2>1, <2>2, NoHoldTyped DEF Memory
<1>2. NoMemory.hold = NoHold  BY DEF NoMemory
<1> QED  BY <1>1, <1>2, NoHoldTyped DEF Record, Stored

\* What is stored of a memory, and what a restart makes of it.
LEMMA StoredRecord ==
    ASSUME NEW m, Memory(m)
    PROVE  Record(Stored(m)) /\ Record(Defaults(m))
  BY NoHoldTyped DEF Memory, Record, Stored, Defaults

\* A restored memory.
LEMMA RestoredMemory ==
    ASSUME NEW d, Record(d), NEW t \in Int
    PROVE  Memory(Restored(d, t))
<1> DEFINE broken == Broken(d.samples, t)
           soaking == d.hold.phase = "spill" /\ ~broken
           hold == IF d.hold.phase = "spill" /\ ~soaking THEN NoHold ELSE d.hold
           samples == IF broken THEN << >> ELSE d.samples
<1>1. Restored(d, t) = [hold |-> hold, active |-> d.active, stop |-> d.stop, soak |-> soaking,
                        samples |-> samples]
  BY DEF Restored
<1>2. hold \in Holds /\ MeasuredHold(hold)  BY NoHoldTyped DEF Record
<1>3. soaking \in BOOLEAN  OBVIOUS
<1> HIDE DEF hold, soaking, samples
<1> QED  BY <1>1, <1>2, <1>3 DEF Memory

\* The decision of a cycle: whatever it goes by, and, undisturbed, by the car that is.
LEMMA OutcomeDecided ==
    ASSUME SolarInv, pc = "decide"
    PROVE  /\ Memory(Outcome.mem) /\ Outcome.target \in Int
           /\ job.clean /\ Outcome.stage \in Backed => Outcome.target <= Paid(View)
<1> DEFINE o == Outcome  t == job.at  rejected == Rejected(mem)
<1>1. Memory(mem) /\ World /\ t \in Int /\ now \in Int /\ job.view \in Views /\ View \in Views
  BY ViewTyped DEF SolarInv, HoldInv, JobInv, ClockInv
<1>2. job.clean => job.view = View  BY DEF SolarInv, ViewInv
<1>3. o = IF ~job.view.plugged
            THEN Aim(IF mem.stop /\ car.on THEN ResetSoak(mem) ELSE NoMemory, NoTarget, "base", FALSE)
          ELSE IF InFree(t) THEN Aim(NoMemory, NoTarget, "base", FALSE)
          ELSE IF ~UsesCurrentBudget(mem, t) THEN Outside(mem, t, job.view)
          ELSE IF ~InFree(now) THEN Outside(mem, now, View)
          ELSE IF mem.stop THEN Halt([rejected EXCEPT !.active = FALSE], job.view)
          ELSE Aim(rejected, NoTarget, "base", FALSE)
  BY DEF Outcome
<1>4. Memory(rejected) /\ Memory([rejected EXCEPT !.active = FALSE])  BY <1>1, RejectedMemory
<1>5. Memory(ResetSoak(mem)) /\ Memory(NoMemory)  BY <1>1, SoakReset, NoMemoryTyped
<1> HIDE DEF o, rejected, t
<1>6. ASSUME NEW m, Memory(m), o = Aim(m, NoTarget, "base", FALSE)
      PROVE  Decided(o, View)
  BY <1>6 DEF Aim, Decided, NoTarget, Backed
<1>7. ASSUME NEW v \in Views, Decided(o, v), v = View \/ v = job.view
      PROVE  Memory(o.mem) /\ o.target \in Int /\ (job.clean /\ o.stage \in Backed => o.target <= Paid(View))
  BY <1>2, <1>7 DEF Decided
<1>8. \E v \in Views : Decided(o, v) /\ (v = View \/ v = job.view)
  <2> DEFINE ended == [rejected EXCEPT !.active = FALSE]
             emptied == IF mem.stop /\ car.on THEN ResetSoak(mem) ELSE NoMemory
  <2>1. \/ o = Aim(emptied, NoTarget, "base", FALSE)
        \/ o = Aim(NoMemory, NoTarget, "base", FALSE)
        \/ o = Outside(mem, t, job.view)
        \/ o = Outside(mem, now, View)
        \/ o = Halt(ended, job.view)
        \/ o = Aim(rejected, NoTarget, "base", FALSE)
    BY <1>3
  <2>2. Memory(emptied) /\ Memory(ended)  BY <1>4, <1>5
  <2> HIDE DEF emptied, ended
  <2>3. CASE o = Aim(emptied, NoTarget, "base", FALSE)  BY <1>1, <1>6, <2>2, <2>3
  <2>4. CASE o = Aim(NoMemory, NoTarget, "base", FALSE)  BY <1>1, <1>5, <1>6, <2>4
  <2>5. CASE o = Outside(mem, t, job.view)  BY <1>1, <2>5, OutsideDecided
  <2>6. CASE o = Outside(mem, now, View)  BY <1>1, <2>6, OutsideDecided
  <2>7. CASE o = Halt(ended, job.view)  BY <1>1, <2>2, <2>7, HaltDecided
  <2>8. CASE o = Aim(rejected, NoTarget, "base", FALSE)  BY <1>1, <1>4, <1>6, <2>8
  <2> QED  BY <2>1, <2>3, <2>4, <2>5, <2>6, <2>7, <2>8
<1> QED  BY <1>7, <1>8 DEF o

\* A charge by a target that is paid for spends no more than the spare energy.
LEMMA SpendsPaid ==
    ASSUME World, Draw <= Paid(View)
    PROVE  Spending <= house.spare
<1> DEFINE draw == Draw
<1>1. /\ draw \in Int /\ house.spare \in Nat /\ house.surplus \in Nat /\ policy.base \in Nat
      /\ draw <= policy.base + house.surplus + house.spare
  BY Offers, ViewTyped
<1> HIDE DEF draw
<1>2. Spending = Larger(draw - policy.base - house.surplus, 0)  BY DEF Spending, draw
<1> QED  BY <1>1, <1>2 DEF Larger

\* Steps that leave the house, the car and the policy alone.
LEMMA Unmoved ==
    ASSUME World, house' = house, car' = car, policy' = policy, site' = site
    PROVE  World' /\ View' = View /\ Spending' = Spending /\ Paid(View)' = Paid(View)
<1>1. World'  BY DEF World
<1>2. Draw' = Draw  BY DEF Draw
<1>3. View' = View  BY <1>2 DEF View
<1>4. Spending' = Spending  BY <1>2 DEF Spending
<1>5. Paid(View)' = Paid(View)
  <2>1. Surplus(View)' = Surplus(View)  BY <1>2, <1>3 DEF Surplus
  <2> QED  BY <2>1 DEF Paid
<1> QED  BY <1>1, <1>3, <1>4, <1>5

\* Nothing is captured, nothing is decided.
LEMMA NoJobTyped == NoJob.at \in Int /\ NoJob.view \in Views /\ NoJob.target \in Int /\ NoJob.clean = FALSE
<1> DEFINE no == FALSE
           view == [plugged |-> no, on |-> no, amps |-> 0, draw |-> 0]
<1>1. no \in BOOLEAN  OBVIOUS
<1>2. NoJob.view = view  BY DEF NoJob
<1> HIDE DEF no
<1>3. view \in Views  BY <1>1 DEF Views
<1> HIDE DEF view
<1>4. NoJob.at \in Int /\ NoJob.target \in Int /\ NoJob.clean = FALSE  BY DEF NoJob, NoTarget
<1> QED  BY <1>2, <1>3, <1>4

\* A cycle that ends leaves nothing decided; what it captured is a cycle's.
LEMMA EndedJob ==
    ASSUME NEW t \in Int, NEW j, j = [NoJob EXCEPT !.at = t]
    PROVE  /\ j = [at |-> j.at, view |-> j.view, target |-> j.target, stage |-> j.stage,
                   lossy |-> j.lossy, due |-> j.due, clean |-> j.clean]
           /\ j.at \in Int /\ j.view \in Views /\ j.target \in Int /\ j.clean = FALSE
<1>1. j.at = t /\ j.view = NoJob.view /\ j.target = NoJob.target /\ j.clean = NoJob.clean
  BY DEF NoJob
<1>2. j = [at |-> j.at, view |-> j.view, target |-> j.target, stage |-> j.stage,
           lossy |-> j.lossy, due |-> j.due, clean |-> j.clean]
  BY DEF NoJob
<1> QED  BY <1>1, <1>2, NoJobTyped

\* A disturbance ends what the cycle may rely on.
LEMMA DisturbedJob ==
    ASSUME JobInv, Disturbed
    PROVE  JobInv' /\ job'.clean = FALSE /\ run'.stage \notin Backed
<1>1. run' = [stage |-> "none", calm |-> FALSE]  BY DEF Disturbed, NoRun
<1>2. job' = [job EXCEPT !.clean = FALSE]  BY DEF Disturbed
<1>3. run' = [stage |-> run'.stage, calm |-> run'.calm] /\ run'.stage \notin Backed
  BY <1>1 DEF Backed
<1>4. /\ job'.at = job.at /\ job'.view = job.view /\ job'.target = job.target /\ job'.clean = FALSE
      /\ job' = [at |-> job'.at, view |-> job'.view, target |-> job'.target, stage |-> job'.stage,
                 lossy |-> job'.lossy, due |-> job'.due, clean |-> job'.clean]
  BY <1>2 DEF JobInv
<1> QED  BY <1>3, <1>4 DEF JobInv

\* The end of a cycle that does not count as having gone to plan.
LEMMA NotCounted == NoRun = [stage |-> NoRun.stage, calm |-> NoRun.calm] /\ NoRun.stage \notin Backed
  BY DEF NoRun, Backed

\* A capture.
LEMMA LookStep == ASSUME SolarInv, Look PROVE SolarInv'
<1>1. /\ World /\ HoldInv /\ JobInv /\ SpendInv /\ ClockInv /\ now \in Int
  BY DEF SolarInv, ClockInv
<1>2. UNCHANGED <<now, site, policy, house, car, mem, left>>  BY DEF Look
<1>3. World' /\ View' = View /\ Spending' = Spending /\ ClockInv'
  BY <1>1, <1>2, Unmoved DEF ClockInv
<1>4. CASE /\ pc' = "decide" /\ job' = [NoJob EXCEPT !.at = now, !.view = View, !.clean = TRUE]
           /\ disk' \in {disk, Stored(mem)} /\ UNCHANGED <<run, events>>
  <2>1. Record(disk)' /\ Memory(mem)'  BY <1>1, <1>2, <1>4, StoredRecord DEF HoldInv, Record, Memory
  <2>2. /\ job'.at = now /\ job'.view = View /\ job'.target = NoJob.target
        /\ job' = [at |-> job'.at, view |-> job'.view, target |-> job'.target, stage |-> job'.stage,
                   lossy |-> job'.lossy, due |-> job'.due, clean |-> job'.clean]
    BY <1>4 DEF NoJob
  <2>3. JobInv'  BY <1>1, <1>4, <2>2, ViewTyped, NoJobTyped DEF JobInv
  <2>4. ViewInv' /\ TargetInv' /\ DueInv'  BY <1>3, <1>4, <2>2 DEF ViewInv, TargetInv, DueInv
  <2>5. SpendInv'  BY <1>1, <1>2, <1>3, <1>4 DEF SpendInv
  <2> QED  BY <1>3, <2>1, <2>3, <2>4, <2>5 DEF SolarInv, HoldInv
<1>5. CASE pc' = "idle" /\ job' = [NoJob EXCEPT !.at = now] /\ run' = NoRun /\ UNCHANGED disk
  <2>1. Record(disk)' /\ Memory(mem)'  BY <1>1, <1>2, <1>5 DEF HoldInv, Record, Memory
  <2>2. JobInv'  BY <1>1, <1>5, EndedJob, NotCounted DEF JobInv
  <2>3. ViewInv' /\ TargetInv' /\ DueInv' /\ SpendInv'
    BY <1>5, NotCounted DEF ViewInv, TargetInv, DueInv, SpendInv
  <2> QED  BY <1>3, <2>1, <2>2, <2>3 DEF SolarInv, HoldInv
<1> QED  BY <1>4, <1>5 DEF Look

\* A decision.
LEMMA DecideStep == ASSUME SolarInv, Decide PROVE SolarInv'
<1> DEFINE o == Outcome
           fresh == UsesCurrentBudget(mem, job.at)
           due == Due(o.target, IF fresh THEN View ELSE job.view)
           decided == [job EXCEPT !.target = o.target, !.stage = o.stage,
                                  !.lossy = fresh /\ o.stamped, !.due = due]
<1>1. World /\ HoldInv /\ JobInv /\ SpendInv /\ ClockInv /\ ViewInv  BY DEF SolarInv
<1>2. /\ UNCHANGED <<now, site, policy, house, car, disk, left, events>> /\ pc = "decide"
      /\ mem' = o.mem
  BY DEF Decide
<1>3. /\ World' /\ View' = View /\ Spending' = Spending /\ ClockInv'
      /\ Paid(View)' = Paid(View)
  BY <1>1, <1>2, Unmoved DEF ClockInv
<1>4. /\ Memory(o.mem) /\ o.target \in Int
      /\ job.clean /\ o.stage \in Backed => o.target <= Paid(View)
  BY <1>2, OutcomeDecided
<1>5. HoldInv'  BY <1>1, <1>2, <1>4 DEF HoldInv, Record, Memory
<1>6. \E calm : run' = [run EXCEPT !.calm = calm]  BY DEF Decide
<1>7. run' = [stage |-> run'.stage, calm |-> run'.calm] /\ run'.stage = run.stage
  BY <1>1, <1>6 DEF JobInv
<1>8. SpendInv'  BY <1>1, <1>2, <1>3, <1>7 DEF SpendInv
<1>9. IF o.target = NoTarget THEN End ELSE pc' = "store" /\ job' = decided
  BY DEF Decide
<1>10. job.clean => job.view = View  BY <1>1, <1>2 DEF ViewInv
<1> HIDE DEF o, fresh
<1>11. CASE o.target = NoTarget
  <2>1. pc' = "idle" /\ job' = [NoJob EXCEPT !.at = job.at]  BY <1>9, <1>11 DEF End
  <2>2. JobInv'  BY <1>1, <1>7, <2>1, EndedJob DEF JobInv
  <2>3. ViewInv' /\ TargetInv' /\ DueInv'  BY <2>1 DEF ViewInv, TargetInv, DueInv
  <2> QED  BY <1>3, <1>5, <1>8, <2>2, <2>3 DEF SolarInv
<1>12. CASE o.target # NoTarget
  <2>1. pc' = "store" /\ job' = decided  BY <1>9, <1>12
  <2> HIDE DEF due
  <2>2. /\ job'.at = job.at /\ job'.view = job.view /\ job'.target = o.target
        /\ job'.stage = o.stage /\ job'.due = due /\ job'.clean = job.clean
        /\ job' = [at |-> job'.at, view |-> job'.view, target |-> job'.target, stage |-> job'.stage,
                   lossy |-> job'.lossy, due |-> job'.due, clean |-> job'.clean]
    BY <1>1, <2>1 DEF JobInv
  <2>3. JobInv'  BY <1>1, <1>4, <1>7, <2>2 DEF JobInv
  <2>4. ViewInv' /\ TargetInv'  BY <1>3, <1>4, <2>1, <2>2 DEF ViewInv, TargetInv
  <2>5. job.clean /\ ~due => car.amps = o.target
    <3>1. ~due => (IF fresh THEN View ELSE job.view).amps = o.target  BY DEF due, Due
    <3>2. View.amps = car.amps  BY DEF View
    <3> QED  BY <1>10, <3>1, <3>2
  <2>6. DueInv'  BY <1>2, <2>2, <2>5 DEF DueInv
  <2> QED  BY <1>3, <1>5, <1>8, <2>3, <2>4, <2>6 DEF SolarInv
<1> QED  BY <1>11, <1>12

\* A save before the command, or in its place.
LEMMA StoreStep == ASSUME SolarInv, Store PROVE SolarInv'
<1>1. World /\ HoldInv /\ JobInv /\ ClockInv /\ TargetInv /\ DueInv /\ SpendInv  BY DEF SolarInv
<1>2. UNCHANGED <<now, site, policy, house, car, mem, left>> /\ pc = "store"  BY DEF Store
<1>3. /\ World' /\ View' = View /\ Spending' = Spending /\ ClockInv'
      /\ Paid(View)' = Paid(View)
  BY <1>1, <1>2, Unmoved DEF ClockInv
<1>4. Record(disk)'
  <2>1. disk' = disk \/ disk' = Defaults(mem) \/ disk' = Stored(mem)  BY DEF Store
  <2>2. Memory(mem) /\ Record(disk)  BY <1>1 DEF HoldInv
  <2>3. Record(Defaults(mem)) /\ Record(Stored(mem))  BY <2>2, StoredRecord
  <2>4. CASE disk' = disk  BY <2>2, <2>4 DEF Record
  <2>5. CASE disk' = Defaults(mem)  BY <2>3, <2>5 DEF Record
  <2>6. CASE disk' = Stored(mem)  BY <2>3, <2>6 DEF Record
  <2> QED  BY <2>1, <2>4, <2>5, <2>6
<1>5. HoldInv'  BY <1>1, <1>2, <1>4 DEF HoldInv, Memory
<1> DEFINE counted == [run EXCEPT !.stage = IF job.clean THEN job.stage ELSE "none"]
<1>6. \/ job.due /\ pc' = "act" /\ UNCHANGED <<job, run>>
      \/ ~job.due /\ End /\ run' = counted
      \/ End /\ run' = NoRun
  BY DEF Store
<1>7. CASE job.due /\ pc' = "act" /\ UNCHANGED <<job, run>>
  <2>1. JobInv'  BY <1>1, <1>7 DEF JobInv
  <2>2. ViewInv' /\ TargetInv' /\ DueInv' /\ SpendInv'
    BY <1>1, <1>2, <1>3, <1>7 DEF ViewInv, TargetInv, DueInv, SpendInv
  <2> QED  BY <1>3, <1>5, <2>1, <2>2 DEF SolarInv
<1>8. ASSUME End
      PROVE  /\ pc' = "idle" /\ ViewInv' /\ TargetInv' /\ DueInv'
             /\ run' = [stage |-> run'.stage, calm |-> run'.calm] => JobInv'
  <2>1. pc' = "idle" /\ job' = [NoJob EXCEPT !.at = job.at]  BY <1>8 DEF End
  <2>2. job.at \in Int  BY <1>1 DEF JobInv
  <2>3. run' = [stage |-> run'.stage, calm |-> run'.calm] => JobInv'
    BY <2>1, <2>2, EndedJob DEF JobInv
  <2>4. ViewInv' /\ TargetInv' /\ DueInv'  BY <2>1 DEF ViewInv, TargetInv, DueInv
  <2> QED  BY <2>1, <2>3, <2>4
<1>9. CASE ~job.due /\ End /\ run' = counted
  <2>1. /\ run'.stage = IF job.clean THEN job.stage ELSE "none"
        /\ run' = [stage |-> run'.stage, calm |-> run'.calm]
    BY <1>1, <1>9 DEF JobInv
  <2>2. job.clean /\ job.stage \in Backed => Spending <= house.spare
    <3> SUFFICES ASSUME job.clean, job.stage \in Backed PROVE Spending <= house.spare  OBVIOUS
    <3>1. job.target <= Paid(View) /\ car.amps = job.target
      BY <1>1, <1>2, <1>9 DEF TargetInv, DueInv
    <3>2. Paid(View) \in Int /\ 0 <= Paid(View)
      <4>1. /\ Paid(View) = policy.base + house.surplus + house.spare
            /\ policy.base \in Nat /\ house.surplus \in Nat /\ house.spare \in Nat
        BY <1>1, ViewTyped, Offers
      <4> QED  BY <4>1
    <3>3. Draw = car.amps \/ Draw = 0  BY DEF Draw
    <3>4. Draw <= Paid(View)  BY <3>1, <3>2, <3>3
    <3> QED  BY <1>1, <3>4, SpendsPaid
  <2>3. SpendInv'  BY <1>2, <1>3, <2>1, <2>2 DEF SpendInv, Backed
  <2> QED  BY <1>3, <1>5, <1>8, <1>9, <2>1, <2>3 DEF SolarInv
<1>10. CASE End /\ run' = NoRun
  <2>1. SpendInv'  BY <1>10, NotCounted DEF SpendInv
  <2> QED  BY <1>3, <1>5, <1>8, <1>10, <2>1, NotCounted DEF SolarInv
<1> QED  BY <1>6, <1>7, <1>9, <1>10

\* A command: one of the soak is sent on the authority of its own moment.
LEMMA ActStep == ASSUME SolarInv, Act PROVE SolarInv'
<1>1. World /\ HoldInv /\ JobInv /\ ClockInv /\ TargetInv /\ SpendInv  BY DEF SolarInv
<1>2. UNCHANGED <<now, site, policy, house, mem, disk, left>> /\ pc = "act" /\ End  BY DEF Act
<1>3. HoldInv' /\ ClockInv'  BY <1>1, <1>2 DEF HoldInv, Memory, Record, ClockInv
<1>4. pc' = "idle" /\ job' = [NoJob EXCEPT !.at = job.at] /\ job.at \in Int
  BY <1>1, <1>2 DEF End, JobInv
<1>5. ViewInv' /\ TargetInv' /\ DueInv'  BY <1>4 DEF ViewInv, TargetInv, DueInv
<1>6. run' = [stage |-> run'.stage, calm |-> run'.calm] => JobInv'
  BY <1>4, EndedJob DEF JobInv
<1> DEFINE sent == IF ~car.plugged THEN car
                   ELSE IF job.target = 0 THEN [car EXCEPT !.on = FALSE]
                   ELSE [car EXCEPT !.on = TRUE, !.amps = job.target]
           counted == [run EXCEPT !.stage = IF job.clean \/ mem.soak THEN job.stage ELSE "none"]
<1>7. \/ (mem.soak => SoakWriteAuthorized) /\ car' = sent /\ run' = counted
      \/ run' = NoRun /\ UNCHANGED car
  BY DEF Act
<1>8. CASE run' = NoRun /\ UNCHANGED car
  <2>1. World'  BY <1>1, <1>2, <1>8, Unmoved
  <2>2. SpendInv'  BY <1>8, NotCounted DEF SpendInv
  <2> QED  BY <1>3, <1>5, <1>6, <1>8, <2>1, <2>2, NotCounted DEF SolarInv
<1>9. CASE (mem.soak => SoakWriteAuthorized) /\ car' = sent /\ run' = counted
  <2>1. job.target \in Int /\ car \in Cars  BY <1>1 DEF JobInv, World
  <2>2. car' \in Cars
    <3> DEFINE yes == TRUE  no == FALSE
    <3>1. yes \in BOOLEAN /\ no \in BOOLEAN  OBVIOUS
    <3>2. \/ car' = car \/ car' = [car EXCEPT !.on = no]
          \/ car' = [car EXCEPT !.on = yes, !.amps = job.target]
      BY <1>9
    <3> HIDE DEF yes, no, sent
    <3> QED  BY <2>1, <3>1, <3>2 DEF Cars
  <2>3. World'  BY <1>1, <1>2, <2>2 DEF World
  <2>4. Draw' = 0 \/ Draw' = job.target
    <3>1. CASE ~car.plugged  BY <1>9, <3>1 DEF Draw
    <3>2. CASE car.plugged /\ job.target = 0
      <4>1. car' = [car EXCEPT !.on = FALSE]  BY <1>9, <3>2
      <4>2. car'.on = FALSE  BY <2>1, <4>1 DEF Cars
      <4> QED  BY <4>2 DEF Draw
    <3>3. CASE car.plugged /\ job.target # 0
      <4>1. car' = [car EXCEPT !.on = TRUE, !.amps = job.target]  BY <1>9, <3>3
      <4>2. car'.amps = job.target  BY <2>1, <4>1 DEF Cars
      <4> QED  BY <4>2 DEF Draw
    <3> QED  BY <3>1, <3>2, <3>3
  <2>5. /\ run'.stage = IF job.clean \/ mem.soak THEN job.stage ELSE "none"
        /\ run' = [stage |-> run'.stage, calm |-> run'.calm]
    BY <1>1, <1>9 DEF JobInv
  <2>6. /\ Paid(View) = policy.base + house.surplus + house.spare
        /\ policy.base \in Nat /\ house.surplus \in Nat /\ house.spare \in Nat
        /\ Budget \in Nat /\ Budget <= house.spare
    BY <1>1, ViewTyped, Offers
  <2>7. (job.clean \/ mem.soak) /\ job.stage \in Backed
          => job.target <= policy.base + house.surplus + house.spare
    <3>1. job.clean /\ job.stage \in Backed => job.target <= Paid(View)
      BY <1>1, <1>2 DEF TargetInv
    <3>2. mem.soak => job.target <= Budget  BY <1>9 DEF SoakWriteAuthorized
    <3> HIDE DEF sent, counted
    <3>3. Budget <= policy.base + house.surplus + house.spare  BY <2>6
    <3> QED  BY <2>1, <2>6, <3>1, <3>2, <3>3
  <2>8. SpendInv'
    <3> SUFFICES ASSUME run'.stage \in Backed PROVE Spending' <= house'.spare  BY DEF SpendInv
    <3>1. (job.clean \/ mem.soak) /\ job.stage \in Backed  BY <2>5 DEF Backed
    <3> DEFINE draw == Draw'
    <3>2. /\ draw \in Int /\ draw <= policy.base + house.surplus + house.spare
      BY <2>1, <2>4, <2>6, <2>7, <3>1
    <3> HIDE DEF draw
    <3>3. Spending' = Larger(draw - policy.base - house.surplus, 0)
      BY <1>2 DEF Spending, draw
    <3> QED  BY <1>2, <2>6, <3>2, <3>3 DEF Larger
  <2> QED  BY <1>3, <1>5, <1>6, <2>3, <2>5, <2>8 DEF SolarInv
<1> QED  BY <1>7, <1>8, <1>9

\* A tick.
LEMMA PassStep == ASSUME SolarInv, Pass PROVE SolarInv'
<1>1. World /\ HoldInv /\ JobInv /\ ClockInv  BY DEF SolarInv
<1>2. UNCHANGED <<site, policy, mem, disk, pc>>  BY DEF Pass
<1>3. HoldInv'  BY <1>1, <1>2 DEF HoldInv, Memory, Record
<1>4. ClockInv'
  <2>1. left > 0 /\ left' = left - 1 /\ now' = now + 1 /\ site' = site  BY DEF Pass
  <2> QED  BY <1>1, <2>1, HorizonAssumption DEF ClockInv
<1>5. World'
  <2> DEFINE spare == Larger(house.spare - Spending, 0)
             room == IF car.room = Ample THEN car.room ELSE Larger(car.room - Draw, 0)
  <2>1. house' = [house EXCEPT !.spare = spare] /\ car' = [car EXCEPT !.room = room]
    BY DEF Pass
  <2>2. Draw \in Int /\ house.spare \in Nat /\ house.surplus \in Nat /\ policy.base \in Nat
    BY <1>1, Offers
  <2>3. Spending \in Int
    <3> DEFINE draw == Draw
    <3>1. draw \in Int  BY <2>2
    <3> HIDE DEF draw
    <3>2. Spending = Larger(draw - policy.base - house.surplus, 0)  BY DEF Spending, draw
    <3> QED  BY <2>2, <3>1, <3>2 DEF Larger
  <2>4. spare \in Nat
    <3> DEFINE spending == Spending
    <3>1. spending \in Int  BY <2>3
    <3> HIDE DEF spending
    <3>2. spare = Larger(house.spare - spending, 0)  BY DEF spending
    <3> QED  BY <2>2, <3>1, <3>2 DEF Larger
  <2>5. room \in Nat
    <3> DEFINE draw == Draw
    <3>1. draw \in Int  BY <2>2
    <3> HIDE DEF draw
    <3>2. room = IF car.room = Ample THEN car.room ELSE Larger(car.room - draw, 0)  BY DEF draw
    <3>3. car.room \in Nat  BY <1>1 DEF World, Cars
    <3> QED  BY <3>1, <3>2, <3>3 DEF Larger
  <2> HIDE DEF spare, room
  <2>6. house' \in Measurements /\ car' \in Cars
    BY <1>1, <2>1, <2>4, <2>5 DEF World, Measurements, Cars
  <2> QED  BY <1>1, <1>2, <2>6 DEF World
<1>6. run'.stage \notin Backed /\ run' = [stage |-> run'.stage, calm |-> run'.calm]
  BY DEF Pass, Backed
<1>7. CASE pc = "idle" /\ job.at = now
  <2>1. job' = job /\ pc' = "idle"  BY <1>2, <1>7 DEF Pass
  <2>2. JobInv'  BY <1>1, <1>6, <2>1 DEF JobInv
  <2>3. ViewInv' /\ TargetInv' /\ DueInv' /\ SpendInv'
    BY <1>6, <2>1 DEF ViewInv, TargetInv, DueInv, SpendInv
  <2> QED  BY <1>3, <1>4, <1>5, <2>2, <2>3 DEF SolarInv
<1>8. CASE ~(pc = "idle" /\ job.at = now)
  <2>1. job' = [job EXCEPT !.clean = FALSE]  BY <1>8 DEF Pass
  <2>2. /\ job'.at = job.at /\ job'.view = job.view /\ job'.target = job.target /\ job'.clean = FALSE
        /\ job' = [at |-> job'.at, view |-> job'.view, target |-> job'.target, stage |-> job'.stage,
                   lossy |-> job'.lossy, due |-> job'.due, clean |-> job'.clean]
    BY <1>1, <2>1 DEF JobInv
  <2>3. JobInv'  BY <1>1, <1>6, <2>2 DEF JobInv
  <2>4. ViewInv' /\ TargetInv' /\ DueInv' /\ SpendInv'
    BY <1>6, <2>2 DEF ViewInv, TargetInv, DueInv, SpendInv
  <2> QED  BY <1>3, <1>4, <1>5, <2>3, <2>4 DEF SolarInv
<1> QED  BY <1>7, <1>8

\* The house changes: nothing that the cycle has captured or decided counts any more.
LEMMA HouseChangeStep == ASSUME SolarInv, HouseChange PROVE SolarInv'
<1>1. World /\ HoldInv /\ JobInv /\ ClockInv  BY DEF SolarInv
<1>2. Disturbed /\ UNCHANGED <<now, site, policy, car, mem, disk, pc, left>>  BY DEF HouseChange
<1>3. HoldInv' /\ ClockInv'  BY <1>1, <1>2 DEF HoldInv, Memory, Record, ClockInv
<1>4. JobInv' /\ ViewInv' /\ TargetInv' /\ DueInv' /\ SpendInv'
  BY <1>1, <1>2, DisturbedJob DEF ViewInv, TargetInv, DueInv, SpendInv
<1>5. house \in Measurements  BY <1>1 DEF World
<1>6. house' \in Measurements
  <2>1. ASSUME NEW amps \in 0 .. MaxSurplus, house' = [house EXCEPT !.surplus = amps]
        PROVE  house' \in Measurements
    <3>1. amps \in Nat  BY SolarBoundsAssumption
    <3> QED  BY <1>5, <2>1, <3>1 DEF Measurements
  <2>2. ASSUME NEW energy \in 0 .. MaxSpare, house' = [house EXCEPT !.spare = energy]
        PROVE  house' \in Measurements
    <3>1. energy \in Nat  BY SolarBoundsAssumption
    <3> QED  BY <1>5, <2>2, <3>1 DEF Measurements
  <2>3. ASSUME NEW level \in 0 .. 3, house' = [house EXCEPT !.battery = level]
        PROVE  house' \in Measurements
    BY <1>5, <2>3 DEF Measurements
  <2>4. ASSUME NEW trouble \in Troubles, house' = [house EXCEPT !.trouble = trouble]
        PROVE  house' \in Measurements
    BY <1>5, <2>4 DEF Measurements
  <2>5. ASSUME house' = [house EXCEPT !.limit = ~@]
        PROVE  house' \in Measurements
    <3> DEFINE limit == ~house.limit
    <3>1. house' = [house EXCEPT !.limit = limit] /\ limit \in BOOLEAN  BY <2>5
    <3> HIDE DEF limit
    <3> QED  BY <1>5, <3>1 DEF Measurements
  <2> QED  BY <2>1, <2>2, <2>3, <2>4, <2>5 DEF HouseChange, Troubles
<1>7. World'  BY <1>1, <1>2, <1>6 DEF World
<1> QED  BY <1>3, <1>4, <1>7 DEF SolarInv

\* The driver or the car changes: likewise.
LEMMA CarChangeStep == ASSUME SolarInv, CarChange PROVE SolarInv'
<1>1. World /\ HoldInv /\ JobInv /\ ClockInv  BY DEF SolarInv
<1>2. Disturbed /\ UNCHANGED <<now, site, policy, house, mem, disk, pc, left>>  BY DEF CarChange
<1>3. HoldInv' /\ ClockInv'  BY <1>1, <1>2 DEF HoldInv, Memory, Record, ClockInv
<1>4. JobInv' /\ ViewInv' /\ TargetInv' /\ DueInv' /\ SpendInv'
  BY <1>1, <1>2, DisturbedJob DEF ViewInv, TargetInv, DueInv, SpendInv
<1>5. car \in Cars  BY <1>1 DEF World
<1> DEFINE yes == TRUE  no == FALSE
<1>6. yes \in BOOLEAN /\ no \in BOOLEAN  OBVIOUS
<1>7. \/ car' = [car EXCEPT !.plugged = no, !.on = no]
      \/ \E on \in BOOLEAN, room \in {SmallRoom, Ample} :
             car' = [car EXCEPT !.plugged = yes, !.on = on, !.room = room]
      \/ car' = [car EXCEPT !.on = ~@]
      \/ \E amps \in Minimum .. Ceiling : car' = [car EXCEPT !.amps = amps]
  BY DEF CarChange
<1> HIDE DEF yes, no
<1>8. CASE car' = [car EXCEPT !.plugged = no, !.on = no]
  <2>1. car' \in Cars  BY <1>5, <1>6, <1>8 DEF Cars
  <2>2. World'  BY <1>1, <1>2, <2>1 DEF World
  <2> QED  BY <1>3, <1>4, <2>2 DEF SolarInv
<1>9. ASSUME NEW on \in BOOLEAN, NEW room \in {SmallRoom, Ample},
             car' = [car EXCEPT !.plugged = yes, !.on = on, !.room = room]
      PROVE  SolarInv'
  <2>1. room \in Nat  BY SolarBoundsAssumption DEF Ample
  <2>2. car' \in Cars  BY <1>5, <1>6, <1>9, <2>1 DEF Cars
  <2>3. World'  BY <1>1, <1>2, <2>2 DEF World
  <2> QED  BY <1>3, <1>4, <2>3 DEF SolarInv
<1>10. CASE car' = [car EXCEPT !.on = ~@]
  <2> DEFINE on == ~car.on
  <2>1. car' = [car EXCEPT !.on = on] /\ on \in BOOLEAN  BY <1>10
  <2> HIDE DEF on
  <2>2. car' \in Cars  BY <1>5, <2>1 DEF Cars
  <2>3. World'  BY <1>1, <1>2, <2>2 DEF World
  <2> QED  BY <1>3, <1>4, <2>3 DEF SolarInv
<1>11. ASSUME NEW amps \in Minimum .. Ceiling, car' = [car EXCEPT !.amps = amps]
       PROVE  SolarInv'
  <2>1. car' \in Cars  BY <1>5, <1>11 DEF Cars
  <2>2. World'  BY <1>1, <1>2, <2>1 DEF World
  <2> QED  BY <1>3, <1>4, <2>2 DEF SolarInv
<1> QED  BY <1>7, <1>8, <1>9, <1>10, <1>11

\* A crash and the restart after it: what comes back was measured before it was stored.
LEMMA CrashStep == ASSUME SolarInv, Crash PROVE SolarInv'
<1>1. World /\ HoldInv /\ JobInv /\ ClockInv /\ now \in Int  BY DEF SolarInv, ClockInv
<1>2. /\ mem' = Restored(disk, now) /\ pc' = "idle" /\ job' = NoJob
      /\ UNCHANGED <<now, site, policy, house, car, disk, left>>
  BY DEF Crash
<1>3. World' /\ ClockInv'  BY <1>1, <1>2, Unmoved DEF ClockInv
<1>4. HoldInv'
  <2>1. Memory(Restored(disk, now)) /\ Record(disk)  BY <1>1, RestoredMemory DEF HoldInv
  <2> QED  BY <1>2, <2>1 DEF HoldInv, Memory, Record
<1>5. run'.stage \notin Backed /\ run' = [stage |-> run'.stage, calm |-> run'.calm]
  BY DEF Crash, Backed
<1>6. JobInv'
  <2>1. job' = [at |-> job'.at, view |-> job'.view, target |-> job'.target, stage |-> job'.stage,
                lossy |-> job'.lossy, due |-> job'.due, clean |-> job'.clean]
    BY <1>2 DEF NoJob
  <2>2. job'.at \in Int /\ job'.view \in Views /\ job'.target \in Int  BY <1>2, NoJobTyped
  <2> QED  BY <1>5, <2>1, <2>2 DEF JobInv
<1>7. ViewInv' /\ TargetInv' /\ DueInv' /\ SpendInv'
  BY <1>2, <1>5 DEF ViewInv, TargetInv, DueInv, SpendInv
<1> QED  BY <1>3, <1>4, <1>6, <1>7 DEF SolarInv

\* The start of a behaviour.
LEMMA SolarStart == Init => SolarInv
<1> SUFFICES ASSUME Init PROVE SolarInv  OBVIOUS
<1>1. ClockInv
  BY SolarBoundsAssumption, HorizonAssumption DEF Init, ClockInv
<1>2. World
  <2>1. house \in Measurements
    <3>1. house \in [surplus : 0 .. MaxSurplus, spare : 0 .. MaxSpare, battery : 0 .. 3,
                     limit : BOOLEAN, trouble : Troubles]
      BY DEF Init, Houses, Troubles
    <3>2. MaxSurplus \in Nat /\ MaxSpare \in Nat  BY SolarBoundsAssumption
    <3> QED  BY <3>1, <3>2 DEF Measurements
  <2>2. car \in Cars
    <3> DEFINE yes == TRUE  no == FALSE
    <3>1. yes \in BOOLEAN /\ no \in BOOLEAN  OBVIOUS
    <3>2. car = [plugged |-> yes, room |-> Ample, on |-> no, amps |-> Minimum]  BY DEF Init
    <3> HIDE DEF yes, no
    <3>3. Ample \in Nat /\ Minimum \in Int  BY CurrentsAssumption DEF Ample
    <3> QED  BY <3>1, <3>2, <3>3 DEF Cars
  <2>3. policy.base \in Nat
    <3>1. policy \in [morning : BOOLEAN, spill : BOOLEAN, preFree : BOOLEAN, base : Nat]
      BY SolarBoundsAssumption DEF Init
    <3> QED  BY <3>1
  <2> QED  BY <1>1, <2>1, <2>2, <2>3 DEF World, ClockInv
<1>3. HoldInv  BY NoMemoryTyped DEF Init, HoldInv
<1>4. JobInv
  <2>1. job = [at |-> job.at, view |-> job.view, target |-> job.target, stage |-> job.stage,
               lossy |-> job.lossy, due |-> job.due, clean |-> job.clean]
    BY DEF Init, NoJob
  <2> QED  BY <2>1, NoJobTyped, NotCounted DEF Init, JobInv
<1>5. ViewInv /\ TargetInv /\ DueInv /\ SpendInv
  BY NotCounted DEF Init, ViewInv, TargetInv, DueInv, SpendInv
<1> QED  BY <1>1, <1>2, <1>3, <1>4, <1>5 DEF SolarInv

\* At every moment of a behaviour the memory and the store hold measured targets only, an
\* undisturbed cycle decides by the car that is and for what pays, and the charge it counts
\* spends spare energy: the parts hold each other up, so they are one invariant.
THEOREM SolarInvariant == Spec => []SolarInv
<1>1. SolarInv /\ [Next]_vars => SolarInv'
  <2> SUFFICES ASSUME SolarInv, [Next]_vars PROVE SolarInv'  OBVIOUS
  <2>1. CASE Look  BY <2>1, LookStep
  <2>2. CASE Decide  BY <2>2, DecideStep
  <2>3. CASE Store  BY <2>3, StoreStep
  <2>4. CASE Act  BY <2>4, ActStep
  <2>5. CASE Pass  BY <2>5, PassStep
  <2>6. CASE HouseChange  BY <2>6, HouseChangeStep
  <2>7. CASE CarChange  BY <2>7, CarChangeStep
  <2>8. CASE Crash  BY <2>8, CrashStep
  <2>9. CASE UNCHANGED vars
    <3>1. World' /\ View' = View /\ Spending' = Spending /\ Paid(View)' = Paid(View)
      BY <2>9, Unmoved DEF SolarInv, vars
    <3>2. ClockInv' /\ HoldInv' /\ JobInv'
      BY <2>9 DEF vars, SolarInv, ClockInv, HoldInv, Memory, Record, JobInv
    <3>3. ViewInv' /\ TargetInv' /\ DueInv' /\ SpendInv'
      BY <2>9, <3>1 DEF vars, SolarInv, ViewInv, TargetInv, DueInv, SpendInv
    <3> QED  BY <3>1, <3>2, <3>3 DEF SolarInv
  <2> QED  BY <2>1, <2>2, <2>3, <2>4, <2>5, <2>6, <2>7, <2>8, <2>9 DEF Next, Rest
<1> QED  BY <1>1, SolarStart, PTL DEF Spec

\* No solar-only target stands above the solar request it was measured by, whatever the
\* clock times, the policies, the energies and the interleaving of cycle, house and restart.
THEOREM TargetsMeasured == Spec => []SolarIsMeasured
<1>1. SolarInv => SolarIsMeasured
  BY DEF SolarInv, HoldInv, Memory, MeasuredHold, SolarIsMeasured
<1> QED  BY <1>1, SolarInvariant, PTL

\* What a battery-backed stage takes from the battery in a tick was spare as the tick began.
THEOREM OnlySpareSpent == Spec => SpendsOnlySpare
<1>1. SolarInv => (Pass /\ run.stage \in {"combined", "pre_free", "soak"} => Spending <= house.spare)
  BY DEF SolarInv, SpendInv, Backed
<1>2. [][Next]_vars /\ []SolarInv => SpendsOnlySpare
  BY <1>1, PTL DEF SpendsOnlySpare
<1> QED  BY <1>2, SolarInvariant, PTL DEF Spec

-----------------------------------------------------------------------------
(* A combined target is paid for over the interval it is accepted for.      *)

\* A current is a part of an energy exactly if the energy pays it for all the ticks.
LEMMA PartPays ==
    ASSUME NEW e \in Nat, NEW n \in Int, n >= 1, NEW x \in Int
    PROVE  x <= e \div n <=> x * n <= e
<1> DEFINE q == e \div n
<1>1. q \in Int /\ n * q <= e /\ e < n * q + n  OBVIOUS
<1> HIDE DEF q
<1>2. ASSUME x <= q PROVE x * n <= e
  <2>1. n * (q - x) >= 0  BY <1>1, <1>2
  <2>2. n * (q - x) = n * q - x * n  BY <1>1
  <2> QED  BY <1>1, <2>1, <2>2
<1>3. ASSUME x >= q + 1 PROVE ~(x * n <= e)
  <2>1. n * (x - (q + 1)) >= 0  BY <1>1, <1>3
  <2>2. n * (x - (q + 1)) = x * n - (n * q + n)  BY <1>1
  <2> QED  BY <1>1, <2>1, <2>2
<1>4. x <= q \/ x >= q + 1  BY <1>1
<1> QED  BY <1>1, <1>2, <1>3, <1>4 DEF q

\* A tick costs its current once.
LEMMA TickPays ==
    ASSUME NEW x \in Int, NEW n \in Int, n >= 2, NEW e \in Int, e > 0, x * n <= e,
           NEW spent \in Int, spent = 0 \/ spent <= x
    PROVE  e - spent > 0 /\ x * (n - 1) <= e - spent
<1>1. x * n = x * (n - 1) + x  OBVIOUS
<1> DEFINE rest == x * (n - 1)
<1>2. rest \in Int  OBVIOUS
<1>3. x >= 1 => rest >= x
  <2>1. ASSUME x >= 1 PROVE rest >= x
    <3>1. x * (n - 2) >= 0  BY <2>1
    <3>2. rest = x * (n - 2) + x  OBVIOUS
    <3> QED  BY <3>1, <3>2
  <2> QED  BY <2>1
<1>4. x <= 0 => rest <= 0
  <2>1. ASSUME x <= 0 PROVE rest <= 0
    <3>1. (0 - x) * (n - 1) >= 0  BY <2>1
    <3>2. (0 - x) * (n - 1) = 0 - rest  OBVIOUS
    <3> QED  BY <1>2, <3>1, <3>2
  <2> QED  BY <2>1
<1>5. rest + x <= e  BY <1>1
<1> HIDE DEF rest
<1> QED  BY <1>2, <1>3, <1>4, <1>5 DEF rest

\* A free window that is closed stays closed until it next begins.
LEMMA FreeKept ==
    ASSUME TypeInv, NEW s \in Int, NEW t \in Int, s <= t, t < NextAt(s, site.freeStart),
           ~InFree(s)
    PROVE  ~InFree(t)
<1> DEFINE a == site.freeStart  b == site.freeEnd  d == Date(s)  m == At(d, 0)
<1>1. d \in Int /\ m \in Int /\ m <= s /\ s < m + Day  BY DateBounds, AtDate
<1>2. NextAt(s, a) = IF m + a <= s THEN m + Day + a ELSE m + a  BY SiteClocks, Next1
<1>3. d + 1 \in Int /\ At(d + 1, 0) = m + Day  BY <1>1, NextMidnight
<1>4. At(d, 0) = m  OBVIOUS
<1>5. ClockOf(s) = s - m  BY DEF ClockOf
<1>6. ~OnClock(ClockOf(s), a, b) /\ (InFree(t) <=> OnClock(ClockOf(t), a, b))
  BY SiteClocks, WindowOnClock DEF InFree
<1>7. /\ a \in Int /\ 0 <= a /\ a < Day /\ b \in Int /\ 0 <= b /\ b < Day /\ Day \in Int
  BY SiteClocks, DayAssumption DEF Clock
<1>8. t < NextAt(s, a)  OBVIOUS
<1> HIDE DEF a, b, d, m
<1>9. CASE t < m + Day
  <2>1. Date(t) = d  BY <1>1, <1>4, <1>9, DateUnique
  <2>2. ClockOf(t) = t - m  BY <1>4, <2>1 DEF ClockOf
  <2> QED  BY <1>1, <1>2, <1>5, <1>6, <1>7, <1>8, <1>9, <2>2 DEF OnClock
<1>10. CASE ~(t < m + Day)
  <2>1. m + a <= s /\ t < m + Day + a  BY <1>1, <1>2, <1>7, <1>8, <1>10
  <2>2. Date(t) = d + 1  BY <1>1, <1>3, <1>7, <1>10, <2>1, DateUnique
  <2>3. ClockOf(t) = t - (m + Day)  BY <1>3, <2>2 DEF ClockOf
  <2> QED  BY <1>1, <1>5, <1>6, <1>7, <1>10, <2>1, <2>3 DEF OnClock
<1> QED  BY <1>9, <1>10

\* What pacing makes of a target: nothing, a new one that stands from now, or the old one.
LEMMA RatePaces ==
    ASSUME NEW h \in Holds, NEW t \in Int, NEW phase \in Measures, NEW asked \in Int,
           NEW solar \in Int, NEW curtail, NEW stable, NEW every \in Int,
           NEW r, r = RateLimit(h, t, phase, asked, solar, curtail, stable, every)
    PROVE  \/ r.hold = NoHold /\ asked < Minimum
           \/ /\ r.hold.phase = phase /\ r.hold.since = t /\ r.hold.amps = asked
              /\ \/ h.phase # phase
                 \/ asked < h.amps /\ curtail
                 \/ t - h.since >= every
           \/ /\ h.phase = phase /\ r.hold.phase = phase /\ r.hold.since = h.since
              /\ r.hold.amps = h.amps
<1> DEFINE no == FALSE  zero == 0
           accepted == [NoHold EXCEPT !.phase = phase, !.amps = asked, !.since = t, !.peak = solar]
           seen == IF h.phase = phase THEN Larger(h.peak, solar) ELSE solar
           steady == [h EXCEPT !.pend = zero, !.pendSince = zero, !.share = no, !.peak = seen]
           waiting == IF h.pend = asked THEN h.pendSince ELSE t
           held == [steady EXCEPT !.pend = asked, !.pendSince = waiting]
           due == t - h.since >= every /\ (stable => t - waiting >= every)
<1>1. r = IF asked < Minimum THEN [hold |-> NoHold, stamped |-> FALSE, held |-> FALSE]
          ELSE IF h.phase # phase \/ (asked < h.amps /\ curtail) \/ (asked # h.amps /\ due)
            THEN [hold |-> accepted, stamped |-> TRUE, held |-> FALSE]
          ELSE IF asked = h.amps THEN [hold |-> steady, stamped |-> FALSE, held |-> FALSE]
          ELSE [hold |-> held, stamped |-> h.pend # asked, held |-> TRUE]
  BY DEF RateLimit
<1>2. seen \in Int  BY LargerSmaller DEF Holds
<1>3. no \in BOOLEAN /\ zero \in Int /\ phase # "none"  BY DEF Measures
<1> HIDE DEF no, zero, seen, waiting, due
<1>4. accepted.phase = phase /\ accepted.amps = asked /\ accepted.since = t
  BY DEF NoHold
<1>5. steady.phase = h.phase /\ steady.amps = h.amps /\ steady.since = h.since
      /\ held.phase = h.phase /\ held.amps = h.amps /\ held.since = h.since
  BY DEF Holds
<1> HIDE DEF accepted, steady, held
<1> DEFINE new == h.phase # phase \/ (asked < h.amps /\ curtail) \/ due
           old == h.phase = phase
<1>6. \/ r.hold = NoHold /\ asked < Minimum
      \/ r.hold = accepted /\ new
      \/ old /\ r.hold \in {steady, held}
  BY <1>1
<1> HIDE DEF new, old
<1>7. CASE r.hold = NoHold /\ asked < Minimum  BY <1>7
<1>8. CASE r.hold = accepted /\ new  BY <1>4, <1>8 DEF due, new
<1>9. CASE old /\ r.hold \in {steady, held}  BY <1>5, <1>9 DEF old
<1> QED  BY <1>6, <1>7, <1>8, <1>9

\* The interval a new target would have to be paid for, and a hold still in its interval.
Whole(t) == Smaller(ToFree(t), AdjustTicks)
Anchored(h, t) == h.phase = "morning" /\ h.share /\ t - h.since \in 0 .. AdjustTicks - 1

\* A target that is not anchored is planned over the whole interval.
LEMMA WholeHorizon ==
    ASSUME World, NEW t \in Int, NEW h \in Holds
    PROVE  /\ Whole(t) \in Int /\ Whole(t) >= 1
           /\ ~Anchored(h, t) => SpendingHorizon(h, t, ToFree(t)) = Whole(t)
           /\ Anchored(h, t) => SpendingHorizon(h, t, ToFree(t))
                                  = Smaller(ToFree(t), AdjustTicks - (t - h.since))
<1> DEFINE free == ToFree(t)  anchored == Anchored(h, t)
           remaining == AdjustTicks - (t - h.since)
           spending == AdjustTicks - (IF anchored THEN t - h.since ELSE 0)
<1>1. free \in Int /\ free >= 1 /\ AdjustTicks \in Int /\ AdjustTicks >= 1 /\ h.since \in Int
  BY PreFreeOffers, PacingAssumption DEF Holds
<1>2. SpendingHorizon(h, t, free) = Larger(Smaller(free, spending), 1)
  BY DEF SpendingHorizon, Anchored
<1>3. Whole(t) = Smaller(free, AdjustTicks)  BY DEF Whole
<1>4. anchored => remaining >= 1 /\ remaining \in Int  BY <1>1 DEF Anchored
<1>5. spending = IF anchored THEN remaining ELSE AdjustTicks  BY <1>1
<1> HIDE DEF free, anchored, spending, remaining
<1>6. Whole(t) \in Int /\ Whole(t) >= 1  BY <1>1, <1>3 DEF Smaller
<1>7. ~anchored => SpendingHorizon(h, t, free) = Whole(t)
  BY <1>1, <1>2, <1>3, <1>5 DEF Smaller, Larger
<1>8. anchored => SpendingHorizon(h, t, free) = Smaller(free, remaining)
  BY <1>1, <1>2, <1>4, <1>5 DEF Smaller, Larger
<1> QED  BY <1>6, <1>7, <1>8 DEF free, anchored, remaining

\* A combined current above the baseline is the baseline, the sun and a part of the energy.
LEMMA CombinedPart ==
    ASSUME NEW base \in Nat, NEW energy \in Nat, NEW surplus \in Nat, NEW horizon \in Int,
           horizon >= 1, NEW ceiling \in Nat, NEW low,
           NEW total, total = CombinedCurrent(base, energy, surplus, horizon, ceiling, low),
           total > base
    PROVE  energy > 0 /\ low /\ total <= base + surplus + energy \div horizon
<1> DEFINE part == energy \div horizon
<1>1. part \in Nat  BY PartOfEnergy
<1> HIDE DEF part
<1>2. total = IF energy = 0 \/ ~low \/ Smaller(base + surplus + part, ceiling) < Minimum
                THEN base ELSE Smaller(base + surplus + part, ceiling)
  BY DEF CombinedCurrent, part
<1>3. /\ Smaller(base + surplus + part, ceiling) \in Int
      /\ Smaller(base + surplus + part, ceiling) <= base + surplus + part
  BY <1>1 DEF Smaller
<1>4. ~(energy = 0 \/ ~low)  BY <1>2
<1>5. total <= base + surplus + part  BY <1>2, <1>3
<1> QED  BY <1>4, <1>5 DEF part

\* A combined target is a new one that is paid for over the interval that begins, or the
\* one that was accepted (_combined_pre_free_adjustment).
LEMMA CombinedPaces ==
    ASSUME World, NEW hold \in Holds, NEW t \in Int, NEW energy \in Nat, NEW surplus \in Nat,
           NEW total \in Int,
           total = CombinedCurrent(policy.base, energy, surplus,
                                   SpendingHorizon(hold, t, ToFree(t)), PreFreeCeiling, Low),
           NEW r, r = Combined(hold, t, total, energy, surplus), r.hold.amps > policy.base
    PROVE  /\ r.hold.phase = "morning" /\ r.hold.amps <= PreFreeCeiling
           /\ \/ /\ r.hold.since = t
                 /\ r.hold.amps <= policy.base + surplus + energy \div Whole(t)
              \/ /\ hold.share /\ r.hold.since = hold.since
                 /\ r.hold.amps = Smaller(hold.amps, PreFreeCeiling)
<1> DEFINE prev == IF hold.share THEN hold ELSE NoHold
           reduced == prev.phase # "none" /\ total < prev.amps
           whole == CombinedCurrent(policy.base, energy, surplus,
                                    SpendingHorizon(NoHold, t, ToFree(t)), PreFreeCeiling, Low)
           asked == IF reduced THEN Smaller(total, whole) ELSE total
           morning == "morning"  no == FALSE
           limited == RateLimit(prev, t, morning, asked, surplus, reduced, no, AdjustTicks)
           amps == Smaller(limited.hold.amps, PreFreeCeiling)
           yes == TRUE
           most == policy.base + surplus + energy \div Whole(t)
<1>1. r = [limited EXCEPT !.hold.amps = amps, !.hold.share = yes]  BY DEF Combined
<1>2. prev \in Holds  BY NoHoldTyped
<1>3. policy.base \in Nat /\ PreFreeCeiling \in Nat  BY Offers
<1>4. Whole(t) \in Int /\ Whole(t) >= 1 /\ SpendingHorizon(NoHold, t, ToFree(t)) = Whole(t)
  <2>1. ~Anchored(NoHold, t)  BY NoHoldTyped DEF Anchored
  <2> QED  BY <2>1, NoHoldTyped, WholeHorizon
<1>5. whole \in Int /\ (whole > policy.base => whole <= most)
  <2>1. whole = CombinedCurrent(policy.base, energy, surplus, Whole(t), PreFreeCeiling, Low)
    BY <1>4
  <2> HIDE DEF whole, reduced, asked, limited, amps
  <2>2. whole \in Int  BY <1>3, <1>4, <2>1, CombinedPaid
  <2>3. ASSUME whole > policy.base
        PROVE  whole <= policy.base + surplus + energy \div Whole(t)
    <3>1. /\ policy.base \in Nat /\ energy \in Nat /\ surplus \in Nat /\ PreFreeCeiling \in Nat
          /\ Whole(t) \in Int /\ Whole(t) >= 1
      BY <1>3, <1>4
    <3> QED  BY ONLY <2>1, <2>3, <3>1, CombinedPart
  <2> QED  BY <2>2, <2>3
<1>6. total > policy.base /\ ~Anchored(hold, t) => total <= most
  <2>1. ASSUME ~Anchored(hold, t), total > policy.base PROVE total <= most
    <3>1. SpendingHorizon(hold, t, ToFree(t)) = Whole(t)  BY <2>1, WholeHorizon
    <3>2. total = CombinedCurrent(policy.base, energy, surplus, Whole(t), PreFreeCeiling, Low)
      BY <3>1
    <3> QED  BY <1>3, <1>4, <2>1, <3>2, CombinedPart
  <2> QED  BY <2>1
<1>7. most \in Int
  <2>1. energy \div Whole(t) \in Nat  BY <1>4, PartOfEnergy
  <2> QED  BY <1>3, <2>1
<1>8. Anchored(hold, t) => prev.phase = morning /\ ~(t - prev.since >= AdjustTicks)
  <2>1. hold.since \in Int /\ AdjustTicks \in Int  BY PacingAssumption DEF Holds
  <2> QED  BY <2>1 DEF Anchored
<1>9. prev.phase = morning => hold.share /\ prev = hold  BY NoHoldTyped
<1>10. morning \in Measures /\ AdjustTicks \in Int /\ surplus \in Int
  BY PacingAssumption DEF Measures
<1>11. limited = [hold |-> limited.hold, stamped |-> limited.stamped, held |-> limited.held]
  BY DEF RateLimit
<1> HIDE DEF prev, whole, most, no, yes
<1>12. asked \in Int /\ (reduced => asked <= whole) /\ (~reduced => asked = total)
  BY <1>5 DEF Smaller
<1> HIDE DEF reduced, asked, morning
<1>13. \/ limited.hold = NoHold
       \/ /\ limited.hold.phase = morning /\ limited.hold.since = t /\ limited.hold.amps = asked
          /\ \/ prev.phase # morning
             \/ asked < prev.amps /\ reduced
             \/ t - prev.since >= AdjustTicks
       \/ /\ prev.phase = morning /\ limited.hold.phase = morning
          /\ limited.hold.since = prev.since /\ limited.hold.amps = prev.amps
  <2>1. limited = RateLimit(prev, t, morning, asked, surplus, reduced, no, AdjustTicks)  OBVIOUS
  <2> HIDE DEF limited
  <2> QED  BY <1>2, <1>10, <1>12, <2>1, RatePaces
<1> HIDE DEF limited
<1>14. limited.hold \in Holds
  <2>1. limited = RateLimit(prev, t, morning, asked, surplus, reduced, no, AdjustTicks)
    BY DEF limited
  <2> QED  BY <1>2, <1>10, <1>12, <2>1, RateLimited
<1>15. r.hold = [limited.hold EXCEPT !.amps = amps, !.share = yes]  BY <1>1, <1>11
<1>16. limited.hold.amps \in Int  BY <1>14 DEF Holds
<1>17. amps \in Int /\ amps <= limited.hold.amps /\ amps <= PreFreeCeiling
  BY <1>3, <1>16 DEF Smaller
<1>18. /\ r.hold.amps = amps /\ r.hold.phase = limited.hold.phase
       /\ r.hold.since = limited.hold.since
  BY <1>14, <1>15 DEF Holds
<1>19. amps = Smaller(limited.hold.amps, PreFreeCeiling)  OBVIOUS
<1>20. amps > policy.base  BY <1>18
<1> HIDE DEF amps
<1>21. CASE limited.hold = NoHold
  <2>1. limited.hold.amps = 0  BY <1>21 DEF NoHold
  <2> QED  BY <1>3, <1>17, <1>20, <2>1
<1>22. CASE /\ limited.hold.phase = morning /\ limited.hold.since = t /\ limited.hold.amps = asked
            /\ \/ prev.phase # morning
               \/ asked < prev.amps /\ reduced
               \/ t - prev.since >= AdjustTicks
  <2>1. asked > policy.base  BY <1>3, <1>12, <1>17, <1>20, <1>22
  <2>2. asked <= most
    <3>1. CASE reduced  BY <1>3, <1>5, <1>7, <1>12, <2>1, <3>1
    <3>2. CASE ~reduced
      <4>1. ~Anchored(hold, t)  BY <1>8, <1>22, <3>2
      <4> QED  BY <1>6, <1>12, <2>1, <3>2, <4>1
    <3> QED  BY <3>1, <3>2
  <2>3. r.hold.amps <= most  BY <1>7, <1>12, <1>17, <1>18, <1>22, <2>2
  <2> QED  BY <1>17, <1>18, <1>22, <2>3 DEF morning, most
<1>23. CASE /\ prev.phase = morning /\ limited.hold.phase = morning
            /\ limited.hold.since = prev.since /\ limited.hold.amps = prev.amps
  <2>1. hold.share /\ prev = hold  BY <1>9, <1>23
  <2> QED  BY <1>17, <1>18, <1>19, <1>23, <2>1 DEF morning
<1> QED  BY <1>13, <1>21, <1>22, <1>23

\* The total a session is asked for, whether it is joined to the morning, and its pacing.
Total(m, t, v) ==
    CombinedCurrent(policy.base, PreFreeEnergy(t), Surplus(v),
                    SpendingHorizon(m.hold, t, ToFree(t)), PreFreeCeiling, Low)
Together(m, t, v, morning) ==
    /\ Requested(m, t, v, morning) /\ Total(m, t, v) > policy.base
    /\ Total(m, t, v) >= Minimum /\ house.trouble # "export"
Adjusted(m, t, v) == Combined(m.hold, t, Total(m, t, v), PreFreeEnergy(t), Surplus(v))
Reaches(amps) == amps > policy.base /\ amps >= Minimum

\* The pre-free stage combines with the morning under exactly these conditions.
LEMMA PreFreeCombines ==
    ASSUME World, NEW t \in Int, NEW v \in Views, NEW m, Memory(m), NEW morning,
           NEW p, p = PreFree(m, t, v, morning)
    PROVE  /\ p.combined =>
                /\ policy.preFree /\ Together(m, t, v, morning)
                /\ InPreFree(t) /\ PreFreeEnergy(t) > 0 /\ Low
                /\ p.mem.active /\ p.mem.hold = Adjusted(m, t, v).hold /\ p.mem.hold.share
                /\ p.amps = Adjusted(m, t, v).hold.amps /\ Reaches(p.amps)
           /\ policy.preFree /\ Together(m, t, v, morning) /\ InPreFree(t) /\ PreFreeEnergy(t) > 0
              /\ Low /\ m.active /\ Reaches(Adjusted(m, t, v).hold.amps) => p.combined
<1> DEFINE base == policy.base
           energy == PreFreeEnergy(t)
           early == Requested(m, t, v, morning)
           together == Together(m, t, v, morning)
           some == InPreFree(t) /\ energy > 0 /\ Low
           eligible == /\ InPreFree(t) /\ house.trouble # "export" /\ energy > 0 /\ Low
                       /\ IF early THEN together ELSE Planned(energy, base, PreFreeCeiling)
           active == Session(m.active, eligible,
                             together \/ LatestStart(energy, base, PreFreeCeiling, ToFree(t)))
           adjusted == Adjusted(m, t, v)
           amps == adjusted.hold.amps
           fixed == PreFreeCurrent(active, base, energy, ToFree(t), PreFreeCeiling, Low)
           plain == WithSession(m, active)
           kept == WithHold(plain, adjusted.hold)
           withdrawn == WithHold(WithSession(m, FALSE), NoHold)
           released == WithSession(m, FALSE)
           whole == Reaches(amps)
           both == together /\ active
<1>1. p = IF ~policy.preFree
            THEN [mem |-> released, amps |-> base, combined |-> FALSE, stamped |-> FALSE]
          ELSE IF ~both
            THEN [mem |-> plain, amps |-> fixed, combined |-> FALSE, stamped |-> FALSE]
          ELSE IF whole
            THEN [mem |-> kept, amps |-> amps, combined |-> TRUE,
                  stamped |-> adjusted.stamped \/ ~m.active]
          ELSE [mem |-> withdrawn, amps |-> base, combined |-> FALSE, stamped |-> FALSE]
  <2>1. [m EXCEPT !.active = FALSE, !.hold = NoHold] = WithHold(WithSession(m, FALSE), NoHold)
    BY DEF WithHold, WithSession, Memory
  <2> QED
    BY <2>1 DEF PreFree, WithHold, WithSession, Adjusted, Total, Together, Reaches
<1>2. active => some  BY DEF Session
<1>3. together /\ some /\ m.active => active
  BY DEF Session, Together
<1>4. adjusted.hold \in Holds /\ adjusted.hold.share
  <2>1. m.hold \in Holds /\ energy \in Nat /\ Surplus(v) \in Nat
    BY SurplusTyped, PreFreeOffers DEF Memory
  <2>2. Total(m, t, v) \in Int
    <3> DEFINE total == Total(m, t, v)  horizon == SpendingHorizon(m.hold, t, ToFree(t))
    <3>1. horizon \in Int /\ horizon >= 1 /\ policy.base \in Nat /\ PreFreeCeiling \in Nat
      BY <2>1, PreFreeOffers, HorizonTyped, Offers
    <3>2. total = CombinedCurrent(policy.base, energy, Surplus(v), horizon, PreFreeCeiling, Low)
      BY DEF Total
    <3> HIDE DEF total, horizon, energy
    <3>3. total \in Int  BY <2>1, <3>1, <3>2, CombinedPaid
    <3> QED  BY <3>3 DEF total
  <2>3. adjusted = Combined(m.hold, t, Total(m, t, v), energy, Surplus(v))  BY DEF Adjusted
  <2> HIDE DEF adjusted, energy
  <2> QED  BY <2>1, <2>2, <2>3, CombinedHeldPaid
<1>5. MeasuredHold(adjusted.hold)  BY <1>4 DEF MeasuredHold
<1> HIDE DEF active, adjusted, together
<1>6. Memory(plain) /\ plain.active = active  BY SessionWritten
<1> HIDE DEF plain
<1>7. kept.hold = adjusted.hold /\ kept.active = active
  BY <1>4, <1>5, <1>6, HoldWritten
<1>8. both => together /\ active  OBVIOUS
<1>9. policy.preFree /\ both /\ whole => p.combined
  <2> HIDE DEF both, whole, kept, amps, released, withdrawn, fixed
  <2> QED  BY <1>1
<1>10. p.combined => policy.preFree /\ both /\ whole /\ p.mem = kept /\ p.amps = amps
  <2> HIDE DEF both, whole, kept, amps, released, withdrawn, fixed
  <2> QED  BY <1>1
<1>11. ASSUME p.combined
       PROVE  /\ policy.preFree /\ together /\ some
              /\ p.mem.active /\ p.mem.hold = adjusted.hold /\ p.mem.hold.share
              /\ p.amps = amps /\ Reaches(p.amps)
  <2>1. policy.preFree /\ both /\ whole /\ p.mem = kept /\ p.amps = amps
    <3> HIDE DEF both, whole, kept, amps
    <3> QED  BY <1>10, <1>11
  <2>2. together /\ active /\ some  BY <1>2, <1>8, <2>1
  <2>3. p.mem.active /\ p.mem.hold = adjusted.hold /\ p.mem.hold.share
    BY <1>4, <1>7, <2>1, <2>2
  <2> QED  BY <2>1, <2>2, <2>3
<1>12. ASSUME policy.preFree, together, some, m.active, whole
       PROVE  p.combined
  <2> HIDE DEF whole
  <2>1. both  BY <1>3, <1>12
  <2> HIDE DEF both
  <2> QED  BY <1>9, <1>12, <2>1
<1>13. p.combined =>
         /\ policy.preFree /\ Together(m, t, v, morning)
         /\ InPreFree(t) /\ PreFreeEnergy(t) > 0 /\ Low
         /\ p.mem.active /\ p.mem.hold = Adjusted(m, t, v).hold /\ p.mem.hold.share
         /\ p.amps = Adjusted(m, t, v).hold.amps /\ Reaches(p.amps)
  <2> SUFFICES ASSUME p.combined
               PROVE  /\ policy.preFree /\ Together(m, t, v, morning)
                      /\ InPreFree(t) /\ PreFreeEnergy(t) > 0 /\ Low
                      /\ p.mem.active /\ p.mem.hold = Adjusted(m, t, v).hold
                      /\ p.mem.hold.share /\ p.amps = Adjusted(m, t, v).hold.amps /\ Reaches(p.amps)
    OBVIOUS
  <2>1. together /\ some  BY <1>11
  <2> QED  BY <1>11, <2>1 DEF some, together, adjusted
<1>14. policy.preFree /\ Together(m, t, v, morning) /\ InPreFree(t) /\ PreFreeEnergy(t) > 0
         /\ Low /\ m.active /\ Reaches(Adjusted(m, t, v).hold.amps) => p.combined
  BY <1>12 DEF some, together, adjusted
<1> QED  BY <1>13, <1>14

\* What a combined target may stand on, and how it came about: accepted now for the whole
\* interval, or accepted before and kept.
Offered(t) ==
    /\ policy.morning /\ policy.preFree /\ InPreFree(t)
    /\ house.trouble = "none" /\ house.battery >= 2
    /\ PreFreeEnergy(t) = Smaller(house.spare, car.room) /\ PreFreeEnergy(t) > 0
Accepted(h, m, t, v) ==
    \/ /\ h.since = t
       /\ h.amps <= policy.base + Surplus(v) + PreFreeEnergy(t) \div Whole(t)
    \/ /\ m.hold.share /\ h.since = m.hold.since
       /\ h.amps = Smaller(m.hold.amps, PreFreeCeiling)

\* The target of a pre-free stage that combines with the morning.
LEMMA CombinedTarget ==
    ASSUME World, NEW t \in Int, NEW v \in Views, NEW m, Memory(m), NEW morning,
           NEW p, p = PreFree(m, t, v, morning), p.combined
    PROVE  /\ Offered(t) /\ p.mem.active /\ p.amps = p.mem.hold.amps
           /\ p.mem.hold.phase = "morning" /\ Reaches(p.amps) /\ p.amps <= PreFreeCeiling
           /\ Accepted(p.mem.hold, m, t, v)
<1> DEFINE energy == PreFreeEnergy(t)  surplus == Surplus(v)  total == Total(m, t, v)
           adjusted == Adjusted(m, t, v)
<1>1. /\ policy.preFree /\ Together(m, t, v, morning)
      /\ InPreFree(t) /\ PreFreeEnergy(t) > 0 /\ Low
      /\ p.mem.active /\ p.mem.hold = Adjusted(m, t, v).hold
      /\ p.amps = Adjusted(m, t, v).hold.amps /\ Reaches(p.amps)
  BY PreFreeCombines
<1>2. m.hold \in Holds /\ energy \in Nat /\ surplus \in Nat  BY SurplusTyped, PreFreeOffers DEF Memory
<1>3. policy.base \in Nat /\ PreFreeCeiling \in Nat  BY Offers
<1>4. total = CombinedCurrent(policy.base, energy, surplus,
                              SpendingHorizon(m.hold, t, ToFree(t)), PreFreeCeiling, Low)
  BY DEF Total
<1>5. adjusted = Combined(m.hold, t, total, energy, surplus)  BY DEF Adjusted
<1>6. adjusted.hold.amps > policy.base  BY <1>1 DEF Reaches
<1> HIDE DEF energy, surplus, total, adjusted
<1>7. total \in Int
  <2> DEFINE horizon == SpendingHorizon(m.hold, t, ToFree(t))
  <2>1. horizon \in Int /\ horizon >= 1  BY <1>2, PreFreeOffers, HorizonTyped
  <2> HIDE DEF horizon
  <2> QED  BY <1>2, <1>3, <1>4, <2>1, CombinedPaid DEF horizon
<1>8. /\ adjusted.hold.phase = "morning" /\ adjusted.hold.amps <= PreFreeCeiling
      /\ \/ /\ adjusted.hold.since = t
            /\ adjusted.hold.amps <= policy.base + surplus + energy \div Whole(t)
         \/ /\ m.hold.share /\ adjusted.hold.since = m.hold.since
            /\ adjusted.hold.amps = Smaller(m.hold.amps, PreFreeCeiling)
  BY <1>2, <1>4, <1>5, <1>6, <1>7, CombinedPaces
<1>9. p.mem.hold = adjusted.hold /\ p.amps = adjusted.hold.amps  BY <1>1 DEF adjusted
<1>10. Accepted(p.mem.hold, m, t, v)  BY <1>8, <1>9 DEF Accepted, energy, surplus
<1>11. Offered(t)
  <2>1. policy.morning /\ InPreFree(t) /\ house.trouble # "export"
    BY <1>1 DEF Together, Requested, Joint
  <2>2. energy = Smaller(CombinedBudget, car.room)
    BY <2>1 DEF energy, PreFreeEnergy, Joint
  <2>3. CombinedBudget > 0
    <3>1. CombinedBudget \in Nat /\ car.room \in Nat  BY Offers DEF World, Cars
    <3> DEFINE budget == CombinedBudget
    <3>2. budget \in Nat /\ energy > 0  BY <1>1, <3>1 DEF energy
    <3> HIDE DEF budget
    <3>3. energy = Smaller(budget, car.room)  BY <2>2 DEF budget
    <3>4. budget > 0  BY <3>1, <3>2, <3>3 DEF Smaller
    <3> QED  BY <3>4 DEF budget
  <2>4. Coherent /\ house.trouble # "import" /\ house.battery >= 2 /\ CombinedBudget = house.spare
    BY <2>3 DEF CombinedBudget
  <2>5. house.trouble = "none"
    <3>1. house.trouble \in Troubles  BY DEF World, Measurements
    <3> QED  BY <2>1, <2>4, <3>1 DEF Troubles, Coherent
  <2>6. energy = Smaller(house.spare, car.room)  BY <2>2, <2>4
  <2> QED  BY <1>1, <2>1, <2>4, <2>5, <2>6 DEF Offered, energy
<1> QED  BY <1>1, <1>8, <1>9, <1>10, <1>11

\* The selected stage keeps a combined target, and makes none.
LEMMA SelectedShare ==
    ASSUME NEW p, NEW m, Memory(m), NEW w, w = Select(p, m)
    PROVE  /\ Memory(w.mem) /\ (w.mem.hold.share => w.mem.hold = m.hold)
           /\ p.combined /\ m.active /\ m.hold.phase = "morning" =>
                /\ w.mem.hold = m.hold /\ w.mem.active /\ ~w.mem.soak
                /\ w.stage = "combined" /\ w.amps = Smaller(p.amps, Ceiling)
<1> DEFINE held == m.hold.phase
           stage == IF p.combined THEN "combined" ELSE IF m.active THEN "pre_free"
                    ELSE IF held # "none" THEN held ELSE "base"
           amps == IF m.active THEN p.amps ELSE IF stage = "base" THEN policy.base ELSE m.hold.amps
           reset == ResetSoak(m)
           kept == IF stage = "spill" THEN m ELSE reset
           final == IF kept.soak THEN "soak" ELSE stage
           bounded == Smaller(amps, Ceiling)
<1>1. w = [mem |-> kept, stage |-> final, amps |-> bounded]  BY DEF Select
<1>2. /\ Memory(reset) /\ reset.soak = FALSE /\ reset.active = m.active
      /\ reset.hold = IF m.hold.phase = "spill" THEN NoHold ELSE m.hold
  BY SoakReset
<1> HIDE DEF reset
<1>3. Memory(kept) /\ (kept.hold = m.hold \/ kept.hold = NoHold)  BY <1>2
<1>4. w.mem = kept /\ w.stage = final /\ w.amps = bounded
  <2> HIDE DEF kept, final, bounded
  <2> QED  BY <1>1
<1>5. Memory(w.mem) /\ (w.mem.hold.share => w.mem.hold = m.hold)  BY <1>3, <1>4, NoHoldTyped
<1>6. ASSUME p.combined, m.active, m.hold.phase = "morning"
      PROVE  /\ w.mem.hold = m.hold /\ w.mem.active /\ ~w.mem.soak
             /\ w.stage = "combined" /\ w.amps = Smaller(p.amps, Ceiling)
  <2>1. stage = "combined" /\ amps = p.amps  BY <1>6
  <2>2. kept = reset /\ reset.hold = m.hold /\ reset.active  BY <1>2, <1>6, <2>1
  <2>3. final = "combined"  BY <1>2, <2>1, <2>2
  <2> QED  BY <1>2, <1>4, <2>1, <2>2, <2>3
<1> QED  BY <1>5, <1>6

\* The memory a cycle's stages begin with, and its combined stage before the free window.
Quiet(m) == [m EXCEPT !.soak = FALSE]
Joined(m, t, v) == PreFree(Quiet(m), t, v, Morning(t, v))

\* It is the memory, without the soak's flag.
LEMMA QuietMemory ==
    ASSUME NEW m, Memory(m)
    PROVE  /\ Memory(Quiet(m)) /\ ~Quiet(m).soak
           /\ Quiet(m).hold = m.hold /\ Quiet(m).active = m.active
<1> DEFINE no == FALSE  k == Quiet(m)
<1>1. no \in BOOLEAN /\ ~no /\ k = [m EXCEPT !.soak = no]  BY DEF Quiet
<1> HIDE DEF no, k
<1>2. Memory(k) /\ k.soak = no /\ k.hold = m.hold /\ k.active = m.active  BY <1>1 DEF Memory
<1> QED  BY <1>1, <1>2 DEF k

\* A stop leaves the hold.
LEMMA HaltKeeps ==
    ASSUME NEW m, Memory(m), NEW v, NEW o, o = Halt(m, v)
    PROVE  o.mem.hold = m.hold
<1> DEFINE k == [m EXCEPT !.stop = v.on]
<1>1. k.hold = m.hold  BY DEF Memory
<1> HIDE DEF k
<1>2. o.mem = k  BY DEF Halt, Aim, k
<1> QED  BY <1>1, <1>2

\* A cycle leaves a shared hold exactly if its stages combined, and then it is theirs.
LEMMA OutsideShares ==
    ASSUME World, NEW t \in Int, NEW v \in Views, NEW m, Memory(m), NEW o, o = Outside(m, t, v)
    PROVE  /\ o.mem.hold.share => Joined(m, t, v).combined /\ house.battery # 0
           /\ Joined(m, t, v).combined /\ house.battery # 0 =>
                /\ o.mem.hold = Joined(m, t, v).mem.hold /\ o.mem.active /\ ~o.mem.soak
                /\ o.target = Smaller(Joined(m, t, v).amps, Ceiling)
<1> DEFINE ended == [Rejected(m) EXCEPT !.active = FALSE]
           quiet == Quiet(m)
           spill == Spill(quiet, t, v)
           morning == Morning(t, v)
           free == PreFree(spill.mem, t, v, morning)
           paced == Paced(free, t, morning, spill.solar)
           won == Select(free, paced.mem)
           reserve == house.battery = 0
           joined == Joined(m, t, v)
<1>1. o = IF policy.base = 0 /\ (reserve \/ won.stage = "base")
            THEN Halt(IF reserve THEN ended ELSE won.mem, v)
          ELSE IF reserve THEN Aim(ended, policy.base, "base", FALSE)
          ELSE Aim(won.mem, won.amps, won.stage, paced.stamped)
  BY DEF Outside, Quiet
<1>2. ended.hold = NoHold /\ Memory(ended)
  <2>1. Memory(ended)  BY RejectedMemory
  <2>2. Memory(ResetSoak(m))  BY SoakReset
  <2> DEFINE bare == WithHold(ResetSoak(m), NoHold)  no == FALSE
  <2>3. ended = WithSession(bare, no)  BY DEF Rejected, WithHold, WithSession
  <2>4. Memory(bare) /\ bare.hold = NoHold  BY <2>2, NoHoldTyped, HoldWritten
  <2> HIDE DEF ended, bare, no
  <2>5. ended.hold = bare.hold  BY <2>3, <2>4, SessionWritten
  <2> QED  BY <2>1, <2>4, <2>5 DEF ended
<1>3. Memory(quiet) /\ ~quiet.soak  BY QuietMemory
<1>4. Joint(t) => spill.mem = quiet
  <2>1. Joint(t) => Spill(quiet, t, v) = [mem |-> quiet, solar |-> None("disabled")]
    BY DEF Spill, Joint
  <2> HIDE DEF quiet
  <2>2. Joint(t) => Spill(quiet, t, v).mem = quiet  BY <2>1
  <2> QED  BY <2>2
<1>5. joined = PreFree(quiet, t, v, morning)  BY DEF Joined
<1> HIDE DEF ended, quiet, joined
<1>6. /\ Memory(spill.mem)
      /\ Active(spill.solar) => spill.solar.amps \in Int
      /\ spill.mem.soak => /\ Active(spill.solar)
                           /\ spill.solar.amps <= SoakCeiling(Budget, PreFreeCeiling)
  BY <1>3, SpillStage
<1>7. morning.amps \in Int  BY MorningStage
<1> HIDE DEF spill, morning
<1>8. Joint(t) => free = joined  BY <1>4, <1>5
<1>9. /\ Memory(free.mem) /\ free.mem.soak = spill.mem.soak
      /\ free.combined => free.mem.active
  <2> DEFINE before == spill.mem
  <2>1. free = PreFree(before, t, v, morning) /\ before = spill.mem  OBVIOUS
  <2>2. Memory(before)  BY <1>6
  <2> HIDE DEF free, before, paced, won, reserve
  <2>3. World /\ t \in Int /\ v \in Views  OBVIOUS
  <2>4. \A p : p = PreFree(before, t, v, morning) => Memory(p.mem)
    BY <2>2, <2>3, PreFreeStage
  <2>5. \A p : p = PreFree(before, t, v, morning) => (p.mem.soak <=> before.soak)
    BY <2>2, <2>3, PreFreeStage
  <2>6. free.mem.soak \in BOOLEAN /\ before.soak \in BOOLEAN
    BY <2>1, <2>2, <2>4 DEF Memory
  <2>7. \A p : p = PreFree(before, t, v, morning) => (p.combined => p.mem.active)
    BY <2>2, <2>3, PreFreeStage
  <2>8. free.mem.soak = before.soak  BY <2>1, <2>5, <2>6
  <2> QED  BY <2>1, <2>4, <2>7, <2>8
<1>10. free.combined => Joint(t) /\ free.mem.hold.phase = "morning"
  <2> SUFFICES ASSUME free.combined PROVE Joint(t) /\ free.mem.hold.phase = "morning"  OBVIOUS
  <2>1. Together(spill.mem, t, v, morning)  BY <1>6, PreFreeCombines
  <2>2. free.mem.hold.phase = "morning"  BY <1>6, CombinedTarget
  <2> QED  BY <2>1, <2>2 DEF Together, Requested
<1>11. joined.combined => Joint(t)
  <2> SUFFICES ASSUME joined.combined PROVE Joint(t)  OBVIOUS
  <2>1. Together(quiet, t, v, morning)  BY <1>3, <1>5, PreFreeCombines
  <2> QED  BY <2>1 DEF Together, Requested
<1> HIDE DEF free
<1>12. /\ Memory(paced.mem)
       /\ IF free.combined THEN paced.mem = free.mem ELSE ~paced.mem.hold.share
  <2> DEFINE solar == spill.solar
  <2>1. paced = Paced(free, t, morning, solar)  OBVIOUS
  <2>2. /\ Active(solar) => solar.amps \in Int
        /\ free.mem.soak => Active(solar) /\ solar.amps <= SoakCeiling(Budget, PreFreeCeiling)
    BY <1>6, <1>9
  <2> HIDE DEF paced, solar
  <2> QED  BY <1>7, <1>9, <2>1, <2>2, PacedStage
<1> HIDE DEF paced
<1>13. /\ Memory(won.mem) /\ (won.mem.hold.share => won.mem.hold = paced.mem.hold)
       /\ free.combined /\ paced.mem.active /\ paced.mem.hold.phase = "morning" =>
            /\ won.mem.hold = paced.mem.hold /\ won.mem.active /\ ~won.mem.soak
            /\ won.stage = "combined" /\ won.amps = Smaller(free.amps, Ceiling)
  BY <1>12, SelectedShare
<1> HIDE DEF won
<1>14. free.combined => free = joined
  BY <1>8, <1>10
<1>15. free.combined =>
         /\ won.mem.hold = joined.mem.hold /\ won.mem.active /\ ~won.mem.soak
         /\ won.stage = "combined" /\ won.amps = Smaller(joined.amps, Ceiling)
  BY <1>9, <1>10, <1>12, <1>13, <1>14
<1>16. won.mem.hold.share => free.combined  BY <1>12, <1>13
<1>17. joined.combined => free.combined  BY <1>8, <1>11
<1>18. ASSUME joined.combined, ~reserve
       PROVE  /\ o.mem.hold = joined.mem.hold /\ o.mem.active /\ ~o.mem.soak
              /\ o.target = Smaller(joined.amps, Ceiling)
  <2>1. won.stage = "combined"  BY <1>15, <1>17, <1>18
  <2>2. o = Aim(won.mem, won.amps, won.stage, paced.stamped)  BY <1>1, <1>18, <2>1
  <2>3. o.mem = won.mem /\ o.target = won.amps  BY <2>2 DEF Aim
  <2> QED  BY <1>15, <1>17, <1>18, <2>3
<1>19. ASSUME o.mem.hold.share PROVE joined.combined /\ ~reserve
  <2> DEFINE back == IF reserve THEN ended ELSE won.mem
  <2>1. Memory(back)  BY <1>2, <1>13
  <2>2. reserve => back = ended  OBVIOUS
  <2>3. ~reserve => back = won.mem  OBVIOUS
  <2>4. \/ o = Halt(back, v)
        \/ reserve /\ o = Aim(ended, policy.base, "base", FALSE)
        \/ ~reserve /\ o = Aim(won.mem, won.amps, won.stage, paced.stamped)
    BY <1>1
  <2>5. ~ended.hold.share  BY <1>2, NoHoldTyped
  <2> HIDE DEF back, reserve
  <2>6. ~reserve /\ won.mem.hold.share
    <3>1. CASE o = Halt(back, v)
      <4>1. o.mem.hold = back.hold  BY <2>1, <3>1, HaltKeeps
      <4> QED  BY <1>19, <2>2, <2>3, <2>5, <4>1
    <3>2. CASE reserve /\ o = Aim(ended, policy.base, "base", FALSE)
      <4>1. o.mem = ended  BY <3>2 DEF Aim
      <4> QED  BY <1>19, <2>5, <4>1
    <3>3. CASE ~reserve /\ o = Aim(won.mem, won.amps, won.stage, paced.stamped)
      <4>1. o.mem = won.mem  BY <3>3 DEF Aim
      <4> QED  BY <1>19, <3>3, <4>1
    <3> QED  BY <2>4, <3>1, <3>2, <3>3
  <2>7. free.combined /\ free = joined  BY <1>14, <1>16, <2>6
  <2> QED  BY <2>6, <2>7
<1> QED  BY <1>18, <1>19 DEF joined, reserve

\* Within its interval a shared target that the total still reaches is kept.
LEMMA CombinedKeeps ==
    ASSUME World, NEW hold \in Holds, NEW t \in Int, NEW energy \in Nat, NEW surplus \in Nat,
           NEW total \in Int, hold.share, hold.phase = "morning", t - hold.since < AdjustTicks,
           total >= hold.amps, total >= Minimum, hold.amps <= PreFreeCeiling,
           NEW r, r = Combined(hold, t, total, energy, surplus)
    PROVE  r.hold.amps = hold.amps
<1> DEFINE prev == IF hold.share THEN hold ELSE NoHold
           reduced == prev.phase # "none" /\ total < prev.amps
           whole == CombinedCurrent(policy.base, energy, surplus,
                                    SpendingHorizon(NoHold, t, ToFree(t)), PreFreeCeiling, Low)
           asked == IF reduced THEN Smaller(total, whole) ELSE total
           morning == "morning"  no == FALSE
           limited == RateLimit(prev, t, morning, asked, surplus, reduced, no, AdjustTicks)
           amps == Smaller(limited.hold.amps, PreFreeCeiling)
           yes == TRUE
<1>1. r = [limited EXCEPT !.hold.amps = amps, !.hold.share = yes]  BY DEF Combined
<1>2. prev = hold  OBVIOUS
<1>3. hold.amps \in Int /\ hold.since \in Int /\ Minimum \in Int /\ AdjustTicks \in Int
  BY PacingAssumption, CurrentsAssumption DEF Holds
<1>4. ~reduced  BY <1>2, <1>3
<1>5. morning \in Measures /\ surplus \in Int /\ PreFreeCeiling \in Int  BY Offers DEF Measures
<1>6. limited = [hold |-> limited.hold, stamped |-> limited.stamped, held |-> limited.held]
  BY DEF RateLimit
<1>7. hold.phase = morning  OBVIOUS
<1> HIDE DEF prev, reduced, whole, morning, no, yes
<1>8. asked = total  BY <1>4
<1> HIDE DEF asked
<1>9. limited = RateLimit(hold, t, morning, asked, surplus, reduced, no, AdjustTicks)  BY <1>2
<1> HIDE DEF limited
<1>10. limited.hold \in Holds  BY <1>3, <1>5, <1>8, <1>9, RateLimited
<1>11. limited.hold.amps = hold.amps
  <2>1. \/ limited.hold = NoHold /\ asked < Minimum
        \/ /\ limited.hold.phase = morning /\ limited.hold.since = t /\ limited.hold.amps = asked
           /\ \/ hold.phase # morning
              \/ asked < hold.amps /\ reduced
              \/ t - hold.since >= AdjustTicks
        \/ /\ hold.phase = morning /\ limited.hold.phase = morning
           /\ limited.hold.since = hold.since /\ limited.hold.amps = hold.amps
    BY <1>3, <1>5, <1>8, <1>9, RatePaces
  <2> QED  BY <1>3, <1>4, <1>7, <1>8, <2>1
<1>12. r.hold = [limited.hold EXCEPT !.amps = amps, !.share = yes]  BY <1>1, <1>6
<1>13. r.hold.amps = amps  BY <1>10, <1>12 DEF Holds
<1> QED  BY <1>3, <1>5, <1>11, <1>13 DEF Smaller

-----------------------------------------------------------------------------
(* A combined target stays up for as long as the energy is spent as planned. *)

\* Where the interval of an accepted target ends, and whether an energy pays what is left
\* of it.
Ends(h) == Smaller(h.since + AdjustTicks, NextAt(h.since, site.freeStart))
Pays(h, energy) ==
    energy > 0 /\ (h.amps - policy.base - house.surplus) * (Ends(h) - now) <= energy

\* A shared target in a house and a car that still are as it was accepted for.
Sustained(m) ==
    /\ policy.morning /\ policy.preFree /\ house.trouble = "none" /\ house.battery >= 2
    /\ car.plugged /\ car.room = Ample /\ m.active /\ ~m.soak
    /\ m.hold.phase = "morning" /\ m.hold.since <= now /\ ~InFree(m.hold.since)
    /\ Minimum <= m.hold.amps /\ policy.base < m.hold.amps /\ m.hold.amps <= PreFreeCeiling
    /\ now < Ends(m.hold) => Pays(m.hold, house.spare) /\ Pays(m.hold, car.room)

\* As long as all goes to plan: the cycle is undisturbed, a shared target is sustained, and
\* the car draws no more or is about to be told.
PlanInv ==
    /\ pc # "idle" /\ job.clean => job.at = now
    /\ pc # "idle" /\ run.calm => job.clean
HeldInv ==
    run.calm /\ mem.hold.share =>
        /\ Sustained(mem)
        /\ IF pc \in {"store", "act"} THEN job.target = mem.hold.amps ELSE Draw <= mem.hold.amps
CalmInv == PlanInv /\ HeldInv

\* The site's clocks and the time are what SiteWindows has them be.
LEMMA OnSite == ASSUME ClockInv PROVE TypeInv /\ now \in Int /\ site.freeStart \in Clock
  BY DEF ClockInv, TypeInv, Site

\* What is left of the interval is what the spending horizon plans over.
LEMMA EndsTyped ==
    ASSUME World, ClockInv, NEW h \in Holds
    PROVE  /\ Ends(h) \in Int /\ Ends(h) <= h.since + AdjustTicks
           /\ Ends(h) <= NextAt(h.since, site.freeStart)
           /\ h.since = now => Ends(h) - now = Whole(now)
<1>1. h.since \in Int /\ AdjustTicks \in Int /\ now \in Int /\ site.freeStart \in Clock
  BY OnSite, PacingAssumption DEF Holds
<1> DEFINE next == NextAt(h.since, site.freeStart)
<1>2. next \in Int  BY <1>1, Next1
<1>3. h.since = now => Whole(now) = Smaller(next - now, AdjustTicks)  BY DEF Whole, ToFree
<1>4. Ends(h) = Smaller(h.since + AdjustTicks, next)  BY DEF Ends
<1> HIDE DEF next
<1>5. Ends(h) \in Int /\ Ends(h) <= h.since + AdjustTicks /\ Ends(h) <= next
  BY <1>1, <1>2, <1>4 DEF Smaller
<1>6. h.since = now => Ends(h) - now = Whole(now)  BY <1>1, <1>2, <1>3, <1>4 DEF Smaller
<1> QED  BY <1>5, <1>6 DEF next

\* A target accepted now for what the energy pays is paid for until its interval ends.
LEMMA AcceptedPays ==
    ASSUME World, ClockInv, NEW h \in Holds, h.since = now, NEW energy \in Nat, energy > 0,
           h.amps <= policy.base + house.surplus + energy \div Whole(now),
           NEW pool \in Nat, energy <= pool
    PROVE  Pays(h, pool)
<1>1. Ends(h) - now = Whole(now) /\ Whole(now) \in Int /\ Whole(now) >= 1
  BY EndsTyped, OnSite, NoHoldTyped, WholeHorizon
<1>2. policy.base \in Nat /\ house.surplus \in Nat /\ h.amps \in Int  BY Offers DEF Holds
<1> DEFINE x == h.amps - policy.base - house.surplus  n == Whole(now)
<1>3. energy \div n \in Nat  BY <1>1, PartOfEnergy
<1>4. x \in Int /\ x <= energy \div n  BY <1>2, <1>3
<1>5. Pays(h, pool) <=> pool > 0 /\ x * n <= pool  BY <1>1 DEF Pays
<1>6. n \in Int /\ n >= 1  BY <1>1
<1> HIDE DEF x, n
<1>7. x * n <= energy  BY <1>4, <1>6, PartPays
<1>8. x * n \in Int  BY <1>4, <1>6
<1> QED  BY <1>5, <1>7, <1>8

\* A decision that leaves a shared target has what sustains it, and commands it.
LEMMA DecidedSustained ==
    ASSUME World, ClockInv, Memory(mem), NEW o, o = Outside(mem, now, View), o.mem.hold.share,
           car.plugged, car.room = Ample, ~InFree(now),
           mem.hold.share /\ o.mem.hold.since = mem.hold.since => Sustained(mem)
    PROVE  Sustained(o.mem) /\ o.target = o.mem.hold.amps
<1> DEFINE joined == Joined(mem, now, View)  quiet == Quiet(mem)  h == joined.mem.hold
<1>1. now \in Int /\ View \in Views /\ Surplus(View) = house.surplus
  BY OnSite, ViewTyped, SurplusTyped
<1>2. joined.combined /\ o.mem.hold = h /\ o.mem.active /\ ~o.mem.soak
      /\ o.target = Smaller(joined.amps, Ceiling)
  BY <1>1, OutsideShares
<1>3. Memory(quiet) /\ quiet.hold = mem.hold  BY QuietMemory
<1> HIDE DEF quiet
<1>4. joined = PreFree(quiet, now, View, Morning(now, View))  BY DEF Joined, quiet
<1> HIDE DEF joined
<1>5. /\ Offered(now) /\ joined.amps = h.amps
      /\ h.phase = "morning" /\ Reaches(joined.amps) /\ joined.amps <= PreFreeCeiling
      /\ Accepted(h, quiet, now, View)
  BY <1>1, <1>2, <1>3, <1>4, CombinedTarget
<1>6. h \in Holds
  <2>1. Memory(joined.mem)  BY <1>1, <1>3, <1>4, PreFreeStage
  <2> QED  BY <2>1 DEF Memory
<1> HIDE DEF h
<1>7. h.amps \in Int /\ PreFreeCeiling \in Nat /\ policy.base \in Nat /\ house.spare \in Nat
      /\ car.room \in Nat
  BY <1>6, Offers DEF Holds, World, Cars
<1>8. policy.base < h.amps /\ Minimum <= h.amps /\ h.amps <= PreFreeCeiling
  BY <1>5, <1>7, CurrentsAssumption DEF Reaches
<1>9. o.target = h.amps
  <2>1. h.amps <= Ceiling
    BY <1>7, <1>8, CurrentsAssumption DEF PreFreeCeiling, Headroom, Larger
  <2> QED  BY <1>2, <1>5, <1>7, <2>1, CurrentsAssumption DEF Smaller
<1>10. h.since <= now /\ ~InFree(h.since) /\ (now < Ends(h) => Pays(h, house.spare) /\ Pays(h, car.room))
  <2> DEFINE energy == PreFreeEnergy(now)
  <2>1. energy = Smaller(house.spare, car.room) /\ energy > 0  BY <1>5 DEF Offered
  <2> HIDE DEF energy
  <2>2. energy \in Nat /\ energy <= house.spare /\ energy <= car.room
    BY <1>7, <2>1 DEF Smaller
  <2>3. CASE /\ h.since = now
             /\ h.amps <= policy.base + Surplus(View) + energy \div Whole(now)
    <3>1. h.amps <= policy.base + house.surplus + energy \div Whole(now)  BY <1>1, <2>3
    <3>2. Pays(h, house.spare) /\ Pays(h, car.room)
      BY <1>6, <1>7, <2>1, <2>2, <2>3, <3>1, AcceptedPays
    <3> QED  BY <1>1, <2>3, <3>2
  <2>4. CASE /\ mem.hold.share /\ h.since = mem.hold.since
             /\ h.amps = Smaller(mem.hold.amps, PreFreeCeiling)
    <3>1. Sustained(mem)  BY <1>2, <2>4
    <3>2. /\ mem.hold.since <= now /\ ~InFree(mem.hold.since) /\ mem.hold.amps <= PreFreeCeiling
          /\ now < Ends(mem.hold) => Pays(mem.hold, house.spare) /\ Pays(mem.hold, car.room)
      BY <3>1 DEF Sustained
    <3>3. h.amps = mem.hold.amps  BY <2>4, <3>2 DEF Smaller
    <3>4. Ends(h) = Ends(mem.hold)  BY <2>4 DEF Ends
    <3> QED  BY <2>4, <3>2, <3>3, <3>4 DEF Pays
  <2> QED  BY <1>3, <1>5, <2>3, <2>4 DEF Accepted, energy
<1>11. Sustained(o.mem)
  BY <1>2, <1>5, <1>8, <1>10 DEF Sustained, Offered
<1> QED  BY <1>2, <1>9, <1>11

\* Before its interval ends, the next decision keeps a sustained target up: what is left of
\* the interval is what it plans over, and the energy pays for that.
LEMMA SustainedKept ==
    ASSUME World, ClockInv, Memory(mem), mem.hold.share, Sustained(mem),
           InPreFree(now), now < Ends(mem.hold), NEW o, o = Outside(mem, now, View)
    PROVE  o.mem.hold.share /\ o.mem.hold.amps = mem.hold.amps
<1> DEFINE h == mem.hold  quiet == Quiet(mem)  joined == Joined(mem, now, View)
           total == Total(quiet, now, View)  energy == PreFreeEnergy(now)
           adjusted == Adjusted(quiet, now, View)  n == Ends(h) - now
           x == h.amps - policy.base - house.surplus
           morning == Morning(now, View)
<1>1. now \in Int /\ View \in Views /\ Surplus(View) = house.surplus /\ house.surplus \in Nat
  BY OnSite, ViewTyped, SurplusTyped
<1>2. Memory(quiet) /\ quiet.hold = h /\ quiet.active = mem.active  BY QuietMemory
<1>3. h \in Holds  BY DEF Memory
<1>4. /\ policy.morning /\ policy.preFree /\ house.trouble = "none" /\ house.battery >= 2
      /\ car.room = Ample /\ mem.active /\ h.phase = "morning" /\ h.since <= now
      /\ Minimum <= h.amps /\ policy.base < h.amps /\ h.amps <= PreFreeCeiling
      /\ Pays(h, house.spare) /\ Pays(h, car.room)
  BY DEF Sustained
<1>5. /\ h.amps \in Int /\ h.since \in Int /\ policy.base \in Nat /\ PreFreeCeiling \in Nat
      /\ house.spare \in Nat /\ car.room \in Nat /\ AdjustTicks \in Int /\ Minimum \in Int
      /\ house.battery \in Int
  BY <1>3, Offers, PacingAssumption, CurrentsAssumption DEF Holds, World, Cars, Measurements
<1>6. /\ Ends(h) \in Int /\ Ends(h) <= h.since + AdjustTicks
      /\ Ends(h) <= NextAt(h.since, site.freeStart)
  BY <1>3, EndsTyped
<1>7. energy = Smaller(house.spare, car.room)
  <2>1. CombinedBudget = house.spare  BY <1>4 DEF CombinedBudget, Coherent
  <2> QED  BY <1>4, <2>1 DEF PreFreeEnergy, Joint
<1>8. /\ house.spare > 0 /\ x * n <= house.spare /\ car.room > 0 /\ x * n <= car.room
  BY <1>4 DEF Pays
<1>9. n \in Int /\ n >= 1 /\ x \in Int  BY <1>1, <1>5, <1>6
<1> HIDE DEF energy
<1>10. energy \in Nat /\ energy > 0 /\ x * n <= energy
  BY <1>5, <1>7, <1>8 DEF Smaller
<1>11. SpendingHorizon(h, now, ToFree(now)) = n
  <2>1. site.freeStart \in Clock  BY OnSite
  <2>2. NextAt(now, site.freeStart) = NextAt(h.since, site.freeStart)
    <3>1. now < NextAt(h.since, site.freeStart)
      <4>1. NextAt(h.since, site.freeStart) \in Int  BY <1>5, <2>1, Next1
      <4> QED  BY <1>1, <1>6, <4>1
    <3> QED  BY <1>1, <1>4, <1>5, <2>1, <3>1, NextKept
  <2> DEFINE next == NextAt(h.since, site.freeStart)
  <2>3. next \in Int  BY <1>5, <2>1, Next1
  <2>4. ToFree(now) = next - now  BY <2>2 DEF ToFree
  <2>5. Ends(h) = Smaller(h.since + AdjustTicks, next)  BY DEF Ends
  <2>6. Anchored(h, now)
    <3>1. now - h.since \in 0 .. AdjustTicks - 1  BY <1>1, <1>4, <1>5, <1>6
    <3> QED  BY <1>4, <3>1 DEF Anchored
  <2>7. SpendingHorizon(h, now, ToFree(now)) = Smaller(ToFree(now), AdjustTicks - (now - h.since))
    BY <1>1, <1>3, <2>6, WholeHorizon
  <2> HIDE DEF next
  <2>8. Smaller(next - now, AdjustTicks - (now - h.since)) = Ends(h) - now
    BY <1>1, <1>5, <2>3, <2>5 DEF Smaller
  <2> QED  BY <2>4, <2>7, <2>8
<1>12. x <= energy \div n /\ energy \div n \in Nat
  <2> HIDE DEF x, n
  <2> QED  BY <1>9, <1>10, PartPays, PartOfEnergy
<1>13. Low  BY <1>8 DEF Low
<1>14. total = CombinedCurrent(policy.base, energy, house.surplus, n, PreFreeCeiling, Low)
  BY <1>1, <1>2, <1>11 DEF Total, energy
<1> DEFINE part == energy \div n
<1>15. part \in Int /\ policy.base + house.surplus + part >= h.amps
  BY <1>1, <1>5, <1>12
<1>16. total \in Int /\ total >= h.amps
  <2> DEFINE most == Smaller(policy.base + house.surplus + part, PreFreeCeiling)
  <2>1. total = IF energy = 0 \/ ~Low \/ most < Minimum THEN policy.base ELSE most
    BY <1>14 DEF CombinedCurrent
  <2> HIDE DEF part
  <2>2. most \in Int /\ most >= h.amps  BY <1>1, <1>4, <1>5, <1>15 DEF Smaller
  <2> HIDE DEF most, total
  <2>3. ~(most < Minimum) /\ ~(energy = 0)  BY <1>4, <1>5, <1>10, <2>2
  <2>4. total = most  BY <1>13, <2>1, <2>3
  <2> QED  BY <2>2, <2>4
<1> HIDE DEF total, n, x, part
<1>17. Together(quiet, now, View, morning)
  <2>1. Requested(quiet, now, View, morning)  BY <1>2, <1>4 DEF Requested, Joint
  <2>2. total > policy.base /\ total >= Minimum  BY <1>4, <1>5, <1>16
  <2> QED  BY <1>4, <2>1, <2>2 DEF Together, total
<1>18. adjusted.hold.amps = h.amps
  <2>1. adjusted = Combined(h, now, total, energy, house.surplus)
    BY <1>1, <1>2 DEF Adjusted, total, energy
  <2>2. now - h.since < AdjustTicks /\ total >= Minimum  BY <1>1, <1>4, <1>5, <1>6, <1>16
  <2> HIDE DEF adjusted, h
  <2> QED  BY <1>1, <1>3, <1>4, <1>10, <1>16, <2>1, <2>2, CombinedKeeps DEF h
<1>19. Reaches(adjusted.hold.amps)  BY <1>4, <1>5, <1>18 DEF Reaches
<1>20. joined = PreFree(quiet, now, View, morning)  BY DEF Joined
<1> HIDE DEF quiet, joined, adjusted, morning
<1>21. joined.combined
  <2>1. PreFreeEnergy(now) > 0 /\ quiet.active /\ policy.preFree  BY <1>2, <1>4, <1>10 DEF energy
  <2>2. Reaches(Adjusted(quiet, now, View).hold.amps)  BY <1>19 DEF adjusted
  <2> QED  BY <1>1, <1>2, <1>13, <1>17, <1>20, <2>1, <2>2, PreFreeCombines
<1>22. joined.mem.hold = adjusted.hold /\ joined.mem.hold.share
  BY <1>1, <1>2, <1>20, <1>21, PreFreeCombines DEF adjusted
<1>23. o.mem.hold = joined.mem.hold
  BY <1>1, <1>4, <1>5, <1>21, OutsideShares DEF joined
<1> QED  BY <1>18, <1>22, <1>23

\* A decision on time leaves a shared target only outside the free window with the car
\* plugged in, unless the car has gone and the target is the one there was.
LEMMA OutcomeShares ==
    ASSUME SolarInv, pc = "decide", job.at = now, job.view = View, Outcome.mem.hold.share
    PROVE  \/ car.plugged /\ ~InFree(now) /\ Outcome = Outside(mem, now, View)
           \/ ~car.plugged /\ Outcome.mem.hold = mem.hold
<1> DEFINE o == Outcome
<1>1. Memory(mem)  BY DEF SolarInv, HoldInv
<1>2. View.plugged <=> car.plugged  BY DEF View
<1>3. o = IF ~View.plugged
            THEN Aim(IF mem.stop /\ car.on THEN ResetSoak(mem) ELSE NoMemory, NoTarget, "base", FALSE)
          ELSE IF InFree(now) THEN Aim(NoMemory, NoTarget, "base", FALSE)
          ELSE Outside(mem, now, View)
  BY DEF Outcome
<1>4. NoMemory.hold = NoHold  BY DEF NoMemory
<1>5. ResetSoak(mem).hold = mem.hold \/ ResetSoak(mem).hold = NoHold  BY <1>1, SoakReset
<1>6. o.mem.hold.share  OBVIOUS
<1> HIDE DEF o
<1>7. CASE car.plugged /\ ~InFree(now)
  <2>1. o = Outside(mem, now, View)  BY <1>2, <1>3, <1>7
  <2> QED  BY <1>7, <2>1 DEF o
<1>8. CASE car.plugged /\ InFree(now)
  <2>1. o = Aim(NoMemory, NoTarget, "base", FALSE)  BY <1>2, <1>3, <1>8
  <2>2. o.mem.hold = NoHold  BY <1>4, <2>1 DEF Aim
  <2> QED  BY <1>6, <2>2, NoHoldTyped
<1>9. CASE ~car.plugged
  <2> DEFINE k == IF mem.stop /\ car.on THEN ResetSoak(mem) ELSE NoMemory
  <2>1. o = Aim(k, NoTarget, "base", FALSE)  BY <1>2, <1>3, <1>9
  <2>2. k.hold = mem.hold \/ k.hold = NoHold  BY <1>4, <1>5
  <2> HIDE DEF k
  <2>3. o.mem = k  BY <2>1 DEF Aim
  <2> QED  BY <1>6, <1>9, <2>2, <2>3, NoHoldTyped DEF o
<1> QED  BY <1>7, <1>8, <1>9

\* A decision of a cycle that goes to plan sustains its target.
LEMMA CalmDecide == ASSUME SolarInv, CalmInv, Decide PROVE CalmInv'
<1> DEFINE o == Outcome
           accepted == o.mem.hold.share /\ (~mem.hold.share \/ o.mem.hold.since # mem.hold.since)
           calm == IF accepted THEN job.clean /\ car.room = Ample ELSE run.calm
<1>1. /\ pc = "decide" /\ mem' = o.mem /\ run' = [run EXCEPT !.calm = calm]
      /\ UNCHANGED <<now, site, policy, house, car, disk, left, events>>
  BY DEF Decide
<1>2. run'.calm <=> calm  BY <1>1 DEF SolarInv, JobInv
<1>3. /\ o.target = NoTarget => pc' = "idle"
      /\ o.target # NoTarget => /\ pc' = "store" /\ job'.target = o.target
                                /\ job'.at = job.at /\ job'.clean = job.clean
  <2> DEFINE fresh == UsesCurrentBudget(mem, job.at)
             due == Due(o.target, IF fresh THEN View ELSE job.view)
             lossy == fresh /\ o.stamped
             decided == [job EXCEPT !.target = o.target, !.stage = o.stage,
                                    !.lossy = lossy, !.due = due]
  <2>1. IF o.target = NoTarget THEN End ELSE pc' = "store" /\ job' = decided  BY DEF Decide
  <2>2. JobInv  BY DEF SolarInv
  <2> HIDE DEF o, fresh, due, lossy
  <2>3. decided.target = o.target /\ decided.at = job.at /\ decided.clean = job.clean
    BY <2>2 DEF JobInv
  <2> HIDE DEF decided
  <2> QED  BY <2>1, <2>3 DEF End
<1>4. World /\ ClockInv /\ Memory(mem)  BY DEF SolarInv, HoldInv
<1>5. /\ job.clean => job.at = now /\ job.view = View
      /\ run.calm => job.clean
      /\ run.calm /\ mem.hold.share => Sustained(mem)
  BY <1>1 DEF CalmInv, PlanInv, HeldInv, SolarInv, ViewInv
<1> HIDE DEF o
<1>6. calm => job.clean  BY <1>5
<1>7. PlanInv'  BY <1>1, <1>2, <1>3, <1>5, <1>6 DEF PlanInv
<1>8. ASSUME calm, o.mem.hold.share
      PROVE  /\ Sustained(o.mem) /\ o.target = o.mem.hold.amps
             /\ o.target # NoTarget
  <2>1. job.at = now /\ job.view = View  BY <1>5, <1>6, <1>8
  <2>2. mem.hold.share /\ o.mem.hold.since = mem.hold.since => Sustained(mem)
    BY <1>5, <1>8
  <2>3. car.plugged /\ ~InFree(now) /\ o = Outside(mem, now, View)
    <3>1. CASE ~car.plugged /\ o.mem.hold = mem.hold
      <4>1. Sustained(mem)  BY <1>8, <2>2, <3>1
      <4> QED  BY <3>1, <4>1 DEF Sustained
    <3> QED  BY <1>1, <1>8, <2>1, <3>1, OutcomeShares DEF o
  <2>4. car.room = Ample
    <3>1. CASE accepted  BY <1>8, <3>1
    <3>2. CASE ~accepted
      <4>1. Sustained(mem)  BY <1>8, <2>2, <3>2
      <4> QED  BY <4>1 DEF Sustained
    <3> QED  BY <3>1, <3>2
  <2>5. Sustained(o.mem) /\ o.target = o.mem.hold.amps
    BY <1>4, <1>8, <2>2, <2>3, <2>4, DecidedSustained
  <2>6. o.target # NoTarget
    <3>1. Minimum <= o.mem.hold.amps  BY <2>5 DEF Sustained
    <3> QED  BY <2>5, <3>1, CurrentsAssumption DEF NoTarget
  <2> QED  BY <2>5, <2>6
<1> HIDE DEF calm
<1>9. HeldInv'
  <2> SUFFICES ASSUME run'.calm, mem'.hold.share
               PROVE  /\ Sustained(mem)'
                      /\ IF pc' \in {"store", "act"} THEN job'.target = mem'.hold.amps
                         ELSE Draw' <= mem'.hold.amps
    BY DEF HeldInv
  <2>1. Sustained(o.mem) /\ o.target = o.mem.hold.amps /\ o.target # NoTarget
    BY <1>1, <1>2, <1>8
  <2>2. PreFreeCeiling' = PreFreeCeiling
    BY <1>1 DEF PreFreeCeiling, Headroom
  <2>3. Sustained(mem)'
    BY <1>1, <2>1, <2>2 DEF Sustained, Ends, Pays, InFree
  <2> QED  BY <1>1, <1>3, <2>1, <2>3
<1> QED  BY <1>7, <1>9 DEF CalmInv

\* Where the house, the car, the time and the memory stay, so does what sustains a target.
LEMMA StaysSustained ==
    ASSUME UNCHANGED <<now, site, policy, house, car>>, mem'.hold = mem.hold,
           mem'.active = mem.active, Sustained(mem), ~mem'.soak
    PROVE  Sustained(mem)' /\ Draw' = Draw
<1>1. PreFreeCeiling' = PreFreeCeiling  BY DEF PreFreeCeiling, Headroom
<1>2. Draw' = Draw  BY DEF Draw
<1> QED  BY <1>1, <1>2 DEF Sustained, Ends, Pays, InFree

\* The car of a sustained target draws no more once it is set to it.
LEMMA SetDraws ==
    ASSUME World, NEW amps \in Int, Minimum <= amps, car.amps = amps
    PROVE  Draw <= amps
  BY CurrentsAssumption DEF Draw

\* A capture, with the minute's save.
LEMMA CalmLook == ASSUME SolarInv, CalmInv, Look PROVE CalmInv'
<1>1. pc = "idle" /\ UNCHANGED <<now, site, policy, house, car, mem, left>>  BY DEF Look
<1>2. CASE pc' = "decide" /\ job' = [NoJob EXCEPT !.at = now, !.view = View, !.clean = TRUE] /\ run' = run
  <2>1. job'.at = now /\ job'.clean = TRUE  BY <1>2 DEF NoJob
  <2>2. PlanInv'  BY <1>1, <2>1 DEF PlanInv
  <2>3. HeldInv'
    <3> SUFFICES ASSUME run.calm, mem.hold.share
                 PROVE  Sustained(mem)' /\ Draw' <= mem.hold.amps
      BY <1>1, <1>2 DEF HeldInv
    <3>1. Sustained(mem) /\ Draw <= mem.hold.amps  BY <1>1 DEF CalmInv, HeldInv
    <3>2. ~mem.soak  BY <3>1 DEF Sustained
    <3> QED  BY <1>1, <3>1, <3>2, StaysSustained
  <2> QED  BY <2>2, <2>3 DEF CalmInv
<1>3. CASE pc' = "idle" /\ run' = NoRun
  BY <1>3 DEF CalmInv, PlanInv, HeldInv, NoRun
<1> QED  BY <1>2, <1>3 DEF Look

\* A save.
LEMMA CalmStore == ASSUME SolarInv, CalmInv, Store PROVE CalmInv'
<1>1. pc = "store" /\ UNCHANGED <<now, site, policy, house, car, mem, left>>  BY DEF Store
<1> DEFINE counted == [run EXCEPT !.stage = IF job.clean THEN job.stage ELSE "none"]
<1>2. \/ job.due /\ pc' = "act" /\ UNCHANGED <<job, run>>
      \/ ~job.due /\ End /\ run' = counted
      \/ End /\ run' = NoRun
  BY DEF Store
<1>3. run.calm /\ mem.hold.share =>
        Sustained(mem) /\ Sustained(mem)' /\ Draw' = Draw /\ job.target = mem.hold.amps
  <2> SUFFICES ASSUME run.calm, mem.hold.share
               PROVE  Sustained(mem) /\ Sustained(mem)' /\ Draw' = Draw /\ job.target = mem.hold.amps
    OBVIOUS
  <2>1. Sustained(mem) /\ job.target = mem.hold.amps  BY <1>1 DEF CalmInv, HeldInv
  <2>2. ~mem.soak  BY <2>1 DEF Sustained
  <2> QED  BY <1>1, <2>1, <2>2, StaysSustained
<1>4. CASE job.due /\ pc' = "act" /\ UNCHANGED <<job, run>>
  <2>1. PlanInv'  BY <1>1, <1>4 DEF CalmInv, PlanInv
  <2>2. HeldInv'  BY <1>1, <1>3, <1>4 DEF HeldInv
  <2> QED  BY <2>1, <2>2 DEF CalmInv
<1>5. CASE ~job.due /\ End /\ run' = counted
  <2>1. pc' = "idle"  BY <1>5 DEF End
  <2>2. run'.calm = run.calm  BY <1>5 DEF SolarInv, JobInv
  <2>3. run.calm => job.clean  BY <1>1 DEF CalmInv, PlanInv
  <2>4. HeldInv'
    <3> SUFFICES ASSUME run.calm, mem.hold.share
                 PROVE  Sustained(mem)' /\ Draw' <= mem.hold.amps
      BY <1>1, <2>1, <2>2 DEF HeldInv
    <3>1. Sustained(mem) /\ Sustained(mem)' /\ Draw' = Draw /\ job.target = mem.hold.amps  BY <1>3
    <3>2. car.amps = mem.hold.amps  BY <1>1, <1>5, <2>3, <3>1 DEF SolarInv, DueInv
    <3>3. mem.hold.amps \in Int  BY DEF SolarInv, HoldInv, Memory, Holds
    <3>4. Minimum <= mem.hold.amps  BY <3>1 DEF Sustained
    <3>5. Draw <= mem.hold.amps  BY <3>2, <3>3, <3>4, SetDraws DEF SolarInv
    <3> QED  BY <3>1, <3>5
  <2> QED  BY <2>1, <2>4 DEF CalmInv, PlanInv
<1>6. CASE End /\ run' = NoRun
  BY <1>6 DEF End, CalmInv, PlanInv, HeldInv, NoRun
<1> QED  BY <1>2, <1>4, <1>5, <1>6

\* A command.
LEMMA CalmAct == ASSUME SolarInv, CalmInv, Act PROVE CalmInv'
<1>1. pc = "act" /\ pc' = "idle" /\ UNCHANGED <<now, site, policy, house, mem, disk, left>>
  BY DEF Act, End
<1>2. PlanInv'  BY <1>1 DEF PlanInv
<1> DEFINE sent == IF ~car.plugged THEN car
                   ELSE IF job.target = 0 THEN [car EXCEPT !.on = FALSE]
                   ELSE [car EXCEPT !.on = TRUE, !.amps = job.target]
           counted == [run EXCEPT !.stage = IF job.clean \/ mem.soak THEN job.stage ELSE "none"]
<1>3. (car' = sent /\ run' = counted) \/ run' = NoRun  BY DEF Act
<1>4. CASE run' = NoRun  BY <1>2, <1>4 DEF CalmInv, HeldInv, NoRun
<1>5. CASE car' = sent /\ run' = counted
  <2>1. run'.calm = run.calm  BY <1>5 DEF SolarInv, JobInv
  <2>2. HeldInv'
    <3> SUFFICES ASSUME run.calm, mem.hold.share
                 PROVE  Sustained(mem)' /\ Draw' <= mem.hold.amps
      BY <1>1, <2>1 DEF HeldInv
    <3>1. Sustained(mem) /\ job.target = mem.hold.amps  BY <1>1 DEF CalmInv, HeldInv
    <3>2. mem.hold.amps \in Int  BY DEF SolarInv, HoldInv, Memory, Holds
    <3>3. Minimum <= mem.hold.amps /\ car.plugged  BY <3>1 DEF Sustained
    <3>4. job.target # 0 /\ 0 <= mem.hold.amps  BY <3>1, <3>2, <3>3, CurrentsAssumption
    <3>5. car' = [car EXCEPT !.on = TRUE, !.amps = job.target]  BY <1>5, <3>3, <3>4
    <3>6. car \in Cars  BY DEF SolarInv, World
    <3>7. car'.amps = mem.hold.amps /\ car'.plugged = car.plugged /\ car'.room = car.room
      BY <3>1, <3>5, <3>6 DEF Cars
    <3>8. Draw' <= mem.hold.amps  BY <3>2, <3>4, <3>7 DEF Draw
    <3>9. PreFreeCeiling' = PreFreeCeiling  BY <1>1 DEF PreFreeCeiling, Headroom
    <3>10. Sustained(mem)'
      BY <1>1, <3>1, <3>7, <3>9 DEF Sustained, Ends, Pays, InFree
    <3> QED  BY <3>8, <3>10
  <2> QED  BY <1>2, <2>2 DEF CalmInv
<1> QED  BY <1>3, <1>4, <1>5

\* A change of the house or of the car is not to plan.
LEMMA CalmChange == ASSUME SolarInv, CalmInv, HouseChange \/ CarChange PROVE CalmInv'
<1>1. Disturbed  BY DEF HouseChange, CarChange
<1>2. run'.calm = FALSE /\ job'.clean = FALSE  BY <1>1, DisturbedJob DEF SolarInv, Disturbed, NoRun
<1> QED  BY <1>2 DEF CalmInv, PlanInv, HeldInv

\* A crash that loses nothing goes to plan.
LEMMA CalmCrash == ASSUME SolarInv, CalmInv, Crash PROVE CalmInv'
<1>1. /\ mem' = Restored(disk, now) /\ pc' = "idle"
      /\ UNCHANGED <<now, site, policy, house, car, disk, left>>
      /\ run'.calm <=> /\ run.calm /\ disk.hold = mem.hold
                       /\ disk.active = mem.active /\ Draw <= mem.hold.amps
  BY DEF Crash
<1>2. PlanInv'  BY <1>1 DEF PlanInv
<1>3. HeldInv'
  <2> SUFFICES ASSUME run'.calm, mem'.hold.share
               PROVE  Sustained(mem)' /\ Draw' <= mem'.hold.amps
    BY <1>1 DEF HeldInv
  <2> DEFINE broken == Broken(disk.samples, now)
             soaking == disk.hold.phase = "spill" /\ ~broken
             hold == IF disk.hold.phase = "spill" /\ ~soaking THEN NoHold ELSE disk.hold
             samples == IF broken THEN << >> ELSE disk.samples
  <2>1. mem' = [hold |-> hold, active |-> disk.active, stop |-> disk.stop, soak |-> soaking,
                samples |-> samples]
    BY <1>1 DEF Restored
  <2>2. mem'.hold = hold /\ mem'.active = disk.active /\ (mem'.soak <=> soaking)  BY <2>1
  <2>3. hold = disk.hold /\ mem'.hold = mem.hold
    <3>1. ~NoHold.share  BY NoHoldTyped
    <3> QED  BY <1>1, <2>2, <3>1
  <2>4. Sustained(mem) /\ Draw <= mem.hold.amps  BY <1>1, <2>3 DEF CalmInv, HeldInv
  <2>5. ~mem'.soak /\ mem'.active = mem.active  BY <1>1, <2>2, <2>4 DEF Sustained
  <2> QED  BY <1>1, <2>3, <2>4, <2>5, StaysSustained
<1> QED  BY <1>2, <1>3 DEF CalmInv

\* What a tick takes from a pool that pays for a target leaves enough for the rest of its
\* interval.
LEMMA PassPays ==
    ASSUME World, ClockInv, NEW h \in Holds, Draw <= h.amps, now + 1 < Ends(h),
           NEW pool \in Nat, Pays(h, pool)
    PROVE  /\ Larger(pool - Spending, 0) > 0
           /\ (h.amps - policy.base - house.surplus) * (Ends(h) - (now + 1))
                <= Larger(pool - Spending, 0)
<1> DEFINE x == h.amps - policy.base - house.surplus  n == Ends(h) - now  draw == Draw
           spent == Spending
<1>1. /\ now \in Int /\ Ends(h) \in Int /\ h.amps \in Int
      /\ policy.base \in Nat /\ house.surplus \in Nat /\ draw \in Int
  BY OnSite, EndsTyped, Offers DEF Holds
<1>2. x \in Int /\ n \in Int /\ n >= 2 /\ n - 1 = Ends(h) - (now + 1)  BY <1>1
<1>3. pool > 0 /\ x * n <= pool  BY DEF Pays
<1>4. draw <= h.amps  OBVIOUS
<1> HIDE DEF draw
<1>5. spent = Larger(draw - policy.base - house.surplus, 0)  BY DEF Spending, draw
<1> HIDE DEF spent
<1>6. spent \in Int /\ (spent = 0 \/ spent <= x)  BY <1>1, <1>4, <1>5 DEF Larger
<1> HIDE DEF x, n
<1>7. pool - spent > 0 /\ x * (n - 1) <= pool - spent  BY <1>2, <1>3, <1>6, TickPays
<1>8. Larger(pool - spent, 0) = pool - spent  BY <1>6, <1>7 DEF Larger
<1> QED  BY <1>2, <1>7, <1>8 DEF x, spent

\* A tick: energy spent as planned still pays for the rest of the interval.
LEMMA CalmPass == ASSUME SolarInv, CalmInv, Pass PROVE CalmInv'
<1>1. now' = now + 1 /\ UNCHANGED <<site, policy, mem, disk, pc>>  BY DEF Pass
<1>2. house' = [house EXCEPT !.spare = Larger(@ - Spending, 0)]  BY DEF Pass
<1>3. car' = [car EXCEPT !.room = IF @ = Ample THEN @ ELSE Larger(@ - Draw, 0)]  BY DEF Pass
<1>4. run'.calm <=> run.calm /\ pc = "idle"  BY DEF Pass
<1>5. pc = "idle" \/ job' = [job EXCEPT !.clean = FALSE]  BY DEF Pass
<1>6. PlanInv'
  <2>1. pc = "idle" \/ job'.clean = FALSE  BY <1>5 DEF SolarInv, JobInv
  <2> QED  BY <1>1, <1>4, <2>1 DEF PlanInv
<1>7. HeldInv'
  <2> SUFFICES ASSUME run.calm, pc = "idle", mem.hold.share
               PROVE  Sustained(mem)' /\ Draw' <= mem.hold.amps
    BY <1>1, <1>4 DEF HeldInv
  <2> DEFINE h == mem.hold  x == h.amps - policy.base - house.surplus
             spare == Larger(house.spare - Spending, 0)
  <2>1. Sustained(mem) /\ Draw <= h.amps  BY DEF CalmInv, HeldInv
  <2>2. World /\ ClockInv /\ Memory(mem) /\ h \in Holds  BY DEF SolarInv, HoldInv, Memory
  <2>3. car' = car
    <3>1. car.room = Ample /\ car \in Cars  BY <2>1, <2>2 DEF Sustained, World
    <3>2. car' = [car EXCEPT !.room = car.room]  BY <1>3, <3>1
    <3> QED  BY <3>1, <3>2 DEF Cars
  <2>4. Draw' = Draw  BY <2>3 DEF Draw
  <2>5. /\ house'.spare = spare /\ house'.surplus = house.surplus
        /\ house'.battery = house.battery /\ house'.limit = house.limit
        /\ house'.trouble = house.trouble
    <3> HIDE DEF spare
    <3>1. house' = [house EXCEPT !.spare = spare]  BY <1>2 DEF spare
    <3> QED  BY <2>2, <3>1 DEF World, Measurements
  <2>6. PreFreeCeiling' = PreFreeCeiling  BY <1>1, <2>5 DEF PreFreeCeiling, Headroom
  <2>7. Ends(h) \in Int /\ now \in Int /\ h.since \in Int /\ Ends(mem.hold)' = Ends(h)
    BY <1>1, <2>2, OnSite, EndsTyped DEF Holds, Ends
  <2>8. h.since <= now /\ h.since <= now + 1  BY <2>1, <2>7 DEF Sustained
  <2>9. ASSUME now + 1 < Ends(h)
        PROVE  /\ spare > 0 /\ x * (Ends(h) - (now + 1)) <= spare
               /\ car.room > 0 /\ x * (Ends(h) - (now + 1)) <= car.room
    <3>1. now < Ends(h)  BY <2>7, <2>9
    <3>2. Pays(h, house.spare) /\ Pays(h, car.room)  BY <2>1, <3>1 DEF Sustained
    <3>3. house.spare \in Nat /\ car.room \in Nat  BY <2>2 DEF World, Measurements, Cars
    <3>4. spare > 0 /\ x * (Ends(h) - (now + 1)) <= spare
      BY <2>1, <2>2, <2>9, <3>2, <3>3, PassPays
    <3> DEFINE rest == Larger(car.room - Spending, 0)  asked == x * (Ends(h) - (now + 1))
    <3>5. rest > 0 /\ asked <= rest
      BY <2>1, <2>2, <2>9, <3>2, <3>3, PassPays
    <3>6. rest <= car.room /\ rest \in Int /\ asked \in Int
      <4> DEFINE spent == Spending  draw == Draw
      <4>1. draw \in Int /\ house.surplus \in Nat /\ policy.base \in Nat  BY <2>2, Offers
      <4> HIDE DEF draw
      <4>2. spent = Larger(draw - policy.base - house.surplus, 0)  BY DEF Spending, draw
      <4> HIDE DEF spent
      <4>3. spent \in Int /\ spent >= 0  BY <4>1, <4>2 DEF Larger
      <4>4. rest = Larger(car.room - spent, 0)  BY DEF spent
      <4>5. h.amps \in Int  BY <2>2 DEF Holds
      <4>6. asked \in Int  BY <2>7, <4>1, <4>5
      <4> HIDE DEF rest, asked
      <4> QED  BY <3>3, <4>3, <4>4, <4>6 DEF Larger
    <3> HIDE DEF rest, asked, spare
    <3>7. car.room > 0 /\ asked <= car.room  BY <3>3, <3>5, <3>6
    <3> QED  BY <3>4, <3>7 DEF asked
  <2>10. now + 1 < Ends(h) =>
           Pays(mem.hold, house.spare)' /\ Pays(mem.hold, car.room)'
    <3> SUFFICES ASSUME now + 1 < Ends(h)
                 PROVE  Pays(mem.hold, house.spare)' /\ Pays(mem.hold, car.room)'
      OBVIOUS
    <3>1. /\ spare > 0 /\ x * (Ends(h) - (now + 1)) <= spare
          /\ car.room > 0 /\ x * (Ends(h) - (now + 1)) <= car.room
      BY <2>9
    <3> HIDE DEF spare
    <3> QED  BY <1>1, <2>3, <2>5, <2>7, <3>1 DEF Pays
  <2> HIDE DEF spare, x
  <2>11. Sustained(mem)'
    BY <1>1, <2>1, <2>3, <2>5, <2>6, <2>7, <2>8, <2>10 DEF Sustained, InFree
  <2> QED  BY <2>1, <2>4, <2>11
<1> QED  BY <1>6, <1>7 DEF CalmInv

\* The planned spending holds its invariant.
LEMMA CalmInvariant == Spec => []CalmInv
<1>1. Init => CalmInv  BY DEF Init, CalmInv, PlanInv, HeldInv, NoRun
<1>2. SolarInv /\ CalmInv /\ [Next]_vars => CalmInv'
  <2> SUFFICES ASSUME SolarInv, CalmInv, [Next]_vars PROVE CalmInv'  OBVIOUS
  <2>1. CASE Look  BY <2>1, CalmLook
  <2>2. CASE Decide  BY <2>2, CalmDecide
  <2>3. CASE Store  BY <2>3, CalmStore
  <2>4. CASE Act  BY <2>4, CalmAct
  <2>5. CASE Pass  BY <2>5, CalmPass
  <2>6. CASE HouseChange \/ CarChange  BY <2>6, CalmChange
  <2>7. CASE Crash  BY <2>7, CalmCrash
  <2>8. CASE UNCHANGED vars
    <3>1. PlanInv'  BY <2>8 DEF vars, CalmInv, PlanInv
    <3>2. HeldInv'
      <4> SUFFICES ASSUME run.calm, mem.hold.share
                   PROVE  Sustained(mem)' /\ IF pc \in {"store", "act"} THEN job.target = mem.hold.amps
                                             ELSE Draw' <= mem.hold.amps
        BY <2>8 DEF vars, HeldInv
      <4>1. Sustained(mem)  BY DEF CalmInv, HeldInv
      <4>2. ~mem.soak  BY <4>1 DEF Sustained
      <4>3. Sustained(mem)' /\ Draw' = Draw  BY <2>8, <4>1, <4>2, StaysSustained DEF vars
      <4> QED  BY <4>3 DEF CalmInv, HeldInv
    <3> QED  BY <3>1, <3>2 DEF CalmInv
  <2> QED  BY <2>1, <2>2, <2>3, <2>4, <2>5, <2>6, <2>7, <2>8 DEF Next, Rest
<1> QED  BY <1>1, <1>2, SolarInvariant, PTL DEF Spec

\* As long as energy is spent as planned, no cycle within the interval of an accepted
\* combined target lowers it (_combined_pre_free_adjustment and
\* pre_free_frontload_horizon_hours), whatever the energies, the currents and the clock.
THEOREM SteadyTarget == Spec => SteadyBetweenAdjustments
<1>1. SolarInv /\ CalmInv =>
        (Decide /\ run.calm /\ mem.hold.share /\ InPreFree(job.at)
           /\ job.at < Smaller(mem.hold.since + AdjustTicks, NextAt(mem.hold.since, site.freeStart))
             => mem'.hold.share /\ mem'.hold.amps >= mem.hold.amps)
  <2> SUFFICES ASSUME SolarInv, CalmInv, Decide, run.calm, mem.hold.share, InPreFree(job.at),
                      job.at < Ends(mem.hold)
               PROVE  mem'.hold.share /\ mem'.hold.amps >= mem.hold.amps
    BY DEF Ends
  <2>1. pc = "decide" /\ mem' = Outcome.mem  BY DEF Decide
  <2>2. job.clean /\ job.at = now /\ job.view = View /\ Sustained(mem)
    BY <2>1 DEF CalmInv, PlanInv, HeldInv, SolarInv, ViewInv
  <2>3. car.plugged /\ ~InFree(now)
    <3>1. /\ TypeInv /\ now \in Int /\ mem.hold.since \in Int /\ site.freeStart \in Clock
      BY OnSite DEF SolarInv, HoldInv, Memory, Holds
    <3>2. mem.hold.since <= now /\ ~InFree(mem.hold.since) /\ car.plugged
      BY <2>2 DEF Sustained
    <3>3. now < NextAt(mem.hold.since, site.freeStart)
      <4>1. /\ Ends(mem.hold) \in Int /\ Ends(mem.hold) <= NextAt(mem.hold.since, site.freeStart)
            /\ NextAt(mem.hold.since, site.freeStart) \in Int
        BY <3>1, EndsTyped, Next1 DEF SolarInv, HoldInv, Memory
      <4> QED  BY <2>2, <3>1, <4>1
    <3> QED  BY <3>1, <3>2, <3>3, FreeKept
  <2>4. Outcome = Outside(mem, now, View)
    <3>1. View.plugged <=> car.plugged  BY DEF View
    <3>2. \/ Outcome = Outside(mem, job.at, job.view)
          \/ Outcome = Outside(mem, now, View)
      BY <2>2, <2>3, <3>1 DEF Outcome
    <3> QED  BY <2>2, <3>2
  <2>5. Outcome.mem.hold.share /\ Outcome.mem.hold.amps = mem.hold.amps
    BY <2>2, <2>4, SustainedKept DEF SolarInv, HoldInv
  <2>6. mem.hold.amps \in Int  BY DEF SolarInv, HoldInv, Memory, Holds
  <2> QED  BY <2>1, <2>5, <2>6
<1>2. [][Next]_vars /\ []SolarInv /\ []CalmInv => SteadyBetweenAdjustments
  BY <1>1, PTL DEF SteadyBetweenAdjustments
<1> QED  BY <1>2, SolarInvariant, CalmInvariant, PTL DEF Spec
==============================================================================
