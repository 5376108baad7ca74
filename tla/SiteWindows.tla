----------------------------- MODULE SiteWindows -----------------------------
(***************************************************************************)
(* A site with any free window, any export window and any vehicle deadline, *)
(* observed by the controllers at any instants of a few days: the clock    *)
(* moves on by as many ticks as a late or skipped reconciliation takes.    *)
(* SolarPacing runs a controller on such a site.                           *)
(***************************************************************************)
EXTENDS ControlWindows

CONSTANT Horizon    \* ticks the clock runs for
ASSUME HorizonAssumption == Horizon \in Nat

VARIABLES
    now,    \* local time
    site    \* the clock times it is set up with
windowVars == <<now, site>>

Site == [freeStart : Clock, freeEnd : Clock, start : Clock, finish : Clock, ready : Clock]

WindowsInit == now \in 0 .. Horizon /\ site \in Site
ClockMoves == \E later \in now + 1 .. Horizon : now' = later /\ UNCHANGED site
\* The clock stops at the bound of the run.
ClockRests == now = Horizon /\ UNCHANGED windowVars
WindowsNext == ClockMoves \/ ClockRests
WindowsSpec == WindowsInit /\ [][WindowsNext]_windowVars

-----------------------------------------------------------------------------
ExportBounds(t) == ControlWindowBounds(t, site.start, site.finish)
InExport(t) == WindowActive(t, site.start, site.finish)
InFree(t) == WindowActive(t, site.freeStart, site.freeEnd)
InPreFree(t) == PreFreeActive(t, site.freeStart, site.finish)
Collide == DailyWindowsOverlap(site.freeStart, site.freeEnd, site.start, site.finish)
Cycle(t) == DailyReadyCycle(t, site.ready, site.freeStart)

\* The export session and the EV controller, which keeps off the boosted window, ask
\* different functions; unless the bounds are equal they agree at every instant.
ControllersAgree ==
    site.start # site.finish =>
        (InExport(now) <=> BoostedWindowActive(now, site.start, site.finish))

\* The overlap that keeps charge and export from both starting is exact: it is
\* reported if and only if some instant of a day lies in both windows.
OverlapExact == Collide <=> \E t \in Clock : InExport(t) /\ InFree(t)

\* While an export window is open, later evaluations of it see the bounds it opened
\* with, also across midnight; it is never extended by being looked at late.
OpenWindowKeepsItsBounds ==
    [][InExport(now) /\ now' < ExportBounds(now).to
         => ExportBounds(now') = ExportBounds(now)]_windowVars

\* The vehicle may take energy before the free window only when the battery is
\* neither exporting nor being charged, as long as the site's windows do not collide
\* and the export does not end at the very start of the free window.
PreFreeIsBetween ==
    ~Collide /\ site.finish # site.freeStart /\ InPreFree(now)
        => ~InExport(now) /\ ~InFree(now)

\* A deadline still ahead is kept, a new one is ahead, its free window follows it,
\* and its planning opens no sooner than the end of the export before it.
DeadlineKept ==
    [][/\ now' < Cycle(now).ready => Cycle(now') = Cycle(now)
       /\ now' < Cycle(now').ready /\ Cycle(now').ready < Cycle(now').free
       /\ PostExportCycle(Cycle(now'), site.finish) /\ ~Collide
            => \A t \in PostExportOpening(Cycle(now'), site.finish) .. Cycle(now').free - 1 :
                   ~InExport(t)]_windowVars
=============================================================================
