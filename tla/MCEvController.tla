---------------------------- MODULE MCEvController ----------------------------
(***************************************************************************)
(* The direct path with two retry intervals, and the free-window planner on  *)
(* small measurements before it is proved about for all of them.             *)
(***************************************************************************)
EXTENDS EvController

Planner == INSTANCE FreeWindowCurrent

\* The seven intervals of the code shortened to two: one tick, then two.
MCIntervals == <<1, 2>>

\* A 0.8 A path with steps of 0.3 A: overruns, deadband, priorities, a battery that
\* charges as it should, too little or not at all.
Measured ==
    [ceiling : {8}, physical : {1, 4}, step : {3}, baseline : {0, 5}, minimum : {2, 6},
     requested : {7}, limit : {0, 9}, headroom : {2}, average : {-3, 8, 13}, grid : {TRUE},
     drawn : {1, 6}, feedback : BOOLEAN, battery : {TRUE}, batteryFull : BOOLEAN, claim : {8},
     charge : {-1, 5}, slack : {1}, settled : {TRUE}, full : BOOLEAN, priority : {FALSE},
     soc : {3, 5}, policy : {4}]

\* Days that fit, that must be paced, that are used up, and whose window is over.
Days ==
    [known : {TRUE}, meter : BOOLEAN, allowance : {20, 90}, imported : {30}, margin : {3},
     need : {5, 50}, batteryGap : {7}, load : {4}, carInLoad : {FALSE}, drawn : {2},
     remaining : {0, 5}, limit : {20}]

Limits ==
    [connected : BOOLEAN, policy : {50, 80, 100}, current : {40, 95}, soc : {30, 79, 99},
     known : BOOLEAN, protected : BOOLEAN, headroom : {0, 3}, least : {50, 95},
     most : {85, 100}, step : {1, 5}, full : BOOLEAN]

ASSUME PlannerChecked ==
    /\ \A e \in Measured, p \in Days, guard \in BOOLEAN :
          /\ Planner!WithinRatings(e, p, guard) /\ Planner!OverrunCorrected(e, p, guard)
          /\ Planner!BatteryComesFirst(e, p, guard) /\ Planner!AllowanceKept(e, p)
    /\ \A c \in Limits : Planner!LimitKept(c)

===============================================================================
