------------------------------ MODULE EvSessions ------------------------------
(***************************************************************************)
(* The pure decisions of the direct EV charging path                       *)
(* (planner/ev.py, planner/ev_candidates.py, planner/ev_outside_state.py,  *)
(* planner/ev_daily_backfill.py): a stored reconciliation record paces the *)
(* writes of one target, a stored stop obligation paces the stop commands, *)
(* and an ownership rule says when either exists.                          *)
(*                                                                         *)
(* Current is 0, 1 (the physical minimum) or 2 (the ceiling); the charge   *)
(* limit is "soft" (at or below the 90 % policy cap) or "full".  Ages are  *)
(* counted in ticks of the controller's 30 s interval and saturate at the  *)
(* longest retry interval.  base is the configured protected baseline current, *)
(* 0 or 1.                                                                 *)
(***************************************************************************)
EXTENDS Integers, Sequences

CONSTANTS
    Intervals,   \* ticks to wait after 1, 2, ... attempts (30 s ... 30 min)
    MaxFull      \* ticks a charge-to-full request may last

ASSUME IntervalsAssumption ==
    /\ Intervals \in Seq(Nat \ {0}) /\ Intervals # << >>
    /\ \A j \in 1 .. Len(Intervals) : \A i \in 1 .. j : Intervals[i] <= Intervals[j]
ASSUME MaxFullAssumption == MaxFull \in Nat \ {0}

Unset == -1                            \* None in the code's optional fields
LastAge == Intervals[Len(Intervals)]

\* Every attempt past the last interval waits that interval.
Attempt(n) == IF n < Len(Intervals) THEN n + 1 ELSE Len(Intervals)

\* Mutant: a bounded number of attempts instead of a bounded interval.
WaitingForGood(tries) ==
    \/ tries.attempts = Len(Intervals)
    \/ tries.attempts > 0 /\ tries.age < Intervals[tries.attempts]

\* Feedback of an earlier write is awaited before the next one.
Waiting(tries) == tries.attempts > 0 /\ tries.age < Intervals[tries.attempts]

NoRecord == [amps |-> Unset, limit |-> "none", attempts |-> 0, age |-> 0, confirmed |-> FALSE]
NoStop   == [pending |-> FALSE, attempts |-> 0, age |-> 0]
NewStop  == [NoStop EXCEPT !.pending = TRUE]

-------------------------------------------------------------------------------
(* Direct reconciliation of the car with a target.                         *)

\* Only a charge-to-full request may carry the limit past the policy cap.
Capped(limit, full) == IF full THEN limit ELSE "soft"

\* A target below the physical minimum is not written at all.
MayWrite(amps) == amps >= 1

\* The limit first, then the current, then the start.
Commands(obs, amps, limit) ==
    IF ~MayWrite(amps) THEN << >>
    ELSE (IF obs.limit # limit THEN <<"limit">> ELSE << >>)
             \o (IF obs.amps # amps THEN <<"amps">> ELSE << >>)
             \o (IF obs.on THEN << >> ELSE <<"start">>)

Matches(obs, amps, limit) == MayWrite(amps) /\ Commands(obs, amps, limit) = << >>

\* A changed target, or one confirmed for the longest interval, is a new episode.
Episode(rec, amps, limit) ==
    LET kept == rec.amps = amps /\ rec.limit = limit
        rearmed == rec.attempts > 0 /\ rec.confirmed /\ rec.age >= LastAge
    IN IF kept /\ ~rearmed THEN rec
       ELSE [NoRecord EXCEPT !.amps = amps, !.limit = limit]

\* reconcile_direct_evse: the next record and the commands to issue now.
Reconcile(rec, obs, amps, limit) ==
    LET r == Episode(rec, amps, limit)
        cmds == Commands(obs, amps, limit)
    IN IF Matches(obs, amps, limit) THEN [rec |-> [r EXCEPT !.confirmed = TRUE], cmds |-> << >>]
       ELSE IF Waiting(r) \/ cmds = << >>
         THEN [rec |-> [r EXCEPT !.confirmed = FALSE], cmds |-> << >>]
         ELSE [rec |-> [r EXCEPT !.attempts = Attempt(@), !.age = 0, !.confirmed = FALSE],
               cmds |-> cmds]

-------------------------------------------------------------------------------
(* Sessions and ownership outside the free window.  s is the controller's   *)
(* memory; only the fields these decisions own are changed.                 *)

\* Ending the daily backfill session leaves a stop obligation.
EndDaily(s) == IF s.active THEN [s EXCEPT !.active = FALSE, !.stop = NewStop] ELSE s

\* The plan starts a session, or completes the active one.
AdvanceDaily(s, offer) ==
    IF offer # "daily" THEN EndDaily(s)
    ELSE IF s.active THEN s
    ELSE [s EXCEPT !.active = TRUE, !.stop = NoStop]

\* advance_charge_to_full: the request starts its clock, completes, times out
\* or was withdrawn; a request that had started leaves a stop obligation.
AdvanceFull(s, base, full, done) ==
    LET age == IF s.fullAge = Unset THEN 0 ELSE s.fullAge
        completed == full /\ (done \/ age >= MaxFull)
        ended == completed \/ (~full /\ s.fullAge # Unset)
    IN [s EXCEPT !.fullAge = IF completed \/ ~full THEN Unset ELSE age,
                 !.stop = IF ended /\ base = 0 THEN NewStop ELSE @]

\* select_outside_stage_candidate
StageAmps(s, base, full, offer) ==
    CASE full \/ s.active                     -> 2
      [] ~full /\ ~s.active /\ offer = "solar" -> 1
      [] OTHER                                -> base

\* Mutant: only a stop that is already pending is pursued.
OwnStopsOnly(s, base, full, offer, on) ==
    LET target == full \/ s.active \/ offer = "solar"
        t == [s EXCEPT !.targetActive = target, !.stopReq = FALSE]
    IN IF target \/ base > 0 THEN [t EXCEPT !.control = TRUE]
       ELSE IF s.stop.pending THEN [t EXCEPT !.control = TRUE, !.stopReq = TRUE]
       ELSE t

\* reconcile_outside_ownership: a stage or a baseline owns the car; without
\* either, a pending stop is pursued and an unexpected charge starts one.
Own(s, base, full, offer, on) ==
    LET target == full \/ s.active \/ offer = "solar"
        t == [s EXCEPT !.targetActive = target, !.stopReq = FALSE]
    IN IF target \/ base > 0 THEN [t EXCEPT !.control = TRUE]
       ELSE IF s.stop.pending THEN [t EXCEPT !.control = TRUE, !.stopReq = TRUE]
       ELSE IF on THEN [t EXCEPT !.stop = NewStop, !.control = TRUE, !.stopReq = TRUE]
       ELSE t

\* abort_outside_charge_at_battery_reserve
AbortAtReserve(s, base, on) ==
    LET request == on /\ base = 0
    IN [s EXCEPT !.active = FALSE,
                 !.stop = IF base > 0 THEN NoStop ELSE IF request THEN NewStop ELSE @,
                 !.target = base, !.limit = "soft",
                 !.targetActive = base > 0, !.stopReq = request,
                 !.control = base > 0 \/ request]

\* cleanup_disconnected_ev
CleanupDisconnected(s) ==
    [s EXCEPT !.active = FALSE, !.stop = NoStop, !.fullAge = Unset,
              !.control = FALSE, !.targetActive = FALSE]

\* evaluate_ev_policy_availability
OutsideEnabled(s, base, full, offer, on) ==
    base > 0 \/ on \/ full \/ s.stop.pending \/ offer # "off"

\* select_ev_policy_route
Route(s, base, window, full, offer, on) ==
    IF window THEN "free"
    ELSE IF OutsideEnabled(s, base, full, offer, on) \/ s.control THEN "outside"
    ELSE "general"

===============================================================================
