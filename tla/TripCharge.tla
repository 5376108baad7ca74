------------------------------ MODULE TripCharge ------------------------------
(***************************************************************************)
(* The trip-charge controller (trip_charge.py), its journal and the Charge *)
(* to Full setting it leases from the EV controller (ev_active.py,         *)
(* _async_set_charge_to_full_locked).                                      *)
(*                                                                         *)
(* Every change of the setting is journalled first, under the EV lock; the *)
(* setting itself is a value of the configuration entry, which Home        *)
(* Assistant writes to disk some time later.  An edit or a cancel changes  *)
(* the journal at once, while another task may hold the lock and await a   *)
(* save, and only then queues for the lock.                                *)
(*                                                                         *)
(* The code between two saves runs in one step.  A step takes the memory   *)
(* "heo" to the next save ("at" names it) or to the end of the task.       *)
(***************************************************************************)
EXTENDS Integers, Sequences

CONSTANTS
    MaxHours,    \* ticks a trip may use the override, from its first start
    MaxEvents    \* bound: requests, faults and changes of the world

ASSUME BoundsAssumption == MaxHours \in Nat \ {0} /\ MaxEvents \in Nat

VARIABLES
    heo,      \* memory: journal state, flags, setting, and the task in the lock
    file,     \* the stored journal, or Unreadable
    entry,    \* the setting in the stored configuration entry
    soc,      \* "low", "target" or "unknown", against the trip's target
    car,      \* "home", "away" (verified) or "unknown"
    gate,     \* whether the EV control gate is ready
    time,     \* "early", "due" or "gone", against planned start and departure
    waiting,  \* edits that wait for the lock: TRUE for one that disarms
    off,      \* history: whether the last stored request was an OFF; FALSE again when
              \* the journal cannot be read and somebody cancels or asks for an ON
    ran,      \* history: ticks since the armed trip was first admitted
    called,   \* history: "asked" once the trip is called off, "stored" once that is stored;
              \* "undone" if a rollback then arms the trip again, "forgotten" if the
              \* memory is lost before the request is stored; "no" for a new trip
    events    \* requests, faults and changes so far

world == <<soc, car, gate, time>>
history == <<off, ran, called>>
vars == <<heo, file, entry, world, waiting, history, events>>

Unset == -1

\* TripChargeState: on is full_enabled, any full_generation > 0, dep the edition
\* of departure and target, cap the captured one; fresh: the last Full generation
\* ended with the recorded stop.  owner_token is set exactly when full_owner is it.
Empty == [armed |-> FALSE, gen |-> 0, dep |-> 0, cap |-> Unset, owner |-> "none", on |-> FALSE,
          any |-> FALSE, cleanup |-> FALSE, started |-> Unset, stop |-> "none", fresh |-> FALSE,
          paused |-> FALSE]

\* owns_full
Owns(s) == s.owner = "trip"
Active(s) == Owns(s) \/ (s.armed /\ s.started # Unset)

Unreadable == [Empty EXCEPT !.gen = -1]
NoTask == [who |-> "none", at |-> "free", saving |-> Empty, prev |-> Empty, gen |-> 0]
Down(full) == [life |-> "down", invalid |-> FALSE, dirty |-> FALSE, st |-> Empty,
               full |-> full, task |-> NoTask]

Init ==
    /\ heo = Down(FALSE) /\ entry = FALSE
    /\ file \in {Empty, [Empty EXCEPT !.armed = TRUE]}
    /\ soc = "low" /\ car = "home" /\ gate = TRUE /\ time = "early"
    /\ waiting = << >> /\ off = FALSE /\ ran = Unset /\ called = "no" /\ events = 0

Up == heo.life # "down"
\* _stopped, which a new controller is born with
Stopped(h) == h.life # "up"

Spend == events < MaxEvents /\ events' = events + 1

-------------------------------------------------------------------------------
(* async_record_full_intent_locked                                          *)

\* A trip's own OFF; the lease stays, as a duty to clean up, until it is cleared.
TripOff(s, why) ==
    [s EXCEPT !.on = FALSE, !.cleanup = TRUE, !.stop = why, !.fresh = TRUE]

\* Mutant: every admission, also after a pause, starts the clock anew.
TripOnAnew(s) ==
    [s EXCEPT !.started = 0, !.any = TRUE, !.owner = "trip", !.on = TRUE, !.cap = s.dep,
              !.cleanup = FALSE, !.fresh = FALSE]

\* A trip's ON; the clock runs from the first one.
TripOn(s) ==
    [s EXCEPT !.started = IF @ = Unset THEN 0 ELSE @, !.any = TRUE, !.owner = "trip",
              !.on = TRUE, !.cap = s.dep, !.cleanup = FALSE, !.fresh = FALSE]

\* A trip's ON that was not stored for sure leaves only the duty to clean up.
TripOnFailed(s, prev) ==
    [s EXCEPT !.armed = FALSE, !.any = TRUE, !.owner = "trip", !.on = FALSE, !.cap = prev.dep,
              !.cleanup = TRUE, !.fresh = FALSE, !.paused = FALSE]

\* The operator's request, or the EV controller's own end of the override.
Others(s, enabled) ==
    LET stops == ~enabled /\ (s.on \/ ~s.any)
    IN [s EXCEPT !.any = TRUE, !.on = enabled, !.owner = IF enabled THEN "operator" ELSE "none",
                 !.cap = Unset, !.cleanup = FALSE,
                 !.armed = @ /\ ~Active(s), !.paused = @ /\ ~Active(s),
                 !.stop = IF stops THEN "other" ELSE @, !.fresh = stops]

\* An operator's ON that failed: ownership is rolled back, newer edits stay.
OthersFailed(s, prev) ==
    [s EXCEPT !.on = prev.on, !.owner = prev.owner, !.any = prev.any, !.fresh = prev.fresh,
              !.cap = prev.cap, !.cleanup = prev.cleanup, !.paused = prev.paused,
              !.armed = IF s.gen # prev.gen THEN @ ELSE prev.armed]

-------------------------------------------------------------------------------
(* The journal's reconciliation, from one save to the next.                 *)

\* _save captures the state; an edit may change it while the save runs.
SaveAt(h, point) == [h EXCEPT !.task.at = point, !.task.saving = h.st]
Keep(h) == [h EXCEPT !.task.prev = h.st, !.task.gen = h.st.gen]
Change(h, s) == [h EXCEPT !.st = s, !.dirty = TRUE]

\* The end: the lock is released, or the EV controller goes on with its cycle.
Done(h) ==
    IF h.task.who = "ev" THEN [h EXCEPT !.task = [NoTask EXCEPT !.who = "ev", !.at = "cycle"]]
    ELSE [h EXCEPT !.task = NoTask]

Clear(h) ==
    SaveAt([Keep(h) EXCEPT !.full = FALSE, !.st.owner = "none", !.st.cap = Unset,
                           !.st.cleanup = FALSE], "clear")

\* _finish_locked
Finish(h) ==
    LET s == [h.st EXCEPT !.armed = FALSE, !.paused = FALSE, !.cleanup = Owns(h.st)]
    IN IF ~Owns(s) THEN SaveAt(Change(h, s), "end")
       ELSE IF s.on THEN SaveAt(Change(h, TripOff(s, "other")), "off")
       ELSE Clear(Change(h, s))

\* _pause_locked: the pause is stored before the setting is reduced.
Pause(h) == SaveAt(Change(h, [h.st EXCEPT !.paused = TRUE, !.cleanup = Owns(h.st)]), "pause")
Paused(h) ==
    IF h.full /\ h.st.on THEN SaveAt(Change(h, TripOff(h.st, "disconnected")), "off") ELSE Clear(h)

\* Mutant: the setting follows the configuration entry after a restart.
TombstoneIgnored(h) == h

\* _apply_tombstone_locked: a journalled OFF reduces a setting that is still on.
Tombstone(h) == IF h.st.any /\ ~h.st.on THEN [h EXCEPT !.full = FALSE] ELSE h

Show(h, paused) == Done([h EXCEPT !.st.paused = paused])
Resumable(s) == s.stop = "disconnected" /\ s.fresh

\* Mutant: a lease is reconciled without its deadline.
DecideLeaseUntimed(h) ==
    LET s == h.st
    IN IF s.paused /\ ~s.on THEN Pause(h)
       ELSE IF ~h.full \/ s.cleanup \/ ~s.armed \/ s.cap # s.dep \/ soc = "target" THEN Finish(h)
       ELSE IF car = "away" THEN Pause(h)
       ELSE IF car = "home" /\ soc = "unknown" THEN Finish(h)
       ELSE Show(h, FALSE)

\* _reconcile_locked while the trip owns the override.
DecideLease(h) ==
    LET s == h.st
    IN IF s.started = Unset \/ (s.armed /\ s.started >= MaxHours) THEN Finish(h)
       ELSE IF s.paused /\ ~s.on THEN Pause(h)
       ELSE IF ~h.full \/ s.cleanup \/ ~s.armed \/ s.cap # s.dep \/ soc = "target" THEN Finish(h)
       ELSE IF car = "away" THEN Pause(h)
       ELSE IF car = "home" /\ soc = "unknown" THEN Finish(h)
       ELSE Show(h, FALSE)

\* _reconcile_locked while it does not.
DecideTrip(h) ==
    LET s == h.st
        first == s.started = Unset
    IN IF ~s.armed THEN Done(h)
       ELSE IF ~first /\ (s.started >= MaxHours \/ ~Resumable(s)) THEN Finish(h)
       ELSE IF time = "gone" THEN Finish(h)
       ELSE IF soc = "target" THEN IF first THEN Show(h, FALSE) ELSE Finish(h)
       ELSE IF h.full THEN Finish(h)
       ELSE IF ~first /\ car = "away" THEN Show(h, TRUE)
       ELSE IF soc = "unknown" THEN Show(h, FALSE)
       ELSE IF car # "home" THEN Show(h, ~first)
       ELSE IF ~gate \/ (first /\ time = "early") \/ Stopped(h) THEN Show(h, FALSE)
       ELSE LET k == Keep([h EXCEPT !.st.paused = FALSE])
            IN SaveAt(Change(k, TripOn(k.st)), "on")

Decide(h) == LET t == Tombstone(h) IN IF Owns(t.st) THEN DecideLease(t) ELSE DecideTrip(t)

\* _reconcile_locked
Reconcile(h) ==
    IF Stopped(h) /\ ~Owns(h.st) THEN Done(h)
    ELSE IF h.dirty THEN SaveAt(h, "retry") ELSE Decide(h)

\* Mutant: an edit that came while the start was stored is not noticed.
AdmittedUnfenced(h) == soc = "low" /\ time # "gone" /\ gate /\ car = "home" /\ ~Stopped(h)

\* The admission still stands after its save, _start_inputs_still_current.
Admitted(h) ==
    /\ h.st.gen = h.task.gen /\ h.st.armed /\ ~Stopped(h)
    /\ soc = "low" /\ time # "gone" /\ h.st.started < MaxHours /\ gate /\ car = "home"

\* What follows a save that succeeded, or failed, at each point.
After(h, ok) ==
    LET p == h.task.at
        prev == h.task.prev
    IN CASE p = "retry" -> IF ok \/ Owns(h.st) THEN Decide(h) ELSE Done(h)
         [] p = "end" -> Done(h)
         [] p = "off" -> Clear(h)
         [] p = "clear" -> Done(IF ok THEN h ELSE [h EXCEPT !.st = prev])
         [] p = "pause" -> IF ok THEN Paused(h) ELSE Finish(h)
         [] p = "on" /\ ok ->
              IF Admitted(h) THEN Done([h EXCEPT !.full = TRUE])
              ELSE IF Owns(h.st) THEN Finish(h) ELSE Done(h)
         [] p = "on" /\ ~ok -> Finish([h EXCEPT !.st = TripOnFailed(h.st, prev)])
         [] p = "operator on" ->
              Done(IF ok THEN [h EXCEPT !.full = TRUE]
                   ELSE [h EXCEPT !.st = OthersFailed(h.st, prev)])
         [] p = "operator off" -> Done([h EXCEPT !.full = FALSE])
         [] p = "natural" -> [h EXCEPT !.full = FALSE, !.task = NoTask]
         [] p = "edit" -> Done(IF ok \/ ~h.st.armed THEN h
                               ELSE [h EXCEPT !.st.armed = FALSE, !.st.cleanup = Owns(h.st)])
         [] p = "stop" -> Done([h EXCEPT !.life = "stopped"])

-------------------------------------------------------------------------------
(* The tasks in the lock.                                                   *)

Free == Up /\ heo.task.who = "none"
Take(who) == [heo EXCEPT !.task.who = who]

\* async_reconcile: a state change, the minute's tick or the deadline.
TripReconcile ==
    /\ Free /\ heo.life = "up" /\ ~heo.invalid
    /\ heo' = Reconcile(Take("trip"))
    /\ UNCHANGED <<file, entry, world, waiting, history, events>>

\* async_reconcile_before_ev_locked: an unreadable journal with the setting on
\* ends the cycle.
EvBegins ==
    /\ Free
    /\ heo' = IF ~heo.invalid THEN
                LET t == Tombstone(Take("ev"))
                IN IF Owns(t.st) \/ ~Stopped(t) THEN Reconcile(t) ELSE Done(t)
              ELSE IF heo.full THEN heo ELSE Done(Take("ev"))
    /\ UNCHANGED <<file, entry, world, waiting, history, events>>

\* The rest of the cycle, which may end the override on its own terms.
EvEnds ==
    /\ heo.task.at = "cycle"
    /\ heo' = [heo EXCEPT !.task = NoTask]
    /\ UNCHANGED <<file, entry, world, waiting, history, events>>
EvClears ==
    /\ heo.task.at = "cycle" /\ heo.full /\ Spend
    /\ heo' = SaveAt(Change(heo, Others(heo.st, FALSE)), "natural")
    /\ UNCHANGED <<file, entry, world, waiting, history>>

\* async_request_charge_to_full by the operator.
Request ==
    /\ Free /\ Spend
    /\ \E enabled \in BOOLEAN :
          /\ heo' = SaveAt(Change(Keep(Take("operator")), Others(heo.st, enabled)),
                           IF enabled THEN "operator on" ELSE "operator off")
          /\ off' = (off /\ ~(heo.invalid /\ enabled))
    /\ UNCHANGED <<file, entry, world, waiting, ran, called>>

\* The trip is called off, and the code has not lost the request itself.
CalledOff(c) == c \in {"asked", "stored"}

\* The save of the task in the lock: stored, raised, or raised after it stored.  A
\* failed save that gave the lease back restores the state it began with, and with
\* it a trip that was called off meanwhile.
Saving == heo.task.at \notin {"free", "cycle"}
Stores ==
    LET s == heo.task.saving
    IN /\ Saving
       /\ file' = s
       /\ off' = IF s.any THEN ~s.on ELSE off
       /\ ran' = IF heo.task.at = "on" /\ ran = Unset THEN 0 ELSE ran
Forgets == UNCHANGED <<file, off, ran>>
Saved ==
    /\ Stores
    /\ called' = IF called = "asked" /\ ~heo.task.saving.armed THEN "stored" ELSE called
    /\ heo' = After([heo EXCEPT !.dirty = heo.st # heo.task.saving], TRUE)
    /\ UNCHANGED <<entry, world, waiting, events>>
SaveFails ==
    /\ Saving /\ Spend
    /\ \/ Stores
       \/ Forgets
    /\ heo' = After([heo EXCEPT !.dirty = TRUE], FALSE)
    /\ called' = IF heo'.st.gen < heo.st.gen /\ heo'.st.armed /\ CalledOff(called)
                 THEN "undone" ELSE called
    /\ UNCHANGED <<entry, world, waiting>>

-------------------------------------------------------------------------------
(* Edits.                                                                   *)

\* _edit up to the lock.
Edited(s, kind) ==
    LET cancels == Active(s) /\ kind \in {"disarm", "departure"}
    IN [s EXCEPT !.dep = IF kind = "departure" THEN @ + 1 ELSE @, !.gen = @ + 1,
                 !.armed = ~cancels /\ (kind = "arm" \/ (@ /\ kind # "disarm")),
                 !.paused = @ /\ Active(s) /\ ~cancels,
                 !.cleanup = @ \/ (cancels /\ Owns(s)),
                 !.started = IF kind = "arm" THEN Unset ELSE @]

Edit ==
    /\ Up /\ Spend
    /\ \E kind \in {"arm", "disarm", "departure", "minutes"} :
          /\ kind = "arm" => ~heo.st.armed
          /\ kind = "disarm" => heo.st.armed \/ heo.invalid \/ heo.dirty \/ heo.st.cleanup \/ Active(heo.st)
          /\ heo.invalid => kind = "disarm"
          /\ heo' = Change(heo, Edited(heo.st, kind))
          /\ waiting' = Append(waiting, kind = "disarm")
          /\ called' = IF kind = "arm" THEN "no"
                       ELSE IF kind = "disarm" \/ (kind = "departure" /\ Active(heo.st)) THEN "asked"
                       ELSE called
          /\ ran' = IF kind = "arm" THEN Unset ELSE ran
          /\ time' = IF kind = "departure" THEN "early" ELSE time
    /\ off' = (off /\ ~heo.invalid)
    /\ UNCHANGED <<file, entry, soc, car, gate>>

\* _edit in the lock; a cancel acknowledges an unreadable journal.
EditSaves ==
    /\ Free /\ waiting # << >>
    /\ heo' = SaveAt([Take("edit") EXCEPT !.invalid = @ /\ ~Head(waiting)], "edit")
    /\ waiting' = Tail(waiting)
    /\ UNCHANGED <<file, entry, world, history, events>>

-------------------------------------------------------------------------------
(* Setup, unload, restart and the world.                                    *)

\* async_restore_handoff; a file that cannot be read counts as unreadable.
Load ==
    /\ ~Up
    /\ LET empty == [heo EXCEPT !.life = "loaded"]
       IN \/ /\ heo' = [empty EXCEPT !.invalid = TRUE]
             /\ IF file = Unreadable THEN UNCHANGED events ELSE Spend
          \/ /\ file # Unreadable /\ UNCHANGED events
             /\ heo' = Tombstone([empty EXCEPT !.st = file])
    /\ UNCHANGED <<file, entry, world, waiting, history>>
Start ==
    /\ heo.life = "loaded" /\ Free
    /\ heo' = [heo EXCEPT !.life = "up"]
    /\ UNCHANGED <<file, entry, world, waiting, history, events>>

\* A request that was only heard is forgotten with the memory.
Lost == IF called = "asked" THEN "forgotten" ELSE called

\* async_stop at once, and its last save, which queues for the lock.
Stop ==
    /\ heo.life = "up" /\ Spend
    /\ heo' = [heo EXCEPT !.life = "stopping"]
    /\ UNCHANGED <<file, entry, world, waiting, history>>
StopSaves ==
    /\ heo.life = "stopping" /\ Free
    /\ heo' = IF heo.dirty THEN SaveAt(Take("stop"), "stop") ELSE [heo EXCEPT !.life = "stopped"]
    /\ UNCHANGED <<file, entry, world, waiting, history, events>>

\* The other controllers have stopped and the entry is set up again.
Reload ==
    /\ heo.life = "stopped" /\ Free /\ waiting = << >>
    /\ heo' = Down(heo.full) /\ called' = Lost
    /\ UNCHANGED <<file, entry, world, waiting, off, ran, events>>

\* Home Assistant writes the configuration entry when it likes to.
EntrySaved ==
    /\ entry # heo.full /\ entry' = heo.full
    /\ UNCHANGED <<heo, file, world, waiting, history, events>>

\* The process dies; memory and the setting that was not written are lost.
Crash ==
    /\ Up /\ Spend
    /\ heo' = Down(entry) /\ waiting' = << >>
    /\ \/ Stores
       \/ Forgets
    /\ called' = Lost
    /\ UNCHANGED <<entry, world>>
Corrupt ==
    /\ ~Up /\ file # Unreadable /\ Spend
    /\ file' = Unreadable
    /\ UNCHANGED <<heo, entry, world, waiting, history>>

World ==
    /\ Spend
    /\ \/ soc' \in {"low", "target", "unknown"} \ {soc} /\ UNCHANGED <<car, gate>>
       \/ car' \in {"home", "away", "unknown"} \ {car} /\ UNCHANGED <<soc, gate>>
       \/ gate' = ~gate /\ UNCHANGED <<soc, car>>
    /\ UNCHANGED <<heo, file, entry, time, waiting, history>>

Older(s) == IF s.started \in 0 .. MaxHours - 1 THEN [s EXCEPT !.started = @ + 1] ELSE s

Tick ==
    /\ heo.task.who = "none"
    /\ heo' = [heo EXCEPT !.st = Older(@)]
    /\ file' = Older(file)
    /\ time' \in {time, IF time = "early" THEN "due" ELSE "gone"}
    /\ ran' = IF ran \in 0 .. MaxHours - 1 THEN ran + 1 ELSE ran
    /\ UNCHANGED <<entry, soc, car, gate, waiting, off, called, events>>

Next == \/ TripReconcile \/ EvBegins \/ EvEnds \/ EvClears \/ Request \/ Saved \/ SaveFails
        \/ Edit \/ EditSaves \/ Load \/ Start \/ Stop \/ StopSaves \/ Reload \/ EntrySaved \/ Crash
        \/ Corrupt \/ World \/ Tick

\* A save ends, the EV controller's cycles go on, the setup goes on, and time passes.
Spec ==
    /\ Init /\ [][Next]_vars
    /\ WF_vars(Saved \/ SaveFails \/ EvBegins \/ EvEnds \/ EvClears \/ Load) /\ SF_vars(Tick)

-------------------------------------------------------------------------------
(* Properties.                                                              *)

\* The EV controller goes on with a cycle in which the paid override is on.
Proceeds == heo.task.at # "cycle" /\ heo'.task.at = "cycle" /\ heo'.full

\* A paid override that was ended and journalled never charges again, whatever
\* old setting a restart brings back, until a newer request is stored or, while
\* the journal cannot be read, somebody cancels the trip or asks for the override.
NeverReplayed == [][Proceeds => ~off']_vars

\* A trip's override charges for no longer than MaxHours after its first start,
\* through pauses, restarts and failed saves.
TripBounded == [][Proceeds /\ Owns(heo'.st) => ran' < MaxHours]_vars

\* A trip that was called off, by a cancel or by another departure, does not
\* charge, also when the request came while its start was being stored.  Two
\* requests are left out because the code loses them, and such a trip may charge:
\* one that came while the save that gave the lease back failed, whose rollback
\* arms the trip again ("undone"), and one that was not stored when the memory was
\* lost ("forgotten").
CancelHolds == [][Proceeds /\ Owns(heo'.st) => ~CalledOff(called')]_vars

\* The lease does not last: it is given back whatever failed on the way.
LeaseEnds == []<>~(Up /\ Owns(heo.st))

===============================================================================
