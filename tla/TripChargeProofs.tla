--------------------------- MODULE TripChargeProofs ---------------------------
(***************************************************************************)
(* Theorems about the trip-charge controller: for every time a trip may    *)
(* use the override and every number of requests, faults and changes.      *)
(***************************************************************************)
EXTENDS TripCharge, TLAPS

Starts == {Unset} \cup 0 .. MaxHours
Owners == {"none", "trip", "operator"}
States == [armed : BOOLEAN, gen : Int, dep : Int, cap : Int, owner : Owners, on : BOOLEAN,
           any : BOOLEAN, cleanup : BOOLEAN, started : Starts,
           stop : {"none", "other", "disconnected"}, fresh : BOOLEAN, paused : BOOLEAN]
Lives == {"down", "loaded", "up", "stopping", "stopped"}
Whos == {"none", "trip", "ev", "operator", "edit", "stop"}
\* Where the journal's reconciliation may save, alone or before an EV cycle.
Reconciling == {"retry", "on", "off", "clear", "pause", "end"}
Points == Reconciling \cup {"free", "cycle", "operator on", "operator off", "natural", "edit",
                            "stop"}
Tasks == [who : Whos, at : Points, saving : States, prev : States, gen : Int]
Heos == [life : Lives, invalid : BOOLEAN, dirty : BOOLEAN, st : States, full : BOOLEAN,
         task : Tasks]

Calls == {"no", "asked", "stored", "undone", "forgotten"}

TypeOK ==
    /\ heo \in Heos /\ file \in States /\ entry \in BOOLEAN
    /\ soc \in {"low", "target", "unknown"} /\ car \in {"home", "away", "unknown"}
    /\ gate \in BOOLEAN /\ time \in {"early", "due", "gone"} /\ waiting \in Seq(BOOLEAN)
    /\ off \in BOOLEAN /\ ran \in Starts /\ called \in Calls
    /\ events \in Nat

\* The last Full intent of a journal is an OFF.
Ended(s) == s.any /\ ~s.on

\* A journal knows a start at least as old as the trip's, and an armed one knows it.
Covered(s, r) == r # Unset /\ s.started # Unset => s.started >= r
Timed(s, r) == Covered(s, r) /\ (r # Unset /\ s.armed => s.started # Unset)

Writing(h) == h.task.at \notin {"free", "cycle"}

\* Who has the lock, and what it is doing there.
TaskInv(h) ==
    /\ h.task.who = "none" => h.task = NoTask
    /\ h.task.who = "ev" => h.task.at \in Reconciling \cup {"natural", "cycle"}
    /\ h.task.at = "cycle" => h.task.who = "ev"

\* An ended override is off in memory as well, or about to be, unless nothing is known
\* about it; a request for more is stored before it counts.
OffInv(h, o, w) ==
    /\ o /\ h.life # "down" =>
         \/ Ended(h.st) \/ h.task.at \in {"on", "operator on"}
         \/ h.invalid /\ ~h.dirty /\ w = << >> /\ ~Writing(h) /\ (h.task.who = "ev" => ~h.full)
    /\ Writing(h) => h.task.saving.any = h.st.any /\ h.task.saving.on = h.st.on
    /\ h.task.at \in {"on", "operator on"} => h.st.any /\ h.st.on
    /\ h.task.at = "on" => ~h.full
    /\ h.task.at = "operator on" /\ o => Ended(h.task.prev)
    /\ h.task.at = "clear" => ~h.full /\ (Ended(h.st) => Ended(h.task.prev))
    /\ h.task.who = "ev" /\ Ended(h.st) /\ h.task.at \notin {"off", "natural"} => ~h.full

\* Every copy of the journal that may still be read is timed.
TimeInv(h, r) ==
    /\ Timed(h.st, r)
    /\ Writing(h) => Timed(h.task.saving, r)
    /\ h.task.at \in {"clear", "operator on"} => Timed(h.task.prev, r)
    /\ h.task.at = "operator on" /\ h.task.prev.gen = h.st.gen =>
         h.st.started = h.task.prev.started
    /\ h.task.at = "end" => ~Owns(h.st)
    /\ h.task.at = "on" => /\ Owns(h.st) /\ h.task.saving.started # Unset
                           /\ h.st.gen = h.task.gen => h.st.started # Unset
    /\ h.task.at = "cycle" /\ h.full /\ Owns(h.st) => r < MaxHours

\* A trip that was called off is armed nowhere a restart or a rollback will look.
CallInv(h, c) ==
    /\ h.st.armed => ~CalledOff(c)
    /\ Writing(h) /\ h.task.saving.armed => c # "stored"
    /\ h.task.at \in {"clear", "operator on"} =>
         /\ h.task.prev.gen <= h.st.gen
         /\ h.task.prev.armed /\ h.task.prev.gen = h.st.gen => ~CalledOff(c)
    /\ h.task.at = "on" => h.task.gen <= h.st.gen

FileInv(f, o, r, c) ==
    /\ o => Ended(f) \/ f = Unreadable
    /\ Timed(f, r) /\ (f.armed => c # "stored")

Held(h, o, r, c, w) == TaskInv(h) /\ OffInv(h, o, w) /\ TimeInv(h, r) /\ CallInv(h, c)

Inv ==
    /\ TypeOK
    /\ Held(heo, off, ran, called, waiting)
    /\ FileInv(file, off, ran, called)
    /\ heo.life = "down" => heo = Down(heo.full) /\ waiting = << >> /\ called # "asked"

\* An EV cycle never starts with the lease of a trip that is not armed.
EntersArmed == Proceeds /\ Owns(heo'.st) => heo'.st.armed

-----------------------------------------------------------------------------
(* Journals. *)

\* The empty journal, and one that cannot be read, ask for nothing.
LEMMA EmptyFacts ==
    /\ Empty \in States /\ Unreadable \in States
    /\ \A r : Timed(Empty, r) /\ Timed(Unreadable, r)
    /\ Empty.gen = 0 /\ ~Empty.armed /\ ~Unreadable.armed /\ ~Empty.any /\ ~Owns(Empty)
<1>1. Empty \in States
  BY DEF Empty, States, Starts, Owners, Unset
<1>2. Unreadable \in States
  BY <1>1 DEF Unreadable, States
<1>3. /\ Empty.started = Unset /\ Unreadable.started = Unset
      /\ Empty.gen = 0 /\ ~Empty.armed /\ ~Unreadable.armed /\ ~Empty.any /\ ~Owns(Empty)
  BY DEF Empty, Unreadable, Owns
<1> QED
  BY <1>1, <1>2, <1>3 DEF Timed, Covered

\* The task nobody runs, and the controller that is down.
LEMMA IdleFacts ==
    /\ NoTask \in Tasks /\ NoTask.who = "none" /\ NoTask.at = "free"
    /\ \A b \in BOOLEAN : /\ Down(b) \in Heos /\ Down(b).st = Empty /\ Down(b).full = b
                          /\ Down(b).task = NoTask /\ Down(b).life = "down"
                          /\ ~Down(b).dirty /\ ~Down(b).invalid
<1>1. NoTask \in Tasks /\ NoTask.who = "none" /\ NoTask.at = "free"
  BY EmptyFacts DEF NoTask, Tasks, Whos, Points
<1> QED
  BY <1>1, EmptyFacts DEF Down, Heos, Lives

\* Two journals with the same intent.
SameIntent(s, q) == s.any = q.any /\ s.on = q.on

\* Leaving a lease, and ending a trip, change neither the intent nor the clock.
LEMMA EndedFacts ==
    ASSUME NEW s \in States
    PROVE  /\ [s EXCEPT !.owner = "none", !.cap = Unset, !.cleanup = FALSE] \in States
           /\ [s EXCEPT !.armed = FALSE, !.paused = FALSE, !.cleanup = Owns(s)] \in States
           /\ [s EXCEPT !.paused = TRUE, !.cleanup = Owns(s)] \in States
           /\ [s EXCEPT !.armed = FALSE, !.cleanup = Owns(s)] \in States
           /\ \A b \in BOOLEAN : [s EXCEPT !.paused = b] \in States
<1> DEFINE owns == Owns(s)
<1>1. owns \in BOOLEAN
  BY DEF Owns
<1> HIDE DEF owns
<1>2. Unset \in Int /\ "none" \in Owners
  BY DEF Unset, Owners
<1>3. [s EXCEPT !.owner = "none", !.cap = Unset, !.cleanup = FALSE] \in States
  BY <1>2 DEF States
<1>4. [s EXCEPT !.armed = FALSE, !.paused = FALSE, !.cleanup = owns] \in States
  BY <1>1 DEF States
<1>5. [s EXCEPT !.paused = TRUE, !.cleanup = owns] \in States
  BY <1>1 DEF States
<1>6. [s EXCEPT !.armed = FALSE, !.cleanup = owns] \in States
  BY <1>1 DEF States
<1>7. \A b \in BOOLEAN : [s EXCEPT !.paused = b] \in States
  BY DEF States
<1> QED
  BY <1>3, <1>4, <1>5, <1>6, <1>7 DEF owns

\* A trip's own OFF keeps who owns it and since when.
LEMMA TripOffFacts ==
    ASSUME NEW s \in States, NEW why \in {"other", "disconnected"}, NEW q, q = TripOff(s, why)
    PROVE  /\ q \in States /\ ~q.on /\ q.any = s.any /\ q.armed = s.armed /\ q.gen = s.gen
           /\ q.started = s.started /\ q.owner = s.owner
  BY DEF TripOff, States

\* A trip's ON starts its clock once.
LEMMA TripOnFacts ==
    ASSUME NEW s \in States, NEW q, q = TripOn(s)
    PROVE  /\ q \in States /\ q.on /\ q.any /\ q.armed = s.armed /\ q.gen = s.gen /\ Owns(q)
           /\ q.started = (IF s.started = Unset THEN 0 ELSE s.started) /\ q.started # Unset
<1>1. MaxHours \in Nat \ {0}
  BY BoundsAssumption
<1>2. 0 \in Starts /\ s.started \in Starts
  BY <1>1 DEF Starts, States
<1>3. q.started = (IF s.started = Unset THEN 0 ELSE s.started)
  BY DEF TripOn, States
<1>4. q.started \in Starts /\ q.started # Unset
  BY <1>2, <1>3 DEF Unset
<1>5. q \in States
  BY <1>2 DEF TripOn, States, Owners
<1> QED
  BY <1>3, <1>4, <1>5 DEF TripOn, States, Owns

\* A rejected ON of a trip leaves the duty to clean up.
LEMMA TripOnFailedFacts ==
    ASSUME NEW s \in States, NEW p \in States, NEW q, q = TripOnFailed(s, p)
    PROVE  /\ q \in States /\ ~q.on /\ q.any /\ ~q.armed /\ q.gen = s.gen /\ Owns(q)
           /\ q.started = s.started
<1>1. p.dep \in Int
  BY DEF States
<1>2. q \in States
  <2>1. [s EXCEPT !.armed = FALSE, !.any = TRUE, !.owner = "trip", !.on = FALSE] \in States
    BY DEF States, Owners
  <2>2. \A t \in States : [t EXCEPT !.cap = p.dep, !.cleanup = TRUE, !.fresh = FALSE,
                                    !.paused = FALSE] \in States
    BY <1>1 DEF States
  <2>3. q = [[s EXCEPT !.armed = FALSE, !.any = TRUE, !.owner = "trip", !.on = FALSE]
              EXCEPT !.cap = p.dep, !.cleanup = TRUE, !.fresh = FALSE, !.paused = FALSE]
    BY DEF TripOnFailed, States
  <2> QED
    BY <2>1, <2>2, <2>3
<1>3. q.gen = s.gen /\ q.started = s.started /\ q.owner = "trip"
  BY DEF TripOnFailed, States
<1>4. ~q.on /\ q.any /\ ~q.armed
  BY DEF TripOnFailed, States
<1> QED
  BY <1>2, <1>3, <1>4 DEF Owns

\* A request of the operator or of the EV controller.
LEMMA OthersFacts ==
    ASSUME NEW s \in States, NEW b \in BOOLEAN, NEW q, q = Others(s, b)
    PROVE  /\ q \in States /\ q.any /\ q.on = b /\ q.gen = s.gen /\ q.started = s.started
           /\ q.armed => s.armed
<1> DEFINE stops == ~b /\ (s.on \/ ~s.any)
           armed == s.armed /\ ~Active(s)
           paused == s.paused /\ ~Active(s)
           owner == IF b THEN "operator" ELSE "none"
           stop == IF stops THEN "other" ELSE s.stop
<1>1. q = [s EXCEPT !.any = TRUE, !.on = b, !.owner = owner, !.cap = Unset, !.cleanup = FALSE,
                    !.armed = armed, !.paused = paused, !.stop = stop, !.fresh = stops]
  BY DEF Others
<1>2. stops \in BOOLEAN /\ armed \in BOOLEAN /\ paused \in BOOLEAN /\ (armed => s.armed)
  OBVIOUS
<1>3. owner \in Owners /\ stop \in {"none", "other", "disconnected"}
  BY DEF Owners, States
<1>4. Unset \in Int
  BY DEF Unset
<1> HIDE DEF stops, armed, paused, owner, stop
<1>5. q \in States
  BY <1>1, <1>2, <1>3, <1>4 DEF States
<1>6. /\ q.any = TRUE /\ q.on = b /\ q.gen = s.gen /\ q.started = s.started /\ q.armed = armed
  BY <1>1 DEF States
<1> QED
  BY <1>2, <1>5, <1>6

\* A request that failed leaves the clock and the newer edits.
LEMMA OthersFailedFacts ==
    ASSUME NEW s \in States, NEW p \in States, NEW q, q = OthersFailed(s, p)
    PROVE  /\ q \in States /\ q.any = p.any /\ q.on = p.on /\ q.gen = s.gen
           /\ q.started = s.started /\ q.armed = (IF s.gen # p.gen THEN s.armed ELSE p.armed)
  BY DEF OthersFailed, States

\* An edit: a cancel disarms, arming opens a new trip, nothing asks for an override.
LEMMA EditedFacts ==
    ASSUME NEW s \in States, NEW kind \in {"arm", "disarm", "departure", "minutes"},
           NEW q, q = Edited(s, kind)
    PROVE  /\ q \in States /\ SameIntent(q, s) /\ q.gen = s.gen + 1 /\ q.owner = s.owner
           /\ q.started = (IF kind = "arm" THEN Unset ELSE s.started)
           /\ kind = "disarm" \/ (kind = "departure" /\ Active(s)) => ~q.armed
           /\ kind # "arm" /\ q.armed => s.armed
<1> DEFINE cancels == Active(s) /\ kind \in {"disarm", "departure"}
           armed == ~cancels /\ (kind = "arm" \/ (s.armed /\ kind # "disarm"))
           paused == s.paused /\ Active(s) /\ ~cancels
           cleanup == s.cleanup \/ (cancels /\ Owns(s))
           started == IF kind = "arm" THEN Unset ELSE s.started
           dep == IF kind = "departure" THEN s.dep + 1 ELSE s.dep
<1>1. q = [s EXCEPT !.dep = dep, !.gen = s.gen + 1, !.armed = armed, !.paused = paused,
                    !.cleanup = cleanup, !.started = started]
  BY DEF Edited
<1>2. armed \in BOOLEAN /\ paused \in BOOLEAN /\ cleanup \in BOOLEAN
  BY DEF States
<1>3. started \in Starts /\ dep \in Int /\ s.gen + 1 \in Int
  BY DEF States, Starts
<1>4. /\ kind = "disarm" \/ (kind = "departure" /\ Active(s)) => ~armed
      /\ kind # "arm" /\ armed => s.armed
      /\ started = (IF kind = "arm" THEN Unset ELSE s.started)
  OBVIOUS
<1> HIDE DEF armed, paused, cleanup, started, dep
<1>5. q \in States
  BY <1>1, <1>2, <1>3 DEF States
<1>6. /\ q.any = s.any /\ q.on = s.on /\ q.gen = s.gen + 1 /\ q.owner = s.owner
      /\ q.started = started /\ q.armed = armed
  BY <1>1 DEF States
<1> QED
  BY <1>4, <1>5, <1>6 DEF SameIntent

-----------------------------------------------------------------------------
(* The controller's fields between two saves. *)

\* What holds while the code of a task runs.
Running(h, o, r, c) ==
    /\ h \in Heos /\ h.life # "down" /\ h.task.who # "none"
    /\ o => Ended(h.st)
    /\ Timed(h.st, r)
    /\ h.st.armed => ~CalledOff(c)

\* An EV cycle has seen the end of the override.
EvOff(h) == h.task.who = "ev" /\ Ended(h.st) => ~h.full

\* What a task leaves behind at its next save or at its end.
Result(q, o, r, c, w) ==
    /\ q \in Heos /\ q.life # "down" /\ Held(q, o, r, c, w)
    /\ q.task.at = "cycle" /\ q.full /\ Owns(q.st) => q.st.armed

\* A save captures the journal.
LEMMA SaveAtFacts ==
    ASSUME NEW h \in Heos, NEW p \in Points, NEW q, q = SaveAt(h, p)
    PROVE  /\ q \in Heos /\ q.life = h.life /\ q.invalid = h.invalid /\ q.dirty = h.dirty
           /\ q.st = h.st /\ q.full = h.full
           /\ q.task.who = h.task.who /\ q.task.at = p /\ q.task.saving = h.st
           /\ q.task.prev = h.task.prev /\ q.task.gen = h.task.gen
<1> DEFINE t == [h.task EXCEPT !.at = p, !.saving = h.st]
<1>1. t \in Tasks
  BY DEF Heos, Tasks
<1>2. q = [h EXCEPT !.task = t]
  BY DEF SaveAt, Heos, Tasks
<1>3. /\ t.who = h.task.who /\ t.at = p /\ t.saving = h.st
      /\ t.prev = h.task.prev /\ t.gen = h.task.gen
  BY DEF Heos, Tasks
<1> HIDE DEF t
<1> QED
  BY <1>1, <1>2, <1>3 DEF Heos

\* The journal is kept for a rollback.
LEMMA KeepFacts ==
    ASSUME NEW h \in Heos, NEW q, q = Keep(h)
    PROVE  /\ q \in Heos /\ q.life = h.life /\ q.invalid = h.invalid /\ q.dirty = h.dirty
           /\ q.st = h.st /\ q.full = h.full
           /\ q.task.who = h.task.who /\ q.task.at = h.task.at
           /\ q.task.prev = h.st /\ q.task.gen = h.st.gen
<1> DEFINE t == [h.task EXCEPT !.prev = h.st, !.gen = h.st.gen]
<1>1. t \in Tasks
  BY DEF Heos, Tasks, States
<1>2. q = [h EXCEPT !.task = t]
  BY DEF Keep, Heos, Tasks
<1>3. t.who = h.task.who /\ t.at = h.task.at /\ t.prev = h.st /\ t.gen = h.st.gen
  BY DEF Heos, Tasks
<1> HIDE DEF t
<1> QED
  BY <1>1, <1>2, <1>3 DEF Heos

\* The journal changes.
LEMMA ChangeFacts ==
    ASSUME NEW h \in Heos, NEW s \in States, NEW q, q = Change(h, s)
    PROVE  /\ q \in Heos /\ q.life = h.life /\ q.invalid = h.invalid /\ q.dirty
           /\ q.st = s /\ q.full = h.full /\ q.task = h.task
  BY DEF Change, Heos

\* A point whose outcome does not need what the task kept, for this task; only "off"
\* and "natural" may come before the setting is reduced.
Plain(h, p) ==
    /\ p \notin {"free", "cycle", "clear", "on", "operator on"}
    /\ h.task.who = "ev" => p \in Reconciling \cup {"natural"}
    /\ p \notin {"off", "natural"} => EvOff(h)
    /\ p = "end" => ~Owns(h.st)

\* A task saves at such a point.
LEMMA SuspendHeld ==
    ASSUME NEW h, NEW o, NEW r, NEW c, NEW w, NEW p \in Points, NEW q, q = SaveAt(h, p),
           Running(h, o, r, c), Plain(h, p)
    PROVE  Result(q, o, r, c, w)
<1>1. h \in Heos
  BY DEF Running
<1>2. /\ q \in Heos /\ q.life = h.life /\ q.st = h.st /\ q.full = h.full
      /\ q.task.who = h.task.who /\ q.task.at = p /\ q.task.saving = h.st
  BY <1>1, SaveAtFacts
<1>3. TaskInv(q)
  <2>1. q.task # NoTask
    BY <1>2, IdleFacts DEF Running
  <2> QED
    BY <1>2, <2>1 DEF TaskInv, Running, Plain
<1>4. OffInv(q, o, w)
  BY <1>2 DEF OffInv, Running, EvOff, Writing, Plain
<1>5. TimeInv(q, r)
  BY <1>2 DEF TimeInv, Running, Writing, Plain
<1>6. CallInv(q, c)
  BY <1>2 DEF CallInv, CalledOff, Running, Writing, Plain
<1> QED
  BY <1>2, <1>3, <1>4, <1>5, <1>6 DEF Result, Held, Running, Plain

\* A task ends: the lock is free, or the EV controller goes on.
LEMMA DoneHeld ==
    ASSUME NEW h, NEW o, NEW r, NEW c, NEW w, Running(h, o, r, c), EvOff(h),
           h.task.who = "ev" /\ h.full /\ Owns(h.st) => h.st.armed /\ r < MaxHours
    PROVE  Result(Done(h), o, r, c, w)
<1>1. h \in Heos /\ NoTask \in Tasks
  BY IdleFacts DEF Running
<1> DEFINE t == IF h.task.who = "ev" THEN [NoTask EXCEPT !.who = "ev", !.at = "cycle"]
                ELSE NoTask
           q == Done(h)
<1>2. t \in Tasks
  BY <1>1 DEF Tasks, Whos, Points
<1>3. /\ t.who = (IF h.task.who = "ev" THEN "ev" ELSE "none")
      /\ t.at = (IF h.task.who = "ev" THEN "cycle" ELSE "free")
      /\ h.task.who # "ev" => t = NoTask
  BY <1>1, IdleFacts DEF Tasks
<1>4. q = [h EXCEPT !.task = t]
  BY <1>1 DEF Done
<1> HIDE DEF t, q
<1>5. q \in Heos /\ q.life = h.life /\ q.st = h.st /\ q.full = h.full /\ q.task = t
  BY <1>1, <1>2, <1>4 DEF Heos
<1>6. TaskInv(q)
  BY <1>3, <1>5 DEF TaskInv
<1>7. OffInv(q, o, w)
  BY <1>3, <1>5 DEF OffInv, Running, EvOff, Writing
<1>8. TimeInv(q, r)
  BY <1>3, <1>5 DEF TimeInv, Running, Writing
<1>9. CallInv(q, c)
  BY <1>3, <1>5 DEF CallInv, Running, Writing
<1>10. Result(q, o, r, c, w)
  BY <1>3, <1>5, <1>6, <1>7, <1>8, <1>9 DEF Result, Held, Running
<1> QED
  BY <1>10 DEF q

\* What Finish needs: it disarms, so it may follow anything that knows the clock.
Loose(h, o, r) ==
    /\ h \in Heos /\ h.life # "down" /\ h.task.who # "none"
    /\ o => Ended(h.st)
    /\ Covered(h.st, r)
    /\ EvOff(h)

\* The lease is given back: the setting is reduced, the journal keeps its intent.
LEMMA ClearHeld ==
    ASSUME NEW h, NEW o, NEW r, NEW c, NEW w, NEW q, q = Clear(h), Running(h, o, r, c)
    PROVE  Result(q, o, r, c, w)
<1>1. h \in Heos /\ h.st \in States /\ "clear" \in Points
  BY DEF Running, Heos, Points, Reconciling
<1> DEFINE s == [h.st EXCEPT !.owner = "none", !.cap = Unset, !.cleanup = FALSE]
           k == Keep(h)
           g == [k EXCEPT !.full = FALSE, !.st = s]
<1>2. s \in States
  BY <1>1, EndedFacts
<1>3. /\ s.armed = h.st.armed /\ s.gen = h.st.gen /\ s.started = h.st.started
      /\ SameIntent(s, h.st)
  BY <1>1 DEF States, SameIntent
<1>4. /\ k \in Heos /\ k.life = h.life /\ k.st = h.st /\ k.task.who = h.task.who
      /\ k.task.prev = h.st /\ k.task.gen = h.st.gen
  BY <1>1, KeepFacts
<1>5. q = SaveAt(g, "clear")
  BY <1>4 DEF Clear, Heos
<1> HIDE DEF s, k
<1>6. /\ g \in Heos /\ g.life = h.life /\ g.st = s /\ ~g.full /\ g.task.who = h.task.who
      /\ g.task.prev = h.st
  BY <1>2, <1>4 DEF Heos
<1> HIDE DEF g
<1>7. /\ q \in Heos /\ q.life = h.life /\ q.st = s /\ ~q.full /\ q.task.who = h.task.who
      /\ q.task.at = "clear" /\ q.task.saving = s /\ q.task.prev = h.st
  BY <1>1, <1>5, <1>6, SaveAtFacts
<1>8. TaskInv(q)
  <2>1. q.task # NoTask
    BY <1>7, IdleFacts DEF Running
  <2> QED
    BY <1>7, <2>1 DEF TaskInv, Running, Reconciling
<1>9. OffInv(q, o, w)
  BY <1>3, <1>7 DEF OffInv, Running, Writing, SameIntent, Ended
<1>10. TimeInv(q, r)
  BY <1>3, <1>7 DEF TimeInv, Running, Writing, Timed, Covered
<1>11. CallInv(q, c)
  <2>1. s.gen \in Int
    BY <1>2 DEF States
  <2> QED
    BY <1>3, <1>7, <2>1 DEF CallInv, CalledOff, Running, Writing
<1> QED
  BY <1>7, <1>8, <1>9, <1>10, <1>11 DEF Result, Held, Running

\* _finish_locked ends a trip, from wherever it is called.
LEMMA FinishHeld ==
    ASSUME NEW h, NEW o, NEW r, NEW c, NEW w, NEW q, q = Finish(h), Loose(h, o, r)
    PROVE  Result(q, o, r, c, w)
<1>1. h \in Heos /\ h.st \in States /\ {"end", "off"} \subseteq Points
  BY DEF Loose, Heos, Points, Reconciling
<1> DEFINE s == [h.st EXCEPT !.armed = FALSE, !.paused = FALSE, !.cleanup = Owns(h.st)]
           g == Change(h, s)
           u == TripOff(s, "other")
           v == Change(h, u)
<1>2. s \in States
  BY <1>1, EndedFacts
<1>3. ~s.armed /\ s.started = h.st.started /\ SameIntent(s, h.st)
  BY <1>1 DEF States, SameIntent
<1>4. q = (IF ~Owns(s) THEN SaveAt(g, "end") ELSE IF s.on THEN SaveAt(v, "off") ELSE Clear(g))
  BY DEF Finish
<1> HIDE DEF s
<1>5. /\ g \in Heos /\ g.life = h.life /\ g.st = s /\ g.full = h.full /\ g.task = h.task
  BY <1>1, <1>2, ChangeFacts
<1>6. u \in States /\ ~u.on /\ u.any = s.any /\ u.armed = s.armed /\ u.started = s.started
  BY <1>2, TripOffFacts
<1>7. /\ v \in Heos /\ v.life = h.life /\ v.st = u /\ v.full = h.full /\ v.task = h.task
  BY <1>1, <1>6, ChangeFacts
<1> HIDE DEF g, u, v
<1>8. Running(g, o, r, c) /\ EvOff(g)
  BY <1>3, <1>5 DEF Running, EvOff, Loose, Timed, Covered, SameIntent, Ended
<1>9. Running(v, o, r, c)
  BY <1>3, <1>6, <1>7 DEF Running, Loose, Timed, Covered, SameIntent, Ended
<1>10. (~Owns(s) => Plain(g, "end")) /\ Plain(v, "off")
  BY <1>5, <1>8 DEF Plain, Reconciling
<1>11. CASE ~Owns(s)
  BY <1>1, <1>4, <1>8, <1>10, <1>11, SuspendHeld
<1>12. CASE Owns(s) /\ s.on
  BY <1>1, <1>4, <1>9, <1>10, <1>12, SuspendHeld
<1>13. CASE Owns(s) /\ ~s.on
  BY <1>4, <1>8, <1>13, ClearHeld
<1> QED
  BY <1>11, <1>12, <1>13

\* A pause is stored while the setting is still on.
LEMMA PauseHeld ==
    ASSUME NEW h, NEW o, NEW r, NEW c, NEW w, NEW q, q = Pause(h), Running(h, o, r, c), EvOff(h)
    PROVE  Result(q, o, r, c, w)
<1>1. h \in Heos /\ h.st \in States /\ "pause" \in Points
  BY DEF Running, Heos, Points, Reconciling
<1> DEFINE s == [h.st EXCEPT !.paused = TRUE, !.cleanup = Owns(h.st)]
           g == Change(h, s)
<1>2. s \in States
  BY <1>1, EndedFacts
<1>3. s.armed = h.st.armed /\ s.started = h.st.started /\ SameIntent(s, h.st)
  BY <1>1 DEF States, SameIntent
<1>4. q = SaveAt(g, "pause")
  BY DEF Pause
<1> HIDE DEF s
<1>5. /\ g \in Heos /\ g.life = h.life /\ g.st = s /\ g.full = h.full /\ g.task = h.task
  BY <1>1, <1>2, ChangeFacts
<1> HIDE DEF g
<1>6. Running(g, o, r, c) /\ EvOff(g)
  BY <1>3, <1>5 DEF Running, EvOff, Timed, Covered, SameIntent, Ended
<1>7. Plain(g, "pause")
  BY <1>6 DEF Plain, Reconciling
<1> QED
  BY <1>1, <1>4, <1>6, <1>7, SuspendHeld

\* The stored pause ends the override.
LEMMA PausedHeld ==
    ASSUME NEW h, NEW o, NEW r, NEW c, NEW w, NEW q, q = Paused(h), Running(h, o, r, c)
    PROVE  Result(q, o, r, c, w)
<1>1. h \in Heos /\ h.st \in States /\ "off" \in Points
  BY DEF Running, Heos, Points, Reconciling
<1> DEFINE u == TripOff(h.st, "disconnected")
           v == Change(h, u)
<1>2. q = (IF h.full /\ h.st.on THEN SaveAt(v, "off") ELSE Clear(h))
  BY DEF Paused
<1>3. u \in States /\ ~u.on /\ u.any = h.st.any /\ u.armed = h.st.armed /\ u.started = h.st.started
  BY <1>1, TripOffFacts
<1>4. /\ v \in Heos /\ v.life = h.life /\ v.st = u /\ v.full = h.full /\ v.task = h.task
  BY <1>1, <1>3, ChangeFacts
<1> HIDE DEF u, v
<1>5. Running(v, o, r, c)
  BY <1>3, <1>4 DEF Running, Timed, Covered, Ended
<1>6. Plain(v, "off")
  BY DEF Plain, Reconciling
<1> QED
  BY <1>1, <1>2, <1>5, <1>6, SuspendHeld, ClearHeld

\* A journalled OFF reduces the setting and changes nothing else.
LEMMA TombstoneHeld ==
    ASSUME NEW h, NEW q, q = Tombstone(h), h \in Heos
    PROVE  /\ q \in Heos /\ q.life = h.life /\ q.st = h.st /\ q.task = h.task
           /\ q.invalid = h.invalid /\ q.dirty = h.dirty
           /\ (Ended(q.st) => ~q.full) /\ (q.full => h.full)
  BY DEF Tombstone, Heos, Ended

\* The trip reports what it waits for.
LEMMA ShowHeld ==
    ASSUME NEW h, NEW o, NEW r, NEW c, NEW w, NEW b \in BOOLEAN, NEW q, q = Show(h, b),
           Running(h, o, r, c), EvOff(h), Owns(h.st) => h.st.armed /\ r < MaxHours
    PROVE  Result(q, o, r, c, w)
<1>1. h \in Heos /\ h.st \in States
  BY DEF Running, Heos
<1> DEFINE s == [h.st EXCEPT !.paused = b]
           g == [h EXCEPT !.st = s]
<1>2. s \in States
  BY <1>1, EndedFacts
<1>3. /\ s.armed = h.st.armed /\ s.started = h.st.started /\ s.owner = h.st.owner
      /\ SameIntent(s, h.st)
  BY <1>1 DEF States, SameIntent
<1>4. q = Done(g)
  BY <1>1 DEF Show, Heos
<1> HIDE DEF s
<1>5. /\ g \in Heos /\ g.life = h.life /\ g.st = s /\ g.full = h.full /\ g.task = h.task
  BY <1>1, <1>2 DEF Heos
<1> HIDE DEF g
<1>6. Running(g, o, r, c) /\ EvOff(g)
  BY <1>3, <1>5 DEF Running, EvOff, Timed, Covered, SameIntent, Ended
<1>7. g.task.who = "ev" /\ g.full /\ Owns(g.st) => g.st.armed /\ r < MaxHours
  BY <1>3, <1>5 DEF Owns
<1> QED
  BY <1>4, <1>6, <1>7, DoneHeld

\* A reconciled lease is given back, paused, or goes on within its hours.
LEMMA DecideLeaseHeld ==
    ASSUME NEW h, NEW o, NEW r \in Starts, NEW c, NEW w, NEW q, q = DecideLease(h),
           Running(h, o, r, c), EvOff(h)
    PROVE  Result(q, o, r, c, w)
<1>1. \/ q = Finish(h)
      \/ q = Pause(h)
      \/ q = Show(h, FALSE) /\ h.st.armed /\ h.st.started # Unset
         /\ ~(h.st.armed /\ h.st.started >= MaxHours)
  BY DEF DecideLease
<1>2. Loose(h, o, r)
  BY DEF Loose, Running, Timed
<1>3. CASE q = Finish(h)
  BY <1>2, <1>3, FinishHeld
<1>4. CASE q = Pause(h)
  BY <1>4, PauseHeld
<1>5. CASE q = Show(h, FALSE) /\ h.st.armed /\ h.st.started # Unset
           /\ ~(h.st.armed /\ h.st.started >= MaxHours)
  <2>1. h.st.started \in Int /\ r \in Int /\ MaxHours \in Int /\ MaxHours > Unset
    <3>1. MaxHours \in Nat \ {0}
      BY BoundsAssumption
    <3>2. h.st.started \in Starts
      BY DEF Running, Heos, States
    <3> QED
      BY <3>1, <3>2 DEF Starts, Unset
  <2>2. Covered(h.st, r)
    BY DEF Running, Timed
  <2>3. r < MaxHours
    <3>1. CASE r = Unset
      BY <2>1, <3>1
    <3>2. CASE r # Unset
      <4>1. h.st.started >= r
        BY <1>5, <2>2, <3>2 DEF Covered
      <4> QED
        BY <1>5, <2>1, <4>1
    <3> QED
      BY <3>1, <3>2
  <2>4. Owns(h.st) => h.st.armed /\ r < MaxHours
    BY <1>5, <2>3
  <2> QED
    BY <1>5, <2>4, ShowHeld
<1> QED
  BY <1>1, <1>3, <1>4, <1>5

\* An admitted trip stores its ON before the setting follows.
LEMMA AdmitHeld ==
    ASSUME NEW h, NEW o, NEW r, NEW c, NEW w, NEW k, k = Keep([h EXCEPT !.st.paused = FALSE]),
           NEW q, q = SaveAt(Change(k, TripOn(k.st)), "on"), Running(h, o, r, c), h.st.armed, ~h.full
    PROVE  Result(q, o, r, c, w)
<1>1. h \in Heos /\ h.st \in States /\ "on" \in Points
  BY DEF Running, Heos, Points, Reconciling
<1> DEFINE s == [h.st EXCEPT !.paused = FALSE]
           g == [h EXCEPT !.st = s]
           u == TripOn(k.st)
           v == Change(k, u)
<1>2. s \in States
  BY <1>1, EndedFacts
<1>3. s.armed = h.st.armed /\ s.started = h.st.started /\ s.gen = h.st.gen
  BY <1>1 DEF States
<1>4. k = Keep(g) /\ q = SaveAt(v, "on")
  BY <1>1 DEF Heos
<1> HIDE DEF s
<1>5. /\ g \in Heos /\ g.life = h.life /\ g.st = s /\ g.full = h.full /\ g.task = h.task
  BY <1>1, <1>2 DEF Heos
<1> HIDE DEF g
<1>6. /\ k \in Heos /\ k.life = h.life /\ k.st = s /\ k.task.who = h.task.who /\ k.full = h.full
      /\ k.task.gen = s.gen
  BY <1>4, <1>5, KeepFacts
<1>7. /\ u \in States /\ u.on /\ u.any /\ u.armed = s.armed /\ u.gen = s.gen /\ Owns(u)
      /\ u.started = (IF s.started = Unset THEN 0 ELSE s.started) /\ u.started # Unset
  BY <1>2, <1>6, TripOnFacts
<1> HIDE DEF u
<1>8. /\ v \in Heos /\ v.life = h.life /\ v.st = u /\ v.task = k.task /\ v.full = h.full
  BY <1>6, <1>7, ChangeFacts
<1> HIDE DEF v
<1>9. /\ q \in Heos /\ q.life = h.life /\ q.st = u /\ q.task.who = h.task.who /\ ~q.full
      /\ q.task.at = "on" /\ q.task.saving = u /\ q.task.gen = u.gen
  BY <1>1, <1>4, <1>6, <1>7, <1>8, SaveAtFacts
<1>10. TaskInv(q)
  <2>1. q.task # NoTask
    BY <1>9, IdleFacts DEF Running
  <2> QED
    BY <1>9, <2>1 DEF TaskInv, Running, Reconciling
<1>11. OffInv(q, o, w)
  BY <1>7, <1>9 DEF OffInv, Running, Writing, Ended
<1>12. Timed(u, r)
  BY <1>3, <1>7 DEF Running, Timed, Covered
<1>13. TimeInv(q, r)
  BY <1>7, <1>9, <1>12 DEF TimeInv, Writing
<1>14. CallInv(q, c)
  <2>1. u.gen \in Int /\ u.gen <= u.gen
    BY <1>7 DEF States
  <2> QED
    BY <1>3, <1>7, <1>9, <2>1 DEF CallInv, CalledOff, Running, Writing
<1> QED
  BY <1>9, <1>10, <1>11, <1>13, <1>14 DEF Result, Held, Running

\* A trip that has no lease waits, ends or is admitted.
LEMMA DecideTripHeld ==
    ASSUME NEW h, NEW o, NEW r, NEW c, NEW w, NEW q, q = DecideTrip(h),
           Running(h, o, r, c), EvOff(h), ~Owns(h.st)
    PROVE  Result(q, o, r, c, w)
<1> DEFINE first == h.st.started = Unset
           k == Keep([h EXCEPT !.st.paused = FALSE])
<1>1. \/ q = Done(h)
      \/ q = Finish(h)
      \/ q = Show(h, FALSE) \/ q = Show(h, TRUE) \/ q = Show(h, ~first)
      \/ h.st.armed /\ ~h.full /\ q = SaveAt(Change(k, TripOn(k.st)), "on")
  BY DEF DecideTrip
<1>2. Loose(h, o, r)
  BY DEF Loose, Running, Timed
<1>3. CASE q = Done(h)
  BY <1>3, DoneHeld
<1>4. CASE q = Finish(h)
  BY <1>2, <1>4, FinishHeld
<1>5. CASE q = Show(h, FALSE) \/ q = Show(h, TRUE) \/ q = Show(h, ~first)
  BY <1>5, ShowHeld
<1>6. CASE h.st.armed /\ ~h.full /\ q = SaveAt(Change(k, TripOn(k.st)), "on")
  BY <1>6, AdmitHeld
<1> QED
  BY <1>1, <1>3, <1>4, <1>5, <1>6

\* A journalled OFF is applied, then the lease or the trip is decided.
LEMMA DecideHeld ==
    ASSUME NEW h, NEW o, NEW r \in Starts, NEW c, NEW w, NEW q, q = Decide(h),
           Running(h, o, r, c)
    PROVE  Result(q, o, r, c, w)
<1> DEFINE t == Tombstone(h)
<1>1. /\ t \in Heos /\ t.life = h.life /\ t.st = h.st /\ t.task = h.task
      /\ (Ended(t.st) => ~t.full)
  BY TombstoneHeld DEF Running
<1>2. q = (IF Owns(t.st) THEN DecideLease(t) ELSE DecideTrip(t))
  BY DEF Decide
<1> HIDE DEF t
<1>3. Running(t, o, r, c) /\ EvOff(t)
  BY <1>1 DEF Running, EvOff
<1> QED
  BY <1>2, <1>3, DecideLeaseHeld, DecideTripHeld

\* The reconciliation retries an unstored journal before it decides.
LEMMA ReconcileHeld ==
    ASSUME NEW h, NEW o, NEW r \in Starts, NEW c, NEW w, NEW q, q = Reconcile(h),
           Running(h, o, r, c), EvOff(h)
    PROVE  Result(q, o, r, c, w)
<1>1. \/ q = Done(h) /\ ~Owns(h.st)
      \/ q = SaveAt(h, "retry")
      \/ q = Decide(h)
  BY DEF Reconcile
<1>2. CASE q = Done(h) /\ ~Owns(h.st)
  BY <1>2, DoneHeld
<1>3. CASE q = SaveAt(h, "retry")
  <2>1. Plain(h, "retry") /\ "retry" \in Points
    BY DEF Plain, Points, Reconciling
  <2> QED
    BY <1>3, <2>1, SuspendHeld
<1>4. CASE q = Decide(h)
  BY <1>4, DecideHeld
<1> QED
  BY <1>1, <1>2, <1>3, <1>4

-----------------------------------------------------------------------------
(* What follows a save. *)

\* A task that awaits its save, and what the requests and the trip have come to once
\* the save was stored or not.
Awaiting(h, o, r, c, w) ==
    /\ h \in Heos /\ h.life # "down" /\ Writing(h) /\ r \in Starts
    /\ Held(h, o, r, c, w)
OffThen(h, o, stored) == IF stored /\ h.st.any THEN ~h.st.on ELSE o
RanThen(h, r, stored) == IF stored /\ h.task.at = "on" /\ r = Unset THEN 0 ELSE r
Resumed(h, g, o, r, c, stored, o2, r2, c2) ==
    /\ o2 = OffThen(h, o, stored)
    /\ \E d \in BOOLEAN : g = [h EXCEPT !.dirty = d]
    /\ r2 = RanThen(h, r, stored)
    /\ ~CalledOff(c) => ~CalledOff(c2)
Admitting(h) == h.task.at = "on"

\* What is known of it then: as much as before, but for the saves of an ON.
Known(h, g, o2, r, r2, c2) ==
    /\ g \in Heos /\ g.life = h.life /\ g.st = h.st /\ g.full = h.full /\ g.task = h.task
    /\ h.task.at \notin {"on", "operator on"} => Running(g, o2, r2, c2)
    /\ h.task.at # "on" => r2 = r
    /\ h.task.at \notin {"on", "off", "natural", "operator on"} => EvOff(g)
    /\ h.task.who # "none" /\ (h.st.armed => ~CalledOff(c2)) /\ Covered(h.st, r2)

\* A save changes no more than that, whether it is stored or not.
LEMMA AwaitingFacts ==
    ASSUME NEW h, NEW o, NEW r, NEW c, NEW w, Awaiting(h, o, r, c, w),
           NEW g, NEW stored, NEW o2, NEW r2, NEW c2,
           Resumed(h, g, o, r, c, stored, o2, r2, c2)
    PROVE  Known(h, g, o2, r, r2, c2)
<1>1. /\ g \in Heos /\ g.life = h.life /\ g.st = h.st /\ g.full = h.full /\ g.task = h.task
  BY DEF Awaiting, Heos, Resumed
<1>2. h.task.who # "none"
  BY IdleFacts DEF Awaiting, Held, TaskInv, Writing
<1>3. h.st.armed => ~CalledOff(c2)
  BY DEF Awaiting, Held, CallInv, Resumed
<1>4. h.task.at # "on" => r2 = r
  BY DEF RanThen, Resumed
<1>5. Timed(h.st, r)
  BY DEF Awaiting, Held, TimeInv
<1>6. h.task.at \notin {"on", "operator on"} => (o2 => Ended(h.st))
  BY DEF Awaiting, Held, OffInv, OffThen, Ended, Resumed
<1>7. h.task.at \notin {"on", "off", "natural", "operator on"} => EvOff(g)
  BY <1>1 DEF Awaiting, Held, OffInv, EvOff
<1>8. Covered(h.st, r2)
  <2>1. h.st.started \in Starts
    BY DEF Awaiting, Heos, States
  <2>2. h.st.started # Unset => h.st.started \in Nat
    BY <2>1, BoundsAssumption DEF Starts
  <2> QED
    BY <1>5, <2>2 DEF RanThen, Timed, Covered, Resumed
<1> QED
  BY <1>1, <1>2, <1>3, <1>4, <1>5, <1>6, <1>7, <1>8 DEF Known, Running, Awaiting

\* The setting follows the stored ON of a trip that is still wanted.
LEMMA AcceptedHeld ==
    ASSUME NEW h, NEW o, NEW r, NEW c, NEW w, Awaiting(h, o, r, c, w), Admitting(h),
           NEW g, NEW o2, NEW r2, NEW c2,
           Resumed(h, g, o, r, c, TRUE, o2, r2, c2),
           NEW q, q = (IF Admitted(g) THEN Done([g EXCEPT !.full = TRUE])
                       ELSE IF Owns(g.st) THEN Finish(g) ELSE Done(g))
    PROVE  Result(q, o2, r2, c2, w)
<1>1. /\ g \in Heos /\ g.life = h.life /\ g.st = h.st /\ g.full = h.full /\ g.task = h.task
      /\ h.task.who # "none" /\ (h.st.armed => ~CalledOff(c2)) /\ Covered(h.st, r2)
  <2>1. Known(h, g, o2, r, r2, c2)
    BY AwaitingFacts
  <2> QED
    BY <2>1 DEF Known
<1>2. ~o2 /\ h.st.on /\ Owns(h.st) /\ h.life # "down" /\ Timed(h.st, r)
  BY DEF OffThen, Resumed, Awaiting, Held, OffInv, TimeInv, Admitting
<1>3. CASE Admitted(g)
  <2> DEFINE v == [g EXCEPT !.full = TRUE]
  <2>1. /\ v \in Heos /\ v.life = h.life /\ v.st = h.st /\ v.task = h.task
    BY <1>1 DEF Heos
  <2>2. q = Done(v)
    BY <1>3
  <2> HIDE DEF v
  <2>3. h.st.gen = h.task.gen /\ h.st.armed /\ h.st.started < MaxHours
    BY <1>1, <1>3 DEF Admitted
  <2>4. h.st.started # Unset
    BY <2>3 DEF Awaiting, Held, TimeInv, Admitting
  <2>5. Timed(h.st, r2)
    BY <1>1, <2>4 DEF Timed
  <2>6. Running(v, o2, r2, c2) /\ EvOff(v)
    BY <1>1, <1>2, <2>1, <2>5 DEF Running, EvOff, Ended
  <2>7. r2 < MaxHours
    <3>1. MaxHours \in Nat \ {0}
      BY BoundsAssumption
    <3>2. h.st.started \in Starts /\ r \in Starts
      BY DEF Awaiting, Heos, States
    <3>3. h.st.started \in Int /\ r2 \in Int
      BY <3>1, <3>2 DEF Starts, RanThen, Unset, Resumed
    <3>4. r2 # Unset => h.st.started >= r2
      BY <1>1, <2>4 DEF Covered
    <3> QED
      BY <2>3, <3>1, <3>4, <3>3 DEF Unset
  <2> QED
    BY <2>1, <2>2, <2>3, <2>6, <2>7, DoneHeld
<1>4. CASE ~Admitted(g)
  <2>1. Loose(g, o2, r2)
    BY <1>1, <1>2 DEF Loose, EvOff, Ended
  <2>2. q = Finish(g)
    BY <1>1, <1>2, <1>4
  <2> QED
    BY <2>1, <2>2, FinishHeld
<1> QED
  BY <1>3, <1>4

\* An ON of a trip that was not stored for sure is cleaned up.
LEMMA RejectedHeld ==
    ASSUME NEW h, NEW o, NEW r, NEW c, NEW w, Awaiting(h, o, r, c, w), Admitting(h),
           NEW g, NEW stored, NEW o2, NEW r2, NEW c2,
           Resumed(h, g, o, r, c, stored, o2, r2, c2),
           NEW q, q = Finish([g EXCEPT !.st = TripOnFailed(g.st, g.task.prev)])
    PROVE  Result(q, o2, r2, c2, w)
<1> DEFINE u == TripOnFailed(g.st, g.task.prev)
           v == [g EXCEPT !.st = u]
<1>1. /\ g \in Heos /\ g.life = h.life /\ g.st = h.st /\ g.full = h.full /\ g.task = h.task
      /\ h.task.who # "none" /\ Covered(h.st, r2)
  <2>1. Known(h, g, o2, r, r2, c2)
    BY AwaitingFacts
  <2> QED
    BY <2>1 DEF Known
<1>2. h.st \in States /\ h.task.prev \in States /\ h.life # "down" /\ ~h.full
  BY DEF Awaiting, Heos, Tasks, Held, OffInv, Admitting
<1>3. u \in States /\ ~u.on /\ u.any /\ u.started = h.st.started
  BY <1>1, <1>2, TripOnFailedFacts
<1> HIDE DEF u
<1>4. v \in Heos /\ v.life = h.life /\ v.st = u /\ v.full = h.full /\ v.task = h.task
  BY <1>1, <1>3 DEF Heos
<1>5. q = Finish(v)
  BY DEF u
<1> HIDE DEF v
<1>6. Loose(v, o2, r2)
  BY <1>1, <1>2, <1>3, <1>4 DEF Loose, EvOff, Ended, Covered
<1> QED
  BY <1>5, <1>6, FinishHeld

\* The EV controller's own end of the override: the lock is released at once.
LEMMA FreedHeld ==
    ASSUME NEW h, NEW o, NEW r, NEW c, NEW w, NEW q,
           q = [h EXCEPT !.full = FALSE, !.task = NoTask], Running(h, o, r, c)
    PROVE  Result(q, o, r, c, w)
<1>1. /\ q \in Heos /\ q.life = h.life /\ q.st = h.st /\ ~q.full /\ q.task = NoTask
      /\ q.task.who = "none" /\ q.task.at = "free"
  BY IdleFacts DEF Running, Heos
<1>2. TaskInv(q)
  BY <1>1 DEF TaskInv
<1>3. OffInv(q, o, w)
  BY <1>1 DEF OffInv, Running, Writing
<1>4. TimeInv(q, r)
  BY <1>1 DEF TimeInv, Running, Writing
<1>5. CallInv(q, c)
  BY <1>1 DEF CallInv, Running, Writing
<1> QED
  BY <1>1, <1>2, <1>3, <1>4, <1>5 DEF Result, Held, Running

\* Every task goes on soundly after a save that was stored.
LEMMA AfterSaved ==
    ASSUME NEW h, NEW o, NEW r, NEW c, NEW w, Awaiting(h, o, r, c, w),
           NEW g, NEW o2, NEW r2, NEW c2, Resumed(h, g, o, r, c, TRUE, o2, r2, c2),
           NEW q, q = After(g, TRUE)
    PROVE  Result(q, o2, r2, c2, w)
<1>1. Known(h, g, o2, r, r2, c2)
  BY AwaitingFacts
<1>2. /\ g \in Heos /\ g.life = h.life /\ g.st = h.st /\ g.full = h.full /\ g.task = h.task
      /\ r \in Starts /\ h.life # "down" /\ h.task.who # "none"
  BY <1>1 DEF Known, Awaiting
<1>3. h.task.at \in Points \ {"free", "cycle"}
  BY DEF Awaiting, Writing, Heos, Tasks
<1>4. CASE h.task.at = "retry"
  <2>1. q = Decide(g) /\ Running(g, o2, r, c2)
    BY <1>1, <1>2, <1>4 DEF After, Known
  <2>2. r2 = r
    BY <1>1, <1>4 DEF Known
  <2> QED
    BY <1>2, <2>1, <2>2, DecideHeld
<1>5. CASE h.task.at \in {"end", "clear", "operator off", "edit"}
  <2>1. Running(g, o2, r2, c2)
    BY <1>1, <1>5 DEF Known
  <2>2. EvOff(g)
    BY <1>1, <1>5 DEF Known
  <2>3. h.task.at # "operator off" => q = Done(g)
    BY <1>2, <1>5 DEF After
  <2>4. h.task.who = "ev" /\ h.full => ~Owns(h.st) /\ h.task.at # "operator off"
    BY <1>5 DEF Awaiting, Held, TaskInv, OffInv, TimeInv, Reconciling
  <2>5. CASE h.task.at # "operator off"
    BY <1>2, <2>1, <2>2, <2>3, <2>4, <2>5, DoneHeld
  <2>6. CASE h.task.at = "operator off"
    <3> DEFINE v == [g EXCEPT !.full = FALSE]
    <3>1. q = Done(v)
      BY <1>2, <2>6 DEF After
    <3>2. v \in Heos /\ v.life = g.life /\ v.st = g.st /\ ~v.full /\ v.task = g.task
      BY <1>2 DEF Heos
    <3> HIDE DEF v
    <3>3. Running(v, o2, r2, c2) /\ EvOff(v)
      BY <2>1, <3>2 DEF Running, EvOff
    <3> QED
      BY <3>1, <3>2, <3>3, DoneHeld
  <2> QED
    BY <2>5, <2>6
<1>6. CASE h.task.at = "off"
  BY <1>1, <1>2, <1>6, ClearHeld DEF After, Known
<1>7. CASE h.task.at = "pause"
  BY <1>1, <1>2, <1>7, PausedHeld DEF After, Known
<1>8. CASE h.task.at = "on"
  <2>1. Admitting(h)
    BY <1>8 DEF Admitting
  <2>2. q = (IF Admitted(g) THEN Done([g EXCEPT !.full = TRUE])
             ELSE IF Owns(g.st) THEN Finish(g) ELSE Done(g))
    BY <1>2, <1>8 DEF After
  <2> QED
    BY <2>1, <2>2, AcceptedHeld
<1>9. CASE h.task.at = "operator on"
  <2> DEFINE v == [g EXCEPT !.full = TRUE]
  <2>1. q = Done(v)
    BY <1>2, <1>9 DEF After
  <2>2. v \in Heos /\ v.life = h.life /\ v.st = h.st /\ v.task = h.task
    BY <1>2 DEF Heos
  <2> HIDE DEF v
  <2>3. ~o2 /\ h.task.who # "ev" /\ r2 = r
    BY <1>1, <1>9 DEF Known, Resumed, OffThen, Awaiting, Held, OffInv, TaskInv, Reconciling
  <2>4. Timed(h.st, r2)
    BY <2>3 DEF Awaiting, Held, TimeInv
  <2>5. Running(v, o2, r2, c2) /\ EvOff(v)
    BY <1>1, <1>2, <2>2, <2>3, <2>4 DEF Running, EvOff, Known
  <2> QED
    BY <2>1, <2>2, <2>3, <2>5, DoneHeld
<1>10. CASE h.task.at = "natural"
  <2>1. q = [g EXCEPT !.full = FALSE, !.task = NoTask]
    BY <1>2, <1>10 DEF After
  <2>2. Running(g, o2, r2, c2)
    BY <1>1, <1>10 DEF Known
  <2> QED
    BY <1>2, <2>1, <2>2, FreedHeld
<1>11. CASE h.task.at = "stop"
  <2> DEFINE v == [g EXCEPT !.life = "stopped"]
  <2>1. q = Done(v)
    BY <1>2, <1>11 DEF After
  <2>2. v \in Heos /\ v.life = "stopped" /\ v.st = h.st /\ v.task = h.task
    BY <1>2 DEF Heos, Lives
  <2> HIDE DEF v
  <2>3. h.task.who # "ev"
    BY <1>11 DEF Awaiting, Held, TaskInv, Reconciling
  <2>4. Running(v, o2, r2, c2) /\ EvOff(v)
    BY <1>1, <1>2, <1>11, <2>2, <2>3 DEF Running, EvOff, Known
  <2> QED
    BY <2>1, <2>2, <2>3, <2>4, DoneHeld
<1> QED
  BY <1>3, <1>4, <1>5, <1>6, <1>7, <1>8, <1>9, <1>10, <1>11 DEF Points, Reconciling

\* Every task goes on soundly after a save that failed, also when it was stored.
LEMMA AfterFails ==
    ASSUME NEW h, NEW o, NEW r, NEW c, NEW w, Awaiting(h, o, r, c, w),
           NEW g, NEW stored, NEW o2, NEW r2, NEW c2,
           Resumed(h, g, o, r, c, stored, o2, r2, c2),
           NEW q, q = After(g, FALSE), q.st.gen < h.st.gen /\ q.st.armed => ~CalledOff(c2)
    PROVE  Result(q, o2, r2, c2, w)
<1>1. Known(h, g, o2, r, r2, c2)
  BY AwaitingFacts
<1>2. /\ g \in Heos /\ g.life = h.life /\ g.st = h.st /\ g.full = h.full /\ g.task = h.task
      /\ r \in Starts /\ h.life # "down" /\ h.task.who # "none"
      /\ h.st \in States /\ h.task.prev \in States
  BY <1>1 DEF Known, Awaiting, Heos, Tasks
<1>3. h.task.at \in Points \ {"free", "cycle"}
  BY DEF Awaiting, Writing, Heos, Tasks
<1>4. CASE h.task.at = "retry"
  <2>1. \/ q = Decide(g)
        \/ q = Done(g) /\ ~Owns(g.st)
    BY <1>2, <1>4 DEF After
  <2>2. Running(g, o2, r, c2) /\ EvOff(g) /\ r2 = r
    BY <1>1, <1>4 DEF Known
  <2> QED
    BY <1>2, <2>1, <2>2, DecideHeld, DoneHeld
<1>5. CASE h.task.at = "end"
  <2>1. q = Done(g) /\ Running(g, o2, r2, c2) /\ EvOff(g)
    BY <1>1, <1>2, <1>5 DEF After, Known
  <2>2. ~Owns(g.st)
    BY <1>2, <1>5 DEF Awaiting, Held, TimeInv
  <2> QED
    BY <2>1, <2>2, DoneHeld
<1>6. CASE h.task.at = "off"
  BY <1>1, <1>2, <1>6, ClearHeld DEF After, Known
<1>7. CASE h.task.at = "clear"
  <2> DEFINE v == [g EXCEPT !.st = g.task.prev]
  <2>1. q = Done(v)
    BY <1>2, <1>7 DEF After
  <2>2. v \in Heos /\ v.life = h.life /\ v.st = h.task.prev /\ v.task = h.task /\ v.full = h.full
    BY <1>2 DEF Heos
  <2> HIDE DEF v
  <2>3. q.st = h.task.prev
    BY <1>2, <2>1, <2>2 DEF Done, Heos
  <2>4. h.task.prev.armed => ~CalledOff(c2)
    <3>1. h.task.prev.gen \in Int /\ h.st.gen \in Int
      BY <1>2 DEF States
    <3>2. /\ h.task.prev.gen <= h.st.gen
          /\ h.task.prev.armed /\ h.task.prev.gen = h.st.gen => ~CalledOff(c)
      BY <1>7 DEF Awaiting, Held, CallInv
    <3>3. ~CalledOff(c) => ~CalledOff(c2)
      BY DEF Resumed
    <3>4. h.task.prev.gen < h.st.gen /\ h.task.prev.armed => ~CalledOff(c2)
      BY <2>3
    <3> QED
      BY <3>1, <3>2, <3>3, <3>4
  <2>5. Timed(h.task.prev, r) /\ r2 = r
    BY <1>1, <1>7 DEF Awaiting, Held, TimeInv, Known
  <2>6. ~h.full /\ (o2 => Ended(h.task.prev))
    BY <1>1, <1>2, <1>7 DEF Awaiting, Held, OffInv, Known, Running
  <2>7. Running(v, o2, r2, c2) /\ EvOff(v)
    BY <1>2, <2>2, <2>4, <2>5, <2>6 DEF Running, EvOff
  <2> QED
    BY <2>1, <2>2, <2>6, <2>7, DoneHeld
<1>8. CASE h.task.at = "pause"
  <2>1. q = Finish(g) /\ Running(g, o2, r2, c2) /\ EvOff(g)
    BY <1>1, <1>2, <1>8 DEF After, Known
  <2>2. Loose(g, o2, r2)
    BY <2>1 DEF Loose, Running, Timed
  <2> QED
    BY <2>1, <2>2, FinishHeld
<1>9. CASE h.task.at = "on"
  <2>1. Admitting(h)
    BY <1>9 DEF Admitting
  <2>2. q = Finish([g EXCEPT !.st = TripOnFailed(g.st, g.task.prev)])
    BY <1>2, <1>9 DEF After
  <2> QED
    BY <2>1, <2>2, RejectedHeld
<1>10. CASE h.task.at = "operator on"
  <2> DEFINE u == OthersFailed(g.st, g.task.prev)
             v == [g EXCEPT !.st = u]
  <2>1. q = Done(v)
    BY <1>2, <1>10 DEF After
  <2>2. /\ u \in States /\ u.any = h.task.prev.any /\ u.on = h.task.prev.on
        /\ u.gen = h.st.gen /\ u.started = h.st.started
        /\ u.armed = (IF h.st.gen # h.task.prev.gen THEN h.st.armed ELSE h.task.prev.armed)
    BY <1>2, OthersFailedFacts
  <2> HIDE DEF u
  <2>3. v \in Heos /\ v.life = h.life /\ v.st = u /\ v.task = h.task
    BY <1>2, <2>2 DEF Heos
  <2> HIDE DEF v
  <2>4. h.task.who # "ev" /\ r2 = r
    BY <1>1, <1>10 DEF Known, Awaiting, Held, TaskInv, Reconciling
  <2>5. o2 => Ended(h.task.prev)
    BY <1>10 DEF Resumed, OffThen, Awaiting, Held, OffInv
  <2>6. Timed(u, r)
    <3>1. /\ Timed(h.st, r) /\ Timed(h.task.prev, r)
          /\ h.task.prev.gen = h.st.gen => h.st.started = h.task.prev.started
      BY <1>10 DEF Awaiting, Held, TimeInv
    <3> QED
      BY <2>2, <3>1 DEF Timed, Covered
  <2>7. u.armed => ~CalledOff(c2)
    <3>1. /\ h.task.prev.armed /\ h.task.prev.gen = h.st.gen => ~CalledOff(c)
          /\ h.st.armed => ~CalledOff(c)
      BY <1>10 DEF Awaiting, Held, CallInv
    <3>2. ~CalledOff(c) => ~CalledOff(c2)
      BY DEF Resumed
    <3> QED
      BY <2>2, <3>1, <3>2
  <2>8. Running(v, o2, r2, c2) /\ EvOff(v)
    BY <1>2, <2>2, <2>3, <2>4, <2>5, <2>6, <2>7 DEF Running, EvOff, Ended
  <2> QED
    BY <2>1, <2>3, <2>4, <2>8, DoneHeld
<1>11. CASE h.task.at = "operator off"
  <2> DEFINE v == [g EXCEPT !.full = FALSE]
  <2>1. q = Done(v) /\ Running(g, o2, r2, c2)
    BY <1>1, <1>2, <1>11 DEF After, Known
  <2>2. v \in Heos /\ v.life = g.life /\ v.st = g.st /\ ~v.full /\ v.task = g.task
    BY <1>2 DEF Heos
  <2> HIDE DEF v
  <2>3. Running(v, o2, r2, c2) /\ EvOff(v)
    BY <2>1, <2>2 DEF Running, EvOff
  <2> QED
    BY <2>1, <2>2, <2>3, DoneHeld
<1>12. CASE h.task.at = "natural"
  <2>1. q = [g EXCEPT !.full = FALSE, !.task = NoTask]
    BY <1>2, <1>12 DEF After
  <2>2. Running(g, o2, r2, c2)
    BY <1>1, <1>12 DEF Known
  <2> QED
    BY <1>2, <2>1, <2>2, FreedHeld
<1>13. CASE h.task.at = "edit"
  <2> DEFINE u == [g.st EXCEPT !.armed = FALSE, !.cleanup = Owns(g.st)]
             v == [g EXCEPT !.st = u]
  <2>1. q = Done(g) \/ q = Done(v)
    BY <1>2, <1>13 DEF After, Heos
  <2>2. Running(g, o2, r2, c2) /\ EvOff(g) /\ h.task.who # "ev"
    BY <1>1, <1>13 DEF Known, Awaiting, Held, TaskInv, Reconciling
  <2>3. /\ u \in States /\ ~u.armed /\ u.started = h.st.started /\ SameIntent(u, h.st)
    <3>1. u \in States
      BY <1>2, EndedFacts
    <3> QED
      BY <1>2, <3>1 DEF States, SameIntent
  <2> HIDE DEF u
  <2>4. v \in Heos /\ v.life = h.life /\ v.st = u /\ v.task = h.task /\ v.full = h.full
    BY <1>2, <2>3 DEF Heos
  <2> HIDE DEF v
  <2>5. Running(v, o2, r2, c2) /\ EvOff(v)
    BY <1>2, <2>2, <2>3, <2>4 DEF Running, EvOff, Ended, Timed, Covered, SameIntent
  <2> QED
    BY <1>2, <2>1, <2>2, <2>4, <2>5, DoneHeld
<1>14. CASE h.task.at = "stop"
  <2> DEFINE v == [g EXCEPT !.life = "stopped"]
  <2>1. q = Done(v)
    BY <1>2, <1>14 DEF After
  <2>2. v \in Heos /\ v.life = "stopped" /\ v.st = h.st /\ v.task = h.task
    BY <1>2 DEF Heos, Lives
  <2> HIDE DEF v
  <2>3. h.task.who # "ev"
    BY <1>14 DEF Awaiting, Held, TaskInv, Reconciling
  <2>4. Running(v, o2, r2, c2) /\ EvOff(v)
    BY <1>1, <1>2, <1>14, <2>2, <2>3 DEF Running, EvOff, Known
  <2> QED
    BY <2>1, <2>2, <2>3, <2>4, DoneHeld
<1> QED
  BY <1>3, <1>4, <1>5, <1>6, <1>7, <1>8, <1>9, <1>10, <1>11, <1>12, <1>13, <1>14
  DEF Points, Reconciling

-----------------------------------------------------------------------------
(* The steps. *)

\* Nobody has the lock of a controller that is down.
LEMMA DownFacts ==
    ASSUME Inv, heo.life = "down"
    PROVE  /\ heo.task = NoTask /\ heo.task.who = "none" /\ heo.task.at = "free"
           /\ heo.st = Empty /\ ~heo.dirty /\ ~heo.invalid
           /\ waiting = << >> /\ called # "asked"
<1>1. heo \in Heos /\ heo = Down(heo.full)
  BY DEF Inv, TypeOK
<1>2. heo.full \in BOOLEAN
  BY <1>1 DEF Heos
<1>3. /\ Down(heo.full).task = NoTask /\ Down(heo.full).st = Empty
      /\ ~Down(heo.full).dirty /\ ~Down(heo.full).invalid
  BY <1>2, IdleFacts
<1> QED
  BY <1>1, <1>3, IdleFacts DEF Inv

\* A step of a task in the lock, once its result and the stored journal are known.
LEMMA ReturnStep ==
    ASSUME Inv, Result(heo', off', ran', called', waiting'),
           FileInv(file', off', ran', called'), file' \in States, entry' = entry, world' = world,
           waiting' \in Seq(BOOLEAN), off' \in BOOLEAN, ran' \in Starts, called' \in Calls,
           events' \in Nat
    PROVE  Inv' /\ EntersArmed
<1>1. TypeOK'
  BY DEF Inv, TypeOK, world, Result
<1> QED
  BY <1>1 DEF Inv, Result, EntersArmed, Proceeds

\* A task takes the free lock.
LEMMA TakeFacts ==
    ASSUME NEW who \in Whos, Free, heo \in Heos, TaskInv(heo), NEW t, t = Take(who)
    PROVE  /\ t \in Heos /\ t.life = heo.life /\ t.st = heo.st /\ t.full = heo.full
           /\ t.invalid = heo.invalid /\ t.dirty = heo.dirty
           /\ t.task.who = who /\ t.task.at = "free" /\ heo.task = NoTask /\ heo.life # "down"
<1>1. heo.task = NoTask /\ NoTask \in Tasks /\ NoTask.at = "free" /\ heo.life # "down"
  BY IdleFacts DEF Free, TaskInv, Up
<1> DEFINE k == [heo.task EXCEPT !.who = who]
<1>2. k \in Tasks /\ k.who = who /\ k.at = "free"
  BY <1>1 DEF Tasks
<1>3. t = [heo EXCEPT !.task = k]
  BY DEF Take, Heos
<1> HIDE DEF k
<1> QED
  BY <1>1, <1>2, <1>3 DEF Heos

\* Then it runs with a journal that is known.
LEMMA TakeRuns ==
    ASSUME Inv, NEW who \in Whos, who # "none", Free, NEW t, t = Take(who),
           heo.invalid => heo.dirty \/ waiting # << >>
    PROVE  Running(t, off, ran, called)
<1>1. heo \in Heos /\ TaskInv(heo)
  BY DEF Inv, TypeOK, Held
<1>2. /\ t \in Heos /\ t.life = heo.life /\ t.st = heo.st /\ t.task.who = who
      /\ heo.task = NoTask /\ heo.life # "down"
  BY <1>1, TakeFacts
<1>3. off => Ended(heo.st)
  BY <1>2, IdleFacts DEF Inv, Held, OffInv
<1>4. Timed(heo.st, ran) /\ (heo.st.armed => ~CalledOff(called))
  BY DEF Inv, Held, TimeInv, CallInv
<1> QED
  BY <1>2, <1>3, <1>4 DEF Running

\* The trip controller reconciles on its own.
LEMMA TripReconcileStep ==
    ASSUME Inv, TripReconcile PROVE Inv' /\ EntersArmed
<1> DEFINE t == Take("trip")
<1>1. Free /\ ~heo.invalid /\ heo' = Reconcile(t)
  BY DEF TripReconcile
<1>2. /\ file' = file /\ entry' = entry /\ world' = world /\ waiting' = waiting /\ off' = off
      /\ ran' = ran /\ called' = called /\ events' = events
  BY DEF TripReconcile, history
<1>3. "trip" \in Whos /\ heo \in Heos /\ TaskInv(heo) /\ ran \in Starts
  BY DEF Whos, Inv, TypeOK, Held
<1>4. Running(t, off, ran, called)
  BY <1>1, <1>3, TakeRuns
<1>5. t.task.who = "trip"
  BY <1>1, <1>3, TakeFacts
<1> HIDE DEF t
<1>6. EvOff(t)
  BY <1>5 DEF EvOff
<1>7. Result(heo', off, ran, called, waiting)
  BY <1>1, <1>3, <1>4, <1>6, ReconcileHeld
<1> QED
  BY <1>2, <1>7, ReturnStep DEF Inv, TypeOK

\* The EV controller reconciles the trip before its cycle, or goes on without it.
LEMMA EvBeginsStep ==
    ASSUME Inv, EvBegins PROVE Inv' /\ EntersArmed
<1> DEFINE k == Take("ev")
           t == Tombstone(k)
<1>1. /\ Free
      /\ ~heo.invalid => heo' = (IF Owns(t.st) \/ ~Stopped(t) THEN Reconcile(t) ELSE Done(t))
      /\ heo.invalid => heo' = (IF heo.full THEN heo ELSE Done(k))
  BY DEF EvBegins
<1>2. /\ file' = file /\ entry' = entry /\ world' = world /\ waiting' = waiting /\ off' = off
      /\ ran' = ran /\ called' = called /\ events' = events
  BY DEF EvBegins, history
<1>3. "ev" \in Whos /\ heo \in Heos /\ TaskInv(heo) /\ ran \in Starts
  BY DEF Whos, Inv, TypeOK, Held
<1>4. /\ k \in Heos /\ k.life = heo.life /\ k.st = heo.st /\ k.full = heo.full
      /\ k.invalid = heo.invalid /\ k.dirty = heo.dirty
      /\ k.task.who = "ev" /\ heo.task = NoTask /\ heo.life # "down"
  BY <1>1, <1>3, TakeFacts
<1>5. CASE ~heo.invalid
  <2>1. Running(k, off, ran, called)
    BY <1>1, <1>3, <1>5, TakeRuns
  <2> HIDE DEF k
  <2>2. /\ t \in Heos /\ t.life = k.life /\ t.st = k.st /\ t.task = k.task
        /\ (Ended(t.st) => ~t.full)
    BY <1>4, TombstoneHeld
  <2> HIDE DEF t
  <2>3. Running(t, off, ran, called) /\ EvOff(t)
    BY <2>1, <2>2 DEF Running, EvOff
  <2>4. \/ heo' = Reconcile(t)
        \/ heo' = Done(t) /\ ~Owns(t.st)
    BY <1>1, <1>5
  <2>5. Result(heo', off, ran, called, waiting)
    BY <1>3, <2>3, <2>4, ReconcileHeld, DoneHeld
  <2> QED
    BY <1>2, <2>5, ReturnStep DEF Inv, TypeOK
<1>6. CASE heo.invalid /\ heo.full
  <2>1. heo' = heo
    BY <1>1, <1>6
  <2> QED
    BY <1>2, <2>1 DEF Inv, TypeOK, world, EntersArmed, Proceeds
<1>7. CASE heo.invalid /\ ~heo.full
  <2> DEFINE n == [NoTask EXCEPT !.who = "ev", !.at = "cycle"]
             q == Done(k)
  <2>1. n \in Tasks /\ n.who = "ev" /\ n.at = "cycle"
    BY IdleFacts DEF Tasks, Whos, Points
  <2>2. q = [k EXCEPT !.task = n]
    BY <1>4 DEF Done
  <2> HIDE DEF n, k
  <2>3. /\ q \in Heos /\ q.life = heo.life /\ q.st = heo.st /\ ~q.full /\ q.task = n
        /\ q.invalid = heo.invalid /\ q.dirty = heo.dirty
    BY <1>4, <1>7, <2>1, <2>2 DEF Heos
  <2>4. heo' = q
    BY <1>1, <1>7
  <2> HIDE DEF q
  <2>5. TaskInv(q)
    BY <2>1, <2>3 DEF TaskInv
  <2>6. OffInv(q, off, waiting)
    BY <1>4, <2>1, <2>3, IdleFacts DEF OffInv, Inv, Held, Writing
  <2>7. TimeInv(q, ran) /\ CallInv(q, called)
    BY <2>1, <2>3 DEF TimeInv, CallInv, Inv, Held, Writing
  <2>8. Result(q, off, ran, called, waiting)
    BY <1>4, <2>3, <2>5, <2>6, <2>7 DEF Result, Held
  <2> QED
    BY <1>2, <2>4, <2>8, ReturnStep DEF Inv, TypeOK
<1> QED
  BY <1>5, <1>6, <1>7

\* The EV controller's cycle ends.
LEMMA EvEndsStep ==
    ASSUME Inv, EvEnds PROVE Inv' /\ EntersArmed
<1>1. /\ heo.task.at = "cycle" /\ heo' = [heo EXCEPT !.task = NoTask]
      /\ file' = file /\ entry' = entry /\ world' = world /\ waiting' = waiting /\ off' = off
      /\ ran' = ran /\ called' = called /\ events' = events
  BY DEF EvEnds, history
<1>2. heo \in Heos /\ heo.life # "down"
  <2>1. heo.life = "down" => heo.task = NoTask
    BY DownFacts
  <2> QED
    BY <1>1, <2>1, IdleFacts DEF Inv, TypeOK
<1>3. /\ heo' \in Heos /\ heo'.life = heo.life /\ heo'.st = heo.st /\ heo'.full = heo.full
      /\ heo'.invalid = heo.invalid /\ heo'.dirty = heo.dirty /\ heo'.task = NoTask
      /\ heo'.task.who = "none" /\ heo'.task.at = "free"
  BY <1>1, <1>2, IdleFacts DEF Heos
<1>4. TaskInv(heo')
  BY <1>3 DEF TaskInv
<1>5. OffInv(heo', off, waiting)
  BY <1>1, <1>3 DEF OffInv, Inv, Held, Writing
<1>6. TimeInv(heo', ran) /\ CallInv(heo', called)
  BY <1>3 DEF TimeInv, CallInv, Inv, Held, Writing
<1>7. Result(heo', off, ran, called, waiting)
  BY <1>2, <1>3, <1>4, <1>5, <1>6 DEF Result, Held
<1> QED
  BY <1>1, <1>7, ReturnStep DEF Inv, TypeOK

\* The EV controller ends the override on its own terms.
LEMMA EvClearsStep ==
    ASSUME Inv, EvClears PROVE Inv' /\ EntersArmed
<1> DEFINE u == Others(heo.st, FALSE)
           g == Change(heo, u)
<1>1. /\ heo.task.at = "cycle" /\ heo' = SaveAt(g, "natural")
      /\ file' = file /\ entry' = entry /\ world' = world /\ waiting' = waiting /\ off' = off
      /\ ran' = ran /\ called' = called /\ events' \in Nat
  BY DEF EvClears, Spend, history, Inv, TypeOK
<1>2. heo \in Heos /\ heo.st \in States /\ heo.life # "down" /\ heo.task.who = "ev"
  <2>1. heo.life = "down" => heo.task = NoTask
    BY DownFacts
  <2> QED
    BY <1>1, <2>1, IdleFacts DEF Inv, TypeOK, Heos, Held, TaskInv
<1>3. /\ u \in States /\ u.any /\ ~u.on /\ u.started = heo.st.started /\ (u.armed => heo.st.armed)
  BY <1>2, OthersFacts
<1> HIDE DEF u
<1>4. g \in Heos /\ g.life = heo.life /\ g.st = u /\ g.task = heo.task
  BY <1>2, <1>3, ChangeFacts
<1> HIDE DEF g
<1>5. Running(g, off, ran, called)
  BY <1>2, <1>3, <1>4
  DEF Running, Inv, Held, TimeInv, CallInv, Timed, Covered, Ended
<1>6. Plain(g, "natural") /\ "natural" \in Points
  BY DEF Plain, Points
<1>7. Result(heo', off, ran, called, waiting)
  BY <1>1, <1>5, <1>6, SuspendHeld
<1> QED
  BY <1>1, <1>7, ReturnStep DEF Inv, TypeOK

\* The operator asks for the override or ends it.
LEMMA RequestStep ==
    ASSUME Inv, Request PROVE Inv' /\ EntersArmed
<1> DEFINE t == Take("operator")
           k == Keep(t)
           Asks(enabled) ==
             /\ heo' = SaveAt(Change(k, Others(heo.st, enabled)),
                              IF enabled THEN "operator on" ELSE "operator off")
             /\ off' = (off /\ ~(heo.invalid /\ enabled))
<1>1. /\ Free /\ (Asks(TRUE) \/ Asks(FALSE))
      /\ file' = file /\ entry' = entry /\ world' = world /\ waiting' = waiting
      /\ ran' = ran /\ called' = called /\ events' \in Nat
  <2>1. PICK enabled \in BOOLEAN : Asks(enabled)
    BY DEF Request
  <2>2. enabled = TRUE \/ enabled = FALSE
    OBVIOUS
  <2> HIDE DEF t, k, Asks
  <2>3. Asks(TRUE) \/ Asks(FALSE)
    BY <2>1, <2>2
  <2>4. Free /\ Spend /\ UNCHANGED <<file, entry, world, waiting, ran, called>>
    BY DEF Request
  <2>5. events' \in Nat
    BY <2>4 DEF Spend, Inv, TypeOK
  <2>6. /\ file' = file /\ entry' = entry /\ world' = world /\ waiting' = waiting
        /\ ran' = ran /\ called' = called
    BY <2>4
  <2> QED
    BY <2>3, <2>4, <2>5, <2>6
<1>2. /\ "operator" \in Whos /\ heo \in Heos /\ heo.st \in States /\ TaskInv(heo)
      /\ {"operator on", "operator off"} \subseteq Points
  BY DEF Whos, Inv, TypeOK, Held, Heos, Points
<1>3. /\ t \in Heos /\ t.life = heo.life /\ t.st = heo.st /\ t.full = heo.full
      /\ t.task.who = "operator" /\ heo.task = NoTask /\ heo.life # "down"
  BY <1>1, <1>2, TakeFacts
<1> HIDE DEF t
<1>4. /\ k \in Heos /\ k.life = heo.life /\ k.st = heo.st /\ k.full = heo.full
      /\ k.task.who = "operator" /\ k.task.prev = heo.st
  BY <1>3, KeepFacts
<1> HIDE DEF k
<1>5. CASE Asks(FALSE)
  <2> DEFINE u == Others(heo.st, FALSE)
             g == Change(k, u)
  <2>1. heo' = SaveAt(g, "operator off") /\ off' = off
    BY <1>5 DEF Inv, TypeOK
  <2>2. /\ u \in States /\ u.any /\ ~u.on /\ u.started = heo.st.started
        /\ (u.armed => heo.st.armed)
    BY <1>2, OthersFacts
  <2> HIDE DEF u
  <2>3. g \in Heos /\ g.life = heo.life /\ g.st = u /\ g.task = k.task
    BY <1>4, <2>2, ChangeFacts
  <2> HIDE DEF g
  <2>4. Running(g, off, ran, called) /\ EvOff(g)
    BY <1>3, <1>4, <2>2, <2>3
    DEF Running, EvOff, Inv, Held, TimeInv, CallInv, Timed, Covered, Ended
  <2>5. Plain(g, "operator off")
    BY <1>4, <2>3, <2>4 DEF Plain
  <2>6. Result(heo', off, ran, called, waiting)
    BY <1>2, <2>1, <2>4, <2>5, SuspendHeld
  <2> QED
    BY <1>1, <2>1, <2>6, ReturnStep DEF Inv, TypeOK
<1>6. CASE Asks(TRUE)
  <2> DEFINE u == Others(heo.st, TRUE)
             g == Change(k, u)
             q == SaveAt(g, "operator on")
  <2>1. heo' = q /\ off' = (off /\ ~heo.invalid)
    BY <1>6
  <2>2. /\ u \in States /\ u.any /\ u.on /\ u.gen = heo.st.gen /\ u.started = heo.st.started
        /\ (u.armed => heo.st.armed)
    BY <1>2, OthersFacts
  <2> HIDE DEF u
  <2>3. g \in Heos /\ g.life = heo.life /\ g.st = u /\ g.task = k.task
    BY <1>4, <2>2, ChangeFacts
  <2>4. q = SaveAt(g, "operator on")
    OBVIOUS
  <2> HIDE DEF g, q
  <2>5. /\ q \in Heos /\ q.life = heo.life /\ q.st = u /\ q.task.who = "operator"
        /\ q.task.at = "operator on" /\ q.task.saving = u /\ q.task.prev = heo.st
    <3> DEFINE p == "operator on"
    <3>1. p \in Points /\ q = SaveAt(g, p)
      BY <2>4 DEF Points
    <3> HIDE DEF p
    <3>2. g \in Heos
      BY <2>3
    <3>3. /\ q \in Heos /\ q.life = g.life /\ q.st = g.st
          /\ q.task.who = g.task.who /\ q.task.at = p /\ q.task.saving = g.st
          /\ q.task.prev = g.task.prev
      BY <3>1, <3>2, SaveAtFacts
    <3> QED
      BY <1>4, <2>3, <3>3 DEF p
  <2>6. TaskInv(q)
    BY <2>5 DEF TaskInv
  <2>7. off' => Ended(heo.st)
    BY <1>3, <2>1, IdleFacts DEF Inv, Held, OffInv
  <2>8. OffInv(q, off', waiting)
    BY <2>2, <2>5, <2>7 DEF OffInv, Writing
  <2>9. TimeInv(q, ran)
    BY <2>2, <2>5 DEF TimeInv, Inv, Held, Timed, Covered
  <2>10. CallInv(q, called)
    <3>1. u.gen \in Int /\ u.gen <= u.gen
      BY <2>2 DEF States
    <3> QED
      BY <2>2, <2>5, <3>1 DEF CallInv, CalledOff, Inv, Held
  <2>11. Result(heo', off', ran, called, waiting)
    BY <1>3, <2>1, <2>5, <2>6, <2>8, <2>9, <2>10 DEF Result, Held
  <2>12. FileInv(file, off', ran, called) /\ off' \in BOOLEAN
    BY <2>1 DEF FileInv, Inv
  <2> QED
    BY <1>1, <2>11, <2>12, ReturnStep DEF Inv, TypeOK
<1> QED
  BY <1>1, <1>5, <1>6

\* What was being saved is a journal a restart may read.
LEMMA StoresFacts ==
    ASSUME Inv, Stores, NEW c \in Calls, heo.task.saving.armed => c # "stored"
    PROVE  /\ FileInv(file', off', ran', c) /\ file' \in States /\ off' \in BOOLEAN
           /\ ran' \in Starts /\ Awaiting(heo, off, ran, called, waiting)
           /\ off' = OffThen(heo, off, TRUE) /\ ran' = RanThen(heo, ran, TRUE)
<1> DEFINE s == heo.task.saving
<1>1. /\ Saving /\ file' = s
      /\ off' = (IF s.any THEN ~s.on ELSE off)
      /\ ran' = (IF heo.task.at = "on" /\ ran = Unset THEN 0 ELSE ran)
  BY DEF Stores
<1>2. /\ heo \in Heos /\ heo.st \in States /\ s \in States /\ Writing(heo)
      /\ ran \in Starts /\ off \in BOOLEAN
  BY <1>1 DEF Inv, TypeOK, Heos, Tasks, Saving, Writing
<1>3. heo.life # "down"
  <2>1. heo.life = "down" => heo.task = NoTask
    BY DownFacts
  <2> QED
    BY <1>2, <2>1, IdleFacts DEF Writing
<1>4. Awaiting(heo, off, ran, called, waiting)
  BY <1>2, <1>3 DEF Awaiting, Inv
<1>5. s.any = heo.st.any /\ s.on = heo.st.on
  BY <1>2 DEF Inv, Held, OffInv
<1>6. off' = OffThen(heo, off, TRUE) /\ ran' = RanThen(heo, ran, TRUE)
  BY <1>1, <1>5 DEF OffThen, RanThen
<1>7. 0 \in Starts
  BY BoundsAssumption DEF Starts
<1>8. ran' \in Starts /\ off' \in BOOLEAN
  <2>1. off' \in BOOLEAN
    BY <1>1, <1>2 DEF States
  <2> QED
    BY <1>1, <1>2, <1>7, <2>1
<1>9. off' => Ended(s)
  BY <1>1, <1>2, <1>3, <1>5 DEF Inv, Held, OffInv, Ended
<1>10. Timed(s, ran')
  <2>1. Timed(s, ran) /\ (heo.task.at = "on" => s.started # Unset)
    BY <1>2 DEF Inv, Held, TimeInv
  <2>2. s.started # Unset => s.started \in Nat
    BY <1>2, BoundsAssumption DEF States, Starts
  <2> QED
    BY <1>1, <2>1, <2>2 DEF Timed, Covered
<1> QED
  BY <1>1, <1>2, <1>4, <1>6, <1>8, <1>9, <1>10 DEF FileInv

\* A save that was stored.
LEMMA SavedStep ==
    ASSUME Inv, Saved PROVE Inv' /\ EntersArmed
<1> DEFINE d == heo.st # heo.task.saving
           g == [heo EXCEPT !.dirty = d]
<1>1. /\ Stores /\ heo' = After(g, TRUE)
      /\ called' = (IF called = "asked" /\ ~heo.task.saving.armed THEN "stored" ELSE called)
      /\ entry' = entry /\ world' = world /\ waiting' = waiting /\ events' = events
  BY DEF Saved
<1>2. d \in BOOLEAN
  OBVIOUS
<1> HIDE DEF d
<1>3. called \in Calls /\ (heo.task.saving.armed => called # "stored")
  BY <1>1 DEF Inv, TypeOK, Held, CallInv, Stores, Saving, Writing
<1>4. called' \in Calls /\ (heo.task.saving.armed => called' # "stored")
  BY <1>1, <1>3 DEF Calls
<1>5. /\ FileInv(file', off', ran', called') /\ file' \in States /\ off' \in BOOLEAN
      /\ ran' \in Starts /\ Awaiting(heo, off, ran, called, waiting)
      /\ off' = OffThen(heo, off, TRUE) /\ ran' = RanThen(heo, ran, TRUE)
  BY <1>1, <1>4, StoresFacts
<1>6. ~CalledOff(called) => ~CalledOff(called')
  BY <1>1 DEF CalledOff
<1>7. Resumed(heo, g, off, ran, called, TRUE, off', ran', called')
  BY <1>2, <1>5, <1>6 DEF Resumed
<1> HIDE DEF g
<1>8. Result(heo', off', ran', called', waiting)
  BY <1>1, <1>5, <1>7, AfterSaved
<1> QED
  BY <1>1, <1>4, <1>5, <1>8, ReturnStep DEF Inv, TypeOK

\* A save that failed, stored or not.
LEMMA SaveFailsStep ==
    ASSUME Inv, SaveFails PROVE Inv' /\ EntersArmed
<1> DEFINE g == [heo EXCEPT !.dirty = TRUE]
<1>1. /\ Saving /\ (Stores \/ Forgets) /\ heo' = After(g, FALSE)
      /\ called' = (IF heo'.st.gen < heo.st.gen /\ heo'.st.armed /\ CalledOff(called)
                    THEN "undone" ELSE called)
      /\ entry' = entry /\ world' = world /\ waiting' = waiting /\ events' \in Nat
  BY DEF SaveFails, Spend, Inv, TypeOK
<1>2. called \in Calls /\ (heo.task.saving.armed => called # "stored")
  BY <1>1 DEF Inv, TypeOK, Held, CallInv, Saving, Writing
<1>3. /\ called' \in Calls /\ (heo.task.saving.armed => called' # "stored")
      /\ ~CalledOff(called) => ~CalledOff(called')
      /\ heo'.st.gen < heo.st.gen /\ heo'.st.armed => ~CalledOff(called')
  BY <1>1, <1>2 DEF Calls, CalledOff
<1>4. \E stored \in BOOLEAN :
        /\ FileInv(file', off', ran', called') /\ file' \in States /\ off' \in BOOLEAN
        /\ ran' \in Starts /\ Awaiting(heo, off, ran, called, waiting)
        /\ off' = OffThen(heo, off, stored) /\ ran' = RanThen(heo, ran, stored)
  <2>1. CASE Stores
    BY <1>3, <2>1, StoresFacts
  <2>2. CASE Forgets
    <3>1. file' = file /\ off' = off /\ ran' = ran
      BY <2>2 DEF Forgets
    <3>2. heo.life # "down"
      <4>1. heo.life = "down" => heo.task = NoTask
        BY DownFacts
      <4> QED
        BY <1>1, <4>1, IdleFacts DEF Saving
    <3>3. Awaiting(heo, off, ran, called, waiting)
      BY <1>1, <3>2 DEF Awaiting, Inv, TypeOK, Saving, Writing
    <3>4. FileInv(file', off', ran', called')
      BY <1>1, <3>1 DEF Inv, FileInv
    <3>5. off' = OffThen(heo, off, FALSE) /\ ran' = RanThen(heo, ran, FALSE)
      BY <3>1 DEF OffThen, RanThen
    <3> QED
      BY <3>1, <3>3, <3>4, <3>5 DEF Inv, TypeOK
  <2> QED
    BY <1>1, <2>1, <2>2
<1>5. PICK stored \in BOOLEAN :
        /\ FileInv(file', off', ran', called') /\ file' \in States /\ off' \in BOOLEAN
        /\ ran' \in Starts /\ Awaiting(heo, off, ran, called, waiting)
        /\ off' = OffThen(heo, off, stored) /\ ran' = RanThen(heo, ran, stored)
  BY <1>4
<1>6. Resumed(heo, g, off, ran, called, stored, off', ran', called')
  BY <1>3, <1>5 DEF Resumed
<1> HIDE DEF g
<1>7. Result(heo', off', ran', called', waiting)
  BY <1>1, <1>3, <1>5, <1>6, AfterFails
<1> QED
  BY <1>1, <1>3, <1>5, <1>7, ReturnStep DEF Inv, TypeOK

\* An edit changes the journal at once, whatever is being saved.
LEMMA EditStep ==
    ASSUME Inv, Edit PROVE Inv' /\ EntersArmed
<1> DEFINE Kinds == {"arm", "disarm", "departure", "minutes"}
           Calling(kind) ==
             /\ called' = (IF kind = "arm" THEN "no"
                           ELSE IF kind = "disarm" \/ (kind = "departure" /\ Active(heo.st)) THEN "asked"
                           ELSE called)
             /\ ran' = (IF kind = "arm" THEN Unset ELSE ran)
             /\ time' = (IF kind = "departure" THEN "early" ELSE time)
<1>1. PICK kind \in Kinds :
        /\ heo' = Change(heo, Edited(heo.st, kind))
        /\ waiting' = Append(waiting, kind = "disarm")
        /\ Calling(kind)
  BY DEF Edit
<1>2. /\ Up /\ events' \in Nat /\ off' = (off /\ ~heo.invalid)
      /\ file' = file /\ entry' = entry /\ soc' = soc /\ car' = car /\ gate' = gate
  BY DEF Edit, Spend, Inv, TypeOK
<1>3. heo \in Heos /\ heo.st \in States /\ heo.life # "down"
  BY <1>2 DEF Inv, TypeOK, Heos, Up
<1> DEFINE u == Edited(heo.st, kind)
<1>4. /\ u \in States /\ SameIntent(u, heo.st) /\ u.gen = heo.st.gen + 1 /\ u.owner = heo.st.owner
      /\ u.started = (IF kind = "arm" THEN Unset ELSE heo.st.started)
      /\ kind = "disarm" \/ (kind = "departure" /\ Active(heo.st)) => ~u.armed
      /\ kind # "arm" /\ u.armed => heo.st.armed
  BY <1>3, EditedFacts
<1>5. heo' = Change(heo, u)
  BY <1>1
<1> HIDE DEF u
<1>6. /\ heo' \in Heos /\ heo'.life = heo.life /\ heo'.invalid = heo.invalid /\ heo'.dirty
      /\ heo'.st = u /\ heo'.full = heo.full /\ heo'.task = heo.task
  BY <1>3, <1>4, <1>5, ChangeFacts
<1>7. /\ heo.task.prev.gen <= heo.st.gen =>
           heo.task.prev.gen <= u.gen /\ heo.task.prev.gen # u.gen
      /\ heo.task.gen <= heo.st.gen => heo.task.gen <= u.gen /\ heo.task.gen # u.gen
  <2> DEFINE a == heo.st.gen
             b == heo.task.prev.gen
             d == heo.task.gen
             n == u.gen
  <2>1. a \in Int /\ b \in Int /\ d \in Int /\ n = a + 1
    BY <1>3, <1>4 DEF Heos, Tasks, States
  <2> HIDE DEF a, b, d, n
  <2>2. (b <= a => b <= n /\ b # n) /\ (d <= a => d <= n /\ d # n)
    BY <2>1
  <2> QED
    BY <2>2 DEF a, b, d, n
<1>8. /\ ran' \in Starts /\ called' \in Calls /\ time' \in {"early", "due", "gone"}
      /\ ran' = ran \/ ran' = Unset
      /\ u.armed => ~CalledOff(called') \/ (heo.st.armed /\ called' = called)
      /\ (called' = "stored" => called = "stored")
  BY <1>1, <1>4 DEF Inv, TypeOK, Starts, Calls, CalledOff
<1>9. waiting' \in Seq(BOOLEAN)
  <2> DEFINE b == kind = "disarm"
  <2>1. b \in BOOLEAN /\ waiting' = Append(waiting, b)
    BY <1>1
  <2> HIDE DEF b
  <2> QED
    BY <2>1 DEF Inv, TypeOK
<1>10. TypeOK'
  BY <1>2, <1>6, <1>8, <1>9 DEF TypeOK, Inv
<1>11. TaskInv(heo')
  BY <1>6 DEF TaskInv, Inv, Held
<1>12. OffInv(heo', off', waiting')
  BY <1>2, <1>4, <1>6 DEF OffInv, Inv, Held, Writing, SameIntent, Ended
<1>13. TimeInv(heo', ran')
  <2>1. TimeInv(heo, ran) /\ CallInv(heo, called)
    BY DEF Inv, Held
  <2>2. heo.st.gen \in Int /\ heo.task.gen \in Int /\ heo.task.prev.gen \in Int
    BY <1>3 DEF Heos, Tasks, States
  <2>3. heo.task.at = "on" => u.gen # heo.task.gen
    BY <1>4, <2>1, <2>2 DEF CallInv
  <2>4. heo.task.at = "operator on" => heo.task.prev.gen <= heo.st.gen
    BY <2>1 DEF CallInv
  <2>5. heo.task.at = "operator on" => u.gen # heo.task.prev.gen
    BY <1>7, <2>4
  <2>6. kind # "arm" => ran' = ran
    BY <1>1
  <2>7. kind = "arm" => ran' = Unset
    BY <1>1
  <2>8. Unset < MaxHours
    BY BoundsAssumption DEF Unset
  <2>9. Timed(u, ran')
    BY <1>4, <2>1, <2>6, <2>7 DEF TimeInv, Timed, Covered
  <2>10. \A s : Timed(s, ran) => Timed(s, ran')
    BY <1>8 DEF Timed, Covered
  <2> QED
    BY <1>4, <1>6, <1>8, <2>1, <2>3, <2>5, <2>8, <2>9, <2>10 DEF TimeInv, Writing, Owns
<1>14. CallInv(heo', called')
  <2>1. CallInv(heo, called)
    BY DEF Inv, Held
  <2>2. /\ heo.task.at \in {"clear", "operator on"} => heo.task.prev.gen <= heo.st.gen
        /\ heo.task.at = "on" => heo.task.gen <= heo.st.gen
    BY <2>1 DEF CallInv
  <2>3. /\ heo.task.at \in {"clear", "operator on"} =>
              heo.task.prev.gen <= u.gen /\ heo.task.prev.gen # u.gen
        /\ heo.task.at = "on" => heo.task.gen <= u.gen
    BY <1>7, <2>2
  <2>4. u.armed => ~CalledOff(called')
    BY <1>8, <2>1 DEF CallInv
  <2>5. Writing(heo) /\ heo.task.saving.armed => called' # "stored"
    BY <1>8, <2>1 DEF CallInv
  <2> QED
    BY <1>6, <2>3, <2>4, <2>5 DEF CallInv, Writing
<1>15. FileInv(file', off', ran', called')
  BY <1>2, <1>8 DEF FileInv, Inv, Timed, Covered
<1> QED
  BY <1>3, <1>6, <1>10, <1>11, <1>12, <1>13, <1>14, <1>15 DEF Inv, Held, EntersArmed, Proceeds

\* An edit saves the journal once it has the lock.
LEMMA EditSavesStep ==
    ASSUME Inv, EditSaves PROVE Inv' /\ EntersArmed
<1> DEFINE t == Take("edit")
           i == heo.invalid /\ ~Head(waiting)
           v == [t EXCEPT !.invalid = i]
<1>1. Free /\ waiting # << >> /\ waiting' = Tail(waiting)
  BY DEF EditSaves
<1>2. /\ file' = file /\ entry' = entry /\ world' = world /\ off' = off
      /\ ran' = ran /\ called' = called /\ events' = events
  BY DEF EditSaves, history
<1>3. /\ "edit" \in Whos /\ "edit" # "none" /\ "edit" \in Points
      /\ heo \in Heos /\ TaskInv(heo) /\ waiting \in Seq(BOOLEAN)
  BY DEF Whos, Points, Inv, TypeOK, Held
<1>4. Running(t, off, ran, called)
  BY <1>1, <1>3, TakeRuns
<1>5. t \in Heos /\ t.invalid = heo.invalid /\ t.task.who = "edit"
  BY <1>1, <1>3, TakeFacts
<1>6. heo' = SaveAt(v, "edit")
  <2>1. heo' = SaveAt([t EXCEPT !.invalid = @ /\ ~Head(waiting)], "edit")
    BY DEF EditSaves
  <2>2. [t EXCEPT !.invalid = @ /\ ~Head(waiting)] = v
    BY <1>5
  <2> QED
    BY <2>1, <2>2
<1>7. i \in BOOLEAN
  OBVIOUS
<1> HIDE DEF t, i
<1>8. v \in Heos /\ v.life = t.life /\ v.st = t.st /\ v.full = t.full /\ v.task = t.task
  BY <1>5, <1>7 DEF Heos
<1> HIDE DEF v
<1>9. Running(v, off, ran, called) /\ EvOff(v)
  BY <1>4, <1>5, <1>8 DEF Running, EvOff
<1>10. Plain(v, "edit")
  BY <1>5, <1>8, <1>9 DEF Plain
<1>11. Result(heo', off, ran, called, waiting')
  BY <1>3, <1>6, <1>9, <1>10, SuspendHeld
<1>12. waiting' \in Seq(BOOLEAN)
  BY <1>1, <1>3
<1> QED
  BY <1>2, <1>11, <1>12, ReturnStep DEF Inv, TypeOK

\* A lifecycle step that leaves the task, the journal and the setting alone.
LEMMA LifeStep ==
    ASSUME Inv, NEW life \in Lives \ {"down"}, heo.life # "down",
           heo' = [heo EXCEPT !.life = life], file' = file, entry' = entry, world' = world,
           waiting' = waiting, off' = off, ran' = ran, called' = called, events' \in Nat
    PROVE  Inv' /\ EntersArmed
<1>1. /\ heo' \in Heos /\ heo'.life = life /\ heo'.invalid = heo.invalid /\ heo'.dirty = heo.dirty
      /\ heo'.st = heo.st /\ heo'.full = heo.full /\ heo'.task = heo.task
  BY DEF Inv, TypeOK, Heos
<1>2. TaskInv(heo')
  BY <1>1 DEF Held, Inv, TaskInv
<1>3. OffInv(heo', off', waiting')
  BY <1>1 DEF Held, Inv, OffInv, Writing
<1>4. TimeInv(heo', ran')
  BY <1>1 DEF Held, Inv, TimeInv, Writing
<1>5. CallInv(heo', called')
  BY <1>1 DEF Held, Inv, CallInv, Writing
<1> QED
  BY <1>1, <1>2, <1>3, <1>4, <1>5 DEF Held, Inv, TypeOK, world, EntersArmed, Proceeds

\* The controller starts.
LEMMA StartStep ==
    ASSUME Inv, Start PROVE Inv' /\ EntersArmed
<1>1. "up" \in Lives \ {"down"}
  BY DEF Lives
<1> QED
  BY <1>1, LifeStep DEF Start, history, Inv, TypeOK

\* The controller stops at once.
LEMMA StopStep ==
    ASSUME Inv, Stop PROVE Inv' /\ EntersArmed
<1>1. "stopping" \in Lives \ {"down"}
  BY DEF Lives
<1> QED
  BY <1>1, LifeStep DEF Stop, history, Spend, Inv, TypeOK

\* Its last save queues for the lock.
LEMMA StopSavesStep ==
    ASSUME Inv, StopSaves PROVE Inv' /\ EntersArmed
<1> DEFINE t == Take("stop")
<1>1. /\ heo.life = "stopping" /\ Free
      /\ heo' = (IF heo.dirty THEN SaveAt(t, "stop") ELSE [heo EXCEPT !.life = "stopped"])
  BY DEF StopSaves
<1>2. /\ file' = file /\ entry' = entry /\ world' = world /\ waiting' = waiting /\ off' = off
      /\ ran' = ran /\ called' = called /\ events' = events
  BY DEF StopSaves, history
<1>3. /\ "stop" \in Whos /\ "stop" # "none" /\ "stop" \in Points /\ heo \in Heos /\ TaskInv(heo)
      /\ "stopped" \in Lives \ {"down"}
  BY DEF Whos, Points, Lives, Inv, TypeOK, Held
<1>4. CASE heo.dirty
  <2>1. Running(t, off, ran, called)
    BY <1>1, <1>3, <1>4, TakeRuns
  <2>2. t.task.who = "stop"
    BY <1>1, <1>3, TakeFacts
  <2> HIDE DEF t
  <2>3. Plain(t, "stop")
    BY <2>2 DEF Plain, EvOff
  <2>4. Result(heo', off, ran, called, waiting)
    BY <1>1, <1>3, <1>4, <2>1, <2>3, SuspendHeld
  <2> QED
    BY <1>2, <2>4, ReturnStep DEF Inv, TypeOK
<1>5. CASE ~heo.dirty
  BY <1>1, <1>2, <1>3, <1>5, LifeStep DEF Inv, TypeOK
<1> QED
  BY <1>4, <1>5

\* A restart reads the journal, or cannot.
LEMMA LoadStep ==
    ASSUME Inv, Load PROVE Inv' /\ EntersArmed
<1> DEFINE e == [heo EXCEPT !.life = "loaded"]
           v == [e EXCEPT !.invalid = TRUE]
           g == [e EXCEPT !.st = file]
<1>1. /\ heo.life = "down"
      /\ \/ heo' = v
         \/ heo' = Tombstone(g) /\ file # Unreadable
  BY DEF Load, Up
<1>2. /\ file' = file /\ entry' = entry /\ world' = world /\ waiting' = waiting /\ off' = off
      /\ ran' = ran /\ called' = called
  BY DEF Load, history
<1>3. events' \in Nat
  BY DEF Load, Spend, Inv, TypeOK
<1>4. /\ heo.task = NoTask /\ heo.task.who = "none" /\ heo.task.at = "free"
      /\ heo.st = Empty /\ ~heo.dirty /\ waiting = << >> /\ called # "asked"
  BY <1>1, DownFacts
<1>5. heo \in Heos /\ file \in States /\ FileInv(file, off, ran, called) /\ called \in Calls
  BY DEF Inv, TypeOK
<1>6. /\ e \in Heos /\ e.life = "loaded" /\ e.st = heo.st /\ e.dirty = heo.dirty
      /\ e.task = heo.task
  BY <1>5 DEF Heos, Lives
<1> HIDE DEF e
<1>7. CASE heo' = v
  <2>1. /\ v \in Heos /\ v.life = "loaded" /\ v.st = heo.st /\ v.dirty = heo.dirty /\ v.invalid
        /\ v.task = heo.task
    BY <1>6 DEF Heos
  <2> HIDE DEF v
  <2>2. TaskInv(v) /\ OffInv(v, off, waiting)
    BY <1>4, <2>1 DEF TaskInv, OffInv, Writing
  <2>3. TimeInv(v, ran) /\ CallInv(v, called)
    BY <1>4, <2>1, EmptyFacts DEF TimeInv, CallInv, Writing
  <2>4. Result(heo', off, ran, called, waiting)
    BY <1>4, <1>7, <2>1, <2>2, <2>3 DEF Result, Held
  <2> QED
    BY <1>2, <1>3, <2>4, ReturnStep DEF Inv, TypeOK
<1>8. CASE heo' = Tombstone(g) /\ file # Unreadable
  <2>1. g \in Heos /\ g.life = "loaded" /\ g.st = file /\ g.task = heo.task
    BY <1>5, <1>6 DEF Heos
  <2> HIDE DEF g
  <2>2. /\ heo' \in Heos /\ heo'.life = "loaded" /\ heo'.st = file /\ heo'.task = heo.task
    BY <1>8, <2>1, TombstoneHeld
  <2>3. off => Ended(file)
    BY <1>5, <1>8 DEF FileInv
  <2>4. Timed(file, ran) /\ (file.armed => ~CalledOff(called))
    BY <1>4, <1>5 DEF FileInv, CalledOff
  <2>5. TaskInv(heo') /\ OffInv(heo', off, waiting)
    BY <1>4, <2>2, <2>3 DEF TaskInv, OffInv, Writing
  <2>6. TimeInv(heo', ran) /\ CallInv(heo', called)
    BY <1>4, <2>2, <2>4 DEF TimeInv, CallInv, Writing
  <2>7. Result(heo', off, ran, called, waiting)
    BY <1>4, <2>2, <2>5, <2>6 DEF Result, Held
  <2> QED
    BY <1>2, <1>3, <2>7, ReturnStep DEF Inv, TypeOK
<1> QED
  BY <1>1, <1>7, <1>8

\* The memory is gone; what was only heard is forgotten with it.
LEMMA ForgottenStep ==
    ASSUME Inv, NEW full \in BOOLEAN, heo' = Down(full), waiting' = << >>, called' = Lost,
           FileInv(file', off', ran', called'), file' \in States, entry' = entry, world' = world,
           off' \in BOOLEAN, ran' \in Starts, events' \in Nat
    PROVE  Inv' /\ EntersArmed
<1>1. /\ heo' \in Heos /\ heo'.st = Empty /\ heo'.full = full /\ heo'.task = NoTask
      /\ heo'.task.who = "none" /\ heo'.task.at = "free" /\ heo'.life = "down"
  BY IdleFacts
<1>2. called' \in Calls /\ called' # "asked"
  BY DEF Inv, TypeOK, Calls, Lost
<1>3. waiting' \in Seq(BOOLEAN)
  OBVIOUS
<1>4. TypeOK'
  BY <1>1, <1>2, <1>3 DEF Inv, TypeOK, world
<1>5. TaskInv(heo') /\ OffInv(heo', off', waiting')
  BY <1>1 DEF TaskInv, OffInv, Writing
<1>6. TimeInv(heo', ran') /\ CallInv(heo', called')
  BY <1>1, EmptyFacts DEF TimeInv, CallInv, Writing
<1> QED
  BY <1>1, <1>2, <1>4, <1>5, <1>6 DEF Inv, Held, EntersArmed, Proceeds

\* The entry is set up again after the controllers have stopped.
LEMMA ReloadStep ==
    ASSUME Inv, Reload PROVE Inv' /\ EntersArmed
<1>1. /\ waiting' = << >> /\ heo' = Down(heo.full) /\ called' = Lost
      /\ file' = file /\ entry' = entry /\ world' = world /\ off' = off /\ ran' = ran
      /\ events' = events
  BY DEF Reload
<1>2. heo.full \in BOOLEAN
  BY DEF Inv, TypeOK, Heos
<1>3. FileInv(file', off', ran', called')
  BY <1>1 DEF Inv, FileInv, Lost
<1> QED
  BY <1>1, <1>2, <1>3, ForgottenStep DEF Inv, TypeOK

\* The process dies, also while a save is stored.
LEMMA CrashStep ==
    ASSUME Inv, Crash PROVE Inv' /\ EntersArmed
<1>1. /\ waiting' = << >> /\ heo' = Down(entry) /\ called' = Lost /\ (Stores \/ Forgets)
      /\ entry' = entry /\ world' = world /\ events' \in Nat
  BY DEF Crash, Spend, Inv, TypeOK
<1>2. called \in Calls
  BY DEF Inv, TypeOK
<1>3. FileInv(file', off', ran', called') /\ file' \in States /\ off' \in BOOLEAN /\ ran' \in Starts
  <2>1. CASE Stores
    <3>1. heo.task.saving.armed => called # "stored"
      BY <2>1 DEF Inv, Held, CallInv, Stores, Saving, Writing
    <3>2. called' \in Calls /\ (heo.task.saving.armed => called' # "stored")
      BY <1>1, <1>2, <3>1 DEF Lost, Calls
    <3> QED
      BY <2>1, <3>2, StoresFacts
  <2>2. CASE Forgets
    <3>1. file' = file /\ off' = off /\ ran' = ran
      BY <2>2 DEF Forgets
    <3> QED
      BY <1>1, <3>1 DEF Inv, TypeOK, FileInv, Lost
  <2> QED
    BY <1>1, <2>1, <2>2
<1> QED
  BY <1>1, <1>3, ForgottenStep DEF Inv, TypeOK

\* The stored journal is damaged while the controller is down.
LEMMA CorruptStep ==
    ASSUME Inv, Corrupt PROVE Inv' /\ EntersArmed
<1>1. /\ file' = Unreadable /\ heo' = heo /\ entry' = entry /\ world' = world
      /\ waiting' = waiting /\ off' = off /\ ran' = ran /\ called' = called /\ events' \in Nat
  BY DEF Corrupt, Spend, history, Inv, TypeOK
<1>2. FileInv(file', off', ran', called') /\ file' \in States
  BY <1>1, EmptyFacts DEF FileInv
<1>3. TypeOK'
  BY <1>1, <1>2 DEF Inv, TypeOK, world
<1> QED
  BY <1>1, <1>2, <1>3 DEF Inv, EntersArmed, Proceeds

\* Home Assistant stores the entry, or the world changes.
LEMMA OutsideStep ==
    ASSUME Inv, EntrySaved \/ World PROVE Inv' /\ EntersArmed
<1>1. /\ heo' = heo /\ file' = file /\ waiting' = waiting /\ off' = off /\ ran' = ran
      /\ called' = called
  BY DEF EntrySaved, World, history
<1>2. TypeOK'
  <2>1. CASE EntrySaved
    BY <1>1, <2>1 DEF EntrySaved, Inv, TypeOK, world, Heos
  <2>2. CASE World
    <3>1. soc \in {"low", "target", "unknown"} /\ car \in {"home", "away", "unknown"} /\ gate \in BOOLEAN
      BY DEF Inv, TypeOK
    <3>2. soc' \in {"low", "target", "unknown"} /\ car' \in {"home", "away", "unknown"}
      BY <2>2, <3>1 DEF World
    <3>3. gate' \in BOOLEAN
      BY <2>2, <3>1 DEF World
    <3>4. entry' = entry /\ time' = time /\ events' \in Nat
      BY <2>2 DEF World, Spend, Inv, TypeOK
    <3> QED
      BY <1>1, <3>2, <3>3, <3>4 DEF Inv, TypeOK
  <2> QED
    BY <2>1, <2>2
<1> QED
  BY <1>1, <1>2 DEF Inv, EntersArmed, Proceeds

\* An hour in the life of a journal.
LEMMA OlderFacts ==
    ASSUME NEW s \in States, NEW r \in Starts, NEW q, q = Older(s),
           NEW n, n = (IF r \in 0 .. MaxHours - 1 THEN r + 1 ELSE r)
    PROVE  /\ q \in States /\ q.armed = s.armed /\ q.gen = s.gen /\ q.owner = s.owner
           /\ SameIntent(q, s) /\ n \in Starts /\ (Timed(s, r) => Timed(q, n))
           /\ s.started = Unset => q = s
<1>1. MaxHours \in Nat \ {0} /\ s.started \in Starts
  BY BoundsAssumption DEF States
<1> DEFINE t == IF s.started \in 0 .. MaxHours - 1 THEN s.started + 1 ELSE s.started
<1>2. t \in Starts /\ n \in Starts
  BY <1>1 DEF Starts, Unset
<1>3. q = [s EXCEPT !.started = t]
  BY DEF Older, States
<1>4. /\ r # Unset /\ s.started # Unset /\ s.started >= r => t >= n
      /\ (s.started # Unset <=> t # Unset) /\ (r # Unset <=> n # Unset)
  BY <1>1 DEF Starts, Unset
<1>5. s.started = Unset => q = s
  BY DEF Older, Unset
<1> HIDE DEF t
<1>6. /\ q \in States /\ q.armed = s.armed /\ q.gen = s.gen /\ q.owner = s.owner
      /\ q.any = s.any /\ q.on = s.on /\ q.started = t
  BY <1>2, <1>3 DEF States
<1>7. Timed(s, r) => Timed(q, n)
  BY <1>4, <1>6 DEF Timed, Covered
<1> QED
  BY <1>2, <1>5, <1>6, <1>7 DEF SameIntent

\* Time passes while nobody has the lock.
LEMMA TickStep ==
    ASSUME Inv, Tick PROVE Inv' /\ EntersArmed
<1> DEFINE u == Older(heo.st)
<1>1. /\ heo.task.who = "none" /\ heo' = [heo EXCEPT !.st = Older(@)] /\ file' = Older(file)
      /\ ran' = (IF ran \in 0 .. MaxHours - 1 THEN ran + 1 ELSE ran)
      /\ entry' = entry /\ soc' = soc /\ car' = car /\ gate' = gate /\ waiting' = waiting
      /\ off' = off /\ called' = called /\ events' = events
      /\ time' \in {time, IF time = "early" THEN "due" ELSE "gone"}
  BY DEF Tick
<1>2. heo \in Heos /\ heo.st \in States /\ file \in States /\ ran \in Starts
  BY DEF Inv, TypeOK, Heos
<1>3. heo.task = NoTask /\ heo.task.at = "free"
  BY <1>1, IdleFacts DEF Inv, Held, TaskInv
<1>4. /\ u \in States /\ u.armed = heo.st.armed /\ u.gen = heo.st.gen /\ u.owner = heo.st.owner
      /\ SameIntent(u, heo.st) /\ ran' \in Starts /\ (Timed(heo.st, ran) => Timed(u, ran'))
      /\ heo.st.started = Unset => u = heo.st
  BY <1>1, <1>2, OlderFacts
<1>5. /\ file' \in States /\ file'.armed = file.armed /\ SameIntent(file', file)
      /\ (Timed(file, ran) => Timed(file', ran')) /\ (file.started = Unset => file' = file)
  BY <1>1, <1>2, OlderFacts
<1>6. heo' = [heo EXCEPT !.st = u]
  BY <1>1, <1>2 DEF Heos
<1> HIDE DEF u
<1>7. /\ heo' \in Heos /\ heo'.life = heo.life /\ heo'.invalid = heo.invalid
      /\ heo'.dirty = heo.dirty /\ heo'.st = u /\ heo'.full = heo.full /\ heo'.task = heo.task
  BY <1>2, <1>4, <1>6 DEF Heos
<1>8. TypeOK'
  BY <1>1, <1>4, <1>5, <1>7 DEF Inv, TypeOK
<1>9. TaskInv(heo')
  BY <1>7 DEF TaskInv, Inv, Held
<1>10. OffInv(heo', off', waiting')
  BY <1>1, <1>3, <1>4, <1>7 DEF OffInv, Inv, Held, Writing, SameIntent, Ended
<1>11. TimeInv(heo', ran')
  BY <1>3, <1>4, <1>7 DEF TimeInv, Inv, Held, Writing
<1>12. CallInv(heo', called')
  BY <1>1, <1>3, <1>4, <1>7 DEF CallInv, Inv, Held, Writing
<1>13. FileInv(file', off', ran', called')
  <2>1. Unreadable.started = Unset
    BY DEF Unreadable, Empty
  <2>2. file = Unreadable => file' = Unreadable
    BY <1>5, <2>1
  <2> QED
    BY <1>1, <1>5, <2>2 DEF FileInv, Inv, SameIntent, Ended
<1>14. heo'.life = "down" => heo' = Down(heo'.full) /\ waiting' = << >> /\ called' # "asked"
  <2>1. CASE heo.life # "down"
    BY <1>7, <2>1
  <2>2. CASE heo.life = "down"
    <3>1. heo.st = Empty /\ Empty.started = Unset
      BY <2>2, DownFacts DEF Empty
    <3>2. heo' = heo
      BY <1>2, <1>4, <1>6, <3>1 DEF Heos
    <3> QED
      BY <1>1, <2>2, <3>2 DEF Inv
  <2> QED
    BY <2>1, <2>2
<1> QED
  BY <1>3, <1>7, <1>8, <1>9, <1>10, <1>11, <1>12, <1>13, <1>14
  DEF Inv, Held, EntersArmed, Proceeds

-----------------------------------------------------------------------------
(* The theorems. *)

\* The controller starts down, without an ended override or a trip on the way.
LEMMA InitInv ==
    Init => Inv
<1> SUFFICES ASSUME Init PROVE Inv
  OBVIOUS
<1>1. /\ Down(FALSE) \in Heos /\ Down(FALSE).st = Empty /\ Down(FALSE).full = FALSE
      /\ Down(FALSE).task = NoTask /\ Down(FALSE).life = "down"
      /\ NoTask.who = "none" /\ NoTask.at = "free"
  BY IdleFacts
<1>2. /\ heo = Down(FALSE) /\ file \in {Empty, [Empty EXCEPT !.armed = TRUE]}
      /\ waiting = << >> /\ off = FALSE /\ ran = Unset /\ called = "no"
  BY DEF Init
<1>3. file \in States
  BY <1>2, EmptyFacts DEF States
<1>4. TypeOK
  <2>1. waiting \in Seq(BOOLEAN)
    BY <1>2
  <2>2. ran \in Starts /\ called \in Calls
    BY <1>2 DEF Starts, Calls
  <2> QED
    BY <1>1, <1>2, <1>3, <2>1, <2>2 DEF Init, TypeOK
<1>5. TaskInv(heo) /\ OffInv(heo, off, waiting)
  BY <1>1, <1>2 DEF TaskInv, OffInv, Writing
<1>6. TimeInv(heo, ran) /\ CallInv(heo, called)
  BY <1>1, <1>2, EmptyFacts DEF TimeInv, CallInv, Writing
<1>7. FileInv(file, off, ran, called)
  BY <1>2 DEF FileInv, Timed, Covered
<1>8. heo = Down(heo.full) /\ called # "asked"
  BY <1>1, <1>2
<1> QED
  BY <1>2, <1>4, <1>5, <1>6, <1>7, <1>8 DEF Inv, Held

\* Every step keeps the invariant, and enters no EV cycle with an unarmed lease.
LEMMA NextInv ==
    Inv /\ [Next]_vars => Inv' /\ (EntersArmed \/ UNCHANGED vars)
<1> SUFFICES ASSUME Inv, [Next]_vars PROVE Inv' /\ (EntersArmed \/ UNCHANGED vars)
  OBVIOUS
<1>1. CASE TripReconcile
  BY <1>1, TripReconcileStep
<1>2. CASE EvBegins
  BY <1>2, EvBeginsStep
<1>3. CASE EvEnds
  BY <1>3, EvEndsStep
<1>4. CASE EvClears
  BY <1>4, EvClearsStep
<1>5. CASE Request
  BY <1>5, RequestStep
<1>6. CASE Saved
  BY <1>6, SavedStep
<1>7. CASE SaveFails
  BY <1>7, SaveFailsStep
<1>8. CASE Edit
  BY <1>8, EditStep
<1>9. CASE EditSaves
  BY <1>9, EditSavesStep
<1>10. CASE Load
  BY <1>10, LoadStep
<1>11. CASE Start
  BY <1>11, StartStep
<1>12. CASE Stop
  BY <1>12, StopStep
<1>13. CASE StopSaves
  BY <1>13, StopSavesStep
<1>14. CASE Reload
  BY <1>14, ReloadStep
<1>15. CASE EntrySaved \/ World
  BY <1>15, OutsideStep
<1>16. CASE Crash
  BY <1>16, CrashStep
<1>17. CASE Corrupt
  BY <1>17, CorruptStep
<1>18. CASE Tick
  BY <1>18, TickStep
<1>19. CASE UNCHANGED vars
  BY <1>19 DEF vars, world, history, Inv, TypeOK
<1> QED
  BY <1>1, <1>2, <1>3, <1>4, <1>5, <1>6, <1>7, <1>8, <1>9, <1>10, <1>11, <1>12, <1>13, <1>14,
     <1>15, <1>16, <1>17, <1>18, <1>19 DEF Next

\* What memory, the task in the lock and the stored journal always know of the end of the
\* override, of the age of the trip and of its cancellation.
THEOREM TripInvariant == Spec => []Inv
<1>1. Init => Inv
  BY InitInv
<1>2. Inv /\ [Next]_vars => Inv'
  BY NextInv
<1> QED
  BY <1>1, <1>2, PTL DEF Spec

\* A paid override that was ended and journalled never charges again, whatever old
\* setting a restart brings back (trip_charge.py, _apply_tombstone_locked).
THEOREM EndedNeverReplayed == Spec => NeverReplayed
<1>1. Inv' => (Proceeds => ~off')
  <2> SUFFICES ASSUME Inv', Proceeds, off' PROVE FALSE
    OBVIOUS
  <2>1. OffInv(heo', off', waiting') /\ TaskInv(heo')
    BY DEF Inv, Held
  <2>2. heo'.task.at = "cycle" /\ heo'.full
    BY DEF Proceeds
  <2>3. heo'.life # "down"
    <3>1. heo' \in Heos /\ (heo'.life = "down" => heo' = Down(heo'.full))
      BY DEF Inv, TypeOK
    <3>2. heo'.full \in BOOLEAN
      BY <3>1 DEF Heos
    <3> QED
      BY <2>2, <3>1, <3>2, IdleFacts
  <2> QED
    BY <2>1, <2>2, <2>3 DEF OffInv, TaskInv
<1>2. Inv' => [Proceeds => ~off']_vars
  BY <1>1
<1> QED
  BY <1>2, TripInvariant, PTL DEF NeverReplayed

\* A trip's override charges for no longer than MaxHours after its first start, through
\* pauses, restarts and failed saves (trip_charge.py, _reconcile_locked).
THEOREM TripIsBounded == Spec => TripBounded
<1>1. Inv' => (Proceeds /\ Owns(heo'.st) => ran' < MaxHours)
  BY DEF Inv, Held, TimeInv, Proceeds
<1>2. Inv' => [Proceeds /\ Owns(heo'.st) => ran' < MaxHours]_vars
  BY <1>1
<1> QED
  BY <1>2, TripInvariant, PTL DEF TripBounded

\* A trip that was called off does not charge, also when the request came while its
\* start was being stored (trip_charge.py, async_record_full_intent_locked); a
\* request is left out once a rollback has armed the trip again (_pause_locked,
\* _finish_locked) or the memory was lost before the request was stored.
THEOREM CancelIsHeld == Spec => CancelHolds
<1>1. Inv' /\ (EntersArmed \/ UNCHANGED vars)
        => [Proceeds /\ Owns(heo'.st) => ~CalledOff(called')]_vars
  <2>1. Inv' => (heo'.st.armed => ~CalledOff(called'))
    BY DEF Inv, Held, CallInv
  <2> QED
    BY <2>1 DEF EntersArmed
<1>2. Inv /\ [Next]_vars => [Proceeds /\ Owns(heo'.st) => ~CalledOff(called')]_vars
  BY <1>1, NextInv
<1> QED
  BY <1>2, TripInvariant, PTL DEF CancelHolds, Spec
=============================================================================
