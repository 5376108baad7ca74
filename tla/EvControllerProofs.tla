-------------------------- MODULE EvControllerProofs --------------------------
(***************************************************************************)
(* Theorems about the EV controller: the direct path, for every sequence   *)
(* of retry intervals, every time a full charge may last and every number  *)
(* of events; and the free-window planner, for all measurements.           *)
(***************************************************************************)
EXTENDS EvController, FreeWindowCurrent, TLAPS

Currents == {Unset, 0, 1, 2}
Levels == {"none", "soft", "full"}
Records == [amps : Currents, limit : Levels,
            attempts : 0 .. Len(Intervals), age : 0 .. LastAge, confirmed : BOOLEAN]
Stops == [pending : BOOLEAN, attempts : 0 .. Len(Intervals), age : 0 .. LastAge]
FullAges == {Unset} \cup 0 .. MaxFull
Clocks == FullAges \cup {Lapsed}
Decisions == [full : BOOLEAN, stale : BOOLEAN, made : BOOLEAN]
Disks == [rec : Records, active : BOOLEAN, stop : Stops, fullAge : FullAges,
          control : BOOLEAN, lapsed : BOOLEAN]
Memories == [rec : Records, active : BOOLEAN, stop : Stops, fullAge : FullAges,
             control : BOOLEAN, targetActive : BOOLEAN, stopReq : BOOLEAN,
             target : Currents, limit : Levels,
             route : {"none", "free", "outside", "general"},
             decision : Decisions, latch : BOOLEAN, boot : BOOLEAN]
Cars == [plugged : BOOLEAN, on : BOOLEAN, amps : {1, 2}, limit : {"soft", "full"}]
Views == [connected : BOOLEAN, absent : BOOLEAN, visible : BOOLEAN, on : BOOLEAN,
          amps : {1, 2}, limit : {"soft", "full"}]
Orders == {"limit", "amps", "start", "stop"}
Kinds == {"none", "direct", "reduce", "limit", "stop", "blocked"}
Jobs == [obs : Views, window : BOOLEAN, noPhase : BOOLEAN, kind : Kinds,
         cmds : Seq(Orders), first : BOOLEAN, entered : BOOLEAN, lossy : BOOLEAN]
Paces == [amps : Currents, limit : Levels,
          n : 0 .. Len(Intervals), age : 0 .. LastAge, lapsed : BOOLEAN]

\* A decision that was made has a charge limit.
Limited(m) == m.decision.made => m.limit # "none"

\* What a batch of commands still to be sent carries, by its kind.
BatchTyped(m, j) ==
    /\ j.cmds # << >>
    /\ j.kind \in {"direct", "reduce", "limit", "stop"}
    /\ j.kind \in {"direct", "reduce"} => m.target \in {1, 2}
    /\ j.kind # "stop" => m.limit \in {"soft", "full"}
    /\ j.kind = "limit" => j.cmds = <<"limit">>
    /\ j.kind = "stop" => j.cmds = <<"stop">>

TypeOK ==
    /\ baseline \in {0, 1} /\ car \in Cars /\ link \in {"ok", "blind", "dark"}
    /\ window \in BOOLEAN /\ offer \in Offers /\ gate \in {"ready", "locked", "closed"}
    /\ full \in BOOLEAN /\ mem \in Memories /\ disk \in Disks
    /\ pc \in {"idle", "decide", "stop", "send", "log"} /\ job \in Jobs
    /\ pace \in Paces /\ clock \in Clocks /\ events \in Nat
    /\ Limited(mem)
    /\ pc = "send" => BatchTyped(mem, job)

\* The record paces at least as much as the batches that were really sent: it is of
\* their target, counts no fewer of them, and none of them is older than it says.  A
\* restart that found the defaults has lost it.
Covers(r, p) ==
    p.n > 0 /\ ~p.lapsed
        => r.amps = p.amps /\ r.limit = p.limit /\ r.attempts >= p.n /\ r.age <= p.age

\* A batch about to start is stored as an attempt and its predecessors are old enough.
Paced(r, p, amps, limit) ==
    /\ r.amps = amps /\ r.limit = limit /\ r.age = 0 /\ r.attempts >= Batches(p)
    /\ p.n > 0 /\ ~p.lapsed => p.age >= Intervals[p.n]

\* The inductive invariant behind WritesPaced: the record, in memory and in a store
\* that is not the defaults, covers the batches, and a batch to be sent is paced
\* unless a repair has dropped its record since.
PaceInv ==
    /\ Covers(mem.rec, pace) /\ (disk.lapsed \/ Covers(disk.rec, pace))
    /\ pc = "send" /\ job.kind = "direct" /\ job.first
         => \/ /\ Paced(mem.rec, pace, mem.target, mem.limit)
               /\ disk.lapsed \/ disk.rec = mem.rec
            \/ mem.rec = NoRecord /\ pace = NoPace

\* A request is at least as old, in memory and in the store, as its first use.
Aged(age, c) == c \notin {Unset, Lapsed} => age >= c

\* The inductive invariant behind FullLimitBounded.
FullInv ==
    /\ ~full => clock = Unset
    /\ Aged(mem.fullAge, clock) /\ (disk.lapsed \/ Aged(disk.fullAge, clock))
    /\ pc = "send" /\ job.kind # "stop" /\ mem.limit = "full" => full /\ job.kind = "direct"
    /\ pc = "send" /\ job.kind = "direct" /\ full
         => /\ mem.fullAge \in 0 .. MaxFull - 1
            /\ disk.lapsed \/ disk.fullAge = mem.fullAge

-----------------------------------------------------------------------------
(* Attempts and records. *)

\* There is at least one retry interval.
LEMMA IntervalFacts ==
    /\ Len(Intervals) \in Nat /\ Len(Intervals) >= 1
    /\ \A k \in 1 .. Len(Intervals) : Intervals[k] \in Nat
    /\ LastAge \in Nat
<1>1. Len(Intervals) \in Nat /\ Len(Intervals) >= 1
  BY IntervalsAssumption
<1>2. \A k \in 1 .. Len(Intervals) : Intervals[k] \in Nat
  BY IntervalsAssumption
<1>3. Len(Intervals) \in 1 .. Len(Intervals)
  BY <1>1
<1>4. LastAge \in Nat
  BY <1>2, <1>3 DEF LastAge
<1> QED
  BY <1>1, <1>2, <1>4

\* A later interval is no shorter than an earlier one.
LEMMA LaterIsLonger ==
    ASSUME NEW i \in 1 .. Len(Intervals), NEW j \in 1 .. Len(Intervals), i <= j
    PROVE  Intervals[i] <= Intervals[j]
<1>1. i \in 1 .. j
  OBVIOUS
<1> QED
  BY <1>1, IntervalsAssumption

\* Another attempt is counted, up to the number of intervals.
LEMMA AttemptFacts ==
    ASSUME NEW n \in 0 .. Len(Intervals), NEW k \in 0 .. Len(Intervals), n <= k
    PROVE  /\ Attempt(k) \in 1 .. Len(Intervals)
           /\ Attempt(k) >= Attempt(n) /\ Attempt(n) >= n /\ Attempt(0) = 1
<1>1. Len(Intervals) \in Nat /\ Len(Intervals) >= 1
  BY IntervalFacts
<1> QED
  BY <1>1 DEF Attempt

\* The pace after the memory's record r was replaced by q (SetMemory).
NextPace(r, q, p) ==
    IF \/ q.amps # Unset /\ (q.amps # p.amps \/ q.limit # p.limit)
       \/ q.attempts < r.attempts
       \/ r.confirmed /\ ~q.confirmed /\ p.age = LastAge
    THEN NoPace ELSE p

\* A fresh pace is typed and asks for nothing.
LEMMA NoPaceFacts == NoPace \in Paces /\ \A r : Covers(r, NoPace)
<1>1. Len(Intervals) \in Nat /\ LastAge \in Nat
  BY IntervalFacts
<1> QED
  BY <1>1 DEF NoPace, Paces, Covers, Currents, Levels

\* The empty record is typed.
LEMMA NoRecordTyped == NoRecord \in Records /\ NoStop \in Stops /\ NewStop \in Stops
<1>1. Len(Intervals) \in Nat /\ LastAge \in Nat
  BY IntervalFacts
<1>2. NoRecord \in Records
  BY <1>1 DEF NoRecord, Records, Currents, Levels
<1>3. NoStop \in Stops
  BY <1>1 DEF NoStop, Stops
<1>4. NewStop \in Stops
  BY <1>3 DEF NewStop, Stops
<1> QED
  BY <1>2, <1>3, <1>4

\* Keeping the record, or dropping it, keeps the pace covered.
LEMMA PlainCovers ==
    ASSUME NEW r \in Records, NEW q \in Records, NEW p \in Paces, Covers(r, p),
           q = r \/ q = NoRecord
    PROVE  Covers(q, NextPace(r, q, p))
<1>1. CASE NextPace(r, q, p) = NoPace
  BY <1>1, NoPaceFacts
<1>2. CASE NextPace(r, q, p) = p /\ q = r
  BY <1>2
<1>3. CASE NextPace(r, q, p) = p /\ q = NoRecord /\ NextPace(r, q, p) # NoPace
  <2>1. ~(q.attempts < r.attempts)
    BY <1>3 DEF NextPace
  <2>2. q.attempts = 0 /\ r.attempts \in Nat /\ p.n \in Nat
    BY <1>3, IntervalFacts DEF NoRecord, Records, Paces
  <2>3. ~(p.n > 0 /\ ~p.lapsed)
    BY <2>1, <2>2 DEF Covers
  <2> QED
    BY <1>3, <2>3 DEF Covers
<1> QED
  BY <1>1, <1>2, <1>3 DEF NextPace

\* The commands of a target: known ones, and none below the physical minimum.
LEMMA CommandsTyped ==
    ASSUME NEW obs, NEW amps \in Currents, NEW limit
    PROVE  /\ Commands(obs, amps, limit) \in Seq(Orders)
           /\ Commands(obs, amps, limit) # << >> => amps \in {1, 2}
<1> DEFINE a == IF obs.limit # limit THEN <<"limit">> ELSE << >>
           b == IF obs.amps # amps THEN <<"amps">> ELSE << >>
           c == IF obs.on THEN << >> ELSE <<"start">>
<1>1. << >> \in Seq(Orders)
  OBVIOUS
<1>2. <<"limit">> \in Seq(Orders) /\ <<"amps">> \in Seq(Orders) /\ <<"start">> \in Seq(Orders)
  BY DEF Orders
<1>3. a \in Seq(Orders) /\ b \in Seq(Orders) /\ c \in Seq(Orders)
  BY <1>1, <1>2
<1>4. Commands(obs, amps, limit) = IF ~MayWrite(amps) THEN << >> ELSE (a \o b) \o c
  BY DEF Commands
<1> HIDE DEF a, b, c
<1>5. (a \o b) \o c \in Seq(Orders)
  BY <1>3
<1>6. Commands(obs, amps, limit) \in Seq(Orders)
  BY <1>1, <1>4, <1>5
<1>7. Commands(obs, amps, limit) # << >> => amps \in {1, 2}
  BY <1>4 DEF MayWrite, Unset, Currents
<1> QED
  BY <1>6, <1>7

\* An episode is the record itself, or a new one that has counted nothing.
LEMMA EpisodeFacts ==
    ASSUME NEW r \in Records, NEW amps \in Currents,
           NEW limit \in Levels, NEW e, e = Episode(r, amps, limit)
    PROVE  /\ e \in Records /\ e.amps = amps /\ e.limit = limit
           /\ \/ e = r /\ ~(r.attempts > 0 /\ r.confirmed /\ r.age >= LastAge)
              \/ e.attempts = 0 /\ (\/ r.amps # amps \/ r.limit # limit
                                    \/ r.attempts > 0 /\ r.confirmed /\ r.age >= LastAge)
<1> DEFINE kept == r.amps = amps /\ r.limit = limit
           rearmed == r.attempts > 0 /\ r.confirmed /\ r.age >= LastAge
           new == [NoRecord EXCEPT !.amps = amps, !.limit = limit]
<1>1. e = IF kept /\ ~rearmed THEN r ELSE new
  BY DEF Episode
<1>2. new \in Records /\ new.amps = amps /\ new.limit = limit /\ new.attempts = 0
  BY NoRecordTyped DEF Records, NoRecord
<1>3. CASE kept /\ ~rearmed
  BY <1>1, <1>3
<1>4. CASE ~(kept /\ ~rearmed)
  BY <1>1, <1>2, <1>4
<1> QED
  BY <1>3, <1>4

\* A new episode, whatever is then confirmed in it, covers the pace that goes on.
LEMMA NewEpisodeCovers ==
    ASSUME NEW r \in Records, NEW q \in Records, NEW p \in Paces, Covers(r, p),
           q.attempts = 0 \/ q.attempts = r.attempts,
           q.attempts = 0 \/ (q.amps = r.amps /\ q.limit = r.limit /\ q.age = r.age)
    PROVE  Covers(q, NextPace(r, q, p))
<1>1. CASE NextPace(r, q, p) = NoPace
  BY <1>1, NoPaceFacts
<1>2. CASE NextPace(r, q, p) = p /\ NextPace(r, q, p) # NoPace
  <2>1. ~(q.attempts < r.attempts)
    BY <1>2 DEF NextPace
  <2>2. r.attempts \in Nat /\ q.attempts \in Nat /\ p.n \in Nat
    BY IntervalFacts DEF Records, Paces
  <2>3. p.n > 0 /\ ~p.lapsed => q.attempts > 0
    BY <2>1, <2>2 DEF Covers
  <2> QED
    BY <1>2, <2>2, <2>3 DEF Covers
<1> QED
  BY <1>1, <1>2 DEF NextPace

\* An attempt may be made when the batches that were really sent are old enough.
LEMMA AttemptPaced ==
    ASSUME NEW r \in Records, NEW p \in Paces, Covers(r, p),
           NEW amps \in Currents, amps \in {1, 2}, NEW limit \in Levels,
           NEW e \in Records, e = Episode(r, amps, limit), ~Waiting(e),
           NEW q, q = [e EXCEPT !.attempts = Attempt(@), !.age = 0, !.confirmed = FALSE]
    PROVE  /\ q \in Records
           /\ Covers(q, NextPace(r, q, p)) /\ Paced(q, NextPace(r, q, p), amps, limit)
<1>1. /\ Len(Intervals) \in Nat /\ LastAge \in Nat
      /\ \A k \in 1 .. Len(Intervals) : Intervals[k] \in Nat
  BY IntervalFacts
<1>2. e.attempts \in 0 .. Len(Intervals) /\ Attempt(e.attempts) \in 1 .. Len(Intervals)
  BY AttemptFacts DEF Records
<1>3. /\ q \in Records /\ q.amps = e.amps /\ q.limit = e.limit
      /\ q.attempts = Attempt(e.attempts) /\ q.age = 0 /\ q.confirmed = FALSE
  <2> DEFINE n == Attempt(e.attempts)
  <2>1. n \in 0 .. Len(Intervals) /\ 0 \in 0 .. LastAge
    BY <1>1, <1>2
  <2>2. q = [e EXCEPT !.attempts = n, !.age = 0, !.confirmed = FALSE]
    OBVIOUS
  <2> HIDE DEF n
  <2>3. q.attempts = n /\ q \in Records /\ q.amps = e.amps /\ q.limit = e.limit
        /\ q.age = 0 /\ q.confirmed = FALSE
    BY <2>1, <2>2 DEF Records
  <2> QED
    BY <2>3 DEF n
<1>4. /\ e.amps = amps /\ e.limit = limit
      /\ \/ e = r /\ ~(r.attempts > 0 /\ r.confirmed /\ r.age >= LastAge)
         \/ e.attempts = 0 /\ (\/ r.amps # amps \/ r.limit # limit
                               \/ r.attempts > 0 /\ r.confirmed /\ r.age >= LastAge)
  BY EpisodeFacts
<1>5. p.n \in 0 .. Len(Intervals) /\ p.age \in 0 .. LastAge
      /\ r.attempts \in 0 .. Len(Intervals) /\ r.age \in 0 .. LastAge
  BY DEF Paces, Records
<1>6. CASE NextPace(r, q, p) = NoPace \/ p.n = 0 \/ p.lapsed
  <2>1. NextPace(r, q, p).n = 0 \/ NextPace(r, q, p).lapsed
    BY <1>6 DEF NextPace, NoPace
  <2>2. q.attempts >= Attempt(0) /\ q.attempts >= 1
    <3>1. 0 \in 0 .. Len(Intervals) /\ 0 <= e.attempts
      BY <1>1, <1>2
    <3>2. Attempt(e.attempts) >= Attempt(0)
      BY <1>2, <3>1, AttemptFacts
    <3> QED
      BY <1>2, <1>3, <3>2
  <2>3. q.attempts >= Batches(NextPace(r, q, p))
    BY <2>1, <2>2 DEF Batches
  <2> QED
    BY <1>3, <1>4, <2>1, <2>3 DEF Covers, Paced
<1>7. CASE NextPace(r, q, p) = p /\ NextPace(r, q, p) # NoPace /\ p.n # 0 /\ ~p.lapsed
  <2>1. p.n > 0 /\ r.amps = p.amps /\ r.limit = p.limit /\ r.attempts >= p.n /\ r.age <= p.age
    BY <1>5, <1>7 DEF Covers
  <2>2. q.amps = p.amps /\ q.limit = p.limit /\ ~(r.confirmed /\ p.age = LastAge)
    BY <1>3, <1>4, <1>7 DEF NextPace, Unset
  <2>3. ~(r.attempts > 0 /\ r.confirmed /\ r.age >= LastAge)
    BY <1>1, <1>5, <2>1, <2>2
  <2>4. e = r
    BY <1>3, <1>4, <2>1, <2>2, <2>3
  <2>5. r.age >= Intervals[r.attempts]
    <3>1. r.attempts > 0 /\ r.attempts \in 1 .. Len(Intervals)
      BY <1>1, <1>5, <2>1
    <3> QED
      BY <1>1, <1>5, <2>4, <3>1 DEF Waiting
  <2>6. Intervals[p.n] <= Intervals[r.attempts]
    <3>1. p.n \in 1 .. Len(Intervals) /\ r.attempts \in 1 .. Len(Intervals)
      BY <1>1, <1>5, <2>1
    <3> QED
      BY <2>1, <3>1, LaterIsLonger
  <2>7. p.age >= Intervals[p.n]
    <3>1. Intervals[p.n] \in Nat /\ Intervals[r.attempts] \in Nat
      BY <1>1, <1>5, <2>1
    <3> QED
      BY <1>5, <2>1, <2>5, <2>6, <3>1
  <2>8. Attempt(r.attempts) >= Attempt(p.n) /\ Attempt(p.n) >= p.n
    BY <1>5, <2>1, AttemptFacts
  <2>9. Attempt(p.n) \in Nat /\ Attempt(r.attempts) \in Nat
    BY <1>5, AttemptFacts, IntervalFacts
  <2> QED
    BY <1>3, <1>4, <1>5, <1>7, <2>2, <2>4, <2>7, <2>8, <2>9 DEF Covers, Paced, Batches
<1> QED
  BY <1>3, <1>6, <1>7 DEF NextPace

\* A reconciliation with the record of memory: typed, and covering the pace; the
\* commands it issues are paced.
LEMMA ReconcileFacts ==
    ASSUME NEW r \in Records, NEW p \in Paces, Covers(r, p), NEW obs,
           NEW amps \in Currents, NEW limit \in Levels,
           NEW q, NEW cmds, q = Reconcile(r, obs, amps, limit).rec,
           cmds = Reconcile(r, obs, amps, limit).cmds
    PROVE  /\ q \in Records /\ cmds \in Seq(Orders)
           /\ Covers(q, NextPace(r, q, p))
           /\ cmds # << >> => /\ amps \in {1, 2}
                              /\ Paced(q, NextPace(r, q, p), amps, limit)
<1> DEFINE e == Episode(r, amps, limit)
           all == Commands(obs, amps, limit)
<1>1. all \in Seq(Orders) /\ (all # << >> => amps \in {1, 2})
  BY CommandsTyped
<1>2. e \in Records /\ (e = r \/ e.attempts = 0)
  BY EpisodeFacts
<1>3. \/ \E c \in BOOLEAN : q = [e EXCEPT !.confirmed = c] /\ cmds = << >>
      \/ /\ ~Waiting(e) /\ all # << >> /\ cmds = all
         /\ q = [e EXCEPT !.attempts = Attempt(@), !.age = 0, !.confirmed = FALSE]
  BY DEF Reconcile
<1>4. CASE \E c \in BOOLEAN : q = [e EXCEPT !.confirmed = c] /\ cmds = << >>
  <2>1. PICK c \in BOOLEAN : q = [e EXCEPT !.confirmed = c] /\ cmds = << >>
    BY <1>4
  <2>2. /\ q \in Records /\ q.attempts = e.attempts /\ q.amps = e.amps
        /\ q.limit = e.limit /\ q.age = e.age
    BY <1>2, <2>1 DEF Records
  <2>3. Covers(q, NextPace(r, q, p))
    BY <1>2, <2>2, NewEpisodeCovers
  <2>4. << >> \in Seq(Orders)
    OBVIOUS
  <2> QED
    BY <2>1, <2>2, <2>3, <2>4
<1>5. CASE /\ ~Waiting(e) /\ all # << >> /\ cmds = all
           /\ q = [e EXCEPT !.attempts = Attempt(@), !.age = 0, !.confirmed = FALSE]
  <2>1. amps \in {1, 2}
    BY <1>1, <1>5
  <2>2. /\ q \in Records
        /\ Covers(q, NextPace(r, q, p)) /\ Paced(q, NextPace(r, q, p), amps, limit)
    BY <1>2, <1>5, <2>1, AttemptPaced
  <2> QED
    BY <1>1, <1>5, <2>1, <2>2
<1> QED
  BY <1>3, <1>4, <1>5

\* A reconciliation from the empty record: its first attempt needs no interval.
LEMMA FreshFacts ==
    ASSUME NEW r \in Records, NEW p \in Paces, Covers(r, p), NEW obs,
           NEW amps \in Currents, NEW limit \in Levels,
           NEW q, NEW cmds, q = Reconcile(NoRecord, obs, amps, limit).rec,
           cmds = Reconcile(NoRecord, obs, amps, limit).cmds
    PROVE  /\ q \in Records /\ cmds \in Seq(Orders)
           /\ cmds = << >> => Covers(q, NextPace(r, q, p))
           /\ cmds # << >> => amps \in {1, 2} /\ Paced(q, NoPace, amps, limit)
<1>1. NoRecord \in Records /\ NoPace \in Paces /\ Covers(NoRecord, NoPace)
  BY NoRecordTyped, NoPaceFacts
<1>2. NextPace(NoRecord, q, NoPace) = NoPace
  BY DEF NextPace
<1>3. /\ q \in Records /\ cmds \in Seq(Orders)
      /\ cmds # << >> => amps \in {1, 2} /\ Paced(q, NextPace(NoRecord, q, NoPace), amps, limit)
  BY <1>1, ReconcileFacts
<1>4. ASSUME cmds = << >>
      PROVE  Covers(q, NextPace(r, q, p))
  <2> DEFINE e == Episode(NoRecord, amps, limit)
             all == Commands(obs, amps, limit)
  <2>1. e \in Records /\ e.attempts = 0
    <3>1. NoRecord.attempts = 0
      BY DEF NoRecord
    <3>2. e \in Records /\ (e = NoRecord \/ e.attempts = 0)
      BY <1>1, EpisodeFacts
    <3> QED
      BY <3>1, <3>2
  <2>2. \E c \in BOOLEAN : q = [e EXCEPT !.confirmed = c]
    BY <1>4 DEF Reconcile
  <2>3. q.attempts = 0
    BY <2>1, <2>2 DEF Records
  <2> QED
    BY <1>3, <2>3, NewEpisodeCovers
<1> QED
  BY <1>2, <1>3, <1>4

-----------------------------------------------------------------------------
(* What one step of a cycle does before its commands. *)

Inv == TypeOK /\ PaceInv /\ FullInv

\* A memory that a step may leave.
Fit(m) == m \in Memories /\ Limited(m) /\ Covers(m.rec, NextPace(mem.rec, m.rec, pace))

\* The full request f that stands after the step is as old as its first use.
OldEnough(m, f) == f => Aged(m.fullAge, clock)

\* What holds of memory m, job j, pace p and store d when commands are to be sent.
Sendable(m, j, p, d, f) ==
    /\ BatchTyped(m, j)
    /\ j.kind = "direct" => /\ Paced(m.rec, p, m.target, m.limit)
                            /\ d \in {Stored(m), Defaults}
                            /\ f => m.fullAge \in 0 .. MaxFull - 1
    /\ j.kind # "stop" /\ m.limit = "full" => f /\ j.kind = "direct"

\* A step that looks, decides or stores.
Decided ==
    /\ UNCHANGED world /\ events' \in Nat
    /\ full' \in BOOLEAN /\ clock' = (IF full' THEN clock ELSE Unset)
    /\ mem' \in Memories /\ Limited(mem')
    /\ pace' \in {pace, NoPace} /\ Covers(mem'.rec, pace')
    /\ full' => Aged(mem'.fullAge, clock)
    /\ disk' \in {disk, Stored(mem'), Defaults}
    /\ job' \in Jobs /\ pc' \in {"idle", "decide", "stop", "send"}
    /\ pc' = "send" => Sendable(mem', job', pace', disk', full')

\* The stored part of a memory is typed and has its record and its age.
LEMMA StoredTyped ==
    ASSUME NEW m \in Memories
    PROVE  Stored(m) \in Disks /\ Stored(m).rec = m.rec /\ Stored(m).fullAge = m.fullAge
  BY DEF Memories, Disks, Stored

\* The defaults are typed, and known for what they are.
LEMMA DefaultsTyped == NewDisk \in Disks /\ Defaults \in Disks /\ Defaults.lapsed
<1>1. Unset \in FullAges
  BY DEF FullAges
<1>2. NewDisk \in Disks
  BY <1>1, NoRecordTyped DEF NewDisk, Disks
<1> QED
  BY <1>2 DEF Defaults, Disks

\* The captured values are typed.
LEMMA ViewsTyped ==
    ASSUME TypeOK
    PROVE  View \in Views /\ NoView \in Views /\ NoJob \in Jobs
<1>1. View \in Views
  <2>1. (link # "dark" /\ car.plugged) \in BOOLEAN /\ (link # "dark" /\ ~car.plugged) \in BOOLEAN
        /\ (link = "ok") \in BOOLEAN
    OBVIOUS
  <2>2. car.on \in BOOLEAN /\ car.amps \in {1, 2} /\ car.limit \in {"soft", "full"}
    BY DEF TypeOK, Cars
  <2> DEFINE c == link # "dark" /\ car.plugged
             a == link # "dark" /\ ~car.plugged
             v == link = "ok"
  <2>3. View = [connected |-> c, absent |-> a, visible |-> v,
                on |-> car.on, amps |-> car.amps, limit |-> car.limit]
    BY DEF View
  <2>4. c \in BOOLEAN /\ a \in BOOLEAN /\ v \in BOOLEAN
    BY <2>1
  <2> HIDE DEF c, a, v
  <2> QED
    BY <2>2, <2>3, <2>4 DEF Views
<1>2. NoView \in Views
  BY DEF NoView, Views
<1>3. << >> \in Seq(Orders)
  OBVIOUS
<1>4. NoJob \in Jobs
  BY <1>2, <1>3 DEF NoJob, Jobs, Kinds
<1> QED
  BY <1>1, <1>2, <1>4

\* The memory keeps its record, or drops it.
LEMMA PlainFit ==
    ASSUME Inv, NEW m \in Memories, Limited(m), m.rec = mem.rec \/ m.rec = NoRecord
    PROVE  Fit(m)
<1>1. mem.rec \in Records /\ m.rec \in Records /\ pace \in Paces /\ Covers(mem.rec, pace)
  BY DEF Inv, TypeOK, Memories, PaceInv
<1>2. Covers(m.rec, NextPace(mem.rec, m.rec, pace))
  BY <1>1, PlainCovers
<1> QED
  BY <1>2 DEF Fit

\* SetMemory starts a fresh pace or keeps the old one, and covers it.
LEMMA SetMemoryFacts ==
    ASSUME NEW m, Fit(m), SetMemory(m)
    PROVE  /\ mem' = m /\ m \in Memories /\ Limited(m)
           /\ pace' \in {pace, NoPace} /\ pace' = NextPace(mem.rec, m.rec, pace)
           /\ Covers(m.rec, pace')
  BY DEF Fit, SetMemory, NextPace

\* A step that saves, or sets the request, without sending: the rest is typed.
LEMMA RestStep ==
    ASSUME Inv, NEW f \in BOOLEAN, SetFull(f), UNCHANGED world, NEW m, Fit(m),
           OldEnough(m, f), SetMemory(m), events' \in Nat,
           disk' \in {disk, Stored(m), Defaults},
           job' \in Jobs, pc' \in {"idle", "decide", "stop"}
    PROVE  Decided
<1>1. /\ mem' = m /\ m \in Memories /\ Limited(m)
      /\ pace' \in {pace, NoPace} /\ Covers(m.rec, pace')
  BY SetMemoryFacts
<1>2. full' = f /\ clock' = IF f THEN clock ELSE Unset
  BY DEF SetFull
<1>3. full' => Aged(mem'.fullAge, clock)
  BY <1>1, <1>2 DEF OldEnough
<1>4. mem' \in Memories /\ Limited(mem') /\ Covers(mem'.rec, pace')
      /\ disk' \in {disk, Stored(mem'), Defaults}
  BY <1>1
<1> QED
  BY <1>1, <1>2, <1>3, <1>4 DEF Decided

\* A cycle that ends without a command.
LEMMA ReturnStep ==
    ASSUME Inv, NEW f \in BOOLEAN, SetFull(f), UNCHANGED world, NEW m, Fit(m),
           OldEnough(m, f), ReturnWith(m)
    PROVE  Decided
<1>1. events' \in Nat /\ disk' = disk /\ job' \in Jobs /\ pc' = "idle" /\ SetMemory(m)
  BY ViewsTyped DEF ReturnWith, End, Inv, TypeOK
<1> QED
  BY <1>1, RestStep

\* A cycle that ends with a save, which may raise.
LEMMA SaveReturnStep ==
    ASSUME Inv, NEW f \in BOOLEAN, SetFull(f), UNCHANGED world, NEW m, Fit(m),
           OldEnough(m, f), NEW rollback, Fit(rollback), OldEnough(rollback, f),
           SaveAndReturn(m, rollback)
    PROVE  Decided
<1>1. job' \in Jobs /\ pc' = "idle" /\ events \in Nat
  BY ViewsTyped DEF SaveAndReturn, End, Inv, TypeOK
<1>2. CASE SetMemory(m) /\ SaveOk(m)
  <2>1. events' \in Nat /\ disk' = Stored(m)
    BY <1>1, <1>2 DEF SaveOk
  <2> QED
    BY <1>1, <1>2, <2>1, RestStep
<1>3. CASE SetMemory(rollback) /\ SaveFailed
  <2>1. events' \in Nat /\ disk' = disk
    BY <1>1, <1>3 DEF SaveFailed, Spend
  <2> QED
    BY <1>1, <1>3, <2>1, RestStep
<1> QED
  BY <1>2, <1>3 DEF SaveAndReturn

\* A save in the middle of a cycle, which may raise.
LEMMA StoreStep ==
    ASSUME Inv, NEW f \in BOOLEAN, SetFull(f), UNCHANGED world, NEW m, Fit(m),
           OldEnough(m, f), SetMemory(m), NEW p \in {"decide", "stop"}, NEW j \in Jobs,
           \/ SaveOk(m) /\ pc' = p /\ job' = j
           \/ SaveFailed /\ End
    PROVE  Decided
<1>1. events \in Nat
  BY DEF Inv, TypeOK
<1>2. CASE SaveOk(m) /\ pc' = p /\ job' = j
  <2>1. events' \in Nat /\ disk' = Stored(m)
    BY <1>1, <1>2 DEF SaveOk
  <2> QED
    BY <1>2, <2>1, RestStep
<1>3. CASE SaveFailed /\ End
  <2>1. events' \in Nat /\ disk' = disk /\ job' \in Jobs /\ pc' = "idle"
    BY <1>1, <1>3, ViewsTyped DEF SaveFailed, Spend, End, Inv
  <2> QED
    BY <2>1, RestStep
<1> QED
  BY <1>2, <1>3

\* Commands other than those of a direct reconciliation: they carry no full limit.
LEMMA BeginStep ==
    ASSUME Inv, NEW f \in BOOLEAN, SetFull(f), UNCHANGED world, NEW m, Fit(m),
           OldEnough(m, f), SetMemory(m), UNCHANGED <<disk, events>>,
           NEW kind \in {"reduce", "limit", "stop"}, NEW cmds \in Seq(Orders), cmds # << >>,
           kind = "reduce" => m.target \in {1, 2}, kind # "stop" => m.limit = "soft",
           kind = "limit" => cmds = <<"limit">>, kind = "stop" => cmds = <<"stop">>,
           Begin(kind, cmds, FALSE)
    PROVE  Decided
<1>1. /\ mem' = m /\ m \in Memories /\ Limited(m)
      /\ pace' \in {pace, NoPace} /\ Covers(m.rec, pace')
  BY SetMemoryFacts
<1>2. full' = f /\ clock' = IF f THEN clock ELSE Unset
  BY DEF SetFull
<1>3. full' => Aged(mem'.fullAge, clock)
  BY <1>1, <1>2 DEF OldEnough
<1>4. job \in Jobs /\ events \in Nat
  BY DEF Inv, TypeOK
<1>5. /\ pc' = "send"
      /\ job' = [job EXCEPT !.kind = kind, !.cmds = cmds, !.first = TRUE, !.lossy = FALSE]
  BY DEF Begin
<1>6. job' \in Jobs /\ job'.kind = kind /\ job'.cmds = cmds
  BY <1>4, <1>5 DEF Jobs, Kinds
<1>7. BatchTyped(m, job')
  BY <1>6 DEF BatchTyped
<1>8. Sendable(mem', job', pace', disk', full')
  BY <1>1, <1>6, <1>7 DEF Sendable
<1>9. mem' \in Memories /\ Limited(mem') /\ Covers(mem'.rec, pace') /\ events' \in Nat
  BY <1>1, <1>4
<1> QED
  BY <1>1, <1>2, <1>3, <1>5, <1>6, <1>8, <1>9 DEF Decided

\* A step of this shape preserves the types and both invariants.
LEMMA DecidedInv ==
    ASSUME Inv, Decided
    PROVE  TypeOK' /\ PaceInv' /\ FullInv'
<1>1. pace \in Paces /\ clock \in Clocks /\ disk \in Disks /\ mem \in Memories
  BY DEF Inv, TypeOK
<1>2. /\ Stored(mem') \in Disks /\ Stored(mem').rec = mem'.rec
      /\ Stored(mem').fullAge = mem'.fullAge
      /\ Defaults \in Disks /\ Defaults.lapsed
  BY StoredTyped, DefaultsTyped DEF Decided
<1>3. disk' \in Disks /\ pace' \in Paces /\ clock' \in Clocks
  BY <1>1, <1>2, NoPaceFacts DEF Decided, Clocks, FullAges
<1>4. TypeOK'
  <2>1. /\ baseline' \in {0, 1} /\ car' \in Cars /\ link' \in {"ok", "blind", "dark"}
        /\ window' \in BOOLEAN /\ offer' \in Offers /\ gate' \in {"ready", "locked", "closed"}
    BY DEF Decided, world, Inv, TypeOK
  <2>2. pc' = "send" => BatchTyped(mem', job')
    BY DEF Decided, Sendable
  <2> QED
    BY <1>3, <2>1, <2>2 DEF Decided, TypeOK
<1>5. PaceInv'
  <2>1. disk'.lapsed \/ Covers(disk'.rec, pace')
    <3>1. disk.lapsed \/ Covers(disk.rec, pace')
      BY NoPaceFacts DEF Decided, Inv, PaceInv
    <3> QED
      BY <1>2, <3>1 DEF Decided
  <2>2. pc' = "send" /\ job'.kind = "direct"
          => /\ Paced(mem'.rec, pace', mem'.target, mem'.limit)
             /\ disk'.lapsed \/ disk'.rec = mem'.rec
    BY <1>2 DEF Decided, Sendable
  <2> QED
    BY <2>1, <2>2 DEF Decided, PaceInv
<1>6. FullInv'
  <2>1. Aged(mem'.fullAge, clock') /\ (disk'.lapsed \/ Aged(disk'.fullAge, clock'))
    <3>1. CASE full'
      BY <1>2, <3>1 DEF Decided, Inv, FullInv
    <3>2. CASE ~full'
      BY <3>2 DEF Decided, Aged
    <3> QED
      BY <3>1, <3>2
  <2>2. ~full' => clock' = Unset
    BY DEF Decided
  <2>3. pc' = "send" /\ job'.kind # "stop" /\ mem'.limit = "full" => full' /\ job'.kind = "direct"
    BY DEF Decided, Sendable
  <2>4. pc' = "send" /\ job'.kind = "direct" /\ full'
          => /\ mem'.fullAge \in 0 .. MaxFull - 1
             /\ disk'.lapsed \/ disk'.fullAge = mem'.fullAge
    BY <1>2 DEF Decided, Sendable
  <2> QED
    BY <2>1, <2>2, <2>3, <2>4 DEF FullInv
<1> QED
  BY <1>4, <1>5, <1>6

-----------------------------------------------------------------------------
(* The decisions that change only other fields of the memory. *)

\* t keeps the record, the age of the request and the limit of a made decision.
Alike(s, t) ==
    /\ t \in Memories /\ t.rec = s.rec /\ t.fullAge = s.fullAge
    /\ Limited(s) => Limited(t)

\* Ending and advancing the daily session.
LEMMA DailyAlike ==
    ASSUME NEW s \in Memories, NEW o
    PROVE  Alike(s, EndDaily(s)) /\ Alike(s, AdvanceDaily(s, o))
<1>1. Alike(s, [s EXCEPT !.active = FALSE, !.stop = NewStop])
  BY NoRecordTyped DEF Alike, Memories, Limited
<1>2. Alike(s, [s EXCEPT !.active = TRUE, !.stop = NoStop])
  BY NoRecordTyped DEF Alike, Memories, Limited
<1>3. Alike(s, s)
  BY DEF Alike
<1>4. Alike(s, EndDaily(s))
  BY <1>1, <1>3 DEF EndDaily
<1> QED
  BY <1>2, <1>3, <1>4 DEF AdvanceDaily

\* The ownership outside the window.
LEMMA OwnAlike ==
    ASSUME NEW s \in Memories, NEW base, NEW f, NEW o, NEW on
    PROVE  Alike(s, Own(s, base, f, o, on))
<1> DEFINE target == f \/ s.active \/ o = "solar"
           t == [s EXCEPT !.targetActive = target, !.stopReq = FALSE]
<1>1. target \in BOOLEAN
  OBVIOUS
<1> HIDE DEF target
<1>2. Alike(s, t)
  BY <1>1 DEF Alike, Memories, Limited
<1>3. Alike(s, [t EXCEPT !.control = TRUE])
  BY <1>1 DEF Alike, Memories, Limited
<1>4. Alike(s, [t EXCEPT !.control = TRUE, !.stopReq = TRUE])
  BY <1>1 DEF Alike, Memories, Limited
<1>5. Alike(s, [t EXCEPT !.stop = NewStop, !.control = TRUE, !.stopReq = TRUE])
  BY <1>1, NoRecordTyped DEF Alike, Memories, Limited
<1>6. \/ Own(s, base, f, o, on) = [t EXCEPT !.control = TRUE]
      \/ Own(s, base, f, o, on) = [t EXCEPT !.control = TRUE, !.stopReq = TRUE]
      \/ Own(s, base, f, o, on) = [t EXCEPT !.stop = NewStop, !.control = TRUE, !.stopReq = TRUE]
      \/ Own(s, base, f, o, on) = t
  BY DEF Own, target
<1> QED
  BY <1>2, <1>3, <1>4, <1>5, <1>6

\* Stopping at the battery's reserve: the limit is soft afterwards.
LEMMA AbortAlike ==
    ASSUME NEW s \in Memories, NEW base \in {0, 1}, NEW on \in BOOLEAN
    PROVE  Alike(s, AbortAtReserve(s, base, on)) /\ AbortAtReserve(s, base, on).limit = "soft"
<1> DEFINE request == on /\ base = 0
           owned == base > 0
           st == IF base > 0 THEN NoStop ELSE IF request THEN NewStop ELSE s.stop
           ctl == owned \/ request
<1>1. request \in BOOLEAN /\ owned \in BOOLEAN
  OBVIOUS
<1>2. ctl \in BOOLEAN
  OBVIOUS
<1>3. st \in Stops
  BY NoRecordTyped DEF Memories
<1>4. base \in Currents /\ "soft" \in Levels
  BY DEF Currents, Levels
<1>5. AbortAtReserve(s, base, on) =
        [s EXCEPT !.active = FALSE, !.stop = st, !.target = base, !.limit = "soft",
                  !.targetActive = owned, !.stopReq = request, !.control = ctl]
  BY DEF AbortAtReserve
<1> HIDE DEF request, owned, st, ctl
<1>6. AbortAtReserve(s, base, on) \in Memories
  BY <1>1, <1>2, <1>3, <1>4, <1>5 DEF Memories
<1>7. /\ AbortAtReserve(s, base, on).rec = s.rec
      /\ AbortAtReserve(s, base, on).fullAge = s.fullAge
      /\ AbortAtReserve(s, base, on).limit = "soft"
  BY <1>5 DEF Memories
<1> QED
  BY <1>6, <1>7 DEF Alike, Limited

\* A disconnected car ends the session and the age of the request.
LEMMA CleanupFacts ==
    ASSUME NEW s \in Memories, NEW t, t = CleanupDisconnected(s)
    PROVE  t \in Memories /\ t.rec = s.rec /\ t.fullAge = Unset /\ (Limited(s) => Limited(t))
<1>1. Unset \in FullAges
  BY DEF FullAges
<1> QED
  BY <1>1, NoRecordTyped DEF CleanupDisconnected, Memories, Limited

\* Retiring an unowned episode drops its record.
LEMMA RetiredFacts ==
    ASSUME NEW s \in Memories, NEW t, t = Retired(s)
    PROVE  t \in Memories /\ t.rec = NoRecord /\ t.fullAge = s.fullAge /\ Limited(t)
<1> DEFINE st == IF s.stop.pending \/ s.stopReq THEN NoStop ELSE s.stop
           ctl == IF s.stop.pending \/ s.stopReq THEN FALSE ELSE s.control
<1>1. st \in Stops /\ ctl \in BOOLEAN
  BY NoRecordTyped DEF Memories
<1>2. /\ Unset \in Currents /\ "none" \in Levels
      /\ NoDecision \in Decisions /\ ~NoDecision.made
  BY DEF Currents, Levels, NoDecision, Decisions
<1>3. t = [s EXCEPT !.rec = NoRecord, !.target = Unset, !.limit = "none",
                    !.decision = NoDecision, !.route = "none", !.stopReq = FALSE,
                    !.stop = st, !.control = ctl]
  BY DEF Retired
<1> HIDE DEF st, ctl
<1>4. t \in Memories
  BY <1>1, <1>2, <1>3, NoRecordTyped DEF Memories
<1>5. t.rec = NoRecord /\ t.fullAge = s.fullAge /\ t.decision = NoDecision
  BY <1>3 DEF Memories
<1> QED
  BY <1>2, <1>4, <1>5 DEF Limited

\* Handing the car over to its baseline ends a stop.
LEMMA HandedOverAlike ==
    ASSUME NEW s \in Memories
    PROVE  Alike(s, HandedOver(s))
  BY NoRecordTyped DEF HandedOver, Alike, Memories, Limited

\* Releasing an idle target.
LEMMA ReleasedAlike ==
    ASSUME NEW s \in Memories, NEW enabled
    PROVE  Alike(s, Released(s, enabled))
<1> DEFINE ctl == s.control /\ (job.window \/ enabled \/ s.targetActive \/ ~s.rec.confirmed)
<1>1. ctl \in BOOLEAN
  OBVIOUS
<1>2. Released(s, enabled) = [s EXCEPT !.control = ctl]
  BY DEF Released
<1> HIDE DEF ctl
<1> QED
  BY <1>1, <1>2 DEF Alike, Memories, Limited

\* The first evidence after a restart.
LEMMA BootedAlike ==
    ASSUME NEW s \in Memories
    PROVE  Alike(s, Booted(s))
<1>1. BootPending \in BOOLEAN
  BY DEF BootPending
<1> QED
  BY <1>1 DEF Booted, Alike, Memories, Limited

\* Alike memories, one after the other.
LEMMA AlikeTransitive ==
    ASSUME NEW s, NEW t, NEW u, Alike(s, t), Alike(t, u)
    PROVE  Alike(s, u)
  BY DEF Alike

\* An alike memory may be left by a step when the first may.
LEMMA AlikeFit ==
    ASSUME NEW s, NEW t, Fit(s), Alike(s, t), NEW f, OldEnough(s, f)
    PROVE  Fit(t) /\ OldEnough(t, f)
  BY DEF Fit, Alike, OldEnough

\* The memory itself, and whatever is like it.
LEMMA MemFit ==
    ASSUME Inv, NEW f \in BOOLEAN
    PROVE  Fit(mem) /\ OldEnough(mem, f) /\ mem \in Memories
<1>1. mem \in Memories /\ Limited(mem) /\ Aged(mem.fullAge, clock)
  BY DEF Inv, TypeOK, FullInv
<1>2. Fit(mem)
  BY <1>1, PlainFit
<1> QED
  BY <1>1, <1>2 DEF OldEnough

\* The restored memory: the stored record and age, and no decision yet.
LEMMA RestoredFacts ==
    ASSUME NEW d \in Disks, NEW b \in BOOLEAN, NEW t, t = Restored(d, b)
    PROVE  t \in Memories /\ t.rec = d.rec /\ t.fullAge = d.fullAge /\ Limited(t)
<1>1. NoDecision \in Decisions /\ ~NoDecision.made
  BY DEF NoDecision, Decisions
<1>2. d.rec \in Records /\ d.rec.amps \in Currents /\ d.rec.limit \in Levels
  BY DEF Disks, Records
<1> QED
  BY <1>1, <1>2 DEF Restored, Disks, Memories, Limited

-----------------------------------------------------------------------------
(* The ways through a cycle, one by one. *)

\* An unchanged request keeps its clock.
LEMMA SameRequest ==
    ASSUME Inv, UNCHANGED <<full, clock>>
    PROVE  full \in BOOLEAN /\ SetFull(full)
  BY DEF Inv, TypeOK, FullInv, SetFull

\* Looking at the car, with what is retired or handed over first.
LEMMA LookStep ==
    ASSUME Inv, Look
    PROVE  Decided
<1> DEFINE m == IF Retirable(mem, full) THEN Retired(mem)
                ELSE IF HandsOver(mem, View, window) THEN HandedOver(mem) ELSE mem
           j == [NoJob EXCEPT !.obs = View, !.window = window, !.noPhase = offer = "nophase"]
<1>1. /\ UNCHANGED world /\ UNCHANGED <<full, clock>>
      /\ \/ /\ SetMemory(m)
            /\ SaveOk(m) \/ (m = mem /\ UNCHANGED <<disk, events>>)
            /\ pc' = "decide" /\ job' = j
         \/ SetMemory(mem) /\ SaveFailed /\ End
  BY DEF Look
<1>2. full \in BOOLEAN /\ SetFull(full) /\ events \in Nat
  BY <1>1, SameRequest DEF Inv, TypeOK
<1>3. mem \in Memories /\ Fit(mem) /\ OldEnough(mem, full)
  BY <1>2, MemFit
<1>4. Fit(m) /\ OldEnough(m, full)
  <2>1. CASE m = Retired(mem)
    <3>1. m \in Memories /\ m.rec = NoRecord /\ m.fullAge = mem.fullAge /\ Limited(m)
      BY <1>3, <2>1, RetiredFacts
    <3> HIDE DEF m
    <3> QED
      BY <1>3, <3>1, PlainFit DEF OldEnough
  <2>2. CASE m = HandedOver(mem)
    <3>1. Alike(mem, m)
      BY <1>3, <2>2, HandedOverAlike
    <3> HIDE DEF m
    <3> QED
      BY <1>3, <3>1, AlikeFit
  <2>3. CASE m = mem
    BY <1>3, <2>3
  <2> QED
    BY <2>1, <2>2, <2>3
<1>5. j \in Jobs
  <2>1. View \in Views /\ NoJob \in Jobs /\ window \in BOOLEAN /\ (offer = "nophase") \in BOOLEAN
    BY ViewsTyped DEF Inv, TypeOK
  <2> QED
    BY <2>1 DEF Jobs
<1> HIDE DEF m, j
<1>6. CASE SetMemory(m) /\ SaveOk(m) /\ pc' = "decide" /\ job' = j
  BY <1>1, <1>2, <1>4, <1>5, <1>6, StoreStep
<1>7. CASE SetMemory(m) /\ UNCHANGED <<disk, events>> /\ pc' = "decide" /\ job' = j
  BY <1>1, <1>2, <1>4, <1>5, <1>7, RestStep
<1>8. CASE SetMemory(mem) /\ SaveFailed /\ End
  BY <1>1, <1>2, <1>3, <1>5, <1>8, StoreStep
<1> QED
  BY <1>1, <1>6, <1>7, <1>8

\* The stop of a charge outside the window.
LEMMA StopStepDecides ==
    ASSUME Inv, NEW f \in BOOLEAN, SetFull(f), UNCHANGED world, NEW m \in Memories,
           Limited(m), m.rec = mem.rec, OldEnough(m, f), NEW on, StopStep(m, on)
    PROVE  Decided
<1> DEFINE retire == /\ baseline = 0 /\ m.target = 0 /\ m.rec.amps > 0
                     /\ m.stop.pending \/ m.stopReq
                     /\ Unowned(m, full)
           rec == IF retire THEN NoRecord ELSE m.rec
           decision == IF retire THEN NoDecision ELSE m.decision
           stopped == [m EXCEPT !.stop = NoStop, !.control = FALSE, !.stopReq = FALSE,
                                !.rec = rec, !.decision = decision]
<1>1. \/ SaveAndReturn(stopped, m)
      \/ ReturnWith(m)
      \/ SetMemory(m) /\ UNCHANGED <<disk, events>> /\ Begin("stop", <<"stop">>, FALSE)
  BY DEF StopStep
<1>2. Fit(m)
  BY PlainFit
<1>3. /\ rec \in Records /\ (rec = mem.rec \/ rec = NoRecord)
      /\ decision \in Decisions /\ (decision = m.decision \/ ~decision.made)
  <2>1. NoDecision \in Decisions /\ ~NoDecision.made
    BY DEF NoDecision, Decisions
  <2>2. m.rec \in Records /\ m.decision \in Decisions
    BY DEF Memories
  <2> QED
    BY <2>1, <2>2, NoRecordTyped
<1> HIDE DEF retire, rec, decision
<1>4. stopped \in Memories /\ stopped.rec = rec /\ stopped.decision = decision
      /\ stopped.fullAge = m.fullAge /\ stopped.limit = m.limit
  BY <1>3, NoRecordTyped DEF Memories
<1> HIDE DEF stopped
<1>5. Limited(stopped)
  BY <1>3, <1>4 DEF Limited
<1>6. Fit(stopped) /\ OldEnough(stopped, f)
  BY <1>3, <1>4, <1>5, PlainFit DEF OldEnough
<1>7. CASE SaveAndReturn(stopped, m)
  BY <1>2, <1>6, <1>7, SaveReturnStep
<1>8. CASE ReturnWith(m)
  BY <1>2, <1>8, ReturnStep
<1>9. CASE SetMemory(m) /\ UNCHANGED <<disk, events>> /\ Begin("stop", <<"stop">>, FALSE)
  <2>1. <<"stop">> \in Seq(Orders)
    BY DEF Orders
  <2>2. <<"stop">> # << >>
    OBVIOUS
  <2>3. "stop" \in {"reduce", "limit", "stop"} /\ "stop" # "reduce" /\ "stop" # "limit"
    OBVIOUS
  <2> QED
    BY <1>2, <1>9, <2>1, <2>2, <2>3, BeginStep
<1> QED
  BY <1>1, <1>7, <1>8, <1>9

\* The end of an outside session: back to the baseline, or a stop.
LEMMA RestoreBaselineDecides ==
    ASSUME Inv, NEW f \in BOOLEAN, SetFull(f), UNCHANGED world, NEW m0 \in Memories,
           Limited(m0), m0.rec = mem.rec, OldEnough(m0, f), NEW obs, RestoreBaseline(m0, obs)
    PROVE  Decided
<1> DEFINE m == [EndDaily(m0) EXCEPT !.targetActive = FALSE]
           next == [m EXCEPT !.target = baseline, !.limit = "soft"]
           r == Reconcile(m.rec, obs, baseline, "soft")
           kept == [next EXCEPT !.rec = r.rec]
           last == IF HandsOver(kept, obs, FALSE) THEN HandedOver(kept) ELSE kept
           zero == [m EXCEPT !.target = 0]
<1>1. \/ baseline = 0 /\ StopStep(zero, obs.on)
      \/ ReturnWith(m) \/ ReturnWith(next)
      \/ r.cmds = << >> /\ SaveAndReturn(last, kept)
      \/ /\ r.cmds # << >> /\ SetMemory(kept) /\ UNCHANGED <<disk, events>>
         /\ Begin("reduce", r.cmds, FALSE)
  BY DEF RestoreBaseline
<1>2. m \in Memories /\ m.rec = mem.rec /\ m.fullAge = m0.fullAge /\ Limited(m)
  <2>1. Alike(m0, EndDaily(m0))
    BY DailyAlike
  <2> QED
    BY <2>1 DEF Alike, Memories, Limited
<1> HIDE DEF m
<1>3. baseline \in Currents /\ 0 \in Currents /\ "soft" \in Levels
      /\ mem.rec \in Records /\ pace \in Paces /\ Covers(mem.rec, pace)
  BY DEF Inv, TypeOK, PaceInv, Memories, Currents, Levels
<1>4. next \in Memories /\ next.rec = mem.rec /\ next.fullAge = m0.fullAge /\ Limited(next)
      /\ next.target = baseline /\ next.limit = "soft"
  BY <1>2, <1>3 DEF Memories, Limited
<1>5. zero \in Memories /\ zero.rec = mem.rec /\ zero.fullAge = m0.fullAge /\ Limited(zero)
  BY <1>2, <1>3 DEF Memories, Limited
<1>6. /\ r.rec \in Records /\ r.cmds \in Seq(Orders)
      /\ Covers(r.rec, NextPace(mem.rec, r.rec, pace))
      /\ r.cmds # << >> => baseline \in {1, 2}
  BY <1>2, <1>3, ReconcileFacts
<1> HIDE DEF next, r, zero
<1>7. kept \in Memories /\ kept.rec = r.rec /\ kept.fullAge = m0.fullAge /\ Limited(kept)
      /\ kept.target = baseline /\ kept.limit = "soft"
  BY <1>4, <1>6 DEF Memories, Limited
<1> HIDE DEF kept
<1>8. Fit(m) /\ OldEnough(m, f) /\ Fit(next) /\ OldEnough(next, f) /\ OldEnough(zero, f)
  BY <1>2, <1>4, <1>5, PlainFit DEF OldEnough
<1>9. Fit(kept) /\ OldEnough(kept, f)
  BY <1>6, <1>7 DEF Fit, OldEnough
<1>10. Fit(last) /\ OldEnough(last, f)
  <2>1. Alike(kept, HandedOver(kept))
    BY <1>7, HandedOverAlike
  <2>2. Fit(HandedOver(kept)) /\ OldEnough(HandedOver(kept), f)
    BY <1>9, <2>1, AlikeFit
  <2> QED
    BY <1>9, <2>2
<1> HIDE DEF last
<1>11. CASE StopStep(zero, obs.on)
  BY <1>5, <1>8, <1>11, StopStepDecides
<1>12. CASE ReturnWith(m) \/ ReturnWith(next)
  BY <1>8, <1>12, ReturnStep
<1>13. CASE SaveAndReturn(last, kept)
  BY <1>9, <1>10, <1>13, SaveReturnStep
<1>14. CASE /\ r.cmds # << >> /\ SetMemory(kept) /\ UNCHANGED <<disk, events>>
            /\ Begin("reduce", r.cmds, FALSE)
  <2>1. /\ "reduce" \in {"reduce", "limit", "stop"} /\ "reduce" # "limit" /\ "reduce" # "stop"
        /\ kept.target \in {1, 2} /\ kept.limit = "soft"
    BY <1>6, <1>7, <1>14
  <2> QED
    BY <1>6, <1>9, <1>14, <2>1, BeginStep
<1> QED
  BY <1>1, <1>11, <1>12, <1>13, <1>14

\* A withdrawn or elapsed request leaves a memory without an age.
LEMMA NoAgeFit ==
    ASSUME Inv, NEW m \in Memories, Limited(m), m.rec = mem.rec, m.fullAge = Unset
    PROVE  Fit(m) /\ OldEnough(m, FALSE)
  BY PlainFit DEF OldEnough

\* The request ends although the phase current is missing.
LEMMA ExpireWithoutPhasesDecides ==
    ASSUME Inv, UNCHANGED world, ExpireWithoutPhases, pc = "decide"
    PROVE  Decided
<1> DEFINE m == [mem EXCEPT !.fullAge = Unset]
<1>1. /\ SetFull(FALSE) /\ SetMemory(m)
      /\ \/ SaveOk(m) /\ pc' = "decide" /\ job' = job
         \/ SaveFailed /\ End
  BY DEF ExpireWithoutPhases
<1>2. mem \in Memories /\ Limited(mem) /\ job \in Jobs
  BY DEF Inv, TypeOK
<1>3. m \in Memories /\ m.rec = mem.rec /\ m.fullAge = Unset /\ Limited(m)
  BY <1>2 DEF Memories, FullAges, Limited
<1> HIDE DEF m
<1>4. Fit(m) /\ OldEnough(m, FALSE)
  BY <1>3, NoAgeFit
<1> QED
  BY <1>1, <1>2, <1>4, StoreStep

\* Without the phase current only an unprotected charge is stopped.
LEMMA DecideWithoutPhasesDecides ==
    ASSUME Inv, UNCHANGED world, DecideWithoutPhases
    PROVE  Decided
<1> DEFINE st == IF mem.stop.pending THEN mem.stop ELSE NewStop
           m == [mem EXCEPT !.route = "outside", !.target = 0, !.stopReq = TRUE,
                            !.control = TRUE, !.stop = st]
<1>1. /\ SetFull(full)
      /\ \/ ReturnWith(mem)
         \/ StopStep(m, job.obs.on)
         \/ /\ SetMemory(m)
            /\ \/ SaveOk(m) /\ pc' = "stop" /\ job' = job
               \/ SaveFailed /\ End
  BY DEF DecideWithoutPhases
<1>2. mem \in Memories /\ Limited(mem) /\ job \in Jobs /\ full \in BOOLEAN
  BY DEF Inv, TypeOK
<1>3. st \in Stops /\ 0 \in Currents
  BY <1>2, NoRecordTyped DEF Memories, Currents
<1> HIDE DEF st
<1>4. m \in Memories /\ m.rec = mem.rec /\ m.fullAge = mem.fullAge /\ Limited(m)
  BY <1>2, <1>3 DEF Memories, Limited
<1> HIDE DEF m
<1>5. Fit(mem) /\ OldEnough(mem, full)
  BY <1>2, MemFit
<1>6. Fit(m) /\ OldEnough(m, full)
  BY <1>4, <1>5, PlainFit DEF OldEnough
<1>7. CASE ReturnWith(mem)
  BY <1>1, <1>2, <1>5, <1>7, ReturnStep
<1>8. CASE StopStep(m, job.obs.on)
  BY <1>1, <1>2, <1>4, <1>6, <1>8, StopStepDecides
<1>9. CASE /\ SetMemory(m)
           /\ \/ SaveOk(m) /\ pc' = "stop" /\ job' = job
              \/ SaveFailed /\ End
  BY <1>1, <1>2, <1>6, <1>9, StoreStep
<1> QED
  BY <1>1, <1>7, <1>8, <1>9

\* A stop that was just stored is pursued.
LEMMA StopAfterSaveDecides ==
    ASSUME Inv, StopAfterSave
    PROVE  Decided
<1>1. /\ UNCHANGED world /\ UNCHANGED <<full, clock>> /\ StopStep(mem, job.obs.on)
  BY DEF StopAfterSave
<1>2. full \in BOOLEAN /\ SetFull(full)
  BY <1>1, SameRequest
<1>3. mem \in Memories /\ Limited(mem) /\ OldEnough(mem, full)
  BY <1>2, MemFit DEF Inv, TypeOK
<1> QED
  BY <1>1, <1>2, <1>3, StopStepDecides

\* A request without qualified presence waits for its timeout.
LEMMA DecideFullUnqualifiedDecides ==
    ASSUME Inv, UNCHANGED world, DecideFullUnqualified
    PROVE  Decided
<1> DEFINE expired == ExpireFull(mem, FALSE)
           none == [Booted(mem) EXCEPT !.fullAge = Unset]
           m == IF expired THEN none ELSE Booted(mem)
<1>1. /\ SetFull(full /\ ~expired)
      /\ IF expired THEN SaveAndReturn(m, m) ELSE ReturnWith(m)
  BY DEF DecideFullUnqualified
<1>2. mem \in Memories /\ Limited(mem) /\ full \in BOOLEAN /\ expired \in BOOLEAN
  BY DEF Inv, TypeOK, ExpireFull
<1>3. Alike(mem, Booted(mem))
  BY <1>2, BootedAlike
<1>4. none \in Memories /\ none.rec = mem.rec /\ none.fullAge = Unset /\ Limited(none)
  BY <1>2, <1>3 DEF Alike, Memories, FullAges, Limited
<1>5. Fit(none) /\ OldEnough(none, FALSE)
  BY <1>4, NoAgeFit
<1>6. Fit(Booted(mem)) /\ OldEnough(Booted(mem), full)
  <2>1. Fit(mem) /\ OldEnough(mem, full)
    BY <1>2, MemFit
  <2> QED
    BY <1>3, <2>1, AlikeFit
<1> HIDE DEF none, expired
<1>7. CASE expired
  <2>1. m = none /\ SetFull(FALSE) /\ SaveAndReturn(none, none)
    <3>1. (full /\ ~expired) = FALSE
      BY <1>7
    <3> QED
      BY <1>1, <1>7, <3>1
  <2> QED
    BY <1>5, <2>1, SaveReturnStep
<1>8. CASE ~expired
  <2>1. SetFull(full) /\ ReturnWith(Booted(mem))
    <3>1. (full /\ ~expired) = full
      BY <1>2, <1>8
    <3> QED
      BY <1>1, <1>8, <3>1
  <2> QED
    BY <1>2, <1>6, <2>1, ReturnStep
<1> QED
  BY <1>7, <1>8

\* A disconnected car: an unacknowledged stop is kept, everything else is dropped.
LEMMA DecideDisconnectedDecides ==
    ASSUME Inv, UNCHANGED world, DecideDisconnected
    PROVE  Decided
<1> DEFINE m0 == Booted(mem)
           kept == (m0.stop.pending \/ m0.stopReq) /\ (car.plugged \/ ~ZeroConfirmed)
           clear == full /\ m0.fullAge # Unset
           m1 == CleanupDisconnected(m0)
           m2 == Retired(m1)
           f == full /\ ~clear
<1>1. \/ SetFull(full) /\ ReturnWith(m0)
      \/ SetFull(f) /\ (SaveAndReturn(m2, m1) \/ ReturnWith(m1))
  BY DEF DecideDisconnected
<1>2. mem \in Memories /\ Limited(mem) /\ full \in BOOLEAN /\ f \in BOOLEAN
  BY DEF Inv, TypeOK
<1>3. Alike(mem, m0)
  BY <1>2, BootedAlike
<1>4. Fit(m0) /\ OldEnough(m0, full) /\ m0 \in Memories /\ Limited(m0)
      /\ m0.rec = mem.rec /\ m0.fullAge = mem.fullAge
  <2>1. Fit(mem) /\ OldEnough(mem, full)
    BY <1>2, MemFit
  <2> QED
    BY <1>2, <1>3, <2>1, AlikeFit DEF Alike
<1>5. f => clock \in {Unset, Lapsed}
  <2>1. f => mem.fullAge = Unset
    BY <1>4
  <2>2. Aged(mem.fullAge, clock) /\ clock \in Clocks
    BY DEF Inv, FullInv, TypeOK
  <2>3. clock \notin {Unset, Lapsed} => clock \in Nat
    BY <2>2, MaxFullAssumption DEF FullAges, Clocks
  <2>4. ~(Unset >= clock) \/ clock \in {Unset, Lapsed}
    BY <2>3 DEF Unset
  <2> QED
    BY <2>1, <2>2, <2>4 DEF Aged
<1> HIDE DEF m0, f
<1>6. m1 \in Memories /\ m1.rec = mem.rec /\ m1.fullAge = Unset /\ Limited(m1)
  BY <1>4, CleanupFacts
<1> HIDE DEF m1
<1>7. m2 \in Memories /\ m2.rec = NoRecord /\ m2.fullAge = Unset /\ Limited(m2)
  BY <1>6, RetiredFacts
<1> HIDE DEF m2
<1>8. Fit(m1) /\ OldEnough(m1, f) /\ Fit(m2) /\ OldEnough(m2, f)
  BY <1>5, <1>6, <1>7, PlainFit DEF OldEnough, Aged
<1>9. CASE SetFull(full) /\ ReturnWith(m0)
  BY <1>2, <1>4, <1>9, ReturnStep
<1>10. CASE SetFull(f) /\ SaveAndReturn(m2, m1)
  BY <1>2, <1>8, <1>10, SaveReturnStep
<1>11. CASE SetFull(f) /\ ReturnWith(m1)
  BY <1>2, <1>8, <1>11, ReturnStep
<1> QED
  BY <1>1, <1>9, <1>10, <1>11

\* Connected without readable actuators.
LEMMA DecideBlindDecides ==
    ASSUME Inv, UNCHANGED world, DecideBlind
    PROVE  Decided
<1> DEFINE m == [Booted(mem) EXCEPT !.target = 0, !.targetActive = FALSE]
<1>1. SetFull(full) /\ (StopStep(m, job.obs.on) \/ ReturnWith(Booted(mem)))
  BY DEF DecideBlind
<1>2. mem \in Memories /\ Limited(mem) /\ full \in BOOLEAN /\ 0 \in Currents
  BY DEF Inv, TypeOK, Currents
<1>3. Alike(mem, Booted(mem))
  BY <1>2, BootedAlike
<1>4. Fit(Booted(mem)) /\ OldEnough(Booted(mem), full)
  <2>1. Fit(mem) /\ OldEnough(mem, full)
    BY <1>2, MemFit
  <2> QED
    BY <1>3, <2>1, AlikeFit
<1>5. m \in Memories /\ m.rec = mem.rec /\ m.fullAge = mem.fullAge /\ Limited(m)
  BY <1>2, <1>3 DEF Alike, Memories, Limited
<1> HIDE DEF m
<1>6. OldEnough(m, full)
  BY <1>2, <1>5, MemFit DEF OldEnough
<1>7. CASE StopStep(m, job.obs.on)
  BY <1>1, <1>2, <1>5, <1>6, <1>7, StopStepDecides
<1>8. CASE ReturnWith(Booted(mem))
  BY <1>1, <1>2, <1>4, <1>8, ReturnStep
<1> QED
  BY <1>1, <1>7, <1>8

-----------------------------------------------------------------------------
(* A connected and readable car. *)

\* The memory after the request has advanced: a request that still stands has an age
\* below its limit, and no smaller than the time since its first use.
LEMMA AdvancedFacts ==
    ASSUME Inv, NEW done \in BOOLEAN, NEW m, m = Advanced(done),
           NEW f, f = StillFull(done)
    PROVE  /\ m \in Memories /\ m.rec = mem.rec /\ Limited(m) /\ f \in BOOLEAN
           /\ f => m.fullAge \in 0 .. MaxFull - 1 /\ Aged(m.fullAge, clock)
<1> DEFINE s == Booted(mem)
           age == IF s.fullAge = Unset THEN 0 ELSE s.fullAge
           completed == full /\ (done \/ age >= MaxFull)
           ended == completed \/ (~full /\ s.fullAge # Unset)
           next == IF completed \/ ~full THEN Unset ELSE age
           st == IF ended /\ baseline = 0 THEN NewStop ELSE s.stop
<1>1. mem \in Memories /\ Limited(mem) /\ full \in BOOLEAN
      /\ Aged(mem.fullAge, clock) /\ clock \in Clocks /\ MaxFull \in Nat \ {0}
  BY MaxFullAssumption DEF Inv, TypeOK, FullInv
<1>2. s \in Memories /\ s.rec = mem.rec /\ s.fullAge = mem.fullAge /\ Limited(s)
  BY <1>1, BootedAlike DEF Alike
<1>3. m = [s EXCEPT !.fullAge = next, !.stop = st] /\ f = (full /\ m.fullAge # Unset)
  BY DEF Advanced, AdvanceFull, StillFull
<1> HIDE DEF s
<1>4. s.fullAge \in FullAges /\ s.stop \in Stops
  BY <1>2 DEF Memories
<1>5. age \in 0 .. MaxFull
  BY <1>1, <1>4 DEF FullAges
<1>6. next \in FullAges /\ st \in Stops
  BY <1>4, <1>5, NoRecordTyped DEF FullAges
<1>7. next # Unset => next = age /\ age < MaxFull
  BY <1>1, <1>5
<1>8. Aged(age, clock)
  <2>1. clock \notin {Unset, Lapsed} => clock \in Nat
    BY <1>1 DEF FullAges, Clocks
  <2>2. ~(Unset >= clock) \/ clock \in {Unset, Lapsed}
    BY <2>1 DEF Unset
  <2> QED
    BY <1>1, <1>2, <2>1, <2>2 DEF Aged
<1> HIDE DEF age, completed, ended, next, st
<1>9. m \in Memories /\ m.rec = mem.rec /\ Limited(m) /\ m.fullAge = next
  BY <1>2, <1>3, <1>6 DEF Memories, Limited
<1>10. f \in BOOLEAN
  BY <1>1, <1>3
<1>11. f => m.fullAge \in 0 .. MaxFull - 1 /\ Aged(m.fullAge, clock)
  <2>1. f => m.fullAge = age /\ age < MaxFull
    BY <1>3, <1>7, <1>9
  <2>2. age < MaxFull => age \in 0 .. MaxFull - 1
    BY <1>1, <1>5
  <2> QED
    BY <1>8, <2>1, <2>2
<1> QED
  BY <1>9, <1>10, <1>11

\* The route that is chosen next.
LEMMA RoutedFacts ==
    ASSUME Inv, NEW done \in BOOLEAN, NEW m, m = Routed(done), NEW f, f = StillFull(done)
    PROVE  /\ m \in Memories /\ m.rec = mem.rec /\ Limited(m) /\ f \in BOOLEAN
           /\ f => m.fullAge \in 0 .. MaxFull - 1 /\ Aged(m.fullAge, clock)
<1> DEFINE a == Advanced(done)
           route == Route(a, baseline, job.window, StillFull(done), Site, job.obs.on)
<1>1. /\ a \in Memories /\ a.rec = mem.rec /\ Limited(a) /\ f \in BOOLEAN
      /\ f => a.fullAge \in 0 .. MaxFull - 1 /\ Aged(a.fullAge, clock)
  BY AdvancedFacts
<1>2. route \in {"none", "free", "outside", "general"}
  BY DEF Route
<1>3. m = [a EXCEPT !.route = route]
  BY DEF Routed
<1> HIDE DEF a, route
<1>4. m \in Memories /\ m.rec = a.rec /\ m.fullAge = a.fullAge /\ Limited(m)
  BY <1>1, <1>2, <1>3 DEF Memories, Limited
<1> QED
  BY <1>1, <1>4

\* The free window opens on a pending stop.
LEMMA DecideWindowOpensDecides ==
    ASSUME Inv, UNCHANGED world, DecideWindowOpens
    PROVE  Decided
<1>1. PICK done \in BOOLEAN :
        LET m1 == Routed(done)
            m2 == [m1 EXCEPT !.stop = NoStop, !.control = FALSE, !.stopReq = FALSE]
        IN /\ SetFull(StillFull(done)) /\ SetMemory(m2)
           /\ \/ /\ SaveOk(m2) /\ pc' = "decide"
                 /\ job' = [job EXCEPT !.entered = EnteredFree(done)]
              \/ SaveFailed /\ End
  BY DEF DecideWindowOpens
<1> DEFINE m1 == Routed(done)
           m2 == [m1 EXCEPT !.stop = NoStop, !.control = FALSE, !.stopReq = FALSE]
           f == StillFull(done)
           j == [job EXCEPT !.entered = EnteredFree(done)]
<1>2. /\ m1 \in Memories /\ m1.rec = mem.rec /\ Limited(m1) /\ f \in BOOLEAN
      /\ f => Aged(m1.fullAge, clock)
  BY RoutedFacts
<1>3. /\ SetFull(f) /\ SetMemory(m2)
      /\ \/ SaveOk(m2) /\ pc' = "decide" /\ job' = j
         \/ SaveFailed /\ End
  BY <1>1
<1>4. j \in Jobs
  <2>1. EnteredFree(done) \in BOOLEAN /\ job \in Jobs
    <3>1. job \in Jobs /\ job.entered \in BOOLEAN
      BY DEF Inv, TypeOK, Jobs
    <3> QED
      BY <3>1 DEF EnteredFree
  <2> QED
    BY <2>1 DEF Jobs
<1> HIDE DEF m1, f, j
<1>5. m2 \in Memories /\ m2.rec = mem.rec /\ m2.fullAge = m1.fullAge /\ Limited(m2)
  BY <1>2, NoRecordTyped DEF Memories, Limited
<1> HIDE DEF m2
<1>6. Fit(m2) /\ OldEnough(m2, f)
  BY <1>2, <1>5, PlainFit DEF OldEnough
<1> QED
  BY <1>2, <1>3, <1>4, <1>6, StoreStep

\* Without a policy only the limit is kept.
LEMMA DecideGeneralDecides ==
    ASSUME Inv, UNCHANGED world, DecideGeneral
    PROVE  Decided
<1>1. PICK done \in BOOLEAN :
        LET m == [Routed(done) EXCEPT !.target = Unset, !.limit = "soft"]
        IN /\ SetFull(StillFull(done))
           /\ \/ ReturnWith([m EXCEPT !.latch = FALSE])
              \/ ReturnWith(m)
              \/ /\ SetMemory([m EXCEPT !.latch = TRUE]) /\ UNCHANGED <<disk, events>>
                 /\ Begin("limit", <<"limit">>, FALSE)
  BY DEF DecideGeneral
<1> DEFINE m == [Routed(done) EXCEPT !.target = Unset, !.limit = "soft"]
           off == [m EXCEPT !.latch = FALSE]
           on == [m EXCEPT !.latch = TRUE]
           f == StillFull(done)
<1>2. /\ Routed(done) \in Memories /\ Routed(done).rec = mem.rec /\ Limited(Routed(done))
      /\ f \in BOOLEAN /\ (f => Aged(Routed(done).fullAge, clock))
  BY RoutedFacts
<1>3. /\ SetFull(f)
      /\ \/ ReturnWith(off) \/ ReturnWith(m)
         \/ SetMemory(on) /\ UNCHANGED <<disk, events>> /\ Begin("limit", <<"limit">>, FALSE)
  BY <1>1
<1>4. Unset \in Currents /\ "soft" \in Levels
  BY DEF Currents, Levels
<1>5. m \in Memories /\ m.rec = mem.rec /\ m.fullAge = Routed(done).fullAge
      /\ m.limit = "soft" /\ Limited(m)
  BY <1>2, <1>4 DEF Memories, Limited
<1> HIDE DEF m, f
<1>6. off \in Memories /\ off.rec = mem.rec /\ off.fullAge = m.fullAge /\ Limited(off)
  BY <1>5 DEF Memories, Limited
<1>7. on \in Memories /\ on.rec = mem.rec /\ on.fullAge = m.fullAge /\ on.limit = "soft"
      /\ Limited(on)
  BY <1>5 DEF Memories, Limited
<1> HIDE DEF off, on
<1>8. Fit(m) /\ OldEnough(m, f) /\ Fit(off) /\ OldEnough(off, f) /\ Fit(on) /\ OldEnough(on, f)
  BY <1>2, <1>5, <1>6, <1>7, PlainFit DEF OldEnough
<1>9. CASE ReturnWith(off) \/ ReturnWith(m)
  BY <1>2, <1>3, <1>8, <1>9, ReturnStep
<1>10. CASE SetMemory(on) /\ UNCHANGED <<disk, events>> /\ Begin("limit", <<"limit">>, FALSE)
  <2>1. <<"limit">> \in Seq(Orders)
    BY DEF Orders
  <2>2. <<"limit">> # << >>
    OBVIOUS
  <2>3. "limit" \in {"reduce", "limit", "stop"} /\ "limit" # "reduce" /\ "limit" # "stop"
    OBVIOUS
  <2> QED
    BY <1>2, <1>3, <1>7, <1>8, <1>10, <2>1, <2>2, <2>3, BeginStep
<1> QED
  BY <1>3, <1>9, <1>10

\* What planning a target from memory m may return: the record and the age of the
\* request are kept, and a target that was found has a charge limit.
Planned(m, t) ==
    /\ t.ok \in BOOLEAN /\ t.mem \in Memories
    /\ t.mem.rec = m.rec /\ t.mem.fullAge = m.fullAge
    /\ Limited(m) => Limited(t.mem)
    /\ t.ok => t.mem.limit \in {"soft", "full"}

\* The target of the free window.
LEMMA FreeTargetFacts ==
    ASSUME NEW m \in Memories, NEW f \in BOOLEAN, NEW t, t = FreeTarget(m, f)
    PROVE  Planned(m, t)
<1> DEFINE next == [m EXCEPT !.target = 2, !.limit = Capped("full", f)]
<1>1. Capped("full", f) \in {"soft", "full"}
  BY DEF Capped
<1>2. next \in Memories /\ next.rec = m.rec /\ next.fullAge = m.fullAge
      /\ next.limit = Capped("full", f)
  BY <1>1 DEF Memories, Currents, Levels
<1>3. t.ok = (Site # "reject") /\ t.mem = IF Site = "reject" THEN m ELSE next
  BY DEF FreeTarget
<1> HIDE DEF next
<1> QED
  BY <1>1, <1>2, <1>3 DEF Planned, Limited

\* The target outside the window.
LEMMA OutsideTargetFacts ==
    ASSUME Inv, NEW m \in Memories, NEW f \in BOOLEAN, NEW again \in BOOLEAN,
           NEW t, t = OutsideTarget(m, f, again)
    PROVE  Planned(m, t)
<1> DEFINE on == Seen(again).on
           lost == again /\ (window \/ link # "ok")
           m0 == [m EXCEPT !.stopReq = FALSE]
           m1 == IF f /\ Site # "off" THEN m0 ELSE AdvanceDaily(m0, Site)
           m2 == Own(m1, baseline, f, Site, on)
           owned == m2.targetActive \/ m2.control
           amps == StageAmps(m1, baseline, f, Site)
           staged == [m2 EXCEPT !.target = amps, !.limit = Capped("full", f)]
           ok == baseline > 0 \/ on
           abort == AbortAtReserve(m0, baseline, on)
<1>1. \/ t = [ok |-> FALSE, mem |-> m]
      \/ t = [ok |-> FALSE, mem |-> m0]
      \/ t = [ok |-> ok, mem |-> abort]
      \/ t = [ok |-> owned, mem |-> IF owned THEN staged ELSE m2]
  BY DEF OutsideTarget
<1>2. on \in BOOLEAN /\ baseline \in {0, 1}
  <2>1. View \in Views /\ job.obs \in Views /\ baseline \in {0, 1}
    BY ViewsTyped DEF Inv, TypeOK, Jobs
  <2> QED
    BY <2>1 DEF Seen, Views
<1> HIDE DEF on, lost
<1>3. Alike(m, m0) /\ m0 \in Memories
  BY DEF Alike, Memories, Limited
<1> HIDE DEF m0
<1>4. Alike(m, m1) /\ m1 \in Memories
  <2>1. Alike(m0, AdvanceDaily(m0, Site))
    BY <1>3, DailyAlike
  <2>2. Alike(m, AdvanceDaily(m0, Site))
    BY <1>3, <2>1, AlikeTransitive
  <2> QED
    BY <1>3, <2>2 DEF Alike
<1>5. amps \in Currents
  BY <1>2 DEF StageAmps, Currents
<1> HIDE DEF m1
<1>6. Alike(m, m2) /\ m2 \in Memories
  <2>1. Alike(m1, m2)
    BY <1>4, OwnAlike
  <2> QED
    BY <1>4, <2>1, AlikeTransitive DEF Alike
<1>7. owned \in BOOLEAN
  BY <1>6 DEF Memories
<1>8. Capped("full", f) \in {"soft", "full"}
  BY DEF Capped
<1> HIDE DEF m2, amps
<1>9. staged \in Memories /\ staged.rec = m2.rec /\ staged.fullAge = m2.fullAge
      /\ staged.limit = Capped("full", f)
  BY <1>5, <1>6, <1>8 DEF Memories, Levels
<1>10. Alike(m, abort) /\ abort.limit = "soft"
  <2>1. Alike(m0, abort) /\ abort.limit = "soft"
    BY <1>2, <1>3, AbortAlike
  <2> QED
    BY <1>3, <2>1, AlikeTransitive
<1>11. ok \in BOOLEAN
  BY <1>2
<1> HIDE DEF staged, ok, abort, owned
<1>12. CASE t = [ok |-> FALSE, mem |-> m] \/ t = [ok |-> FALSE, mem |-> m0]
  <2>1. t.ok = FALSE /\ (t.mem = m \/ t.mem = m0)
    BY <1>12
  <2>2. Alike(m, m)
    BY DEF Alike
  <2>3. Alike(m, t.mem)
    BY <1>3, <2>1, <2>2
  <2> QED
    BY <2>1, <2>3 DEF Planned, Alike
<1>13. CASE t = [ok |-> ok, mem |-> abort]
  <2>1. t.ok = ok /\ t.mem = abort
    BY <1>13
  <2> QED
    BY <1>10, <1>11, <2>1 DEF Planned, Alike
<1>14. CASE t = [ok |-> owned, mem |-> IF owned THEN staged ELSE m2]
  <2>1. CASE owned
    <3>1. t.ok = TRUE /\ t.mem = staged
      BY <1>7, <1>14, <2>1
    <3>2. staged.rec = m.rec /\ staged.fullAge = m.fullAge /\ staged.limit \in {"soft", "full"}
      BY <1>6, <1>8, <1>9 DEF Alike
    <3> QED
      BY <1>9, <3>1, <3>2 DEF Planned, Limited
  <2>2. CASE ~owned
    <3>1. t.ok = FALSE /\ t.mem = m2
      BY <1>7, <1>14, <2>2
    <3> QED
      BY <1>6, <3>1 DEF Planned, Alike
  <2> QED
    BY <2>1, <2>2
<1> QED
  BY <1>1, <1>12, <1>13, <1>14

\* The target of a cycle: a full limit only for a request that stands.
LEMMA TargetFacts ==
    ASSUME Inv, NEW m \in Memories, Limited(m), NEW f \in BOOLEAN, NEW again \in BOOLEAN,
           NEW t, t = Target(m, f, again)
    PROVE  /\ Planned(m, t)
           /\ t.ok /\ t.mem.limit = "full" => f
<1> DEFINE u == IF job.window THEN FreeTarget(m, f) ELSE OutsideTarget(m, f, again)
           kept == [m EXCEPT !.limit = Capped(@, f)]
           d == [full |-> f, stale |-> FALSE, made |-> TRUE]
           limit == Capped(u.mem.limit, f)
           made == [u.mem EXCEPT !.decision = d, !.limit = limit]
<1>1. \/ ~Due(m, f) /\ t = [ok |-> TRUE, mem |-> kept]
      \/ ~u.ok /\ t = u
      \/ u.ok /\ t = [ok |-> TRUE, mem |-> made]
  BY DEF Target
<1>2. Planned(m, u)
  BY FreeTargetFacts, OutsideTargetFacts
<1> HIDE DEF u
<1>3. CASE ~Due(m, f) /\ t = [ok |-> TRUE, mem |-> kept]
  <2>1. m.limit \in Levels /\ m.limit # "none"
    BY <1>3 DEF Due, Memories, Limited
  <2>2. Capped(m.limit, f) \in {"soft", "full"} /\ (Capped(m.limit, f) = "full" => f)
    BY <2>1 DEF Capped, Levels
  <2>3. kept = [m EXCEPT !.limit = Capped(m.limit, f)]
    OBVIOUS
  <2>4. kept \in Memories /\ kept.rec = m.rec /\ kept.fullAge = m.fullAge
        /\ kept.limit = Capped(m.limit, f)
    BY <2>2, <2>3 DEF Memories, Levels
  <2> HIDE DEF kept
  <2> QED
    BY <1>3, <2>2, <2>4 DEF Planned, Limited
<1>4. CASE ~u.ok /\ t = u
  BY <1>2, <1>4
<1>5. CASE u.ok /\ t = [ok |-> TRUE, mem |-> made]
  <2>1. u.mem \in Memories /\ u.mem.limit \in {"soft", "full"}
    BY <1>2, <1>5 DEF Planned
  <2>2. limit \in {"soft", "full"} /\ (limit = "full" => f)
    BY <2>1 DEF Capped
  <2>3. d \in Decisions
    BY DEF Decisions
  <2> HIDE DEF limit, d
  <2>4. made \in Memories /\ made.rec = u.mem.rec /\ made.fullAge = u.mem.fullAge
        /\ made.limit = limit
    BY <2>1, <2>2, <2>3 DEF Memories, Levels
  <2> HIDE DEF made
  <2> QED
    BY <1>2, <1>5, <2>2, <2>4 DEF Planned, Limited
<1> QED
  BY <1>1, <1>3, <1>4, <1>5

\* The reconciliation at the end of a cycle.
LEMMA ReconcileStepDecides ==
    ASSUME Inv, NEW f \in BOOLEAN, SetFull(f), UNCHANGED world, NEW m \in Memories,
           m.rec = mem.rec, m.limit \in {"soft", "full"}, m.limit = "full" => f,
           f => m.fullAge \in 0 .. MaxFull - 1 /\ Aged(m.fullAge, clock),
           NEW obs, NEW fresh \in BOOLEAN, NEW enabled, NEW lossy \in BOOLEAN,
           ReconcileStep(m, obs, fresh, enabled, lossy)
    PROVE  Decided
<1> DEFINE prior == IF fresh THEN NoRecord ELSE m.rec
           r == Reconcile(prior, obs, m.target, m.limit)
           next == [m EXCEPT !.rec = r.rec]
           released == Released(next, enabled)
           last == IF HandsOver(released, job.obs, job.window)
                   THEN HandedOver(released) ELSE released
<1>1. \/ /\ r.cmds = << >> /\ End
         /\ \/ SetMemory(last) /\ SaveKept(last, lossy)
            \/ SetMemory(next) /\ SaveFailed
      \/ /\ r.cmds # << >>
         /\ IF fresh THEN mem' = next /\ pace' = NoPace ELSE SetMemory(next)
         /\ \/ SaveKept(next, lossy) /\ Begin("direct", r.cmds, lossy)
            \/ SaveFailed /\ End
  BY DEF ReconcileStep
<1>2. m.target \in Currents /\ m.limit \in Levels /\ m.rec \in Records
      /\ mem.rec \in Records /\ pace \in Paces /\ Covers(mem.rec, pace)
      /\ events \in Nat /\ job \in Jobs
  BY DEF Inv, TypeOK, PaceInv, Memories
<1>3. /\ r.rec \in Records /\ r.cmds \in Seq(Orders)
      /\ r.cmds = << >> \/ ~fresh => Covers(r.rec, NextPace(mem.rec, r.rec, pace))
      /\ r.cmds # << >> =>
           /\ m.target \in {1, 2}
           /\ Paced(r.rec, IF fresh THEN NoPace ELSE NextPace(mem.rec, r.rec, pace),
                    m.target, m.limit)
  <2>1. CASE fresh
    <3>1. r = Reconcile(NoRecord, obs, m.target, m.limit)
      BY <2>1
    <3> HIDE DEF r
    <3>2. /\ r.rec \in Records /\ r.cmds \in Seq(Orders)
          /\ r.cmds = << >> => Covers(r.rec, NextPace(mem.rec, r.rec, pace))
          /\ r.cmds # << >> => m.target \in {1, 2} /\ Paced(r.rec, NoPace, m.target, m.limit)
      BY <1>2, <3>1, FreshFacts
    <3> QED
      BY <2>1, <3>2
  <2>2. CASE ~fresh
    <3>1. r = Reconcile(mem.rec, obs, m.target, m.limit)
      BY <2>2
    <3> HIDE DEF r
    <3>2. /\ r.rec \in Records /\ r.cmds \in Seq(Orders)
          /\ Covers(r.rec, NextPace(mem.rec, r.rec, pace))
          /\ r.cmds # << >> => /\ m.target \in {1, 2}
                               /\ Paced(r.rec, NextPace(mem.rec, r.rec, pace), m.target, m.limit)
      BY <1>2, <3>1, ReconcileFacts
    <3> QED
      BY <2>2, <3>2
  <2> QED
    BY <2>1, <2>2
<1> HIDE DEF prior, r
<1>4. next \in Memories /\ next.rec = r.rec /\ next.fullAge = m.fullAge
      /\ next.target = m.target /\ next.limit = m.limit /\ Limited(next)
  BY <1>3 DEF Memories, Limited
<1> HIDE DEF next
<1>5. OldEnough(next, f)
  BY <1>4 DEF OldEnough
<1>6. CASE /\ r.cmds = << >> /\ End
           /\ \/ SetMemory(last) /\ SaveKept(last, lossy)
              \/ SetMemory(next) /\ SaveFailed
  <2>1. Fit(next)
    BY <1>3, <1>4, <1>6 DEF Fit
  <2>2. Alike(next, released) /\ released \in Memories
    BY <1>4, ReleasedAlike DEF Alike
  <2> HIDE DEF released
  <2>3. Fit(released) /\ OldEnough(released, f)
    BY <1>5, <2>1, <2>2, AlikeFit
  <2>4. Alike(released, HandedOver(released))
    BY <2>2, HandedOverAlike
  <2>5. Fit(HandedOver(released)) /\ OldEnough(HandedOver(released), f)
    BY <2>3, <2>4, AlikeFit
  <2>6. Fit(last) /\ OldEnough(last, f)
    BY <2>3, <2>5
  <2> HIDE DEF last
  <2>7. job' \in Jobs /\ pc' = "idle"
    BY <1>6, ViewsTyped DEF End, Inv
  <2>8. CASE SetMemory(last) /\ SaveKept(last, lossy)
    <3>1. events' \in Nat /\ disk' \in {Stored(last), Defaults}
      BY <1>2, <2>8 DEF SaveKept, Kept
    <3> QED
      BY <2>6, <2>7, <2>8, <3>1, RestStep
  <2>9. CASE SetMemory(next) /\ SaveFailed
    <3>1. events' \in Nat /\ disk' = disk
      BY <1>2, <2>9 DEF SaveFailed, Spend
    <3> QED
      BY <1>5, <2>1, <2>7, <2>9, <3>1, RestStep
  <2> QED
    BY <1>6, <2>8, <2>9
<1>7. CASE /\ r.cmds # << >>
           /\ IF fresh THEN mem' = next /\ pace' = NoPace ELSE SetMemory(next)
           /\ \/ SaveKept(next, lossy) /\ Begin("direct", r.cmds, lossy)
              \/ SaveFailed /\ End
  <2>1. /\ mem' = next /\ pace' \in {pace, NoPace} /\ Covers(next.rec, pace')
        /\ Paced(next.rec, pace', m.target, m.limit)
    <3>1. CASE fresh
      BY <1>3, <1>4, <1>7, <3>1, NoPaceFacts
    <3>2. CASE ~fresh
      <4>1. Fit(next)
        BY <1>3, <1>4, <3>2 DEF Fit
      <4>2. /\ mem' = next /\ pace' \in {pace, NoPace} /\ Covers(next.rec, pace')
            /\ pace' = NextPace(mem.rec, next.rec, pace)
        BY <1>7, <3>2, <4>1, SetMemoryFacts
      <4> QED
        BY <1>3, <1>4, <1>7, <3>2, <4>2
    <3> QED
      BY <3>1, <3>2
  <2>2. full' = f /\ clock' = IF f THEN clock ELSE Unset
    BY DEF SetFull
  <2>3. full' => Aged(mem'.fullAge, clock)
    BY <1>4, <2>1, <2>2
  <2>4. mem' \in Memories /\ Limited(mem') /\ Covers(mem'.rec, pace')
    BY <1>4, <2>1
  <2>5. CASE SaveKept(next, lossy) /\ Begin("direct", r.cmds, lossy)
    <3>1. disk' \in {Stored(mem'), Defaults} /\ events' \in Nat
      BY <1>2, <2>1, <2>5 DEF SaveKept, Kept
    <3>2. /\ pc' = "send"
          /\ job' = [job EXCEPT !.kind = "direct", !.cmds = r.cmds, !.first = TRUE,
                                !.lossy = lossy]
      BY <2>5 DEF Begin
    <3>3. job' \in Jobs /\ job'.kind = "direct" /\ job'.cmds = r.cmds
      BY <1>2, <1>3, <3>2 DEF Jobs, Kinds
    <3>4. BatchTyped(mem', job')
      BY <1>3, <1>4, <1>7, <2>1, <3>3 DEF BatchTyped
    <3>5. Sendable(mem', job', pace', disk', full')
      BY <1>4, <2>1, <2>2, <3>1, <3>3, <3>4 DEF Sendable
    <3> QED
      BY <2>1, <2>2, <2>3, <2>4, <3>1, <3>2, <3>3, <3>5 DEF Decided
  <2>6. CASE SaveFailed /\ End
    <3>1. disk' = disk /\ events' \in Nat /\ job' \in Jobs /\ pc' = "idle"
      BY <1>2, <2>6, ViewsTyped DEF SaveFailed, Spend, End, Inv
    <3> QED
      BY <2>1, <2>2, <2>3, <2>4, <3>1 DEF Decided
  <2> QED
    BY <1>7, <2>5, <2>6
<1> QED
  BY <1>1, <1>6, <1>7

\* Free window or outside policy: no target, a stop, a rehearsal or a reconciliation.
LEMMA DecideDirectDecides ==
    ASSUME Inv, UNCHANGED world, DecideDirect
    PROVE  Decided
<1>1. PICK done \in BOOLEAN, again \in BOOLEAN :
        /\ SetFull(StillFull(done))
        /\ \E f \in {StillFull(done)}, m1 \in {Routed(done)} : \E t \in {Target(m1, f, again)} :
             \/ ReturnWith(t.mem)
             \/ RestoreBaseline(t.mem, job.obs)
             \/ t.ok /\ StopStep(t.mem, Seen(again).on)
             \/ t.ok /\ \E lossy \in BOOLEAN :
                  ReconcileStep(t.mem, Seen(again), EnteredFree(done),
                                OutsideEnabled(m1, baseline, f, Site, job.obs.on), lossy)
  <2>1. \A again \in BOOLEAN : Stamps(again) \subseteq BOOLEAN
    BY DEF Stamps
  <2>2. PICK done \in BOOLEAN, again \in BOOLEAN :
          /\ SetFull(StillFull(done))
          /\ \E f \in {StillFull(done)}, m1 \in {Routed(done)} : \E t \in {Target(m1, f, again)} :
               \/ ReturnWith(t.mem)
               \/ RestoreBaseline(t.mem, job.obs)
               \/ t.ok /\ StopStep(t.mem, Seen(again).on)
               \/ t.ok /\ \E lossy \in Stamps(again) :
                    ReconcileStep(t.mem, Seen(again), EnteredFree(done),
                                  OutsideEnabled(m1, baseline, f, Site, job.obs.on), lossy)
    BY DEF DecideDirect
  <2> QED
    BY <2>1, <2>2
<1> DEFINE f == StillFull(done)
           m1 == Routed(done)
           t == Target(m1, f, again)
           enabled == OutsideEnabled(m1, baseline, f, Site, job.obs.on)
<1>2. /\ SetFull(f)
      /\ \/ ReturnWith(t.mem)
         \/ RestoreBaseline(t.mem, job.obs)
         \/ t.ok /\ StopStep(t.mem, Seen(again).on)
         \/ t.ok /\ \E lossy \in BOOLEAN :
              ReconcileStep(t.mem, Seen(again), EnteredFree(done), enabled, lossy)
  BY <1>1
<1>3. /\ m1 \in Memories /\ m1.rec = mem.rec /\ Limited(m1) /\ f \in BOOLEAN
      /\ f => m1.fullAge \in 0 .. MaxFull - 1 /\ Aged(m1.fullAge, clock)
  BY RoutedFacts
<1>4. EnteredFree(done) \in BOOLEAN
  <2>1. job.entered \in BOOLEAN
    BY DEF Inv, TypeOK, Jobs
  <2> QED
    BY <2>1 DEF EnteredFree
<1> HIDE DEF f, m1, enabled
<1>5. /\ Planned(m1, t)
      /\ t.ok /\ t.mem.limit = "full" => f
  BY <1>3, TargetFacts
<1> HIDE DEF t
<1>6. /\ t.mem \in Memories /\ t.mem.rec = mem.rec /\ Limited(t.mem)
      /\ t.mem.fullAge = m1.fullAge /\ (t.ok => t.mem.limit \in {"soft", "full"})
  BY <1>3, <1>5 DEF Planned
<1>7. Fit(t.mem) /\ OldEnough(t.mem, f)
  BY <1>3, <1>6, PlainFit DEF OldEnough
<1>8. CASE ReturnWith(t.mem)
  BY <1>2, <1>3, <1>7, <1>8, ReturnStep
<1>9. CASE RestoreBaseline(t.mem, job.obs)
  BY <1>2, <1>3, <1>6, <1>7, <1>9, RestoreBaselineDecides
<1>10. CASE StopStep(t.mem, Seen(again).on)
  BY <1>2, <1>3, <1>6, <1>7, <1>10, StopStepDecides
<1>11. CASE t.ok /\ \E lossy \in BOOLEAN :
              ReconcileStep(t.mem, Seen(again), EnteredFree(done), enabled, lossy)
  <2>1. PICK lossy \in BOOLEAN :
          ReconcileStep(t.mem, Seen(again), EnteredFree(done), enabled, lossy)
    BY <1>11
  <2> QED
    BY <1>2, <1>3, <1>4, <1>5, <1>6, <1>11, <2>1, ReconcileStepDecides
<1> QED
  BY <1>2, <1>8, <1>9, <1>10, <1>11

\* Every way through the decision, together.
LEMMA DecideDecides ==
    ASSUME Inv, Decide
    PROVE  Decided
<1>1. UNCHANGED world /\ pc = "decide"
  BY DEF Decide
<1>2. CASE DecideGated
  <2>1. SetFull(full) /\ ReturnWith(mem) /\ full \in BOOLEAN
    BY <1>2 DEF DecideGated, Inv, TypeOK
  <2> QED
    BY <1>1, <2>1, MemFit, ReturnStep
<1>3. CASE ExpireWithoutPhases
  BY <1>1, <1>3, ExpireWithoutPhasesDecides
<1>4. CASE DecideWithoutPhases
  BY <1>1, <1>4, DecideWithoutPhasesDecides
<1>5. CASE DecideFullUnqualified
  BY <1>1, <1>5, DecideFullUnqualifiedDecides
<1>6. CASE DecideDisconnected
  BY <1>1, <1>6, DecideDisconnectedDecides
<1>7. CASE DecideBlind
  BY <1>1, <1>7, DecideBlindDecides
<1>8. CASE DecideWindowOpens
  BY <1>1, <1>8, DecideWindowOpensDecides
<1>9. CASE DecideGeneral
  BY <1>1, <1>9, DecideGeneralDecides
<1>10. CASE DecideDirect
  BY <1>1, <1>10, DecideDirectDecides
<1> QED
  BY <1>2, <1>3, <1>4, <1>5, <1>6, <1>7, <1>8, <1>9, <1>10 DEF Decide

-----------------------------------------------------------------------------
(* Commands, the environment and time. *)

\* A command changes the car to another car.
LEMMA AppliedTyped ==
    ASSUME TypeOK, pc = "send"
    PROVE  /\ Applied(Head(job.cmds)) \in Cars
           /\ Head(job.cmds) \in Orders /\ Tail(job.cmds) \in Seq(Orders)
<1>1. job.cmds \in Seq(Orders) /\ job.cmds # << >> /\ BatchTyped(mem, job) /\ car \in Cars
  BY DEF TypeOK, Jobs, BatchTyped
<1>2. Head(job.cmds) \in Orders /\ Tail(job.cmds) \in Seq(Orders)
  BY <1>1
<1>3. CASE Head(job.cmds) = "limit"
  <2>1. job.kind # "stop"
    <3>1. job.kind = "stop" => Head(job.cmds) = "stop"
      BY <1>1 DEF BatchTyped
    <3> QED
      BY <1>3, <3>1
  <2>2. mem.limit \in {"soft", "full"}
    BY <1>1, <2>1 DEF BatchTyped
  <2> QED
    BY <1>1, <1>2, <1>3, <2>2 DEF Applied, Cars
<1>4. CASE Head(job.cmds) = "amps"
  <2>1. job.kind \in {"direct", "reduce"}
    <3>1. job.kind = "stop" => Head(job.cmds) = "stop"
      BY <1>1 DEF BatchTyped
    <3>2. job.kind = "limit" => Head(job.cmds) = "limit"
      BY <1>1 DEF BatchTyped
    <3> QED
      BY <1>1, <1>4, <3>1, <3>2 DEF BatchTyped
  <2>2. mem.target \in {1, 2}
    BY <1>1, <2>1 DEF BatchTyped
  <2> QED
    BY <1>1, <1>2, <1>4, <2>2 DEF Applied, Cars
<1>5. CASE Head(job.cmds) = "start" \/ Head(job.cmds) = "stop"
  BY <1>1, <1>2, <1>5 DEF Applied, Cars
<1> QED
  BY <1>2, <1>3, <1>4, <1>5 DEF Orders

\* A command that was sent, whether or not the car follows, keeps the invariants.
LEMMA BatchStep ==
    ASSUME Inv, pc = "send", car' \in Cars, CountBatch, events' \in Nat,
           UNCHANGED <<baseline, link, window, offer, gate, full, mem, disk>>,
           job' \in Jobs, ~job'.first, pc' \in {"send", "log"},
           pc' = "send" => BatchTyped(mem, job') /\ job'.kind = job.kind
    PROVE  TypeOK' /\ PaceInv' /\ FullInv'
<1>1. /\ mem \in Memories /\ disk \in Disks /\ pace \in Paces /\ clock \in Clocks
      /\ MaxFull \in Nat \ {0}
  BY MaxFullAssumption DEF Inv, TypeOK
<1> DEFINE new == [amps |-> mem.target, limit |-> mem.limit, n |-> Batches(pace), age |-> 0,
                   lapsed |-> FALSE]
           counts == job.kind = "direct" /\ job.first /\ mem.rec.attempts > 0
           starts == full /\ job.kind = "direct" /\ clock \in {Unset, Lapsed}
<1>2. /\ pace' = IF counts THEN new ELSE pace
      /\ clock' = IF starts THEN 0 ELSE clock
  BY DEF CountBatch
<1>3. new \in Paces /\ new.amps = mem.target /\ new.limit = mem.limit
      /\ new.n = Batches(pace) /\ new.age = 0
  <2>1. mem.target \in Currents /\ mem.limit \in Levels /\ pace.n \in 0 .. Len(Intervals)
    BY <1>1 DEF Memories, Paces
  <2>2. Batches(pace) \in 0 .. Len(Intervals)
    <3>1. Attempt(pace.n) \in 1 .. Len(Intervals) /\ 1 \in 0 .. Len(Intervals)
      BY <2>1, AttemptFacts, IntervalFacts
    <3> QED
      BY <3>1 DEF Batches
  <2>3. 0 \in 0 .. LastAge
    BY IntervalFacts
  <2> QED
    BY <2>1, <2>2, <2>3 DEF Paces
<1> HIDE DEF new
<1>4. pace' \in Paces /\ clock' \in Clocks
  <2>1. 0 \in Clocks
    BY <1>1 DEF FullAges, Clocks
  <2> QED
    BY <1>1, <1>2, <1>3, <2>1
<1>5. TypeOK'
  BY <1>4 DEF Inv, TypeOK
<1>6. Covers(mem.rec, pace') /\ (disk.lapsed \/ Covers(disk.rec, pace'))
  <2>1. CASE counts
    <3>1. NoRecord.attempts = 0
      BY DEF NoRecord
    <3>2. /\ Paced(mem.rec, pace, mem.target, mem.limit)
          /\ disk.lapsed \/ disk.rec = mem.rec
      BY <2>1, <3>1 DEF Inv, PaceInv
    <3>3. Covers(mem.rec, new)
      BY <1>3, <3>2 DEF Paced, Covers
    <3> QED
      BY <1>2, <2>1, <3>2, <3>3
  <2>2. CASE ~counts
    BY <1>2, <2>2 DEF Inv, PaceInv
  <2> QED
    BY <2>1, <2>2
<1>7. PaceInv'
  BY <1>6 DEF PaceInv
<1>8. Aged(mem.fullAge, clock') /\ (disk.lapsed \/ Aged(disk.fullAge, clock'))
  <2>1. CASE starts
    <3>1. /\ mem.fullAge \in 0 .. MaxFull - 1
          /\ disk.lapsed \/ disk.fullAge = mem.fullAge
      BY <2>1 DEF Inv, FullInv
    <3>2. clock' = 0 /\ mem.fullAge >= 0
      BY <1>1, <1>2, <2>1, <3>1
    <3> QED
      BY <3>1, <3>2 DEF Aged
  <2>2. CASE ~starts
    BY <1>2, <2>2 DEF Inv, FullInv
  <2> QED
    BY <2>1, <2>2
<1>9. FullInv'
  <2>1. ~full => clock' = Unset
    BY <1>2 DEF Inv, FullInv
  <2> QED
    BY <1>8, <2>1 DEF Inv, FullInv
<1> QED
  BY <1>5, <1>7, <1>9

\* One command, and what is left of its batch.
LEMMA SendInv ==
    ASSUME Inv, Send
    PROVE  TypeOK' /\ PaceInv' /\ FullInv'
<1>1. pc = "send" /\ job \in Jobs /\ BatchTyped(mem, job) /\ car \in Cars /\ events \in Nat
  BY DEF Send, Inv, TypeOK
<1>2. Applied(Head(job.cmds)) \in Cars /\ Tail(job.cmds) \in Seq(Orders)
  BY <1>1, AppliedTyped DEF Inv
<1>3. car' \in Cars /\ events' \in Nat
  BY <1>1, <1>2 DEF Send, Spend
<1>4. CASE Len(job.cmds) = 1 /\ pc' = "log"
           /\ job' = [job EXCEPT !.cmds = << >>, !.first = FALSE]
  <2>1. << >> \in Seq(Orders)
    OBVIOUS
  <2>2. job' \in Jobs /\ ~job'.first
    BY <1>1, <1>4, <2>1 DEF Jobs
  <2> QED
    BY <1>1, <1>3, <1>4, <2>2, BatchStep DEF Send
<1>5. CASE Len(job.cmds) # 1 /\ pc' = "send"
           /\ job' = [job EXCEPT !.cmds = Tail(job.cmds), !.first = FALSE]
  <2>1. job' \in Jobs /\ ~job'.first /\ job'.kind = job.kind /\ job'.cmds = Tail(job.cmds)
    BY <1>1, <1>2, <1>5 DEF Jobs
  <2>2. job.cmds \in Seq(Orders) /\ job.cmds # << >>
    BY <1>1 DEF Jobs, BatchTyped
  <2>3. Tail(job.cmds) # << >>
    <3>1. Len(Tail(job.cmds)) = Len(job.cmds) - 1 /\ Len(job.cmds) \in Nat /\ Len(job.cmds) # 0
      BY <2>2
    <3>2. Len(Tail(job.cmds)) # 0
      BY <1>5, <3>1
    <3>3. Len(<< >>) = 0
      OBVIOUS
    <3> QED
      BY <3>2, <3>3
  <2>4. Len(<<"limit">>) = 1 /\ Len(<<"stop">>) = 1
    OBVIOUS
  <2>5. job.cmds # <<"limit">> /\ job.cmds # <<"stop">>
    BY <1>5, <2>4
  <2>6. BatchTyped(mem, job')
    BY <1>1, <2>1, <2>3, <2>5 DEF BatchTyped
  <2> QED
    BY <1>1, <1>3, <1>5, <2>1, <2>6, BatchStep DEF Send
<1> QED
  BY <1>4, <1>5 DEF Send, Next1

\* A batch that is dropped.
LEMMA SendFailsInv ==
    ASSUME Inv, SendFails
    PROVE  TypeOK' /\ PaceInv' /\ FullInv'
<1>1. pc = "send" /\ job \in Jobs /\ car \in Cars /\ events \in Nat
  BY DEF SendFails, Inv, TypeOK
<1>2. Applied(Head(job.cmds)) \in Cars
  BY <1>1, AppliedTyped DEF Inv
<1>3. << >> \in Seq(Orders)
  OBVIOUS
<1>4. job' \in Jobs /\ ~job'.first /\ pc' = "log"
      /\ UNCHANGED <<baseline, link, window, offer, gate, full, mem, disk>>
  BY <1>1, <1>3 DEF SendFails, Jobs, Kinds
<1>5. CASE UNCHANGED <<baseline, car, pace, clock, events>>
  <2>1. TypeOK'
    BY <1>4, <1>5 DEF Inv, TypeOK
  <2>2. PaceInv' /\ FullInv'
    BY <1>4, <1>5 DEF Inv, PaceInv, FullInv
  <2> QED
    BY <2>1, <2>2
<1>6. CASE car' \in {car, Applied(Head(job.cmds))} /\ Spend /\ CountBatch
  <2>1. car' \in Cars /\ events' \in Nat
    BY <1>1, <1>2, <1>6 DEF Spend
  <2> QED
    BY <1>1, <1>4, <1>6, <2>1, BatchStep
<1> QED
  BY <1>5, <1>6 DEF SendFails

\* The outcome is stored.
LEMMA LogInv ==
    ASSUME Inv, Log
    PROVE  TypeOK' /\ PaceInv' /\ FullInv'
<1> DEFINE n == Attempt(mem.stop.attempts)
           st == [mem.stop EXCEPT !.attempts = n, !.age = 0]
           counted == [mem EXCEPT !.stop = st]
<1>1. mem \in Memories /\ Limited(mem) /\ disk \in Disks /\ events \in Nat
  BY DEF Inv, TypeOK
<1>2. st \in Stops
  <2>1. mem.stop \in Stops /\ mem.stop.attempts \in 0 .. Len(Intervals)
    BY <1>1 DEF Memories, Stops
  <2>2. n \in 1 .. Len(Intervals)
    BY <2>1, AttemptFacts
  <2>3. n \in 0 .. Len(Intervals) /\ 0 \in 0 .. LastAge
    BY <2>2, IntervalFacts
  <2> HIDE DEF n
  <2> QED
    BY <2>1, <2>3 DEF Stops
<1>3. counted = [mem EXCEPT !.stop.attempts = Attempt(@), !.stop.age = 0]
  BY <1>1 DEF Memories, Stops
<1> HIDE DEF st
<1>4. Alike(mem, counted)
  BY <1>1, <1>2 DEF Alike, Memories, Limited
<1>5. /\ UNCHANGED <<world, full, pace, clock>> /\ End
      /\ mem' \in {mem, counted} /\ events' \in Nat
      /\ disk' \in {disk, Stored(mem), Stored(counted), Defaults}
  BY <1>1, <1>3 DEF Log, SaveOk, SaveKept, Kept, SaveFailed, Spend
<1> HIDE DEF counted
<1>6. mem' \in Memories /\ mem'.rec = mem.rec /\ mem'.fullAge = mem.fullAge /\ Limited(mem')
  BY <1>1, <1>4, <1>5 DEF Alike
<1>7. /\ Stored(mem) \in Disks /\ Stored(mem).rec = mem.rec /\ Stored(mem).fullAge = mem.fullAge
      /\ Stored(counted) \in Disks /\ Stored(counted).rec = mem.rec
      /\ Stored(counted).fullAge = mem.fullAge
  BY <1>1, <1>4, StoredTyped DEF Alike
<1>8. /\ disk' \in Disks
      /\ \/ disk' = disk \/ disk'.lapsed
         \/ disk'.rec = mem.rec /\ disk'.fullAge = mem.fullAge
  BY <1>1, <1>5, <1>7, DefaultsTyped
<1>9. job' \in Jobs /\ pc' = "idle"
  BY <1>5, ViewsTyped DEF End, Inv
<1>10. TypeOK'
  BY <1>5, <1>6, <1>8, <1>9 DEF Inv, TypeOK, world
<1>11. PaceInv'
  BY <1>5, <1>6, <1>8, <1>9 DEF Inv, PaceInv
<1>12. FullInv'
  BY <1>5, <1>6, <1>8, <1>9 DEF Inv, FullInv
<1> QED
  BY <1>10, <1>11, <1>12

\* A change outside the controller.
LEMMA OutsideStep ==
    ASSUME Inv, UNCHANGED <<baseline, full, mem, disk, pc, job, pace, clock>>,
           car' \in Cars, link' \in {"ok", "blind", "dark"}, window' \in BOOLEAN,
           offer' \in Offers, gate' \in {"ready", "locked", "closed"}, events' \in Nat
    PROVE  TypeOK' /\ PaceInv' /\ FullInv'
<1>1. TypeOK'
  BY DEF Inv, TypeOK
<1>2. PaceInv' /\ FullInv'
  BY DEF Inv, PaceInv, FullInv
<1> QED
  BY <1>1, <1>2

\* The driver, the car and its app.
LEMMA DriveInv ==
    ASSUME Inv, Drive
    PROVE  TypeOK' /\ PaceInv' /\ FullInv'
<1>1. car \in Cars /\ events \in Nat
  BY DEF Inv, TypeOK
<1>2. car' \in Cars
  <2>1. CASE \E on \in BOOLEAN : car' = [car EXCEPT !.plugged = TRUE, !.on = on]
    BY <1>1, <2>1 DEF Cars
  <2>2. CASE car' = [car EXCEPT !.plugged = FALSE, !.on = FALSE]
    BY <1>1, <2>2 DEF Cars
  <2>3. CASE car' = [car EXCEPT !.on = ~@]
    BY <1>1, <2>3 DEF Cars
  <2>4. CASE car' = [car EXCEPT !.amps = 3 - @]
    <3>1. car.amps \in {1, 2} /\ 3 - car.amps \in {1, 2}
      BY <1>1 DEF Cars
    <3>2. car' = [car EXCEPT !.amps = 3 - car.amps]
      BY <2>4
    <3> QED
      BY <1>1, <3>1, <3>2 DEF Cars
  <2>5. CASE car' = [car EXCEPT !.limit = IF @ = "soft" THEN "full" ELSE "soft"]
    BY <1>1, <2>5 DEF Cars
  <2> QED
    BY <2>1, <2>2, <2>3, <2>4, <2>5 DEF Drive
<1>3. events' \in Nat
  <2>1. Spend
    BY DEF Drive
  <2> QED
    BY <1>1, <2>1 DEF Spend
<1> QED
  BY <1>2, <1>3, OutsideStep DEF Drive, Inv, TypeOK

\* The cloud link, the window, the site and the gate.
LEMMA SurroundingsInv ==
    ASSUME Inv, Surroundings
    PROVE  TypeOK' /\ PaceInv' /\ FullInv'
<1>1. events' \in Nat /\ UNCHANGED <<baseline, car, full, mem, disk, pc, job, pace, clock>>
  <2>1. events \in Nat
    BY DEF Inv, TypeOK
  <2>2. Spend
    BY DEF Surroundings
  <2>3. UNCHANGED <<baseline, car, full, mem, disk, pc, job, pace, clock>>
    BY DEF Surroundings
  <2>4. events' \in Nat
    BY <2>1, <2>2 DEF Spend
  <2> QED
    BY <2>3, <2>4
<1>2. link' \in {"ok", "blind", "dark"} /\ window' \in BOOLEAN
  BY DEF Surroundings, Inv, TypeOK
<1>3. offer' \in Offers /\ gate' \in {"ready", "locked", "closed"}
  BY DEF Surroundings, Inv, TypeOK
<1> QED
  BY <1>1, <1>2, <1>3, OutsideStep DEF Inv, TypeOK

\* The request is made or withdrawn.
LEMMA RequestFullInv ==
    ASSUME Inv, RequestFull
    PROVE  TypeOK' /\ PaceInv' /\ FullInv'
<1>1. /\ pc = "idle" /\ events' \in Nat /\ full' = ~full
      /\ clock' = (IF full' THEN clock ELSE Unset)
      /\ UNCHANGED <<world, mem, disk, pc, job, pace>>
  <2>1. events \in Nat
    BY DEF Inv, TypeOK
  <2>2. Spend
    BY DEF RequestFull
  <2>3. /\ pc = "idle" /\ full' = ~full /\ clock' = (IF ~full THEN clock ELSE Unset)
        /\ UNCHANGED <<world, mem, disk, pc, job, pace>>
    BY DEF RequestFull, SetFull
  <2>4. events' \in Nat
    BY <2>1, <2>2 DEF Spend
  <2> QED
    BY <2>3, <2>4
<1>2. full' \in BOOLEAN /\ clock' \in Clocks
  BY <1>1 DEF Inv, TypeOK, FullAges, Clocks
<1>3. TypeOK'
  BY <1>1, <1>2 DEF Inv, TypeOK, world
<1>4. PaceInv'
  BY <1>1 DEF Inv, PaceInv
<1>5. FullInv'
  BY <1>1 DEF Inv, FullInv, Aged
<1> QED
  BY <1>3, <1>4, <1>5

\* A supervisory repair opens a fresh epoch.
LEMMA RepairInv ==
    ASSUME Inv, Repair
    PROVE  TypeOK' /\ PaceInv' /\ FullInv'
<1>1. /\ events' \in Nat /\ pace' = NoPace
      /\ mem' = [mem EXCEPT !.rec = NoRecord, !.decision = NoDecision]
      /\ UNCHANGED <<world, full, disk, pc, job, clock>>
  BY DEF Repair, Spend, Inv, TypeOK
<1>2. NoDecision \in Decisions /\ ~NoDecision.made /\ mem \in Memories
  BY DEF NoDecision, Decisions, Inv, TypeOK
<1>3. /\ mem' \in Memories /\ mem'.rec = NoRecord /\ mem'.fullAge = mem.fullAge
      /\ mem'.target = mem.target /\ mem'.limit = mem.limit /\ Limited(mem')
  BY <1>1, <1>2, NoRecordTyped DEF Memories, Limited
<1>4. pace' \in Paces /\ Covers(mem'.rec, pace') /\ Covers(disk'.rec, pace')
  BY <1>1, NoPaceFacts
<1>5. TypeOK'
  <2>1. pc' = "send" => BatchTyped(mem', job')
    BY <1>1, <1>3 DEF Inv, TypeOK, BatchTyped
  <2> QED
    BY <1>1, <1>3, <1>4, <2>1 DEF Inv, TypeOK, world
<1>6. PaceInv'
  BY <1>1, <1>3, <1>4 DEF PaceInv
<1>7. FullInv'
  BY <1>1, <1>3 DEF Inv, FullInv
<1> QED
  BY <1>5, <1>6, <1>7

\* A crash: memory starts again from the store.
LEMMA CrashInv ==
    ASSUME Inv, Crash
    PROVE  TypeOK' /\ PaceInv' /\ FullInv'
<1>1. /\ events' \in Nat /\ mem' = Restored(disk, full)
      /\ pc' = "idle" /\ job' \in Jobs
      /\ pace' = [pace EXCEPT !.lapsed = pace.lapsed \/ disk.lapsed]
      /\ clock' = IF disk.lapsed /\ clock # Unset THEN Lapsed ELSE clock
      /\ UNCHANGED <<world, full, disk>>
  BY ViewsTyped DEF Crash, End, Spend, Inv, TypeOK
<1>2. mem' \in Memories /\ mem'.rec = disk.rec /\ mem'.fullAge = disk.fullAge /\ Limited(mem')
  <2>1. disk \in Disks /\ full \in BOOLEAN
    BY DEF Inv, TypeOK
  <2> QED
    BY <1>1, <2>1, RestoredFacts
<1>3. /\ pace' \in Paces /\ pace'.lapsed = (pace.lapsed \/ disk.lapsed)
      /\ pace'.n = pace.n /\ pace'.age = pace.age
      /\ pace'.amps = pace.amps /\ pace'.limit = pace.limit
  <2>1. pace \in Paces /\ (pace.lapsed \/ disk.lapsed) \in BOOLEAN
    BY DEF Inv, TypeOK
  <2> QED
    BY <1>1, <2>1 DEF Paces
<1>4. clock' \in Clocks
  BY <1>1 DEF Inv, TypeOK, Clocks
<1>5. TypeOK'
  BY <1>1, <1>2, <1>3, <1>4 DEF Inv, TypeOK, world
<1>6. PaceInv'
  <2>1. Covers(disk.rec, pace')
    BY <1>3 DEF Inv, PaceInv, Covers
  <2> QED
    BY <1>1, <1>2, <2>1 DEF PaceInv
<1>7. FullInv'
  <2>1. Aged(disk.fullAge, clock')
    BY <1>1 DEF Inv, FullInv, Aged
  <2>2. ~full => clock' = Unset
    BY <1>1 DEF Inv, FullInv
  <2> QED
    BY <1>1, <1>2, <2>1, <2>2 DEF FullInv
<1> QED
  BY <1>5, <1>6, <1>7

\* A tick makes a record older by at most one, up to the longest interval.
LEMMA OlderRecord ==
    ASSUME NEW r \in Records, NEW q, q = Older(r)
    PROVE  /\ q \in Records /\ q.amps = r.amps /\ q.limit = r.limit /\ q.attempts = r.attempts
           /\ q.age = IF r.attempts > 0 /\ r.age < LastAge THEN r.age + 1 ELSE r.age
<1>1. LastAge \in Nat /\ r.age \in 0 .. LastAge
  BY IntervalFacts DEF Records
<1>2. r.age < LastAge => r.age + 1 \in 0 .. LastAge
  BY <1>1
<1>3. CASE r.attempts > 0 /\ r.age < LastAge
  <2>1. q = [r EXCEPT !.age = r.age + 1]
    BY <1>3 DEF Older
  <2> QED
    BY <1>2, <1>3, <2>1 DEF Records
<1>4. CASE ~(r.attempts > 0 /\ r.age < LastAge)
  <2>1. q = r
    BY <1>4 DEF Older
  <2> QED
    BY <1>4, <2>1
<1> QED
  BY <1>3, <1>4

\* So it does to a stop obligation.
LEMMA OlderStop ==
    ASSUME NEW r \in Stops
    PROVE  Older(r) \in Stops
<1>1. LastAge \in Nat /\ r.age \in 0 .. LastAge
  BY IntervalFacts DEF Stops
<1>2. r.age < LastAge => r.age + 1 \in 0 .. LastAge
  BY <1>1
<1>3. CASE r.attempts > 0 /\ r.age < LastAge
  <2>1. Older(r) = [r EXCEPT !.age = r.age + 1]
    BY <1>3 DEF Older
  <2> QED
    BY <1>2, <1>3, <2>1 DEF Stops
<1>4. CASE ~(r.attempts > 0 /\ r.age < LastAge)
  <2>1. Older(r) = r
    BY <1>4 DEF Older
  <2> QED
    BY <1>4, <2>1
<1> QED
  BY <1>3, <1>4

\* A request's age and the time since its first use grow together.
LEMMA OlderAged ==
    ASSUME NEW a \in FullAges, NEW c \in Clocks
    PROVE  /\ OlderFull(a) \in FullAges /\ OlderFull(c) \in Clocks
           /\ Aged(a, c) => Aged(OlderFull(a), OlderFull(c))
           /\ OlderFull(Unset) = Unset
  BY MaxFullAssumption DEF FullAges, Clocks, Aged, OlderFull, Unset, Lapsed

\* Time passes.
LEMMA TickInv ==
    ASSUME Inv, Tick
    PROVE  TypeOK' /\ PaceInv' /\ FullInv'
<1>1. /\ mem \in Memories /\ disk \in Disks /\ pace \in Paces /\ clock \in Clocks
      /\ Limited(mem) /\ Covers(mem.rec, pace) /\ (disk.lapsed \/ Covers(disk.rec, pace))
      /\ Aged(mem.fullAge, clock) /\ (disk.lapsed \/ Aged(disk.fullAge, clock))
      /\ ~full => clock = Unset
  BY DEF Inv, TypeOK, PaceInv, FullInv
<1>2. /\ mem.rec \in Records /\ mem.stop \in Stops /\ mem.fullAge \in FullAges
      /\ disk.rec \in Records /\ disk.stop \in Stops /\ disk.fullAge \in FullAges
      /\ mem.decision \in Decisions
  BY <1>1 DEF Memories, Disks
<1> DEFINE mr == Older(mem.rec)
           dr == Older(disk.rec)
           ms == Older(mem.stop)
           ds == Older(disk.stop)
           ma == OlderFull(mem.fullAge)
           da == OlderFull(disk.fullAge)
           md == [mem.decision EXCEPT !.stale = TRUE]
<1>3. mr \in Records /\ dr \in Records /\ ms \in Stops /\ ds \in Stops
  BY <1>2, OlderRecord, OlderStop
<1>4. ma \in FullAges /\ da \in FullAges /\ clock' \in Clocks
  BY <1>1, <1>2, OlderAged DEF Tick
<1>5. md \in Decisions /\ md.made = mem.decision.made
  BY <1>2 DEF Decisions
<1>6. mem' = [mem EXCEPT !.rec = mr, !.stop = ms, !.fullAge = ma, !.decision = md]
  BY <1>1 DEF Tick, OlderState, Memories
<1>7. disk' = [disk EXCEPT !.rec = dr, !.stop = ds, !.fullAge = da]
  BY DEF Tick, OlderState
<1>8. pace' \in Paces /\ Covers(mr, pace') /\ (disk.lapsed \/ Covers(dr, pace'))
  <2>1. LastAge \in Nat /\ Len(Intervals) \in Nat /\ pace.n \in Nat /\ pace.age \in 0 .. LastAge
    BY <1>1, IntervalFacts DEF Paces
  <2>2. CASE pace.n > 0 /\ pace.age < LastAge
    <3>1. pace' = [pace EXCEPT !.age = pace.age + 1]
      BY <2>2 DEF Tick
    <3>2. pace.age + 1 \in 0 .. LastAge
      BY <2>1, <2>2
    <3>3. /\ pace' \in Paces /\ pace'.n = pace.n /\ pace'.amps = pace.amps
          /\ pace'.limit = pace.limit /\ pace'.age = pace.age + 1
          /\ pace'.lapsed = pace.lapsed
      BY <1>1, <3>1, <3>2 DEF Paces
    <3>4. ASSUME NEW r \in Records, Covers(r, pace)
          PROVE  Covers(Older(r), pace')
      <4>1. r.age \in 0 .. LastAge
        BY DEF Records
      <4>2. pace.lapsed \/ (/\ r.age <= pace.age /\ r.amps = pace.amps
                            /\ r.limit = pace.limit /\ r.attempts >= pace.n)
        BY <2>2, <3>4 DEF Covers
      <4>3. /\ Older(r).amps = r.amps /\ Older(r).limit = r.limit /\ Older(r).attempts = r.attempts
            /\ Older(r).age = IF r.attempts > 0 /\ r.age < LastAge THEN r.age + 1 ELSE r.age
        BY OlderRecord
      <4>4. pace.lapsed \/ Older(r).age <= pace'.age
        BY <2>1, <3>3, <4>1, <4>2, <4>3
      <4> QED
        BY <3>3, <4>2, <4>3, <4>4 DEF Covers
    <3> QED
      BY <1>1, <1>2, <3>3, <3>4
  <2>3. CASE ~(pace.n > 0 /\ pace.age < LastAge)
    <3>1. pace' = pace
      BY <2>3 DEF Tick
    <3>2. ASSUME NEW r \in Records, Covers(r, pace)
          PROVE  Covers(Older(r), pace)
      <4>1. CASE pace.n > 0
        <5>1. pace.age = LastAge
          BY <2>1, <2>3, <4>1
        <5>2. /\ Older(r) \in Records
              /\ Older(r).amps = r.amps /\ Older(r).limit = r.limit /\ Older(r).attempts = r.attempts
          BY OlderRecord
        <5>3. Older(r).age <= LastAge
          BY <2>1, <5>2 DEF Records
        <5> QED
          BY <3>2, <5>1, <5>2, <5>3 DEF Covers
      <4>2. CASE ~(pace.n > 0)
        BY <4>2 DEF Covers
      <4> QED
        BY <4>1, <4>2
    <3> QED
      BY <1>1, <1>2, <3>1, <3>2
  <2> QED
    BY <2>2, <2>3
<1>9. /\ Aged(ma, clock') /\ (disk.lapsed \/ Aged(da, clock'))
      /\ ~full => clock' = Unset
  BY <1>1, <1>2, OlderAged DEF Tick
<1> HIDE DEF mr, dr, ms, ds, ma, da, md
<1>10. mem' \in Memories
  BY <1>1, <1>3, <1>4, <1>5, <1>6 DEF Memories
<1>11. /\ mem'.rec = mr /\ mem'.fullAge = ma /\ mem'.decision = md /\ mem'.limit = mem.limit
  BY <1>1, <1>6 DEF Memories
<1>12. disk' \in Disks
  BY <1>1, <1>3, <1>4, <1>7 DEF Disks
<1>13. disk'.rec = dr /\ disk'.fullAge = da /\ disk'.lapsed = disk.lapsed
  BY <1>1, <1>7 DEF Disks
<1>14. Limited(mem')
  BY <1>1, <1>5, <1>11 DEF Limited
<1>15. pc = "idle" /\ UNCHANGED <<world, full, pc, job, events>>
  BY DEF Tick
<1>16. TypeOK'
  BY <1>4, <1>8, <1>10, <1>12, <1>14, <1>15 DEF Inv, TypeOK, world
<1>17. PaceInv'
  BY <1>8, <1>11, <1>13, <1>15 DEF PaceInv
<1>18. FullInv'
  BY <1>9, <1>11, <1>13, <1>15 DEF FullInv
<1> QED
  BY <1>16, <1>17, <1>18

-----------------------------------------------------------------------------
(* The invariant of the direct path and what it gives.                       *)

\* The controller starts with nothing stored, nothing sent and nothing asked.
LEMMA InitInv == Init => Inv
<1> SUFFICES ASSUME Init PROVE Inv
  OBVIOUS
<1>1. NewDisk \in Disks /\ NewDisk.rec = NoRecord /\ NewDisk.fullAge = Unset
  BY DefaultsTyped DEF NewDisk
<1>2. /\ mem \in Memories /\ mem.rec = NoRecord /\ mem.fullAge = Unset /\ Limited(mem)
  BY <1>1, RestoredFacts DEF Init
<1>3. NoView \in Views
  BY DEF NoView, Views
<1>4. << >> \in Seq(Orders)
  OBVIOUS
<1>5. job \in Jobs
  BY <1>3, <1>4 DEF Init, NoJob, Jobs, Kinds
<1>6. car \in Cars
  BY DEF Init, Cars
<1>7. pace \in Paces /\ Covers(mem.rec, pace) /\ Covers(disk.rec, pace)
  BY NoPaceFacts DEF Init
<1>8. /\ baseline \in {0, 1} /\ link \in {"ok", "blind", "dark"} /\ window \in BOOLEAN
      /\ offer \in Offers /\ gate \in {"ready", "locked", "closed"} /\ full \in BOOLEAN
      /\ pc = "idle" /\ disk = NewDisk /\ clock = Unset /\ events \in Nat /\ ~full
  BY DEF Init, Offers
<1>9. clock \in Clocks
  BY <1>8 DEF FullAges, Clocks
<1>10. TypeOK
  BY <1>1, <1>2, <1>5, <1>6, <1>7, <1>8, <1>9 DEF TypeOK
<1>11. PaceInv
  BY <1>7, <1>8 DEF PaceInv
<1>12. FullInv
  BY <1>8 DEF FullInv, Aged
<1> QED
  BY <1>10, <1>11, <1>12 DEF Inv

\* Every step keeps it.
LEMMA NextInv == Inv /\ [Next]_vars => Inv'
<1> SUFFICES ASSUME Inv, [Next]_vars PROVE TypeOK' /\ PaceInv' /\ FullInv'
  BY DEF Inv
<1>1. CASE Look
  BY <1>1, LookStep, DecidedInv
<1>2. CASE Decide
  BY <1>2, DecideDecides, DecidedInv
<1>3. CASE StopAfterSave
  BY <1>3, StopAfterSaveDecides, DecidedInv
<1>4. CASE Send
  BY <1>4, SendInv
<1>5. CASE SendFails
  BY <1>5, SendFailsInv
<1>6. CASE Log
  BY <1>6, LogInv
<1>7. CASE Drive
  BY <1>7, DriveInv
<1>8. CASE Surroundings
  BY <1>8, SurroundingsInv
<1>9. CASE RequestFull
  BY <1>9, RequestFullInv
<1>10. CASE Repair
  BY <1>10, RepairInv
<1>11. CASE Crash
  BY <1>11, CrashInv
<1>12. CASE Tick
  BY <1>12, TickInv
<1>13. CASE UNCHANGED vars
  <2>1. TypeOK'
    BY <1>13 DEF Inv, TypeOK, vars, world
  <2>2. PaceInv' /\ FullInv'
    BY <1>13 DEF Inv, PaceInv, FullInv, vars, world
  <2> QED
    BY <2>1, <2>2
<1> QED
  BY <1>1, <1>2, <1>3, <1>4, <1>5, <1>6, <1>7, <1>8, <1>9, <1>10, <1>11, <1>12, <1>13
     DEF Next, Cycle

\* The inductive invariant of the direct path: in memory, and in a store that was not
\* replaced by the defaults, the record covers the batches that were really sent and
\* the request's age covers the time since it was first acted on.
THEOREM EvInvariant == Spec => []Inv
<1>1. Init => Inv
  BY InitInv
<1>2. Inv /\ [Next]_vars => Inv'
  BY NextInv
<1> QED
  BY <1>1, <1>2, PTL DEF Spec

\* The restart-safe backoff, for every sequence of retry intervals that does not
\* decrease and any number of crashes, failing saves and failing services.  What
\* WritesPaced leaves out is left out here: the first batch after a restart that found
\* the defaults in place of the record (Kept, ev_persistence.py:268-272).
THEOREM Backoff == Spec => []WritesPaced
<1>1. Inv => WritesPaced
  <2> SUFFICES ASSUME Inv, pc = "send", job.kind = "direct", job.first,
                      pace.n > 0, ~pace.lapsed
               PROVE  pace.age >= Intervals[pace.n]
    BY DEF WritesPaced
  <2>1. NoPace.n = 0
    BY DEF NoPace
  <2> QED
    BY <2>1 DEF Inv, PaceInv, Paced
<1> QED
  BY <1>1, EvInvariant, PTL

\* A charge past the policy cap ends with its request or with the request's time,
\* counted from its first use, for every time a request may last; anew after a restart
\* that found the defaults in place of its start (Kept).
THEOREM FullBounded == Spec => []FullLimitBounded
<1>1. Inv => FullLimitBounded
  <2> SUFFICES ASSUME Inv, pc = "send", mem.limit = "full", job.kind # "stop"
               PROVE  full /\ (clock # Lapsed => clock < MaxFull)
    BY DEF FullLimitBounded
  <2>1. full /\ job.kind = "direct"
    BY DEF Inv, FullInv
  <2>2. mem.fullAge \in 0 .. MaxFull - 1 /\ Aged(mem.fullAge, clock)
    BY <2>1 DEF Inv, FullInv
  <2>3. clock \in Clocks /\ MaxFull \in Nat \ {0}
    BY MaxFullAssumption DEF Inv, TypeOK
  <2>4. clock # Lapsed => clock < MaxFull
    BY <2>2, <2>3 DEF Aged, FullAges, Clocks, Unset
  <2> QED
    BY <2>1, <2>4
<1> QED
  BY <1>1, EvInvariant, PTL

-----------------------------------------------------------------------------
(* The free-window planner: what it promises for every evidence, rating, step *)
(* and projection.                                                            *)

\* Rounding to a step goes down by less than a step.
LEMMA SteppedBounds ==
    ASSUME NEW a \in Int, NEW s \in Nat \ {0}
    PROVE  Stepped(a, s) \in Int /\ Stepped(a, s) <= a /\ a < Stepped(a, s) + s
  BY DEF Stepped

\* Whole minutes of a rounded share of a budget never exceed the budget.
LEMMA ShareFits ==
    ASSUME NEW budget \in Int, NEW minutes \in Nat \ {0}, NEW s \in Nat \ {0}
    PROVE  Stepped(budget \div minutes, s) * minutes <= budget
<1>1. budget \div minutes \in Int /\ (budget \div minutes) * minutes <= budget  OBVIOUS
<1>2. Stepped(budget \div minutes, s) \in Int /\ Stepped(budget \div minutes, s) <= budget \div minutes
  BY <1>1, SteppedBounds
<1> DEFINE q == budget \div minutes
           r == Stepped(budget \div minutes, s)
<1> HIDE DEF q, r
<1>3. q \in Int /\ r \in Int /\ r <= q /\ q * minutes <= budget  BY <1>1, <1>2 DEF q, r
<1>4. r * minutes <= q * minutes  BY <1>3
<1> QED  BY <1>3, <1>4 DEF r

\* The floors and caps of the current lie within the path's rating.
LEMMA FloorBounds ==
    ASSUME NEW e \in Evidence
    PROVE  /\ Baseline(e) \in Nat \ {0} /\ Baseline(e) <= e.ceiling
           /\ Minimum(e) \in Nat \ {0} /\ Minimum(e) <= e.ceiling
           /\ Hold(e) \in Nat /\ Hold(e) <= e.ceiling
           /\ Baseline(e) <= Hold(e) /\ Minimum(e) <= Hold(e)
           /\ GridError(e) \in Int /\ Shortfall(e) \in Nat
<1>1. Baseline(e) \in Nat \ {0} /\ Baseline(e) <= e.ceiling
  BY DEF Evidence, Baseline, AtMost, AtLeast
<1>2. Minimum(e) \in Nat \ {0} /\ Minimum(e) <= e.ceiling
  BY DEF Evidence, Minimum, AtMost, AtLeast
<1>3. /\ Hold(e) \in Nat /\ Hold(e) <= e.ceiling
      /\ Baseline(e) <= Hold(e) /\ Minimum(e) <= Hold(e)
  <2>1. e.ceiling \in Nat /\ e.requested \in Nat  BY DEF Evidence
  <2> QED  BY <1>1, <1>2, <2>1 DEF Hold, AtMost, AtLeast
<1>4. GridError(e) \in Int
  BY DEF Evidence, GridError, GridTarget, AtLeast
<1>5. Shortfall(e) \in Nat
  BY DEF Evidence, Shortfall, AtLeast
<1> QED  BY <1>1, <1>2, <1>3, <1>4, <1>5

\* A current moved by what is left never exceeds it, unless its floor does.
LEMMA AlignedBounds ==
    ASSUME NEW e \in Evidence, NEW spare \in Int, NEW f \in Nat, f <= e.ceiling
    PROVE  /\ Aligned(e, spare, f) \in f .. e.ceiling
           /\ Aligned(e, spare, f) <= AtLeast(e.drawn + spare, f)
<1>1. e.drawn + spare \in Int /\ e.step \in Nat \ {0} /\ e.ceiling \in Nat  BY DEF Evidence
<1>2. /\ Stepped(e.drawn + spare, e.step) \in Int
      /\ Stepped(e.drawn + spare, e.step) <= e.drawn + spare
  BY <1>1, SteppedBounds
<1> QED  BY <1>1, <1>2 DEF Aligned, AtMost, AtLeast

\* Without the allowance the target lies between the smaller floor and the rating.
LEMMA BaseBounds ==
    ASSUME NEW e \in Evidence
    PROVE  BaseTarget(e) \in AtMost(Baseline(e), Minimum(e)) .. e.ceiling
<1>1. /\ Baseline(e) \in Nat /\ Minimum(e) \in Nat /\ Hold(e) \in Nat /\ e.ceiling \in Nat
      /\ Baseline(e) <= e.ceiling /\ Minimum(e) <= e.ceiling /\ Hold(e) <= e.ceiling
      /\ Baseline(e) <= Hold(e) /\ Minimum(e) <= Hold(e)
      /\ GridError(e) \in Int /\ GridError(e) - Shortfall(e) \in Int
  BY FloorBounds DEF Evidence
<1>2. Aligned(e, GridError(e), Baseline(e)) \in Baseline(e) .. e.ceiling  BY <1>1, AlignedBounds
<1>3. Aligned(e, GridError(e) - Shortfall(e), Minimum(e)) \in Minimum(e) .. e.ceiling
  BY <1>1, AlignedBounds
<1>4. PlanCurrent(e) \in {Baseline(e), Minimum(e), Hold(e), e.ceiling,
                          Aligned(e, GridError(e), Baseline(e)),
                          Aligned(e, GridError(e) - Shortfall(e), Minimum(e))}
  BY DEF PlanCurrent
<1>5. BaseTarget(e) \in {PlanCurrent(e), Baseline(e)}  BY DEF BaseTarget
<1> QED  BY <1>1, <1>2, <1>3, <1>4, <1>5 DEF AtMost

\* The allowance only lowers a target, and never below the smaller of target and floor.
LEMMA CeilingBounds ==
    ASSUME NEW base \in Nat, NEW f \in Nat, NEW physical \in Nat, NEW step \in Nat \ {0},
           NEW p \in Projections
    PROVE  AllowanceCeiling(base, f, physical, step, p) \in AtMost(f, base) .. base
<1> DEFINE kept == AtMost(f, base)
           cap == AtMost(Stepped(CarBudget(p) \div p.remaining, step), base)
<1>1. kept \in Nat /\ kept <= base  BY DEF AtMost
<1>2. AllowanceCeiling(base, f, physical, step, p) \in {kept, base, AtLeast(cap, kept)}
  BY DEF AllowanceCeiling
<1>3. CASE AllowanceCeiling(base, f, physical, step, p) \in {kept, base}  BY <1>1, <1>3
<1>4. CASE p.remaining = 0
  BY <1>1, <1>4 DEF AllowanceCeiling
<1>5. CASE p.remaining # 0 /\ AllowanceCeiling(base, f, physical, step, p) = AtLeast(cap, kept)
  <2>1. CarBudget(p) \in Int /\ p.remaining \in Nat \ {0}
    BY <1>5 DEF CarBudget, OtherImport, HouseLoad, AtLeast, Projections
  <2>2. CarBudget(p) \div p.remaining \in Int  BY <2>1
  <2>3. Stepped(CarBudget(p) \div p.remaining, step) \in Int  BY <2>2, SteppedBounds
  <2>4. cap \in Int /\ cap <= base  BY <2>3 DEF AtMost
  <2> HIDE DEF cap, kept
  <2>5. AtLeast(cap, kept) \in kept .. base  BY <1>1, <2>4 DEF AtLeast
  <2> QED  BY <1>5, <2>5 DEF kept
<1> QED  BY <1>2, <1>3, <1>4, <1>5

\* Whatever the guard makes of it, a target is the base target, the baseline, or lower
\* than the base target and at least the smaller of the two.
LEMMA TargetFromBase ==
    ASSUME NEW e \in Evidence, NEW p \in Projections, NEW guard \in BOOLEAN
    PROVE  /\ BaseTarget(e) \in Nat /\ Baseline(e) \in Nat
           /\ \/ FreeWindowTarget(e, p, guard) = Baseline(e)
              \/ FreeWindowTarget(e, p, guard) \in AtMost(Baseline(e), BaseTarget(e)) .. BaseTarget(e)
<1>1. BaseTarget(e) \in Nat /\ Baseline(e) \in Nat
  BY BaseBounds, FloorBounds DEF AtMost, Evidence
<1>2. e.physical \in Nat /\ e.step \in Nat \ {0}  BY DEF Evidence
<1>3. AllowanceCeiling(BaseTarget(e), Baseline(e), e.physical, e.step, p)
        \in AtMost(Baseline(e), BaseTarget(e)) .. BaseTarget(e)
  BY <1>1, <1>2, CeilingBounds
<1> QED  BY <1>1, <1>3 DEF FreeWindowTarget, AtMost

\* No correction, priority or allowance leaves the path's rating or makes a car pause.
THEOREM Ratings ==
    ASSUME NEW e \in Evidence, NEW p \in Projections, NEW guard \in BOOLEAN
    PROVE  WithinRatings(e, p, guard)
<1>1. /\ Baseline(e) \in Nat /\ Minimum(e) \in Nat /\ e.ceiling \in Nat
      /\ Baseline(e) <= e.ceiling /\ Minimum(e) <= e.ceiling
  BY FloorBounds DEF Evidence
<1>2. BaseTarget(e) \in AtMost(Baseline(e), Minimum(e)) .. e.ceiling  BY BaseBounds
<1>3. /\ BaseTarget(e) \in Nat
      /\ \/ FreeWindowTarget(e, p, guard) = Baseline(e)
         \/ FreeWindowTarget(e, p, guard) \in AtMost(Baseline(e), BaseTarget(e)) .. BaseTarget(e)
  BY TargetFromBase
<1> QED  BY <1>1, <1>2, <1>3 DEF WithinRatings, AtMost

\* An import above the service limit lowers the car before every other concern.
THEOREM OverrunFirst ==
    ASSUME NEW e \in Evidence, NEW p \in Projections, NEW guard \in BOOLEAN
    PROVE  OverrunCorrected(e, p, guard)
<1> SUFFICES ASSUME Overrun(e)
             PROVE  FreeWindowTarget(e, p, guard) <= AtLeast(e.drawn + GridError(e), Baseline(e))
  BY DEF OverrunCorrected
<1>1. Baseline(e) \in Nat /\ Baseline(e) <= e.ceiling /\ GridError(e) \in Int /\ e.drawn \in Nat
  BY FloorBounds DEF Evidence
<1>2. Aligned(e, GridError(e), Baseline(e)) <= AtLeast(e.drawn + GridError(e), Baseline(e))
  BY <1>1, AlignedBounds
<1>3. BaseTarget(e) \in {Baseline(e), Aligned(e, GridError(e), Baseline(e))}
  BY DEF BaseTarget, PlanCurrent
<1>4. BaseTarget(e) <= AtLeast(e.drawn + GridError(e), Baseline(e))
  BY <1>1, <1>2, <1>3 DEF AtLeast
<1>5. /\ BaseTarget(e) \in Nat
      /\ \/ FreeWindowTarget(e, p, guard) = Baseline(e)
         \/ FreeWindowTarget(e, p, guard) \in AtMost(Baseline(e), BaseTarget(e)) .. BaseTarget(e)
  BY TargetFromBase
<1> QED  BY <1>1, <1>4, <1>5 DEF AtMost, AtLeast

\* What the house battery lacks is not given to the car.
THEOREM BatteryFirst ==
    ASSUME NEW e \in Evidence, NEW p \in Projections, NEW guard \in BOOLEAN
    PROVE  BatteryComesFirst(e, p, guard)
<1> DEFINE left == e.drawn + GridError(e) - Shortfall(e)
<1> SUFFICES ASSUME e.settled, e.grid, e.feedback, e.battery, ~e.batteryFull, ~e.full, ~e.priority,
                    ~Overrun(e), e.limit > 0, Shortfall(e) > 0
             PROVE  FreeWindowTarget(e, p, guard) <= AtLeast(AtLeast(left, Minimum(e)), Baseline(e))
  BY DEF BatteryComesFirst
<1>1. /\ Baseline(e) \in Nat /\ Minimum(e) \in Nat /\ Minimum(e) <= e.ceiling
      /\ GridError(e) \in Int /\ Shortfall(e) \in Nat /\ e.drawn \in Nat
  BY FloorBounds DEF Evidence
<1>2. GridError(e) - Shortfall(e) \in Int /\ left = e.drawn + (GridError(e) - Shortfall(e)) /\ left \in Int
  BY <1>1
<1>3. Aligned(e, GridError(e) - Shortfall(e), Minimum(e)) <= AtLeast(left, Minimum(e))
  BY <1>1, <1>2, AlignedBounds
<1>4. BaseTarget(e) \in {Baseline(e), Minimum(e), Aligned(e, GridError(e) - Shortfall(e), Minimum(e))}
  BY <1>1 DEF BaseTarget, PlanCurrent, Evidence
<1>5. /\ BaseTarget(e) \in Nat
      /\ \/ FreeWindowTarget(e, p, guard) = Baseline(e)
         \/ FreeWindowTarget(e, p, guard) \in AtMost(Baseline(e), BaseTarget(e)) .. BaseTarget(e)
  BY TargetFromBase
<1> HIDE DEF left
<1>6. BaseTarget(e) <= AtLeast(AtLeast(left, Minimum(e)), Baseline(e))
  BY <1>1, <1>2, <1>3, <1>4, <1>5 DEF AtLeast
<1> QED  BY <1>1, <1>2, <1>5, <1>6 DEF AtMost, AtLeast

\* A guarded current above the baseline fits the day's allowance.
THEOREM Allowance ==
    ASSUME NEW e \in Evidence, NEW p \in Projections
    PROVE  AllowanceKept(e, p)
<1> DEFINE amps == FreeWindowTarget(e, p, TRUE)
           base == BaseTarget(e)
           cap == AtMost(Stepped(CarBudget(p) \div p.remaining, e.step), base)
           spent == p.imported + OtherImport(p) + p.margin
<1> SUFFICES ASSUME amps > Baseline(e), ~Unreachable(p)
             PROVE  spent + AtMost(p.need, amps * p.remaining) <= p.allowance
  BY DEF AllowanceKept
<1>1. base \in Nat /\ Baseline(e) \in Nat  BY TargetFromBase
<1>2. /\ p.remaining \in Nat /\ p.need \in Nat /\ p.allowance \in Nat /\ spent \in Int
      /\ CarBudget(p) = p.allowance - spent /\ CarBudget(p) \in Int
  BY DEF Projections, CarBudget, OtherImport, HouseLoad, AtLeast
<1>3. amps = AllowanceCeiling(base, Baseline(e), e.physical, e.step, p)
  BY <1>1 DEF FreeWindowTarget
<1>4. AtMost(Baseline(e), base) \in Nat /\ AtMost(Baseline(e), base) <= Baseline(e)
  BY <1>1 DEF AtMost
<1>5. amps \in Nat
  <2>1. e.physical \in Nat /\ e.step \in Nat \ {0}  BY DEF Evidence
  <2> HIDE DEF amps, base, cap, spent
  <2>2. amps \in AtMost(Baseline(e), base) .. base  BY <1>1, <1>3, <2>1, CeilingBounds
  <2> QED  BY <1>1, <1>4, <2>2
<1>6. \/ p.need <= CarBudget(p)
      \/ p.remaining # 0 /\ amps = AtLeast(cap, AtMost(Baseline(e), base))
  <2> DEFINE kept == AtMost(Baseline(e), base)
  <2>1. amps # kept
    <3> HIDE DEF amps, base
    <3> QED  BY <1>1, <1>4, <1>5
  <2>2. \/ amps = kept \/ p.need <= CarBudget(p)
        \/ p.remaining # 0 /\ amps = AtLeast(cap, kept)
    BY <1>3 DEF AllowanceCeiling
  <2> QED  BY <2>1, <2>2
<1>7. CASE p.need <= CarBudget(p)
  <2> HIDE DEF spent, amps
  <2>1. amps * p.remaining \in Int  BY <1>2, <1>5
  <2>2. AtMost(p.need, amps * p.remaining) <= p.need /\ AtMost(p.need, amps * p.remaining) \in Int
    BY <1>2, <2>1 DEF AtMost
  <2> QED  BY <1>2, <1>7, <2>2
<1>8. CASE p.remaining # 0 /\ amps = AtLeast(cap, AtMost(Baseline(e), base))
  <2>1. p.remaining \in Nat \ {0} /\ e.step \in Nat \ {0}  BY <1>2, <1>8 DEF Evidence
  <2> DEFINE share == Stepped(CarBudget(p) \div p.remaining, e.step)
  <2>2. CarBudget(p) \div p.remaining \in Int  BY <1>2, <2>1
  <2>3. share \in Int  BY <2>1, <2>2, SteppedBounds
  <2>4. share * p.remaining <= CarBudget(p)  BY <1>2, <2>1, ShareFits
  <2>5. cap = AtMost(share, base)  OBVIOUS
  <2> HIDE DEF share, cap, base, amps, spent
  <2>6. amps <= share  BY <1>1, <1>4, <1>8, <2>3, <2>5 DEF AtMost, AtLeast
  <2>7. amps * p.remaining <= share * p.remaining /\ amps * p.remaining \in Int
        /\ share * p.remaining \in Int
    BY <1>5, <2>1, <2>3, <2>6
  <2>8. AtMost(p.need, amps * p.remaining) <= amps * p.remaining
        /\ AtMost(p.need, amps * p.remaining) \in Int
    BY <1>2, <2>7 DEF AtMost
  <2> QED  BY <1>2, <2>4, <2>7, <2>8
<1> QED  BY <1>6, <1>7, <1>8

\* The charge limit stays under its cap and above a protected car's own level.
THEOREM ChargeLimit ==
    ASSUME NEW c \in LimitEvidence
    PROVE  LimitKept(c)
<1>1. /\ c.soc + c.headroom \in Nat /\ -(c.soc + c.headroom) \in Int /\ c.step \in Nat \ {0}
      /\ c.policy \in Nat /\ c.least \in Nat /\ c.most \in Nat /\ c.current \in Nat
  BY DEF LimitEvidence
<1>2. Stepped(-(c.soc + c.headroom), c.step) \in Int
      /\ Stepped(-(c.soc + c.headroom), c.step) <= -(c.soc + c.headroom)
  BY <1>1, SteppedBounds
<1>3. Guard(c) \in Int /\ Guard(c) >= c.soc + c.headroom  BY <1>1, <1>2 DEF Guard
<1>4. Most(c) \in Nat /\ (~c.full => Most(c) <= NonOverrideLimit)
  BY <1>1 DEF Most, AtMost, NonOverrideLimit
<1>5. Clipped(c.policy, c) \in Int /\ Clipped(Guard(c), c) \in Int
  BY <1>1, <1>3, <1>4 DEF Clipped, AtMost, AtLeast
<1>6. ~c.full => ChargeLimitTarget(c) <= NonOverrideLimit
  BY <1>1, <1>4, <1>5 DEF ChargeLimitTarget, AtMost, AtLeast, NonOverrideLimit
<1>7. Clipped(Guard(c), c) >= AtMost(c.soc + c.headroom, Most(c))
  BY <1>1, <1>3, <1>4 DEF Clipped, AtMost, AtLeast
<1>8. c.connected /\ c.protected /\ c.known
        => ChargeLimitTarget(c) >= AtMost(c.soc + c.headroom, Most(c))
  BY <1>1, <1>4, <1>5, <1>7 DEF ChargeLimitTarget, AtMost, AtLeast
<1> QED  BY <1>6, <1>8 DEF LimitKept
=============================================================================
