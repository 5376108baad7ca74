---------------------------- MODULE MarketMonitor ----------------------------
(***************************************************************************)
(* The observer of the electricity market that price-triggered export asks *)
(* for permission (aemo_monitor.py, amber_price.py).  It downloads the     *)
(* official dispatch reports and reads the native Amber price entity,      *)
(* keeps the evidence of the current five-minute interval, and answers     *)
(* export_result: the last confirmed price, for half an interval after its *)
(* own has ended at most.                                                  *)
(*                                                                         *)
(* One tick is 150 s: half an interval, and the whole publication grace.   *)
(* A report is known by its serial number within its interval, an Amber    *)
(* reading by the stamp of its last update; the numbers start anew with    *)
(* every interval.  Prices are 1 and 2 and thresholds are prices.          *)
(***************************************************************************)
EXTENDS Integers, Sequences, SequencesExt, FiniteSetsExt

CONSTANTS
    Configurations,     \* the settings the operator switches between
    MaxTime, MaxSerial, MaxStamp, MaxChanges
ASSUME ConfigurationsAssumption ==
    Configurations \subseteq [on : BOOLEAN, threshold : {1, 2}, amber : BOOLEAN]
ASSUME MonitorBoundsAssumption ==
    {MaxTime, MaxSerial, MaxStamp, MaxChanges} \subseteq Nat

VARIABLES
    clock,                                  \* ticks
    feed, native,                           \* reports published, Amber's entity
    cfg, running,                           \* the settings, the process
    obs, aemo, last, confirmed, result,     \* evidence in memory
    active, expiry,                         \* the candidate and its timer
    saving, store,                          \* the store, and a save that holds the lock
    fetch, heard,                           \* downloads, a change of the entity
    known,                                  \* history: the newest evidence used
    changes                                 \* changes of the world and faults so far
sources == <<feed, native>>
memory == <<obs, aemo, last, confirmed, result, active, expiry>>
monitorVars == <<clock, sources, cfg, running, memory, saving, store, fetch, heard, known,
                 changes>>

Interval(t) == 1 + t \div 2
StartOf(i) == 2 * (i - 1)
Grace == 1
Change == changes < MaxChanges /\ changes' = changes + 1

-----------------------------------------------------------------------------
(* Evidence *)

\* Price 0 stands for no price and interval 0 for none.
NoRecord == [src |-> "none", int |-> 0, price |-> 0, restr |-> "no", serial |-> 0,
             status |-> "missing", threshold |-> 0]
HasPrice(r) == r.price > 0
HasInterval(r) == r.int > 0
Restricted(r) == r.restr # "no"

Judged(price, restr, threshold) ==
    IF restr # "no" THEN "restricted"
    ELSE IF price >= threshold THEN "candidate" ELSE "watching"

\* The price of a suspended or administered market still counts as one.
Contents == [price : {1, 2}, restr : {"no"}] \cup [price : {2}, restr : {"suspended"}]
                \cup {[price |-> 0, restr |-> "intervention"]}
NoReport == [price |-> 0, restr |-> "no"]

\* A report is read against the interval of its URL; one whose interval has
\* passed loses its price, a dispatch under intervention never had one.
Parsed(content, int, serial, threshold, t) ==
    LET stale == content.price > 0 /\ Interval(t) # int
    IN  [src |-> "official", int |-> int, serial |-> serial, threshold |-> threshold,
         price |-> IF stale THEN 0 ELSE content.price,
         restr |-> IF stale THEN "no" ELSE content.restr,
         status |-> IF stale THEN "missing"
                    ELSE Judged(content.price, content.restr, threshold)]

NoReading == [int |-> 0, price |-> 0, stamp |-> 0]
\* Only the confirmed wholesale price of the current interval counts; an
\* estimate, a restored state and a foreign entity read as no reading at all.
AmberSample(reading, t) == reading.int = Interval(t)
AmberResult(reading, threshold, t) ==
    IF AmberSample(reading, t)
      THEN [src |-> "amber", int |-> reading.int, price |-> reading.price, restr |-> "no",
            serial |-> reading.stamp, threshold |-> threshold,
            status |-> Judged(reading.price, "no", threshold)]
      ELSE NoRecord

\* No price outlives its interval.
CurrentAt(r, t) ==
    IF HasPrice(r) /\ r.int # Interval(t)
      THEN [r EXCEPT !.price = 0, !.status = "missing"] ELSE r

PriceTriggerValid(r, t) ==
    HasPrice(r) /\ r.int = Interval(t) /\ r.status \in {"watching", "candidate"}

RememberExportPrice(previous, r, t) ==
    IF PriceTriggerValid(r, t)
      THEN IF r.int >= previous.int THEN r ELSE previous
    ELSE IF r.status \in {"restricted", "withheld"} THEN NoRecord
    ELSE previous

Signature(r) == [r EXCEPT !.serial = IF r.src = "official" THEN r.serial ELSE 0]
SameEvent(r, q) == [r EXCEPT !.serial = 0] = [q EXCEPT !.serial = 0]

\* The latest observation of a provider in an interval.
Latest(o, src, int) ==
    LET at == {n \in DOMAIN o : o[n].src = src /\ o[n].int = int}
    IN  IF at = {} THEN NoRecord ELSE o[Max(at)]

\* Fault for the runs: an older report counts as the newest.
PreventDispatchReplayNot(r, o, threshold) == r

\* An accepted report is never rolled back to one with a smaller serial.
PreventDispatchReplay(r, o, threshold) ==
    LET newer == {q \in ToSet(o) : /\ q.src = "official" /\ HasPrice(q)
                                   /\ q.int = r.int /\ q.serial > r.serial}
    IN  IF r.src = "official" /\ HasPrice(r) /\ newer # {}
          THEN LET newest == CHOOSE q \in newer : \A p \in newer : p.serial <= q.serial
               IN  [newest EXCEPT !.threshold = threshold,
                                  !.status = Judged(newest.price, newest.restr, threshold)]
          ELSE r

\* The list of observations.  Under an index that alternates between two reports
\* the code appends them again and again, up to 48; one copy says as much.
Noted(o, r) == IF r \in ToSet(o) THEN o ELSE Append(o, r)

\* Each provider's corrections are kept, whichever of them is selected.
RememberProvider(o, r, t) ==
    LET worth == \/ r.src = "official" /\ (HasPrice(r) \/ r.restr = "intervention")
                 \/ r.src = "amber" /\ HasPrice(r) /\ r.int = Interval(t)
    IN  IF worth /\ Signature(Latest(o, r.src, r.int)) # Signature(r)
          THEN Noted(o, r) ELSE o

-----------------------------------------------------------------------------
(* The choice between the providers *)

PriorAmber(amber, o, t) ==
    IF amber # NoRecord THEN amber ELSE Latest(o, "amber", Interval(t))

Replayed(primary, prior) ==
    /\ HasPrice(primary) /\ prior.int = primary.int
    /\ \/ primary.serial < prior.serial
       \/ primary.serial = prior.serial /\ primary.price # prior.price

\* The newest official report of the interval; restrictions win a tie.
NewestOfficial(o, fallback, t) ==
    LET qualified == {q \in ToSet(o) \cup {fallback} :
                        /\ q.src = "official" /\ q.int = Interval(t)
                        /\ HasPrice(q) \/ q.restr = "intervention"}
    IN  IF qualified = {} THEN NoRecord
        ELSE CHOOSE q \in qualified : \A p \in qualified :
                \/ p.serial < q.serial
                \/ p.serial = q.serial /\ (Restricted(p) => Restricted(q))

Withheld(r) == [r EXCEPT !.price = 0, !.status = "withheld"]

\* Fault for the runs: any qualified fallback speaks for a lost primary.
ContradictsNever(fallback, prior, threshold, t) == FALSE

\* The fallback would give back what the primary has withdrawn in this interval.
Contradicts(fallback, prior, threshold, t) ==
    /\ PriceTriggerValid(fallback, t) /\ fallback.price >= threshold
    /\ prior.int = fallback.int /\ HasPrice(prior) /\ prior.price < threshold

\* _select_source: the result, and the Amber reading it remembers.
Selected(reading, official, o, amber, c, t) ==
    LET fallback == CurrentAt(official, t)
        primary == AmberResult(reading, c.threshold, t)
        prior == PriorAmber(amber, o, t)
        newest == NewestOfficial(o, fallback, t)
        replayed == Replayed(primary, prior)
    IN  IF ~c.on THEN [result |-> NoRecord, last |-> amber]
        ELSE IF ~c.amber THEN [result |-> fallback, last |-> amber]
        ELSE [last |-> IF HasPrice(primary) /\ ~replayed THEN primary ELSE amber,
              result |-> IF replayed THEN Withheld(primary)
                         ELSE IF Restricted(newest) THEN [newest EXCEPT !.price = 0]
                         ELSE IF HasPrice(primary) THEN primary
                         ELSE IF Contradicts(fallback, prior, c.threshold, t)
                           THEN Withheld(fallback)
                         ELSE fallback]

\* current_result, and what reading it remembers.
Current ==
    IF cfg.amber THEN Selected(native, aemo, obs, last, cfg, clock)
                 ELSE [result |-> CurrentAt(result, clock), last |-> last]

\* export_result: a confirmed price of this interval or, in its grace, the last.
ExportResult ==
    LET r == RememberExportPrice(confirmed, Current.result, clock)
    IN  IF /\ running = "up" /\ cfg.on /\ HasInterval(r)
           /\ StartOf(r.int) <= clock /\ clock < StartOf(r.int + 1) + Grace
          THEN r ELSE NoRecord
Permitted == HasPrice(ExportResult) /\ ExportResult.price >= cfg.threshold

-----------------------------------------------------------------------------
(* Commit: with the lock held, up to the await of the save *)

Remembered(r, o, amber, c) ==
    LET kept == IF c.amber THEN RememberProvider(o, amber, clock) ELSE o
        previous == IF c.amber THEN Latest(kept, r.src, r.int)
                    ELSE IF kept = <<>> THEN NoRecord ELSE Last(kept)
    IN  IF HasPrice(r) /\ Signature(previous) # Signature(r)
          THEN Noted(kept, r) ELSE kept

\* Fault for the runs: a result without a price leaves the candidate alone.
CandidateKept(r) == IF r.status = "candidate" THEN r ELSE
                    IF HasPrice(r) THEN NoRecord ELSE active

Candidate(r) == IF r.status = "candidate" THEN r ELSE NoRecord

\* before is the confirmed price, o the observations, so far in this step.
Commit(r, o, amber, before, c) ==
    LET guarded == PreventDispatchReplay(r, o, c.threshold)
        current == CurrentAt(guarded, clock)
    IN  /\ obs' = Remembered(guarded, o, amber, c)
        /\ last' = amber
        /\ confirmed' = RememberExportPrice(before, current, clock)
        /\ result' = current
        /\ active' = Candidate(current)
        /\ expiry' = IF HasPrice(current) THEN current.int ELSE 0
        /\ saving' = (obs' # obs \/ ~SameEvent(active', active))

NewestKnown(previous, r) ==
    IF /\ r.int = Interval(clock) /\ (HasPrice(r) \/ r.restr = "intervention")
       /\ r.serial > previous.serial
      THEN r ELSE previous
\* What a list of observations knows about the current interval.
KnownFrom(o) == [official |-> NewestOfficial(o, NoRecord, clock),
                 amber |-> PriorAmber(NoRecord, o, clock)]
AmberUsed(amber) == NewestKnown(known.amber, amber)

-----------------------------------------------------------------------------
(* Actions of the monitor *)

\* A download: the report its URL names, and the settings it was started under.
NoDownload == [phase |-> "idle", fresh |-> TRUE, threshold |-> 0, int |-> 0, serial |-> 0,
         content |-> NoReport]
Due == [NoDownload EXCEPT !.phase = "due"]

\* An archive is read only under the interval and serial its URL names.
ReportOf(s) == [phase |-> "reading", fresh |-> TRUE, threshold |-> cfg.threshold,
                int |-> Interval(clock), serial |-> s, content |-> feed[s]]

\* The index may be an older copy: any report of the interval that is out.
Listed == {s \in 1 .. MaxSerial : feed[s] # NoReport}

\* _async_update_data up to the URL of a report.
FetchIndex ==
    /\ running = "up" /\ cfg.on /\ fetch.phase = "idle"
    /\ \E s \in Listed : fetch' = ReportOf(s)
    /\ UNCHANGED <<clock, sources, cfg, running, memory, saving, store, heard, known, changes>>

\* Fault for the runs: a download is used whatever has changed meanwhile.
WelcomeAlways(f) == TRUE

\* A download belongs to the configuration that started it.
Welcome(f) == f.fresh

\* What came of a download, finding no report included, as read at this moment.
Downloaded(f) ==
    {NoRecord} \cup (IF f.phase = "reading"
                       THEN {Parsed(f.content, f.int, f.serial, f.threshold, clock)} ELSE {})

\* The end of _async_update_data, with _async_apply_result under the lock.  The
\* first refresh of a monitor that is off applies a result without evidence.
ApplyResult ==
    /\ running = "up" /\ ~saving /\ (cfg.on \/ fetch.phase # "idle")
    /\ fetch' = NoDownload
    /\ IF Welcome(fetch)
         THEN \E r \in Downloaded(fetch) :
                LET official == PreventDispatchReplay(r, obs, cfg.threshold)
                    kept == IF cfg.amber THEN RememberProvider(obs, official, clock) ELSE obs
                    choice == Selected(native, official, kept, last, cfg, clock)
                IN  /\ aemo' = official
                    /\ Commit(IF cfg.amber THEN choice.result ELSE r, kept, choice.last,
                              confirmed, cfg)
                    /\ known' = [official |-> IF cfg.amber \/ HasPrice(r)
                                                THEN NewestKnown(known.official, r)
                                                ELSE known.official,
                                 amber |-> IF cfg.amber THEN AmberUsed(choice.last)
                                                        ELSE known.amber]
         ELSE UNCHANGED <<memory, saving, known>>
    /\ UNCHANGED <<clock, sources, cfg, running, store, heard, changes>>

AmberChanged ==
    LET choice == Selected(native, aemo, obs, last, cfg, clock) IN
    /\ running = "up" /\ ~saving /\ heard
    /\ heard' = FALSE
    /\ Commit(choice.result, obs, choice.last, confirmed, cfg)
    /\ known' = [known EXCEPT !.amber = AmberUsed(choice.last)]
    /\ UNCHANGED <<clock, sources, cfg, running, aemo, store, fetch, changes>>

\* The export controller asks for permission: the answer is remembered.
Consult ==
    /\ running = "up" /\ cfg.on
    /\ last' = Current.last
    /\ confirmed' = RememberExportPrice(confirmed, Current.result, clock)
    /\ known' = IF cfg.amber THEN [known EXCEPT !.amber = AmberUsed(Current.last)] ELSE known
    /\ UNCHANGED <<clock, sources, cfg, running, obs, aemo, result, active, expiry,
                   saving, store, fetch, heard, changes>>

Expire ==
    LET source == IF HasInterval(result) THEN result ELSE active
        stale == [source EXCEPT !.price = 0, !.status = "missing"]
    IN
    /\ running = "up" /\ ~saving /\ expiry > 0 /\ clock >= StartOf(expiry + 1)
    /\ IF source.int = expiry
         THEN \E choice \in {Selected(native, aemo, obs, last, cfg, clock)} :
              /\ Commit(IF cfg.amber THEN choice.result ELSE stale, obs, choice.last,
                        confirmed, cfg)
              /\ known' = IF cfg.amber THEN [known EXCEPT !.amber = AmberUsed(choice.last)]
                                       ELSE known
         ELSE /\ expiry' = 0
              /\ UNCHANGED <<obs, last, confirmed, result, active, saving, known>>
    /\ UNCHANGED <<clock, sources, cfg, running, aemo, store, fetch, heard, changes>>

\* Settings: all evidence is dropped; the next download is the one the change
\* starts, beside which the code may still have an old one.
UpdateConfiguration(c) ==
    /\ running = "up" /\ ~saving /\ c # cfg /\ Change
    /\ cfg' = c
    /\ aemo' = NoRecord
    /\ Commit(NoRecord, obs, NoRecord, NoRecord, c)
    /\ fetch' = [fetch EXCEPT !.fresh = (fetch.phase # "reading")]
    /\ heard' = FALSE
    /\ known' = KnownFrom(obs)
    /\ UNCHANGED <<clock, sources, running, store>>

SaveEnds ==
    /\ running = "up" /\ saving
    /\ saving' = FALSE
    /\ \/ store' = [obs |-> obs, active |-> active] /\ UNCHANGED changes
       \/ store' = store /\ Change
    /\ UNCHANGED <<clock, sources, cfg, running, memory, fetch, heard, known>>

-----------------------------------------------------------------------------
(* Restarts *)

Nothing == [official |-> NoRecord, amber |-> NoRecord]

\* The process dies, or the entry is unloaded when no save is under way.
StopMonitor ==
    /\ running = "up" /\ Change
    /\ running' = "down"
    /\ obs' = <<>> /\ aemo' = NoRecord /\ last' = NoRecord /\ confirmed' = NoRecord
    /\ result' = NoRecord /\ active' = NoRecord /\ expiry' = 0
    /\ saving' = FALSE
    /\ fetch' = NoDownload /\ heard' = FALSE
    /\ known' = Nothing
    /\ UNCHANGED <<clock, sources, cfg, store>>

RestoredExpiry == IF cfg.on THEN store.active.int ELSE 0

\* A stored record is checked again before it is believed.  What fails counts for
\* nothing; observations of a past interval are never read again.
RestoredOfficial(r) == r.src = "official" /\ (HasPrice(r) \/ r.restr = "intervention")
RestoredAmber(r) == r.src = "amber" /\ HasPrice(r) /\ ~Restricted(r)
RestoredState(d) ==
    [obs |-> [n \in DOMAIN d.obs |->
                IF RestoredOfficial(d.obs[n]) \/ RestoredAmber(d.obs[n])
                  THEN d.obs[n] ELSE NoRecord],
     active |-> IF HasPrice(d.active) THEN d.active ELSE NoRecord]

\* async_restore_history and the beginning of async_start.
StartMonitor ==
    /\ running = "down"
    /\ running' = "up"
    /\ obs' = RestoredState(store).obs
    /\ active' = RestoredState(store).active
    /\ expiry' = RestoredExpiry
    /\ fetch' = IF cfg.on THEN NoDownload ELSE Due
    /\ heard' = (cfg.on /\ cfg.amber)
    /\ known' = KnownFrom(RestoredState(store).obs)
    /\ UNCHANGED <<clock, sources, cfg, aemo, last, confirmed, result,
                   saving, store, changes>>

-----------------------------------------------------------------------------
(* The outside world *)

\* Reports and readings appear before the last tick only.
Publish ==
    /\ clock < MaxTime /\ Change
    /\ Cardinality(Listed) < MaxSerial
    /\ \E content \in Contents : feed' = [feed EXCEPT ![Cardinality(Listed) + 1] = content]
    /\ UNCHANGED <<clock, native, cfg, running, memory, saving, store, fetch, heard,
                   known>>

\* An update; the stamp is a wall clock, which may have been set back.
AmberUpdates ==
    /\ clock < MaxTime /\ Change
    /\ \E reading \in [int : {Interval(clock)}, price : {1, 2}, stamp : 1 .. MaxStamp]
                         \cup {NoReading} :
            reading # native /\ native' = reading
    /\ heard' = (heard \/ (running = "up" /\ cfg.on /\ cfg.amber))
    /\ UNCHANGED <<clock, feed, cfg, running, memory, saving, store, fetch, known>>

\* Observations of a past interval are never read again and are dropped.
Advance ==
    /\ clock < MaxTime
    /\ clock' = clock + 1
    /\ IF Interval(clock + 1) = Interval(clock)
         THEN UNCHANGED <<feed, obs, known>>
         ELSE /\ feed' = [s \in 1 .. MaxSerial |-> NoReport]
              /\ obs' = <<>>
              /\ known' = Nothing
    /\ UNCHANGED <<native, cfg, running, aemo, last, confirmed, result, active,
                   expiry, saving, store, fetch, heard, changes>>

MonitorInit ==
    /\ clock = 1
    /\ feed = [s \in 1 .. MaxSerial |-> NoReport] /\ native = NoReading
    /\ cfg \in Configurations
    /\ running = "down" /\ changes = 0
    /\ obs = <<>> /\ aemo = NoRecord /\ last = NoRecord /\ confirmed = NoRecord
    /\ result = NoRecord /\ active = NoRecord /\ expiry = 0
    /\ saving = FALSE
    /\ store = [obs |-> <<>>, active |-> NoRecord]
    /\ fetch = NoDownload /\ heard = FALSE
    /\ known = Nothing

MonitorNext ==
    \/ FetchIndex \/ ApplyResult
    \/ AmberChanged \/ Consult \/ Expire
    \/ \E c \in Configurations : UpdateConfiguration(c)
    \/ SaveEnds \/ StopMonitor \/ StartMonitor
    \/ Publish \/ AmberUpdates \/ Advance

MonitorSpec == MonitorInit /\ [][MonitorNext]_monitorVars
\* Timers, saves and restarts happen; downloads and entity updates need not.
MonitorFairSpec ==
    /\ MonitorSpec
    /\ WF_monitorVars(Advance) /\ WF_monitorVars(SaveEnds)
    /\ WF_monitorVars(StartMonitor) /\ WF_monitorVars(Expire)

-----------------------------------------------------------------------------
(* Properties *)

\* Evidence was judged under the settings in force: no download that was under
\* way when the operator changed the threshold, or switched the monitor off,
\* brings a price or a permission back.
EvidenceIsConfigured ==
    \A r \in {result, aemo, confirmed, last} :
        HasPrice(r) => cfg.on /\ r.threshold = cfg.threshold

\* Once the monitor has used an official report, no older copy, later failure,
\* provider or restart gives permission against it: not under a restriction, and
\* not on the word of an official price that a newer one has corrected.  The first
\* disjunct leaves out an intervention reported by the direct source, without Amber:
\* such a report carries no price and is not kept, so an older firm one of a stale
\* index may permit export again.
VetoHolds ==
    LET newest == known.official
    IN  HasInterval(newest) /\ Permitted =>
            \/ newest.restr = "intervention" /\ ~cfg.amber
            \/ /\ ~Restricted(newest)
               /\ ExportResult.src = "official" => newest.price >= cfg.threshold

\* A price the Amber entity has withdrawn in this interval stays withdrawn: not
\* the official fallback, not an older reading and not a restart revives it.
WithdrawalHolds ==
    LET newest == AmberUsed(Current.last)
    IN  cfg.amber /\ HasInterval(newest) /\ newest.price < cfg.threshold => ~Permitted

\* A market opportunity that was announced is cleared after its interval, also
\* when nothing can be downloaded any more and across a restart.
Overdue ==
    LET announced == IF running = "up" THEN active ELSE store.active
    IN  HasInterval(announced) /\ clock >= StartOf(announced.int + 1)
CandidateEnds == []<>(Overdue => ~cfg.on)
=============================================================================
