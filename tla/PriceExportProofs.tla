--------------------------- MODULE PriceExportProofs ---------------------------
(***************************************************************************)
(* Theorems about PriceExport, for every number of ticks, intervals and    *)
(* events, every backoff, power range and attempt limit, and about         *)
(* MarketMonitor, for every set of configurations and every bound on the   *)
(* clock, the reports of the feed and the changes of the settings.         *)
(***************************************************************************)
EXTENDS PriceExport, FoxessSessionsProofs, MarketMonitor, FiniteSetTheorems,
        WellFoundedInduction

\* A session is typed, and so is a plan: an export selects no other forced mode.
PriceSessions == [phase : Phases("export"), power : Powers, attempts : 0 .. AttemptCap,
                  since : Nat, deadline : Nat, end : Nat]
ExportCommands == {c \in Commands(Powers) : IsForce(c) => c.mode = "ForceDischarge"}
Jobs == [plan : Seq(ExportCommands), bound : Nat, at : Nat, window : Nat, prev : PriceSessions]

TypeOK ==
    /\ now \in 0 .. LastTick /\ permit \in 0 .. LastInterval /\ events \in Nat
    /\ inv \in Observations(Powers) /\ forcer \in {"none", "heo", "other"}
    /\ link \in Links /\ gate \in BOOLEAN /\ up \in BOOLEAN
    /\ sess \in PriceSessions /\ disk \in PriceSessions
    /\ lock \in {"free", "save", "cleanup", "rearm", "again", "exec"} /\ job \in Jobs
    /\ lock = "exec" => job.plan # <<>>

\* A bound within the permission p, and within every one that can still come at time t.
Covered(t, p, b) ==
    /\ p # 0 => b <= End(p)
    /\ \A i \in Nat : t < Start0(i + 1) => b <= End(i)

\* The inductive invariant behind PermittedWrites: a plan that forces is bound by the
\* deadline of the session in memory, and once it is executed of the stored one as well.
BoundTo(s) == s.phase = "starting" /\ s.deadline = job.bound
PermitInv ==
    /\ permit # 0 => Start0(permit) <= now
    /\ lock = "cleanup" => ~Positive(job.plan)
    /\ Positive(job.plan) =>
          /\ lock \in {"save", "exec"} /\ job.bound > 0 /\ Covered(now, permit, job.bound)
          /\ BoundTo(sess)
          /\ lock = "exec" => BoundTo(disk)

\* The inductive invariant behind PriceObligation: the session of a battery HEO forced
\* is open in the store, in memory, and in the copy a failed write rolls back to.
HandInv ==
    /\ lock # "free" => up
    /\ forcer = "heo" => /\ inv.mode \in ForcedModes
                         /\ Latched(disk)
                         /\ up => Latched(sess)
                         /\ lock = "save" => Latched(job.prev)

-----------------------------------------------------------------------------
(* Sessions, plans and the policy. *)

\* The numbers the sessions are made of.
LEMMA Numbers ==
    /\ 0 \in Powers /\ 0 \in 0 .. AttemptCap /\ Powers \subseteq Nat
    /\ \A a \in 0 .. AttemptCap : Bump(a) \in 0 .. AttemptCap
    /\ Old \in Nat \ {0}
    /\ \A i \in Nat : Start0(i) \in Int /\ End(i) \in Nat
    /\ LastTick \in Nat /\ LastInterval \in Nat
<1>1. MaxKw \in Nat /\ MaxAttempts \in Nat
  BY MaxKwAssumption, MaxAttemptsAssumption
<1>2. /\ 0 \in Powers /\ 0 \in 0 .. AttemptCap /\ Powers \subseteq Nat
      /\ \A a \in 0 .. AttemptCap : Bump(a) \in 0 .. AttemptCap
  BY <1>1 DEF Powers, AttemptCap, Bump
<1>3. RetryDelays \in Seq(Nat \ {0}) /\ Len(RetryDelays) \in DOMAIN RetryDelays
  BY PriceBoundsAssumption
<1>4. Old \in Nat \ {0}
  BY <1>3 DEF Old
<1>5. \A i \in Nat : Start0(i) \in Int /\ End(i) \in Nat
  BY DEF Start0, End
<1> QED
  BY <1>2, <1>4, <1>5, PriceBoundsAssumption

\* A new session and an emptied job.
LEMMA Empties == Idle \in PriceSessions /\ NoJob \in Jobs
<1>1. Idle \in PriceSessions
  BY Numbers DEF Idle, PriceSessions, Phases
<1> QED
  BY <1>1, EmptyPlan DEF NoJob, Jobs

\* What a session remembers can be edited.
LEMMA PriceEdits ==
    ASSUME NEW s \in PriceSessions
    PROVE  /\ \A ph \in Phases("export") : [s EXCEPT !.phase = ph] \in PriceSessions
           /\ [s EXCEPT !.phase = "stopping", !.attempts = Bump(@), !.since = 0] \in PriceSessions
           /\ [s EXCEPT !.phase = "recovering", !.attempts = 0, !.since = Old] \in PriceSessions
           /\ Aged(s) \in PriceSessions
           /\ Aged(s).phase = s.phase /\ Aged(s).deadline = s.deadline
<1>1. /\ s.attempts \in 0 .. AttemptCap /\ s.since \in Nat
      /\ {"stopping", "recovering"} \subseteq Phases("export")
  BY DEF PriceSessions, Phases
<1>2. \A ph \in Phases("export") : [s EXCEPT !.phase = ph] \in PriceSessions
  BY DEF PriceSessions
<1>3. Bump(s.attempts) \in 0 .. AttemptCap
  BY <1>1, Numbers
<1>4. [s EXCEPT !.phase = "stopping", !.attempts = Bump(@), !.since = 0] \in PriceSessions
  BY <1>1, <1>3 DEF PriceSessions
<1>5. [s EXCEPT !.phase = "recovering", !.attempts = 0, !.since = Old] \in PriceSessions
  BY <1>1, Numbers DEF PriceSessions
<1>6. Lesser(s.since + 1, Old) \in Nat
  BY <1>1, Numbers DEF Lesser
<1>7. Aged(s) \in PriceSessions /\ Aged(s).phase = s.phase /\ Aged(s).deadline = s.deadline
  BY <1>6 DEF Aged, PriceSessions
<1> QED
  BY <1>2, <1>4, <1>5, <1>7

\* What the reducer sees of a session is one of its sessions, owned while it is latched.
LEMMA PlainTyped ==
    ASSUME NEW s \in PriceSessions
    PROVE  Plain(s) \in SessionOf("export") /\ Plain(s).phase = s.phase
           /\ (Latched(s) <=> Owned(Plain(s)))
<1>1. s.since \in Nat /\ s.phase \in Phases("export")
  BY DEF PriceSessions
<1>2. (s.since < 1) \in BOOLEAN
  BY <1>1
<1>3. Plain(s) \in SessionOf("export") /\ Plain(s).phase = s.phase
  BY <1>2 DEF Plain, SessionOf, PriceSessions
<1> QED
  BY <1>1, <1>3 DEF Latched, Owned, OwnedPhases, Phases

\* What is licensed to an export session is a plan of export commands, and it forces
\* nothing unless the session is starting.
LEMMA LicensedExport ==
    ASSUME NEW phase, NEW power, NEW plan \in Seq(Licensed("export", phase, power))
    PROVE  plan \in Seq(ExportCommands) /\ (Positive(plan) => phase = "starting")
<1>1. Licensed("export", phase, power) \subseteq ExportCommands
  BY DEF Licensed, ExportCommands, IsPositive, IsForce, ForcedMode, ForcedModes, Commands
<1>2. \A i \in DOMAIN plan : plan[i] \in Licensed("export", phase, power)
  OBVIOUS
<1>3. Positive(plan) => phase = "starting"
  BY <1>2 DEF Positive, Forcing, Licensed, IsPositive
<1> QED
  BY <1>1, <1>3

\* No command of the empty plan forces.
LEMMA NothingForces == ~Positive(<<>>)
  BY DEF Positive

\* What a prefix leaves of a plan forces no more than the plan.
LEMMA TailForces ==
    ASSUME NEW plan \in Seq(ExportCommands), plan # <<>>
    PROVE  /\ Tail(plan) \in Seq(ExportCommands) /\ Head(plan) \in ExportCommands
           /\ Positive(Tail(plan)) => Positive(plan)
           /\ Forcing(Head(plan)) => Positive(plan)
           /\ Len(plan) # 1 => Tail(plan) # <<>>
<1>1. /\ Tail(plan) \in Seq(ExportCommands) /\ Len(Tail(plan)) = Len(plan) - 1
      /\ \A i \in 1 .. Len(plan) - 1 : Tail(plan)[i] = plan[i + 1]
      /\ Len(plan) \in Nat \ {0} /\ 1 \in DOMAIN plan /\ Head(plan) = plan[1]
      /\ DOMAIN Tail(plan) = 1 .. Len(plan) - 1 /\ DOMAIN plan = 1 .. Len(plan)
  OBVIOUS
<1>2. Head(plan) \in ExportCommands
  OBVIOUS
<1>3. \A i \in DOMAIN Tail(plan) : i + 1 \in DOMAIN plan
  BY <1>1
<1>4. Positive(Tail(plan)) => Positive(plan)
  BY <1>1, <1>3 DEF Positive
<1>5. Forcing(Head(plan)) => Positive(plan)
  BY <1>1 DEF Positive
<1>6. Len(plan) # 1 => Tail(plan) # <<>>
  <2>1. Len(<<>>) = 0
    OBVIOUS
  <2>2. Len(plan) # 1 => Len(Tail(plan)) # 0
    BY <1>1
  <2> QED
    BY <2>1, <2>2
<1> QED
  BY <1>1, <1>2, <1>4, <1>5, <1>6

\* A deadline is never later than the one proposed for it.
LEMMA DeadlineBounded ==
    ASSUME NEW s \in PriceSessions, NEW proposed \in Int, NEW end
    PROVE  /\ Deadline(s, proposed, end) \in Int /\ Deadline(s, proposed, end) <= proposed
           /\ proposed \in Nat => Deadline(s, proposed, end) \in Nat
<1>1. s.deadline \in Nat
  BY DEF PriceSessions
<1> QED
  BY <1>1 DEF Deadline, Lesser

Offers == [available : BOOLEAN, open : BOOLEAN, limit : Powers, power : Powers,
           deadline : Nat, end : Nat]

\* The policy offers a session only under a permission of now, and not beyond it.
LEMMA PolicyOffer ==
    ASSUME TypeOK, NEW e \in Evidence
    PROVE  LET offer == Policy(sess, now, e) IN
           /\ offer \in Offers
           /\ offer.open => permit # 0 /\ Start0(permit) <= now /\ offer.deadline <= End(permit)
<1> DEFINE w == IF ExportSourceAvailable THEN PriceWindow(now) ELSE 0
           lasts == IF link = "full" THEN e.lasts ELSE None
           power == IF Latched(sess) THEN Lesser(e.limit, sess.power) ELSE e.limit
           foreseen == lasts # None /\ power > 0
           base == IF w # 0 THEN Deadline(sess, End(w), End(w)) ELSE sess.deadline
           deadline == IF foreseen THEN Lesser(base, now + lasts) ELSE base
           offer == Policy(sess, now, e)
<1>1. /\ now \in Nat /\ sess \in PriceSessions /\ sess.deadline \in Nat /\ permit \in Nat
      /\ sess.power \in Powers /\ e.limit \in Powers /\ e.lasts \in {None, 0, 1, 3}
      /\ e.allowed \in BOOLEAN
  BY Numbers DEF TypeOK, PriceSessions, Evidence
<1>2. /\ w \in Nat
      /\ w # 0 => w = permit /\ Start0(permit) <= now
  BY <1>1 DEF PriceWindow
<1>3. End(w) \in Nat
  BY <1>2, Numbers
<1>4. power \in Powers
  BY <1>1 DEF Lesser
<1>5. base \in Nat /\ (w # 0 => base <= End(w))
  BY <1>1, <1>3, DeadlineBounded
<1>6. foreseen => lasts \in Nat
  BY <1>1
<1> HIDE DEF lasts, base
<1>7. deadline \in Nat /\ deadline <= base
  BY <1>1, <1>5, <1>6 DEF Lesser
<1> HIDE DEF w, power, foreseen, deadline
<1> DEFINE available == IF Latched(sess) /\ (w = 0 \/ lasts = None)
                          THEN CleanupCapable ELSE ExportSourceAvailable
           open == /\ w # 0 /\ e.allowed /\ sess.phase # "stopping" /\ foreseen
                   /\ now < deadline
                   /\ Running(sess) \/ deadline - now >= StartHorizon
<1>8. offer = [available |-> available, open |-> open, limit |-> e.limit, power |-> power,
               deadline |-> deadline, end |-> IF w # 0 THEN End(w) ELSE 0]
  BY DEF Policy, w, lasts, base, power, foreseen, deadline
<1>9. available \in BOOLEAN /\ open \in BOOLEAN /\ (open => w # 0)
  <2>1. available \in BOOLEAN
    <3>1. CleanupCapable \in BOOLEAN /\ ExportSourceAvailable \in BOOLEAN
      BY DEF CleanupCapable, ExportSourceAvailable
    <3> QED
      BY <3>1, Zenon
  <2>2. open \in BOOLEAN
    BY Zenon
  <2>3. open => w # 0
    OBVIOUS
  <2> QED
    BY <2>1, <2>2, <2>3
<1> HIDE DEF available, open
<1>10. /\ offer.available \in BOOLEAN
       /\ offer.open \in BOOLEAN /\ (offer.open => w # 0)
  BY <1>8, <1>9
<1>11. (IF w # 0 THEN End(w) ELSE 0) \in Nat
  BY <1>3
<1>12. offer \in Offers
  BY <1>1, <1>4, <1>7, <1>8, <1>10, <1>11 DEF Offers
<1>13. offer.open => offer.deadline <= End(permit)
  BY <1>2, <1>3, <1>5, <1>7, <1>8, <1>10
<1> QED
  BY <1>2, <1>10, <1>12, <1>13

-----------------------------------------------------------------------------
(* The reducer. *)

\* What an export transition comes to under the price authority.
LEMMA PricedStep ==
    ASSUME NEW s \in PriceSessions, NEW step, step.state \in SessionOf("export"),
           step.plan \in Seq(Licensed("export", step.state.phase, step.state.power)),
           NEW deadline \in Nat, NEW end \in Nat
    PROVE  LET r == Priced(s, step, deadline, end) IN
           /\ r.state \in PriceSessions /\ r.plan \in Seq(ExportCommands)
           /\ r.state.phase = step.state.phase
           /\ Positive(r.plan) => r.state.phase = "starting" /\ r.state.deadline = deadline
<1> DEFINE since == IF step.plan # <<>> THEN 0
                    ELSE IF step.state.fresh = Plain(s).fresh THEN s.since ELSE Old
           t == [phase |-> step.state.phase, power |-> step.state.power,
                 attempts |-> step.state.attempts, since |-> since,
                 deadline |-> deadline, end |-> Larger(s.end, end)]
           r == Priced(s, step, deadline, end)
<1>1. since \in Nat
  BY Numbers DEF PriceSessions
<1>2. Larger(s.end, end) \in Nat
  BY DEF Larger, PriceSessions
<1> HIDE DEF since
<1>3. t \in PriceSessions
  BY <1>1, <1>2 DEF PriceSessions, SessionOf
<1>4. r = Step(IF step.state.phase = "idle" THEN Idle ELSE t, step.plan)
  BY DEF Priced, since
<1>5. step.plan \in Seq(ExportCommands) /\ (Positive(step.plan) => step.state.phase = "starting")
  BY LicensedExport
<1>6. CASE step.state.phase = "idle"
  <2>1. r.state = Idle /\ r.plan = step.plan
    BY <1>4, <1>6 DEF Step
  <2> QED
    BY <1>5, <1>6, <2>1, Empties DEF Idle
<1>7. CASE step.state.phase # "idle"
  <2>1. r.state = t /\ r.plan = step.plan
    BY <1>4, <1>7 DEF Step
  <2> QED
    BY <1>3, <1>5, <2>1
<1> QED
  BY <1>6, <1>7

\* A curtailed session is one of the ordinary reducer, owned as before.
LEMMA CurtailedTyped ==
    ASSUME NEW s \in PriceSessions, NEW offer \in Offers
    PROVE  /\ Curtailed(s, offer) \in SessionOf("export")
           /\ Latched(s) => Owned(Curtailed(s, offer))
<1>1. /\ Plain(s) \in SessionOf("export") /\ Plain(s).phase = s.phase
      /\ Latched(s) <=> Owned(Plain(s))
  BY PlainTyped
<1>2. Lesser(s.power, offer.power) \in Powers
  BY DEF Lesser, PriceSessions, Offers
<1>3. /\ [Plain(s) EXCEPT !.power = Lesser(s.power, offer.power)] \in SessionOf("export")
      /\ [Plain(s) EXCEPT !.power = Lesser(s.power, offer.power)].phase = s.phase
  BY <1>1, <1>2 DEF SessionOf
<1> QED
  BY <1>1, <1>3 DEF Curtailed, Owned

\* A stop, its repetitions and the waits between them: commands that force nothing, and
\* an end only in Self Use.
LEMMA EndedStep ==
    ASSUME NEW s \in PriceSessions, NEW o \in Observations(Powers)
    PROVE  LET r == Ended(s, o) IN
           /\ r.state \in SessionOf("export")
           /\ r.plan \in Seq(Licensed("export", r.state.phase, r.state.power))
           /\ ~Positive(r.plan)
           /\ Latched(s) /\ ~Owned(r.state) => o.mode = "SelfUse"
<1> DEFINE Good(r) == /\ r.state \in SessionOf("export")
                      /\ r.plan \in Seq(Licensed("export", r.state.phase, r.state.power))
                      /\ ~Positive(r.plan)
                      /\ Latched(s) /\ ~Owned(r.state) => o.mode = "SelfUse"
<1>1. /\ Plain(s) \in SessionOf("export") /\ "export" \in Channels
      /\ Latched(s) <=> Owned(Plain(s))
  BY PlainTyped DEF Channels
<1>2. Good(Quiet(Plain(s)))
  BY <1>1, EmptyPlan, NothingForces DEF Quiet, Step
<1>3. ASSUME NEW t \in SessionOf("export")
      PROVE  Good(Stop("export", t, o))
  <2> DEFINE r == Stop("export", t, o)
  <2>1. /\ r.state \in SessionOf("export")
        /\ r.plan \in Seq(Licensed("export", r.state.phase, r.state.power))
        /\ r.plan # <<>> => r.state.phase = "stopping" /\ r.state.fresh
        /\ ~Owned(r.state) => o.mode = "SelfUse"
    BY <1>1, StopStep
  <2> HIDE DEF r
  <2>2. Positive(r.plan) => r.state.phase = "starting" /\ r.plan # <<>>
    BY <2>1, LicensedExport, NothingForces
  <2>3. Good(r)
    BY <2>1, <2>2
  <2> QED
    BY <2>3 DEF r
<1>4. [Plain(s) EXCEPT !.attempts = 0, !.fresh = FALSE] \in SessionOf("export")
  BY <1>1, Numbers DEF SessionOf
<1> HIDE DEF Good
<1>5. Good(Ended(s, o))
  BY <1>1, <1>2, <1>3, <1>4 DEF Ended, Stopping
<1> QED
  BY <1>5 DEF Good

\* One step of the reducer: a plan that forces belongs to a starting session whose
\* deadline is still ahead and within the offer, and a session that ends found Self Use.
Decided(s, o, offer, r) ==
    /\ r.state \in PriceSessions /\ r.plan \in Seq(ExportCommands)
    /\ Positive(r.plan) => /\ offer.open /\ r.state.phase = "starting"
                           /\ now < r.state.deadline /\ r.state.deadline <= offer.deadline
    /\ Latched(s) /\ ~Latched(r.state) => o.mode = "SelfUse"

\* The price reducer decides soundly.
LEMMA AdvancePriceDecided ==
    ASSUME NEW s \in PriceSessions, NEW o \in Observations(Powers), NEW offer \in Offers,
           now \in Nat
    PROVE  Decided(s, o, offer, AdvancePriceSession(s, o, offer))
<1> DEFINE deadline == Deadline(s, offer.deadline, offer.end)
           permitted == offer.open /\ now < deadline
           in == [available |-> offer.available, open |-> offer.open, eligible |-> offer.open,
                  limit |-> offer.limit]
           step == IF ~offer.available THEN SourceUnavailable(Plain(s))
                   ELSE IF Latched(s) /\ (s.phase = "stopping" \/ ~permitted) THEN Ended(s, o)
                   ELSE IF ~Latched(s) /\ (~permitted \/ o.mode # "SelfUse")
                     THEN Quiet(IdleSession)
                   ELSE AdvanceSession("export", Curtailed(s, offer), o, in)
           restored == Latched(s) /\ offer.available /\ ResponseMatches(RestoreSelfUse, o)
                         /\ (s.phase = "stopping" \/ ~permitted)
           r == AdvancePriceSession(s, o, offer)
<1> DEFINE Good(x) == /\ x.state \in SessionOf("export")
                      /\ x.plan \in Seq(Licensed("export", x.state.phase, x.state.power))
                      /\ Positive(x.plan) => permitted
                      /\ Latched(s) /\ ~Owned(x.state) => o.mode = "SelfUse"
<1>1. /\ Plain(s) \in SessionOf("export") /\ "export" \in Channels
      /\ Latched(s) <=> Owned(Plain(s))
  BY PlainTyped DEF Channels
<1>2. deadline \in Nat /\ deadline <= offer.deadline /\ offer.end \in Nat
  BY DeadlineBounded DEF Offers
<1>3. in \in Inputs
  BY DEF Inputs, Offers
<1>4. Good(SourceUnavailable(Plain(s)))
  <2> DEFINE x == SourceUnavailable(Plain(s))
  <2>1. Sound("export", Plain(s), o, x)
    BY <1>1, SourceUnavailableSound
  <2>2. x.plan = <<>>
    BY DEF SourceUnavailable, Quiet, Step
  <2> HIDE DEF x
  <2>3. Good(x)
    BY <1>1, <2>1, <2>2, NothingForces DEF Sound
  <2> QED
    BY <2>3 DEF x
<1>5. Good(Ended(s, o))
  BY EndedStep
<1>6. ~Latched(s) => Good(Quiet(IdleSession))
  <2>1. IdleSession \in SessionOf("export")
    BY <1>1, SessionEdits
  <2> QED
    BY <2>1, EmptyPlan, NothingForces DEF Quiet, Step
<1>7. permitted => Good(AdvanceSession("export", Curtailed(s, offer), o, in))
  <2> DEFINE x == AdvanceSession("export", Curtailed(s, offer), o, in)
  <2>1. /\ Curtailed(s, offer) \in SessionOf("export")
        /\ Latched(s) => Owned(Curtailed(s, offer))
    BY CurtailedTyped
  <2>2. Sound("export", Curtailed(s, offer), o, x)
    BY <1>1, <1>3, <2>1, AdvanceSound
  <2> HIDE DEF x, permitted
  <2>3. permitted => Good(x)
    BY <2>1, <2>2 DEF Sound
  <2> QED
    BY <2>3 DEF x
<1> HIDE DEF Good
<1>8. Good(step)
  BY <1>4, <1>5, <1>6, <1>7
<1>9. r = IF restored THEN Step(Idle, <<>>) ELSE Priced(s, step, deadline, offer.end)
  BY DEF AdvancePriceSession
<1> HIDE DEF step, deadline
<1>10. CASE restored
  <2>1. r.state = Idle /\ r.plan = <<>> /\ o.mode = "SelfUse"
    BY <1>9, <1>10 DEF Step, ResponseMatches, RestoreSelfUse, SelfUseObservation
  <2> HIDE DEF r
  <2> QED
    BY <2>1, Empties, EmptyPlan, NothingForces DEF Decided, r
<1>11. CASE ~restored
  <2> DEFINE p == Priced(s, step, deadline, offer.end)
  <2>1. r = p
    BY <1>9, <1>11
  <2>2. /\ p.state \in PriceSessions /\ p.plan \in Seq(ExportCommands)
        /\ p.state.phase = step.state.phase
        /\ Positive(p.plan) => p.state.phase = "starting" /\ p.state.deadline = deadline
    BY <1>2, <1>8, PricedStep DEF Good
  <2>3. p.plan = step.plan
    BY DEF Priced, Step
  <2> HIDE DEF p
  <2>4. Positive(p.plan) => offer.open /\ now < deadline
    BY <1>8, <2>3 DEF Good
  <2>5. Latched(p.state) <=> Owned(step.state)
    BY <1>8, <2>2 DEF Good, Latched, Owned, OwnedPhases, SessionOf, Phases
  <2>6. Latched(s) /\ ~Latched(p.state) => o.mode = "SelfUse"
    BY <1>8, <2>5 DEF Good
  <2> HIDE DEF r
  <2>7. Decided(s, o, offer, p)
    BY <1>2, <2>2, <2>4, <2>6 DEF Decided
  <2> QED
    BY <2>1, <2>7 DEF r
<1> QED
  BY <1>10, <1>11

\* So does the controller with what the reducer returns.
LEMMA DecisionDecided ==
    ASSUME TypeOK, NEW offer \in Offers
    PROVE  Decided(sess, inv, offer, Decision(offer))
<1>1. sess \in PriceSessions /\ inv \in Observations(Powers) /\ now \in Nat
  BY Numbers DEF TypeOK
<1> DEFINE step == AdvancePriceSession(sess, inv, offer)
           stopping == [sess EXCEPT !.phase = "stopping"]
<1>2. Decided(sess, inv, offer, step)
  BY <1>1, AdvancePriceDecided
<1> HIDE DEF step
<1>3. Decided(sess, inv, offer, Step(sess, <<>>))
  BY <1>1, EmptyPlan, NothingForces DEF Decided, Step
<1>4. Decided(sess, inv, offer, Confirmed(sess, step))
  <2>1. stopping \in PriceSessions /\ stopping.phase = "stopping"
    BY <1>1, PriceEdits DEF Phases, PriceSessions
  <2>2. step.state.phase = "idle" => Decided(sess, inv, offer, Step(stopping, step.plan))
    BY <1>2, <2>1 DEF Decided, Step, Latched
  <2> QED
    BY <1>2, <2>2 DEF Confirmed
<1> QED
  BY <1>3, <1>4 DEF Decision, step

-----------------------------------------------------------------------------
(* The type invariant. *)

\* What one reconciliation leaves behind, with the world as it was.
Reconciled ==
    /\ sess' \in PriceSessions /\ job' \in Jobs
    /\ lock' \in {"free", "save", "cleanup"}
    /\ Latched(sess) /\ ~Latched(sess') => inv.mode = "SelfUse"
    /\ lock' = "save" => job'.prev = sess
    /\ Positive(job'.plan) => /\ lock' = "save" /\ permit # 0 /\ Start0(permit) <= now
                              /\ sess'.phase = "starting" /\ sess'.deadline = job'.bound
                              /\ now < job'.bound /\ job'.bound <= End(permit)

\* Each alternative of a reconciliation.
LEMMA ReconcileStep ==
    ASSUME TypeOK, ReconcileLocked
    PROVE  Reconciled
<1>1. /\ sess \in PriceSessions /\ now \in Nat /\ NoJob \in Jobs /\ NoJob.plan = <<>>
      /\ inv \in Observations(Powers)
  BY Numbers, Empties DEF TypeOK, NoJob
<1>2. CASE Release /\ UNCHANGED sess
  BY <1>1, <1>2, NothingForces DEF Release, Reconciled
<1>3. CASE UnknownFeedbackCleanup /\ Latched(sess)
  <2>1. SUFFICES ASSUME
            /\ sess' = [sess EXCEPT !.phase = "stopping", !.attempts = Bump(@), !.since = 0]
            /\ lock' = "cleanup"
            /\ job' = [NoJob EXCEPT
                 !.plan = <<SelectMode("SelfUse"), SetCharge(0), SetDischarge(0)>>]
        PROVE  Reconciled
    BY <1>2, <1>3 DEF UnknownFeedbackCleanup
  <2>2. sess' \in PriceSessions /\ sess'.phase = "stopping"
    BY <1>1, <2>1, PriceEdits DEF PriceSessions
  <2> DEFINE plan == <<SelectMode("SelfUse"), SetCharge(0), SetDischarge(0)>>
  <2>3. /\ SelectMode("SelfUse") \in ExportCommands /\ SetCharge(0) \in ExportCommands
        /\ SetDischarge(0) \in ExportCommands
    BY Numbers DEF ExportCommands, Commands, SelectMode, SetCharge, SetDischarge, IsForce,
                   ForcedModes
  <2>4. /\ ~Forcing(SelectMode("SelfUse")) /\ ~Forcing(SetCharge(0))
        /\ ~Forcing(SetDischarge(0))
    BY DEF Forcing, SelectMode, SetCharge, SetDischarge, IsForce, ForcedModes
  <2>5. plan \in Seq(ExportCommands)
    BY <2>3
  <2>6. ~Positive(plan)
    BY <2>4 DEF Positive
  <2> HIDE DEF plan
  <2>7. job' \in Jobs /\ job'.plan = plan
    BY <1>1, <2>1, <2>5 DEF Jobs, plan
  <2> QED
    BY <2>1, <2>2, <2>6, <2>7 DEF Reconciled, Latched
<1>4. CASE ReconcileExport
  <2>1. PICK offer \in {Policy(sess, now, e) : e \in Evidence} :
        \E step \in {Decision(offer)} :
          /\ sess' = step.state
          /\ IF step.state = sess THEN Release
             ELSE /\ lock' = "save"
                  /\ job' = IF Positive(step.plan)
                              THEN [plan |-> step.plan, bound |-> step.state.deadline,
                                    at |-> now, window |-> 0, prev |-> sess]
                              ELSE [NoJob EXCEPT !.plan = step.plan, !.prev = sess]
    BY <1>4 DEF ReconcileExport
  <2> DEFINE step == Decision(offer)
  <2>2. /\ offer \in Offers
        /\ offer.open => permit # 0 /\ Start0(permit) <= now /\ offer.deadline <= End(permit)
    BY <2>1, PolicyOffer
  <2>3. Decided(sess, inv, offer, step)
    BY <2>2, DecisionDecided
  <2>4. /\ sess' = step.state
        /\ IF step.state = sess THEN Release
           ELSE /\ lock' = "save"
                /\ job' = IF Positive(step.plan)
                            THEN [plan |-> step.plan, bound |-> step.state.deadline,
                                  at |-> now, window |-> 0, prev |-> sess]
                            ELSE [NoJob EXCEPT !.plan = step.plan, !.prev = sess]
    BY <2>1
  <2> HIDE DEF step
  <2>5. CASE step.state = sess
    BY <1>2, <2>4, <2>5
  <2>6. CASE step.state # sess /\ Positive(step.plan)
    <3>1. job' = [plan |-> step.plan, bound |-> step.state.deadline,
                  at |-> now, window |-> 0, prev |-> sess]
      BY <2>4, <2>6
    <3>2. step.state.deadline \in Nat /\ permit \in Nat /\ End(permit) \in Nat
          /\ offer.deadline \in Nat
      <4>1. step.state.deadline \in Nat
        BY <2>3 DEF Decided, PriceSessions
      <4>2. permit \in Nat
        BY DEF TypeOK
      <4>3. offer.deadline \in Nat
        BY <2>2 DEF Offers
      <4> QED
        BY <4>1, <4>2, <4>3, Numbers
    <3>3. job' \in Jobs
      BY <1>1, <2>3, <3>1, <3>2 DEF Jobs, Decided
    <3>4. step.state.deadline <= End(permit)
      BY <2>2, <2>3, <2>6, <3>2 DEF Decided
    <3> QED
      BY <2>2, <2>3, <2>4, <2>6, <3>1, <3>3, <3>4 DEF Decided, Reconciled
  <2>7. CASE step.state # sess /\ ~Positive(step.plan)
    <3>1. job' = [NoJob EXCEPT !.plan = step.plan, !.prev = sess]
      BY <2>4, <2>7
    <3>2. job' \in Jobs /\ job'.plan = step.plan /\ job'.prev = sess
      BY <1>1, <2>3, <3>1 DEF Jobs, Decided
    <3> QED
      BY <2>3, <2>4, <2>7, <3>2 DEF Decided, Reconciled
  <2> QED
    BY <2>5, <2>6, <2>7
<1> QED
  BY <1>2, <1>3, <1>4 DEF ReconcileLocked

\* The job a stored session hands on to its execution.
LEMMA ExecuteStep ==
    ASSUME TypeOK, Execute
    PROVE  /\ lock' \in {"free", "exec"} /\ job' \in Jobs /\ (lock' = "exec" => job'.plan # <<>>)
           /\ Positive(job'.plan) =>
                lock' = "exec" /\ Positive(job.plan) /\ job'.bound = job.bound
<1>1. job \in Jobs /\ NoJob \in Jobs /\ NoJob.plan = <<>> /\ Idle \in PriceSessions
  BY Empties DEF TypeOK, NoJob
<1>2. CASE Release
  BY <1>1, <1>2, NothingForces DEF Release
<1>3. CASE ~Release
  <2> DEFINE w == IF job.bound > 0 THEN PriceWindow(job.at) ELSE 0
  <2>1. /\ job.plan # <<>> /\ lock' = "exec"
        /\ job' = [job EXCEPT !.prev = Idle, !.at = 0, !.window = w]
    BY <1>3 DEF Execute
  <2>2. w \in Nat
    BY DEF PriceWindow, TypeOK
  <2> HIDE DEF w
  <2>3. job' \in Jobs /\ job'.plan = job.plan /\ job'.bound = job.bound
    BY <1>1, <2>1, <2>2 DEF Jobs
  <2> QED
    BY <2>1, <2>3
<1> QED
  BY <1>2, <1>3

\* A command leaves an observable inverter.
LEMMA AcceptTyped ==
    ASSUME TypeOK, NEW c \in ExportCommands, Accept(c)
    PROVE  inv' \in Observations(Powers) /\ forcer' \in {"none", "heo", "other"}
           /\ (forcer' = "heo" /\ forcer # "heo" => Forcing(c) /\ inv'.mode \in ForcedModes)
           /\ (forcer' = "heo" /\ inv.mode \in ForcedModes => inv'.mode \in ForcedModes)
           /\ (forcer' = "heo" => Forcing(c) \/ forcer = "heo")
<1>1. inv \in Observations(Powers) /\ c \in Commands(Powers) /\ inv' = Apply(c, inv)
  BY DEF TypeOK, ExportCommands, Accept
<1>2. CASE c.act = "select_mode"
  <2>1. inv' = [inv EXCEPT !.mode = c.mode] /\ c.mode \in Modes
    BY <1>1, <1>2 DEF Apply, Commands, Modes, ForcedModes
  <2>2. inv' \in Observations(Powers) /\ inv'.mode = c.mode
    BY <1>1, <2>1 DEF Observations
  <2>3. forcer' = IF IsForce(c) THEN "heo" ELSE "none"
    BY <1>2 DEF Accept, ForcerAfter
  <2> QED
    BY <1>2, <2>2, <2>3 DEF Forcing, IsForce
<1>3. CASE c.act = "set_charge_power"
  <2>1. inv' = [inv EXCEPT !.chg = c.kw] /\ c.kw \in Powers
    BY <1>1, <1>3 DEF Apply, Commands
  <2>2. inv' \in Observations(Powers) /\ inv'.mode = inv.mode
    BY <1>1, <2>1 DEF Observations
  <2>3. forcer' = forcer
    BY <1>3 DEF Accept, ForcerAfter
  <2> QED
    BY <2>2, <2>3 DEF TypeOK
<1>4. CASE c.act = "set_discharge_power"
  <2>1. inv' = [inv EXCEPT !.dis = c.kw] /\ c.kw \in Powers
    BY <1>1, <1>4 DEF Apply, Commands
  <2>2. inv' \in Observations(Powers) /\ inv'.mode = inv.mode
    BY <1>1, <2>1 DEF Observations
  <2>3. forcer' = forcer
    BY <1>4 DEF Accept, ForcerAfter
  <2> QED
    BY <2>2, <2>3 DEF TypeOK
<1> QED
  BY <1>1, <1>2, <1>3, <1>4 DEF Commands

\* The initial state is typed.
LEMMA InitTyped == Init => TypeOK
  BY Empties, Numbers DEF Init, TypeOK, Links, SelfUseObservation, Observations, Modes, Idle

\* Every action preserves the type invariant.
LEMMA NextTyped == TypeOK /\ [Next]_vars => TypeOK'
<1> SUFFICES ASSUME TypeOK, [Next]_vars
             PROVE  TypeOK'
  OBVIOUS
<1> USE DEF TypeOK
<1>1. ASSUME ReconcileLocked, UNCHANGED <<now, permit, plant, link, gate, up, disk, events>>
      PROVE  TypeOK'
  <2>1. Reconciled
    BY <1>1, ReconcileStep
  <2> QED
    BY <1>1, <2>1 DEF Reconciled, plant
<1>2. CASE Reconcile
  BY <1>1, <1>2 DEF Reconcile
<1>3. CASE ReconcileAgain
  BY <1>1, <1>3 DEF ReconcileAgain
<1>4. CASE Rearm
  <2>1. sess' \in PriceSessions
    BY <1>4, PriceEdits DEF Rearm
  <2> QED
    BY <1>4, <2>1, Empties DEF Rearm, Spend, plant
<1>5. CASE SaveSucceeds
  <2>1. CASE lock = "rearm"
    BY <1>5, <2>1, Empties DEF SaveSucceeds, plant
  <2>2. CASE lock # "rearm"
    <3>1. Execute
      BY <1>5, <2>2 DEF SaveSucceeds
    <3>2. lock' \in {"free", "exec"} /\ job' \in Jobs /\ (lock' = "exec" => job'.plan # <<>>)
      BY <3>1, ExecuteStep
    <3> QED
      BY <1>5, <3>2 DEF SaveSucceeds, plant
  <2> QED
    BY <2>1, <2>2
<1>6. CASE SaveFails
  <2>1. sess' \in PriceSessions
    BY <1>6 DEF SaveFails, Jobs
  <2>2. lock' \in {"free", "exec"} /\ job' \in Jobs /\ (lock' = "exec" => job'.plan # <<>>)
    <3>1. Execute \/ Release
      BY <1>6 DEF SaveFails
    <3> QED
      BY <3>1, ExecuteStep, Empties DEF Release
  <2> QED
    BY <1>6, <2>1, <2>2 DEF SaveFails, Spend, plant
<1>7. lock = "exec" => /\ Head(job.plan) \in ExportCommands
                       /\ Tail(job.plan) \in Seq(ExportCommands)
                       /\ Len(job.plan) # 1 => Tail(job.plan) # <<>>
  BY TailForces DEF Jobs
<1>8. CASE ExecuteCommand
  <2>1. inv' \in Observations(Powers) /\ forcer' \in {"none", "heo", "other"}
    BY <1>7, <1>8, AcceptTyped DEF ExecuteCommand
  <2>2. lock' \in {"free", "exec"} /\ job' \in Jobs /\ (lock' = "exec" => job'.plan # <<>>)
    <3>1. CASE Len(job.plan) = 1
      BY <1>8, <3>1, Empties DEF ExecuteCommand, Release
    <3>2. CASE Len(job.plan) # 1
      <4>1. job' = [job EXCEPT !.plan = Tail(@)] /\ lock' = "exec"
        BY <1>8, <3>2 DEF ExecuteCommand
      <4>2. job' \in Jobs /\ job'.plan = Tail(job.plan)
        BY <1>7, <1>8, <4>1 DEF ExecuteCommand, Jobs
      <4> QED
        BY <1>7, <1>8, <3>2, <4>1, <4>2 DEF ExecuteCommand
    <3> QED
      BY <3>1, <3>2
  <2> QED
    BY <1>8, <2>1, <2>2 DEF ExecuteCommand
<1>9. CASE CommandBlocked
  BY <1>9, Empties DEF CommandBlocked, Release, plant
<1>10. CASE CommandFails
  <2>1. inv' \in Observations(Powers) /\ forcer' \in {"none", "heo", "other"}
    BY <1>7, <1>10, AcceptTyped DEF CommandFails, plant
  <2> QED
    BY <1>10, <2>1, Empties DEF CommandFails, Release, Spend
<1>11. CASE MarketChanges
  <2>1. permit' \in 0 .. LastInterval
    <3>1. PICK i \in {0} \cup 1 .. LastInterval : permit' = i
      BY <1>11 DEF MarketChanges
    <3>2. LastInterval \in Nat
      BY Numbers
    <3>3. i \in 0 .. LastInterval
      BY <3>2
    <3> QED
      BY <3>1, <3>3
  <2> QED
    BY <1>11, <2>1 DEF MarketChanges, Spend, plant
<1>12. CASE LinkChanges
  BY <1>12 DEF LinkChanges, Spend, plant
<1>13. CASE GateChanges
  BY <1>13 DEF GateChanges, Spend, plant
<1>14. CASE SomebodySelects
  <2>1. inv' \in Observations(Powers) /\ forcer' \in {"none", "heo", "other"}
    BY <1>14 DEF SomebodySelects, Observations, Modes
  <2> QED
    BY <1>14, <2>1 DEF SomebodySelects, Spend
<1>15. CASE Crash
  <2>1. sess' \in PriceSessions /\ up' \in BOOLEAN /\ events' \in Nat
    <3>1. sess' \in PriceSessions
      BY <1>15, Empties DEF Crash
    <3>2. up' = FALSE
      BY <1>15 DEF Crash
    <3>3. events' \in Nat
      BY <1>15 DEF Crash, Spend
    <3> QED
      BY <3>1, <3>2, <3>3
  <2>2. lock' = "free" /\ job' \in Jobs
    BY <1>15, Empties DEF Crash, Release
  <2>3. UNCHANGED <<now, permit, plant, link, gate, disk>>
    BY <1>15 DEF Crash
  <2> QED
    BY <2>1, <2>2, <2>3 DEF plant
<1>16. CASE Boot
  BY <1>16, Numbers DEF Boot, plant
<1>17. CASE Tick
  <2>1. now' \in 0 .. LastTick
    BY <1>17, Numbers DEF Tick, Lesser
  <2>2. sess' \in PriceSessions /\ disk' \in PriceSessions /\ Aged(job.prev) \in PriceSessions
    BY <1>17, PriceEdits DEF Tick, Jobs
  <2>3. job' \in Jobs /\ job'.plan = job.plan
    BY <1>17, <2>2 DEF Tick, Jobs
  <2> QED
    BY <1>17, <2>1, <2>2, <2>3 DEF Tick, plant
<1>18. CASE UNCHANGED vars
  BY <1>18 DEF vars, plant
<1> QED
  BY <1>2, <1>3, <1>4, <1>5, <1>6, <1>8, <1>9, <1>10, <1>11, <1>12, <1>13, <1>14, <1>15,
     <1>16, <1>17, <1>18 DEF Next

\* Every reachable state of PriceExport has the types of the Python fields.
THEOREM TypeInvariant == Spec => []TypeOK
  BY InitTyped, NextTyped, PTL DEF Spec

-----------------------------------------------------------------------------
(* The invariant of the permission. *)

\* A bound within the permission of now is covered.
LEMMA CoveredNow ==
    ASSUME NEW t \in Nat, NEW p \in Nat \ {0}, Start0(p) <= t, NEW b \in Nat, b <= End(p)
    PROVE  Covered(t, p, b)
<1>1. ASSUME NEW i \in Nat, t < Start0(i + 1)
      PROVE  b <= End(i)
  BY <1>1 DEF Start0, End
<1> QED
  BY <1>1 DEF Covered

\* A bound stays covered as time passes and permissions come and go.
LEMMA CoveredKept ==
    ASSUME NEW t \in Nat, NEW p \in Nat, NEW b \in Nat, Covered(t, p, b),
           NEW u \in Nat, t <= u, NEW q \in Nat, q \in {0, p} \/ t < Start0(q + 1)
    PROVE  Covered(u, q, b)
<1>1. ASSUME NEW i \in Nat, u < Start0(i + 1)
      PROVE  b <= End(i)
  <2>1. t < Start0(i + 1)
    BY <1>1 DEF Start0
  <2> QED
    BY <2>1 DEF Covered
<1>2. q # 0 => b <= End(q)
  BY DEF Covered
<1> QED
  BY <1>1, <1>2 DEF Covered

\* Every action preserves PermitInv.
LEMMA NextPermit == TypeOK /\ TypeOK' /\ HandInv /\ PermitInv /\ [Next]_vars => PermitInv'
<1> SUFFICES ASSUME TypeOK, TypeOK', HandInv, PermitInv, [Next]_vars
             PROVE  PermitInv'
  OBVIOUS
<1>1. /\ now \in Nat /\ now' \in Nat /\ permit \in Nat /\ permit' \in Nat
      /\ job.bound \in Nat /\ job'.bound \in Nat
      /\ job.plan \in Seq(ExportCommands)
      /\ permit # 0 => Start0(permit) <= now
  BY DEF TypeOK, Jobs, PermitInv
<1>2. ASSUME ReconcileLocked, UNCHANGED <<now, permit, plant, link, gate, up, disk, events>>
      PROVE  PermitInv'
  <2>1. Reconciled
    BY <1>2, ReconcileStep
  <2>2. Positive(job'.plan) => Covered(now', permit', job'.bound) /\ job'.bound > 0
    BY <1>1, <1>2, <2>1, CoveredNow DEF Reconciled
  <2> QED
    BY <1>1, <1>2, <2>1, <2>2 DEF Reconciled, BoundTo, PermitInv
<1>3. CASE Reconcile
  BY <1>2, <1>3 DEF Reconcile
<1>4. CASE ReconcileAgain
  BY <1>2, <1>4 DEF ReconcileAgain
\* In every other step, a plan that forces afterwards did so before, with the same bound.
<1>5. ASSUME /\ lock' = "cleanup" => ~Positive(job'.plan)
             /\ Positive(job'.plan) => /\ Positive(job.plan) /\ job'.bound = job.bound
                                       /\ lock' \in {"save", "exec"} /\ BoundTo(sess)'
                                       /\ lock' = "exec" => BoundTo(disk)'
             /\ now <= now' /\ (permit' \in {0, permit} \/ now < Start0(permit' + 1))
             /\ permit' # 0 => Start0(permit') <= now'
      PROVE  PermitInv'
  <2>1. Positive(job'.plan) => Covered(now', permit', job'.bound) /\ job'.bound > 0
    BY <1>1, <1>5, CoveredKept DEF PermitInv
  <2> QED
    BY <1>5, <2>1 DEF PermitInv
<1>6. ASSUME UNCHANGED <<now, permit>>
      PROVE  /\ now <= now' /\ permit' \in {0, permit}
             /\ permit' # 0 => Start0(permit') <= now'
  BY <1>1, <1>6
<1>7. lock = "free" \/ lock \in {"rearm", "again", "cleanup"} => ~Positive(job.plan)
  BY DEF PermitInv
<1>8. NoJob.plan = <<>> /\ ~Positive(NoJob.plan)
  BY NothingForces DEF NoJob
<1>9. CASE Rearm
  BY <1>5, <1>6, <1>8, <1>9 DEF Rearm
<1>10. CASE SaveSucceeds
  <2>1. CASE lock = "rearm"
    BY <1>5, <1>6, <1>8, <1>10, <2>1 DEF SaveSucceeds
  <2>2. CASE lock # "rearm"
    <3>1. /\ lock' \in {"free", "exec"}
          /\ Positive(job'.plan) =>
               lock' = "exec" /\ Positive(job.plan) /\ job'.bound = job.bound
      BY <1>10, <2>2, ExecuteStep DEF SaveSucceeds
    <3>2. Positive(job.plan) => BoundTo(sess)
      BY DEF PermitInv
    <3>3. Positive(job'.plan) => BoundTo(sess)' /\ BoundTo(disk)'
      BY <1>10, <3>1, <3>2 DEF SaveSucceeds, BoundTo
    <3> QED
      BY <1>5, <1>6, <1>10, <3>1, <3>3 DEF SaveSucceeds
  <2> QED
    BY <2>1, <2>2
<1>11. CASE SaveFails
  <2>1. ~Positive(job'.plan) /\ lock' # "cleanup"
    <3>1. CASE Release
      BY <1>8, <3>1 DEF Release
    <3>2. CASE CleansUp /\ Execute
      <4>1. ~Positive(job.plan)
        BY <1>7, <3>2 DEF CleansUp
      <4> QED
        BY <3>2, <4>1, ExecuteStep
    <3> QED
      BY <1>11, <3>1, <3>2 DEF SaveFails
  <2> QED
    BY <1>5, <1>6, <1>11, <2>1 DEF SaveFails
<1>12. CASE ExecuteCommand
  <2>1. CASE Len(job.plan) = 1
    BY <1>5, <1>6, <1>8, <1>12, <2>1 DEF ExecuteCommand, Release
  <2>2. CASE Len(job.plan) # 1
    <3>1. job' = [job EXCEPT !.plan = Tail(@)] /\ lock' = lock /\ lock = "exec"
      BY <1>12, <2>2 DEF ExecuteCommand
    <3>2. job'.plan = Tail(job.plan) /\ job'.bound = job.bound
      BY <3>1 DEF TypeOK, Jobs
    <3>3. Positive(job'.plan) => Positive(job.plan)
      BY <1>1, <3>1, <3>2, TailForces DEF TypeOK
    <3>4. Positive(job'.plan) => BoundTo(sess)' /\ BoundTo(disk)'
      BY <1>12, <3>1, <3>2, <3>3 DEF ExecuteCommand, BoundTo, PermitInv
    <3> QED
      BY <1>5, <1>6, <1>12, <3>1, <3>2, <3>3, <3>4 DEF ExecuteCommand
  <2> QED
    BY <2>1, <2>2
<1>13. CASE CommandBlocked
  BY <1>5, <1>6, <1>8, <1>13 DEF CommandBlocked, Release
<1>14. CASE CommandFails
  BY <1>5, <1>6, <1>8, <1>14 DEF CommandFails, Release
<1>15. ASSUME UNCHANGED <<sess, disk, lock, job>>
       PROVE  /\ lock' = "cleanup" => ~Positive(job'.plan)
              /\ Positive(job'.plan) => /\ Positive(job.plan) /\ job'.bound = job.bound
                                        /\ lock' \in {"save", "exec"} /\ BoundTo(sess)'
                                        /\ lock' = "exec" => BoundTo(disk)'
  BY <1>15 DEF BoundTo, PermitInv
<1>16. CASE MarketChanges
  <2>1. /\ now' = now /\ UNCHANGED <<sess, disk, lock, job>>
        /\ permit' = 0 \/ (Start0(permit') <= now /\ now < Start0(permit' + 1))
    BY <1>16 DEF MarketChanges
  <2> QED
    BY <1>1, <1>5, <1>15, <2>1
<1>17. CASE LinkChanges
  BY <1>5, <1>6, <1>15, <1>17 DEF LinkChanges
<1>18. CASE GateChanges
  BY <1>5, <1>6, <1>15, <1>18 DEF GateChanges
<1>19. CASE SomebodySelects
  BY <1>5, <1>6, <1>15, <1>19 DEF SomebodySelects
<1>20. CASE Crash
  BY <1>5, <1>6, <1>8, <1>20 DEF Crash, Release
<1>21. CASE Boot
  <2>1. lock = "free" /\ ~Positive(job.plan)
    BY <1>7, <1>21 DEF Boot, HandInv
  <2> QED
    BY <1>1, <1>5, <1>21, <2>1 DEF Boot
<1>22. CASE Tick
  <2>1. /\ sess'.phase = sess.phase /\ sess'.deadline = sess.deadline
        /\ disk'.phase = disk.phase /\ disk'.deadline = disk.deadline
    BY <1>22, PriceEdits DEF Tick, TypeOK
  <2>2. job'.plan = job.plan /\ job'.bound = job.bound /\ lock' = lock
    BY <1>22 DEF Tick, TypeOK, Jobs
  <2>3. now <= now' /\ permit' = permit /\ (permit' # 0 => Start0(permit') <= now')
    <3>1. now <= now'
      BY <1>22, Numbers DEF Tick, TypeOK, Lesser
    <3> QED
      BY <1>1, <1>22, <3>1 DEF Tick, Start0
  <2>4. Positive(job'.plan) => BoundTo(sess)' /\ (lock' = "exec" => BoundTo(disk)')
    BY <2>1, <2>2 DEF BoundTo, PermitInv
  <2>5. /\ lock' = "cleanup" => ~Positive(job'.plan)
        /\ Positive(job'.plan) => lock' \in {"save", "exec"}
    BY <2>2 DEF PermitInv
  <2> QED
    BY <1>5, <2>2, <2>3, <2>4, <2>5
<1>23. CASE UNCHANGED vars
  BY <1>5, <1>6, <1>15, <1>23 DEF vars
<1> QED
  BY <1>3, <1>4, <1>9, <1>10, <1>11, <1>12, <1>13, <1>14, <1>16, <1>17, <1>18, <1>19, <1>20,
     <1>21, <1>22, <1>23 DEF Next

\* Every action preserves HandInv.
LEMMA NextHand == TypeOK /\ PermitInv /\ HandInv /\ [Next]_vars => HandInv'
<1> SUFFICES ASSUME TypeOK, PermitInv, HandInv, [Next]_vars
             PROVE  HandInv'
  OBVIOUS
<1> USE DEF HandInv
<1>1. ASSUME ReconcileLocked, UNCHANGED <<now, permit, plant, link, gate, up, disk, events>>, up
      PROVE  HandInv'
  <2>1. Reconciled
    BY <1>1, ReconcileStep
  <2>2. forcer = "heo" => Latched(sess) /\ Latched(sess')
    BY <1>1, <2>1 DEF Reconciled, ForcedModes
  <2> QED
    BY <1>1, <2>1, <2>2 DEF Reconciled, plant
<1>2. CASE Reconcile
  BY <1>1, <1>2 DEF Reconcile
<1>3. CASE ReconcileAgain
  BY <1>1, <1>3 DEF ReconcileAgain
<1>4. CASE Rearm
  <2>1. sess'.phase = "recovering"
    BY <1>4 DEF Rearm, TypeOK, PriceSessions
  <2> QED
    BY <1>4, <2>1 DEF Rearm, Latched, plant
<1>5. CASE SaveSucceeds
  <2>1. lock' \in {"free", "exec", "again"}
    BY <1>5, ExecuteStep DEF SaveSucceeds
  <2>2. lock # "free"
    BY <1>5 DEF SaveSucceeds
  <2> QED
    BY <1>5, <2>1, <2>2 DEF SaveSucceeds, plant
<1>6. CASE SaveFails
  <2>1. lock' \in {"free", "exec"}
    BY <1>6, ExecuteStep DEF SaveFails, Release
  <2>2. lock # "free" /\ (sess' = sess \/ (sess' = job.prev /\ lock = "save"))
    BY <1>6 DEF SaveFails
  <2> QED
    BY <1>6, <2>1, <2>2 DEF SaveFails, plant
\* A command that forces the mode finds the starting session stored and in memory.
<1>7. ASSUME lock = "exec", Accept(Head(job.plan)), forcer' = "heo"
      PROVE  inv'.mode \in ForcedModes /\ Latched(disk) /\ Latched(sess)
  <2>1. Head(job.plan) \in ExportCommands /\ (Forcing(Head(job.plan)) => Positive(job.plan))
    BY <1>7, TailForces DEF TypeOK, Jobs
  <2>2. /\ forcer # "heo" => Forcing(Head(job.plan)) /\ inv'.mode \in ForcedModes
        /\ inv.mode \in ForcedModes => inv'.mode \in ForcedModes
    BY <1>7, <2>1, AcceptTyped
  <2>3. Positive(job.plan) => Latched(disk) /\ Latched(sess)
    BY <1>7 DEF PermitInv, BoundTo, Latched
  <2>4. CASE forcer = "heo"
    BY <1>7, <2>2, <2>4
  <2>5. CASE forcer # "heo"
    BY <2>1, <2>2, <2>3, <2>5
  <2> QED
    BY <2>4, <2>5
<1>8. CASE ExecuteCommand
  <2>1. lock' \in {"free", "exec"} /\ UNCHANGED <<up, sess, disk>>
    BY <1>8 DEF ExecuteCommand, Release
  <2>2. up
    BY <1>8 DEF ExecuteCommand
  <2>3. forcer' = "heo" => inv'.mode \in ForcedModes /\ Latched(disk) /\ Latched(sess)
    BY <1>7, <1>8 DEF ExecuteCommand
  <2> QED
    BY <2>1, <2>2, <2>3
<1>9. CASE CommandBlocked
  BY <1>9 DEF CommandBlocked, Release, plant
<1>10. CASE CommandFails
  <2>1. lock' = "free" /\ UNCHANGED <<up, sess, disk>>
    BY <1>10 DEF CommandFails, Release
  <2>2. forcer' = "heo" => inv'.mode \in ForcedModes /\ Latched(disk) /\ Latched(sess)
    <3>1. CASE Accept(Head(job.plan))
      BY <1>7, <1>10, <3>1 DEF CommandFails
    <3>2. CASE UNCHANGED plant
      BY <1>10, <3>2 DEF CommandFails, plant
    <3> QED
      BY <1>10, <3>1, <3>2 DEF CommandFails
  <2> QED
    BY <2>1, <2>2
<1>11. CASE MarketChanges
  BY <1>11 DEF MarketChanges, plant
<1>12. CASE LinkChanges
  BY <1>12 DEF LinkChanges, plant
<1>13. CASE GateChanges
  BY <1>13 DEF GateChanges, plant
<1>14. CASE SomebodySelects
  BY <1>14 DEF SomebodySelects
<1>15. CASE Crash
  BY <1>15 DEF Crash, Release, plant
<1>16. CASE Boot
  BY <1>16 DEF Boot, plant
<1>17. CASE Tick
  <2>1. /\ Latched(sess)' <=> Latched(sess)
        /\ Latched(disk)' <=> Latched(disk)
    BY <1>17, PriceEdits DEF Tick, TypeOK, Latched
  <2>2. Latched(job'.prev) <=> Latched(job.prev)
    BY <1>17, PriceEdits DEF Tick, TypeOK, Jobs, Latched
  <2> QED
    BY <1>17, <2>1, <2>2 DEF Tick, plant
<1>18. CASE UNCHANGED vars
  BY <1>18 DEF vars, plant
<1> QED
  BY <1>2, <1>3, <1>4, <1>5, <1>6, <1>8, <1>9, <1>10, <1>11, <1>12, <1>13, <1>14, <1>15,
     <1>16, <1>17, <1>18 DEF Next

\* Both invariants hold of every reachable state: the bound of a plan that forces, and
\* the records of a battery that is forced.
THEOREM PriceInvariant == Spec => [](TypeOK /\ PermitInv /\ HandInv)
<1> DEFINE IInv == TypeOK /\ PermitInv /\ HandInv
<1>1. Init => PermitInv /\ HandInv
  BY NothingForces DEF Init, PermitInv, HandInv, NoJob
<1>2. IInv /\ [Next]_vars => IInv'
  BY NextTyped, NextPermit, NextHand
<1> QED
  BY <1>1, <1>2, InitTyped, PTL DEF Spec

-----------------------------------------------------------------------------
(* The two properties. *)

\* Whenever a command forces the battery, the price permits it at this moment and the
\* stored journal's deadline is ahead and within the permission (active.py
\* _writes_still_authorized), whatever was withdrawn since the decision.
THEOREM WritesPermitted == Spec => PermittedWrites
<1>1. ASSUME TypeOK, PermitInv, HandInv, [Next]_vars,
             lock = "exec", Forcing(Head(job.plan)), inv' # inv,
             inv' = Apply(Head(job.plan), inv)
      PROVE  /\ PriceWindow(now) # 0 /\ disk.phase = "starting"
             /\ now < disk.deadline /\ disk.deadline <= End(PriceWindow(now))
  <2> DEFINE c == Head(job.plan)
  <2>1. c \in ExportCommands /\ Positive(job.plan)
    BY <1>1, TailForces DEF TypeOK, Jobs
  <2>2. /\ job.bound > 0 /\ Covered(now, permit, job.bound)
        /\ disk.phase = "starting" /\ disk.deadline = job.bound
    BY <1>1, <2>1 DEF PermitInv, BoundTo
  <2>3. inv \in Observations(Powers)
    BY <1>1 DEF TypeOK
  <2>4. Authorized
    <3>1. CASE SomebodySelects
      <4>1. PICK m \in {"SelfUse", "ForceCharge"} \ {inv.mode} : inv' = [inv EXCEPT !.mode = m]
        BY <3>1 DEF SomebodySelects
      <4>2. inv'.mode = m
        BY <2>3, <4>1 DEF Observations
      <4>3. inv'.mode = IF IsForce(c) THEN "ForceDischarge" ELSE inv.mode
        <5>1. CASE IsForce(c)
          <6>1. c.act = "select_mode" /\ c.mode = "ForceDischarge"
            BY <2>1, <5>1 DEF ExportCommands, IsForce
          <6>2. inv' = [inv EXCEPT !.mode = c.mode]
            BY <1>1, <6>1 DEF Apply
          <6> QED
            BY <2>3, <5>1, <6>1, <6>2 DEF Observations
        <5>2. CASE ~IsForce(c)
          <6>1. c.act = "set_discharge_power"
            BY <1>1, <5>2 DEF Forcing
          <6>2. inv' = [inv EXCEPT !.dis = c.kw]
            BY <1>1, <6>1 DEF Apply
          <6> QED
            BY <2>3, <5>2, <6>2 DEF Observations
        <5> QED
          BY <5>1, <5>2
      <4> QED
        BY <4>1, <4>2, <4>3
    <3>2. CASE ExecuteCommand \/ CommandFails
      BY <3>2 DEF ExecuteCommand, CommandFails
    <3>3. CASE ~(SomebodySelects \/ ExecuteCommand \/ CommandFails)
      <4>1. UNCHANGED plant
        BY <1>1, <3>3 DEF Next, vars, Reconcile, ReconcileAgain, Rearm, SaveSucceeds, SaveFails,
           CommandBlocked, MarketChanges, LinkChanges, GateChanges, Crash, Boot, Tick
      <4> QED
        BY <1>1, <4>1 DEF plant
    <3> QED
      BY <3>1, <3>2, <3>3
  <2>5. now < job.bound /\ PriceWindow(now) # 0
    BY <2>2, <2>4 DEF Authorized
  <2>6. PriceWindow(now) = permit /\ permit # 0
    BY <2>5 DEF PriceWindow
  <2> QED
    BY <2>2, <2>5, <2>6 DEF Covered
<1>2. TypeOK /\ PermitInv /\ HandInv /\ [Next]_vars =>
        [lock = "exec" /\ Forcing(Head(job.plan))
         /\ inv' # inv /\ inv' = Apply(Head(job.plan), inv)
         => /\ PriceWindow(now) # 0 /\ disk.phase = "starting"
            /\ now < disk.deadline /\ disk.deadline <= End(PriceWindow(now))]_vars
  BY <1>1
<1> QED
  BY <1>2, PriceInvariant, PTL DEF Spec, PermittedWrites

\* PriceExport implements Obligation: the battery is forced, and stays forced, only
\* while a journal that says so is stored (active.py _async_reconcile_export).
THEOREM ImplementsLedger == Spec => PriceObligation
<1>1. Init => Ledger!Init
  BY DEF Init, Ledger!Init, Idle, Latched
<1>2. ASSUME TypeOK, PermitInv, HandInv, [Next]_vars
      PROVE  [Ledger!Next]_<<forcer = "heo", Latched(disk)>>
  <2>1. HandInv'
    BY <1>2, NextHand
  <2> DEFINE acting == forcer = "heo"
             recorded == Latched(disk)
  <2>2. acting' => recorded'
    BY <2>1 DEF HandInv
  <2>3. acting => recorded
    BY <1>2 DEF HandInv
  <2>4. acting # acting' => UNCHANGED disk
    BY <1>2 DEF Next, vars, plant, Reconcile, ReconcileAgain, Rearm, SaveSucceeds, SaveFails,
       ExecuteCommand, CommandBlocked, CommandFails, MarketChanges, LinkChanges, GateChanges,
       SomebodySelects, Crash, Boot, Tick
  <2> QED
    BY <2>2, <2>3, <2>4 DEF Ledger!Next, Ledger!Record, Ledger!Act, Ledger!End, Ledger!Forget
<1> QED
  BY <1>1, <1>2, PriceInvariant, PTL DEF Spec, PriceObligation, Ledger!Spec

-----------------------------------------------------------------------------
(***************************************************************************)
(* The market monitor: the evidence it acts on was read under the settings *)
(* of now, a veto stands until a newer report lifts it, and what the       *)
(* operator withdrew is not used again.                                    *)
(***************************************************************************)
\* A record of evidence.
MarketRecords ==
    [src : {"none", "official", "amber"}, int : Nat, price : {0, 1, 2},
     restr : {"no", "suspended", "intervention"}, serial : Nat,
     status : {"missing", "withheld", "restricted", "watching", "candidate"}, threshold : {0, 1, 2}]
Reports == Contents \cup {NoReport}
Readings == [int : Nat, price : {1, 2}, stamp : Nat \ {0}] \cup {NoReading}
Downloads == [phase : {"idle", "due", "reading"}, fresh : BOOLEAN, threshold : {0, 1, 2},
              int : Nat, serial : Nat, content : Reports]

MonitorTypeOK ==
    /\ clock \in Nat /\ feed \in [1 .. MaxSerial -> Reports] /\ native \in Readings
    /\ cfg \in Configurations /\ running \in {"up", "down"}
    /\ obs \in Seq(MarketRecords)
    /\ aemo \in MarketRecords /\ last \in MarketRecords /\ confirmed \in MarketRecords
    /\ result \in MarketRecords /\ active \in MarketRecords
    /\ expiry \in Nat /\ saving \in BOOLEAN
    /\ store \in [obs : Seq(MarketRecords), active : MarketRecords]
    /\ fetch \in Downloads /\ heard \in BOOLEAN
    /\ known \in [official : MarketRecords, amber : MarketRecords]
    /\ changes \in Nat

\* What a record of the interval i says of a dispatch, with a price or without.
Worth(r) == HasPrice(r) \/ r.restr = "intervention"
Official(r, i) == r.src = "official" /\ r.int = i /\ Worth(r)

\* A record was judged under its own threshold, comes from no later interval than i, and
\* says of this one what the operator of the market has published under its number (f).
Honest(r, i, f) ==
    /\ r \in MarketRecords /\ r.int <= i
    /\ HasPrice(r) => /\ r.src # "none" /\ r.restr # "intervention"
                      /\ r.status = Judged(r.price, r.restr, r.threshold)
    /\ ~HasPrice(r) => r.status \notin {"watching", "candidate"}
    /\ r.restr = "intervention" => r.status = "restricted"
    /\ r.src = "amber" => r.restr = "no"
    /\ r.src = "none" => r.int = 0
    /\ Official(r, i) => r.serial \in 1 .. MaxSerial
                            /\ f[r.serial].price = r.price /\ f[r.serial].restr = r.restr

AllHonest(S, i, f) == \A r \in S : Honest(r, i, f)

\* Everything that can be read as evidence.
Believed == {aemo, last, confirmed, result, active, store.active, known.official, known.amber}
                \cup ToSet(obs) \cup ToSet(store.obs)
Telling(S) == \A r \in S : r.src = "none" \/ Worth(r)

Sources ==
    /\ AllHonest(Believed, Interval(clock), feed)
    /\ Telling(ToSet(obs)) /\ Telling(ToSet(store.obs))
    /\ native.int <= Interval(clock) /\ fetch.int <= Interval(clock)
    /\ fetch.phase = "reading" => fetch.int > 0 /\ fetch.content # NoReport
    /\ fetch.phase = "reading" /\ fetch.int = Interval(clock) =>
          fetch.serial \in 1 .. MaxSerial /\ feed[fetch.serial] = fetch.content
    /\ \E m \in 0 .. MaxSerial : Listed = 1 .. m

\* What is in memory was judged under the settings in force.
Configured ==
    /\ EvidenceIsConfigured
    /\ fetch.phase = "reading" /\ fetch.fresh => cfg.on /\ fetch.threshold = cfg.threshold
    /\ heard => cfg.on /\ cfg.amber
    /\ last # NoRecord => last.src = "amber" /\ HasPrice(last) /\ cfg.amber
    /\ HasPrice(confirmed) => confirmed.status \in {"watching", "candidate"}
    /\ ~cfg.amber => (HasPrice(result) => result = aemo) /\ confirmed.src # "amber"
    /\ expiry > 0 => cfg.on
    /\ expiry > 0 /\ HasInterval(result) => HasPrice(result)
    /\ active # NoRecord => HasPrice(active)
    /\ running = "down" => result = NoRecord /\ aemo = NoRecord /\ last = NoRecord
                              /\ confirmed = NoRecord /\ obs = <<>> /\ active = NoRecord
                              /\ known = Nothing

\* The newest official report used, n, is among the observations o and none of them is
\* newer; the official result a with a price is the newest of those with a price.
Evident(a, o, n, c, i) ==
    /\ HasInterval(n) => /\ Official(n, i)
                         /\ \E q \in ToSet(o) : Official(q, i) /\ q.serial = n.serial
    /\ ~HasInterval(n) => n = NoRecord
    /\ \A q \in ToSet(o) : Official(q, i) => HasInterval(n) /\ q.serial <= n.serial
    /\ a.src # "amber"
    /\ HasPrice(a) => c.on /\ a.threshold = c.threshold
    /\ HasPrice(a) /\ a.int = i =>
          /\ HasInterval(n) /\ a.serial <= n.serial
          /\ \A q \in ToSet(o) : Official(q, i) /\ HasPrice(q) => q.serial <= a.serial
    /\ c.amber /\ Official(a, i) => HasInterval(n) /\ a.serial <= n.serial

\* A confirmed official price is the one of the newest report, except that the direct
\* source does not look at an intervention.
Confirms(r, n, c, i) ==
    HasInterval(n) /\ r.src = "official" /\ HasPrice(r) =>
        \/ r.int = i /\ r.serial = n.serial
        \/ ~c.amber /\ n.restr = "intervention"

Newest == /\ Evident(aemo, obs, known.official, cfg, Interval(clock))
          /\ Confirms(confirmed, known.official, cfg, Interval(clock))

\* The newest reading used, a, is the one the monitor remembers or would find again
\* among its observations.
Matches(a, amber, o, t) ==
    /\ ~HasInterval(a) => a = NoRecord
    /\ HasInterval(a) \/ PriorAmber(amber, o, t).int = Interval(t) =>
          /\ a.src = "amber" /\ a.int = Interval(t) /\ HasPrice(a)
          /\ PriorAmber(amber, o, t).int = Interval(t)
          /\ PriorAmber(amber, o, t).serial = a.serial
          /\ PriorAmber(amber, o, t).price = a.price
Withdraws(a, r, c) ==
    HasInterval(a) /\ a.price < c.threshold => ~HasPrice(r) \/ r.price < c.threshold

Withdrawn == cfg.amber => /\ Matches(known.amber, last, obs, clock)
                          /\ Withdraws(known.amber, confirmed, cfg)

-----------------------------------------------------------------------------
(* Intervals, records and the operators on lists of observations. *)

\* The interval of a moment; a tick enters the next one at most.
LEMMA Intervals ==
    ASSUME NEW t \in Nat
    PROVE  Interval(t) \in Nat \ {0} /\ Interval(t + 1) \in {Interval(t), Interval(t) + 1}
BY DEF Interval

\* The absence of a record says nothing.
LEMMA NoRecordHonest ==
    ASSUME NEW i \in Nat, NEW f
    PROVE  Honest(NoRecord, i, f) /\ ~HasPrice(NoRecord) /\ ~HasInterval(NoRecord)
             /\ ~Worth(NoRecord) /\ NoRecord.src = "none" /\ NoRecord.int = 0
             /\ NoRecord.serial = 0 /\ ~Restricted(NoRecord) /\ NoRecord.status = "missing"
BY DEF Honest, NoRecord, HasPrice, Official, Worth, MarketRecords, HasInterval, Restricted

\* The members of a sequence.
LEMMA Elements ==
    ASSUME NEW S, NEW o \in Seq(S)
    PROVE  /\ \A q \in ToSet(o) : q \in S
           /\ \A n \in DOMAIN o : o[n] \in ToSet(o)
           /\ \A x \in S : ToSet(Append(o, x)) = ToSet(o) \cup {x}
<1>1. \A n \in DOMAIN o : o[n] \in S /\ o[n] \in ToSet(o)
  BY DEF ToSet
<1>2. ASSUME NEW x \in S
      PROVE  ToSet(Append(o, x)) = ToSet(o) \cup {x}
  <2>1. ASSUME NEW y \in ToSet(Append(o, x))
        PROVE  y \in ToSet(o) \cup {x}
    BY <2>1 DEF ToSet
  <2>2. ASSUME NEW y \in ToSet(o)
        PROVE  y \in ToSet(Append(o, x))
    <3>1. PICK n \in 1 .. Len(o) : y = o[n]
      BY <2>2 DEF ToSet
    <3>2. n \in DOMAIN Append(o, x) /\ Append(o, x)[n] = y
      BY <3>1
    <3> QED
      BY <3>2 DEF ToSet
  <2>3. x \in ToSet(Append(o, x))
    <3>1. Len(o) + 1 \in DOMAIN Append(o, x) /\ Append(o, x)[Len(o) + 1] = x
      OBVIOUS
    <3> QED
      BY <3>1 DEF ToSet
  <2> QED
    BY <2>1, <2>2, <2>3
<1> QED
  BY <1>1, <1>2 DEF ToSet

\* A set of numbers below a bound that is not empty has a greatest one.
LEMMA GreatestBelow ==
    ASSUME NEW S, S \subseteq Nat, S # {}, NEW b \in Nat, \A x \in S : x <= b
    PROVE  \E m \in S : \A x \in S : x <= m
<1> DEFINE R == OpToRel(<, Nat)
           T == {b - x : x \in S}
<1>1. IsWellFoundedOn(R, Nat)
  BY NatLessThanWellFounded
<1>2. \A x, y \in Nat : x < y => <<x, y>> \in R
  BY DEF OpToRel
<1>3. T \subseteq Nat /\ T # {}
  <2>1. \A x \in S : b - x \in Nat
    OBVIOUS
  <2> QED
    BY <2>1
<1> HIDE DEF R, T
<1>4. PICK x \in T : \A y \in T : ~(<<y, x>> \in R)
  BY <1>1, <1>3, WFMin
<1>5. PICK m \in S : x = b - m
  BY <1>4 DEF T
<1>6. ASSUME NEW y \in S
      PROVE  y <= m
  <2>1. b - y \in T /\ b - y \in Nat /\ b - m \in Nat
    BY <1>3, <1>5, <1>4 DEF T
  <2>2. ~(b - y < b - m)
    BY <1>2, <1>4, <1>5, <2>1
  <2> QED
    BY <2>2
<1> QED
  BY <1>6

\* Max picks the greatest position.
LEMMA GreatestIndex ==
    ASSUME NEW S, NEW n \in Nat, S \subseteq 1 .. n, S # {}
    PROVE  Max(S) \in S /\ \A x \in S : x <= Max(S)
<1>1. S \subseteq Nat /\ \A x \in S : x <= n
  OBVIOUS
<1>2. PICK m \in S : \A x \in S : x <= m
  BY <1>1, GreatestBelow
<1> QED
  BY <1>1, <1>2 DEF Max

\* The latest observation of a provider is one of the list, or there is none.
LEMMA LatestIs ==
    ASSUME NEW o \in Seq(MarketRecords), NEW src, NEW i
    PROVE  \/ Latest(o, src, i) = NoRecord
           \/ /\ Latest(o, src, i) \in ToSet(o)
              /\ Latest(o, src, i).src = src /\ Latest(o, src, i).int = i
<1> DEFINE at == {n \in DOMAIN o : o[n].src = src /\ o[n].int = i}
<1>1. CASE at = {}
  BY <1>1 DEF Latest
<1>2. CASE at # {}
  <2>1. at \subseteq 1 .. Len(o) /\ Len(o) \in Nat
    OBVIOUS
  <2>2. Latest(o, src, i) = o[Max(at)]
    BY <1>2 DEF Latest
  <2>3. Max(at) \in at
    <3> HIDE DEF at
    <3> QED
      BY <1>2, <2>1, GreatestIndex
  <2> QED
    BY <2>2, <2>3, Elements
<1> QED
  BY <1>1, <1>2

\* What is appended for another provider does not change what is found.
LEMMA LatestAppended ==
    ASSUME NEW o \in Seq(MarketRecords), NEW x \in MarketRecords, NEW src, NEW i, x.src # src
    PROVE  Latest(Append(o, x), src, i) = Latest(o, src, i)
<1> DEFINE at == {n \in DOMAIN o : o[n].src = src /\ o[n].int = i}
           p == Append(o, x)
           bt == {n \in DOMAIN p : p[n].src = src /\ p[n].int = i}
<1>1. bt = at
  OBVIOUS
<1>2. CASE at = {}
  BY <1>1, <1>2 DEF Latest
<1>3. CASE at # {}
  <2>1. at \subseteq 1 .. Len(o) /\ Len(o) \in Nat
    OBVIOUS
  <2>2. Max(at) \in at
    <3> HIDE DEF at
    <3> QED
      BY <1>3, <2>1, GreatestIndex
  <2>3. p[Max(at)] = o[Max(at)]
    BY <2>2
  <2> QED
    BY <1>1, <1>3, <2>3 DEF Latest
<1> QED
  BY <1>2, <1>3

\* What noting an observation does to the list.
LEMMA NotedIs ==
    ASSUME NEW o \in Seq(MarketRecords), NEW r \in MarketRecords
    PROVE  /\ Noted(o, r) \in Seq(MarketRecords) /\ ToSet(Noted(o, r)) = ToSet(o) \cup {r}
           /\ \A src, i : r.src # src => Latest(Noted(o, r), src, i) = Latest(o, src, i)
BY Elements, LatestAppended DEF Noted

\* An accepted report is not older than any report with a price among the observations.
LEMMA Prevented ==
    ASSUME NEW i, NEW f, NEW o \in Seq(MarketRecords), AllHonest(ToSet(o), i, f),
           NEW r, Honest(r, i, f), NEW th \in {0, 1, 2},
           r.src = "official", HasPrice(r), r.int = i,
           NEW p, p = PreventDispatchReplay(r, o, th)
    PROVE  /\ Honest(p, i, f) /\ p.src = "official" /\ p.int = i /\ HasPrice(p)
           /\ \A q \in ToSet(o) : Official(q, i) /\ HasPrice(q) => q.serial <= p.serial
           /\ \/ p = r
              \/ p.threshold = th /\ p.serial > r.serial
                    /\ \E q \in ToSet(o) : Official(q, i) /\ q.serial = p.serial
<1> DEFINE newer == {q \in ToSet(o) : /\ q.src = "official" /\ HasPrice(q)
                                      /\ q.int = r.int /\ q.serial > r.serial}
           numbers == {q.serial : q \in newer}
<1>1. \A q \in ToSet(o) : Honest(q, i, f)
  BY DEF AllHonest
<1>2. \A q \in ToSet(o) : q \in MarketRecords /\ q.serial \in Nat
  BY <1>1 DEF Honest, MarketRecords
<1>3. r \in MarketRecords /\ r.serial \in Nat
  BY DEF Honest, MarketRecords
<1>4. CASE newer = {}
  <2>1. p = r
    BY <1>4 DEF PreventDispatchReplay
  <2> QED
    BY <1>2, <1>3, <1>4, <2>1 DEF Official
<1>5. CASE newer # {}
  <2>1. \A q \in newer : Official(q, i) /\ q.serial <= MaxSerial /\ q.serial \in Nat
    BY <1>1, <1>2 DEF Honest, Official, Worth
  <2>2. numbers \subseteq Nat /\ numbers # {} /\ \A x \in numbers : x <= MaxSerial
    BY <1>5, <2>1
  <2>3. PICK m \in numbers : \A x \in numbers : x <= m
    <3> HIDE DEF numbers
    <3> QED
      BY <2>2, GreatestBelow, MonitorBoundsAssumption
  <2>4. \E q \in newer : \A x \in newer : x.serial <= q.serial
    BY <2>3
  <2> DEFINE newest == CHOOSE q \in newer : \A x \in newer : x.serial <= q.serial
  <2>5. newest \in newer /\ \A x \in newer : x.serial <= newest.serial
    <3> HIDE DEF newer
    <3> QED
      BY <2>4
  <2>6. p = [newest EXCEPT !.threshold = th,
                           !.status = Judged(newest.price, newest.restr, th)]
    BY <1>5 DEF PreventDispatchReplay
  <2> HIDE DEF newest
  <2>7. /\ newest \in ToSet(o) /\ newest \in MarketRecords /\ newest.src = "official"
        /\ HasPrice(newest) /\ newest.int = i /\ newest.serial > r.serial /\ Honest(newest, i, f)
    BY <1>1, <1>2, <2>5
  <2>8. Judged(newest.price, newest.restr, th) \in {"restricted", "candidate", "watching"}
    BY DEF Judged
  <2>9. /\ p \in MarketRecords /\ p.src = newest.src /\ p.int = newest.int /\ p.price = newest.price
        /\ p.restr = newest.restr /\ p.serial = newest.serial /\ p.threshold = th
        /\ p.status = Judged(newest.price, newest.restr, th)
    BY <2>6, <2>7, <2>8 DEF MarketRecords
  <2>10. Honest(p, i, f) /\ p.src = "official" /\ p.int = i /\ HasPrice(p)
    BY <2>7, <2>9 DEF Honest, HasPrice, Official, Worth
  <2>11. ASSUME NEW q \in ToSet(o), Official(q, i), HasPrice(q)
         PROVE  q.serial <= p.serial
    <3>1. q.serial > r.serial => q \in newer
      BY <2>11 DEF Official
    <3> QED
      BY <1>2, <1>3, <2>5, <2>7, <2>9, <2>11, <3>1
  <2>12. Official(newest, i)
    BY <2>7 DEF Official, Worth
  <2> QED
    BY <2>7, <2>9, <2>10, <2>11, <2>12
<1> QED
  BY <1>4, <1>5

\* The newest official report of the interval, as the choice between the providers sees it.
NewestAmong(n, S, i) ==
    \/ n = NoRecord /\ \A q \in S : ~Official(q, i)
    \/ n \in S /\ Official(n, i) /\ \A q \in S : Official(q, i) => q.serial <= n.serial

LEMMA NewestOfficialIs ==
    ASSUME NEW t, NEW f, NEW o \in Seq(MarketRecords), NEW fallback,
           AllHonest(ToSet(o) \cup {fallback}, Interval(t), f)
    PROVE  NewestAmong(NewestOfficial(o, fallback, t), ToSet(o) \cup {fallback}, Interval(t))
<1> DEFINE i == Interval(t)
           n == NewestOfficial(o, fallback, t)
           all == ToSet(o) \cup {fallback}
           qualified == {q \in all : /\ q.src = "official" /\ q.int = i
                                     /\ HasPrice(q) \/ q.restr = "intervention"}
           best(q) == \A p \in qualified : \/ p.serial < q.serial
                                           \/ p.serial = q.serial
                                                /\ (Restricted(p) => Restricted(q))
           numbers == {q.serial : q \in qualified}
<1>1. \A q \in all : q \in qualified <=> Official(q, i)
  BY DEF Official, Worth
<1>2. n = IF qualified = {} THEN NoRecord ELSE CHOOSE q \in qualified : best(q)
  BY DEF NewestOfficial
<1>3. \A q \in qualified : q \in all /\ q.serial \in Nat /\ q.serial <= MaxSerial
  BY DEF Honest, Official, Worth, MarketRecords, AllHonest
<1>4. CASE qualified = {}
  BY <1>1, <1>2, <1>4 DEF NewestAmong
<1>5. CASE qualified # {}
  <2>1. numbers \subseteq Nat /\ numbers # {} /\ \A x \in numbers : x <= MaxSerial
    BY <1>3, <1>5
  <2>2. PICK m \in numbers : \A x \in numbers : x <= m
    <3> HIDE DEF numbers
    <3> QED
      BY <2>1, GreatestBelow, MonitorBoundsAssumption
  <2>3. \A q \in qualified : q.serial < m \/ q.serial = m
    <3>1. m \in Nat
      BY <2>1
    <3>2. \A q \in qualified : q.serial <= m
      BY <2>2
    <3> HIDE DEF qualified, numbers
    <3> QED
      BY <1>3, <3>1, <3>2
  <2>4. \E q \in qualified : best(q)
    <3>1. CASE \E q \in qualified : q.serial = m /\ Restricted(q)
      BY <2>3, <3>1
    <3>2. CASE ~\E q \in qualified : q.serial = m /\ Restricted(q)
      BY <2>2, <2>3, <3>2
    <3> QED
      BY <3>1, <3>2
  <2>5. n \in qualified /\ best(n)
    <3> HIDE DEF qualified, best
    <3> QED
      BY <1>2, <1>5, <2>4
  <2> QED
    BY <1>1, <1>3, <2>5 DEF NewestAmong
<1> QED
  BY <1>4, <1>5

\* A record that loses its price.
Emptied(r, s) == [src |-> r.src, int |-> r.int, price |-> 0, restr |-> r.restr,
                  serial |-> r.serial, status |-> s, threshold |-> r.threshold]

\* An emptied record differs in its price and its status only.
LEMMA EmptiedIs ==
    ASSUME NEW r \in MarketRecords, NEW s \in {"missing", "withheld", "restricted"}
    PROVE  /\ Emptied(r, s) \in MarketRecords /\ Emptied(r, s).price = 0
           /\ Emptied(r, s).status = s /\ Emptied(r, s).src = r.src
           /\ Emptied(r, s).int = r.int /\ Emptied(r, s).restr = r.restr
           /\ Emptied(r, s).serial = r.serial /\ Emptied(r, s).threshold = r.threshold
BY DEF MarketRecords, Emptied

\* Withholding a record empties it.
LEMMA WithheldIs ==
    ASSUME NEW r \in MarketRecords, NEW x, x = Withheld(r)
    PROVE  x = Emptied(r, "withheld")
<1>1. x = [r EXCEPT !.price = 0, !.status = "withheld"]
  BY DEF Withheld
<1> QED
  BY <1>1 DEF Emptied, MarketRecords

\* A reading of the Amber entity at the moment t.
ReadingAt(p, th, t, f) ==
    /\ Honest(p, Interval(t), f) /\ (~HasPrice(p) => p = NoRecord)
    /\ HasPrice(p) => /\ p.src = "amber" /\ p.int = Interval(t) /\ p.threshold = th
                      /\ p.restr = "no" /\ p.serial > 0 /\ PriceTriggerValid(p, t)

\* An Amber reading counts in its own interval only, and then it is unrestricted.
LEMMA ReadingOf ==
    ASSUME NEW t \in Nat, NEW f, NEW reading \in Readings, NEW th \in {0, 1, 2}
    PROVE  ReadingAt(AmberResult(reading, th, t), th, t, f)
<1> DEFINE i == Interval(t)
           p == AmberResult(reading, th, t)
<1>1. i \in Nat \ {0}
  BY Intervals
<1>2. CASE reading.int = i
  <2>1. p = [src |-> "amber", int |-> reading.int, price |-> reading.price, restr |-> "no",
             serial |-> reading.stamp, threshold |-> th,
             status |-> Judged(reading.price, "no", th)]
    BY <1>2 DEF AmberResult, AmberSample
  <2>2. reading \in [int : Nat, price : {1, 2}, stamp : Nat \ {0}]
    BY <1>1, <1>2 DEF Readings, NoReading
  <2>3. Judged(reading.price, "no", th) \in {"watching", "candidate"}
    BY DEF Judged
  <2> QED
    BY <1>1, <1>2, <2>1, <2>2, <2>3
       DEF Honest, MarketRecords, HasPrice, Official, PriceTriggerValid, ReadingAt
<1>3. CASE reading.int # i
  <2>1. p = NoRecord
    BY <1>3 DEF AmberResult, AmberSample
  <2> QED
    BY <1>1, <2>1, NoRecordHonest DEF ReadingAt
<1> QED
  BY <1>2, <1>3

\* A record as it is read at a moment of the interval i.
LEMMA CurrentHonest ==
    ASSUME NEW t \in Nat, NEW i, i = Interval(t), NEW f, NEW a, Honest(a, i, f),
           NEW r, r = CurrentAt(a, t)
    PROVE  /\ Honest(r, i, f)
           /\ HasPrice(a) /\ a.int = i => r = a
           /\ ~HasPrice(a) => r = a
           /\ HasPrice(r) => r = a /\ a.int = i
           /\ HasPrice(a) /\ a.int # i => r.status = "missing" /\ ~Worth(r) /\ r.int = a.int
                                            /\ r.src = a.src
<1>1. CASE HasPrice(a) /\ a.int # i
  <2>1. r = [a EXCEPT !.price = 0, !.status = "missing"]
    BY <1>1 DEF CurrentAt
  <2>2. a \in MarketRecords
    BY DEF Honest
  <2>3. r = Emptied(a, "missing")
    BY <2>1, <2>2 DEF Emptied, MarketRecords
  <2>4. r \in MarketRecords /\ r.price = 0 /\ r.int = a.int /\ r.src = a.src /\ r.restr = a.restr
        /\ r.status = "missing"
    BY <2>2, <2>3, EmptiedIs
  <2> QED
    BY <1>1, <2>4 DEF Honest, HasPrice, Official, Worth
<1>2. CASE ~(HasPrice(a) /\ a.int # i)
  BY <1>2 DEF CurrentAt
<1> QED
  BY <1>1, <1>2

\* A price that counts: it is of this interval and its market is not restricted.
LEMMA ValidIs ==
    ASSUME NEW t, NEW i, i = Interval(t), NEW f, NEW r, Honest(r, i, f)
    PROVE  PriceTriggerValid(r, t) <=> HasPrice(r) /\ r.int = i /\ ~Restricted(r)
BY DEF PriceTriggerValid, Honest, Judged, Restricted

\* What the choice between the providers answers and remembers, with Amber configured.
LEMMA Chosen ==
    ASSUME NEW t \in Nat, NEW i, i = Interval(t), NEW f,
           NEW c \in Configurations, c.on, c.amber, NEW reading \in Readings,
           NEW a, Honest(a, i, f),
           NEW o \in Seq(MarketRecords), AllHonest(ToSet(o), i, f),
           NEW n, Honest(n, i, f), Evident(a, o, n, c, i),
           NEW amber, Honest(amber, i, f),
           NEW x, x = Selected(reading, a, o, amber, c, t),
           NEW primary, primary = AmberResult(reading, c.threshold, t)
    PROVE  /\ Honest(x.result, i, f) /\ x.last \in {amber, primary}
           /\ x.last # amber => HasPrice(primary) /\ x.last = primary
                                  /\ ~Replayed(primary, PriorAmber(amber, o, t))
           /\ HasPrice(x.result) =>
                 /\ PriceTriggerValid(x.result, t) /\ x.result.threshold = c.threshold
                 /\ ~Restricted(n)
                 /\ \/ x.result = a /\ a.src = "official" /\ HasInterval(n) /\ a.serial = n.serial
                         /\ ~HasPrice(primary)
                         /\ ~Contradicts(a, PriorAmber(amber, o, t), c.threshold, t)
                    \/ x.result = primary /\ x.last = primary /\ primary.src = "amber"
           /\ ~HasPrice(x.result) =>
                 \/ x.result.status \in {"restricted", "withheld"}
                 \/ ~Official(a, i) /\ x.last = amber /\ ~Restricted(n)
<1> DEFINE fallback == CurrentAt(a, t)
           prior == PriorAmber(amber, o, t)
           newest == NewestOfficial(o, fallback, t)
           replayed == Replayed(primary, prior)
<1>1. /\ x.last = IF HasPrice(primary) /\ ~replayed THEN primary ELSE amber
      /\ x.result = IF replayed THEN Withheld(primary)
                    ELSE IF Restricted(newest) THEN [newest EXCEPT !.price = 0]
                    ELSE IF HasPrice(primary) THEN primary
                    ELSE IF Contradicts(fallback, prior, c.threshold, t)
                      THEN Withheld(fallback)
                    ELSE fallback
  BY DEF Selected
<1>2. replayed => HasPrice(primary)
  BY DEF Replayed
<1>3. i \in Nat \ {0} /\ c.threshold \in {0, 1, 2}
  BY Intervals, ConfigurationsAssumption
<1>4. /\ Honest(primary, i, f) /\ (~HasPrice(primary) => primary = NoRecord)
      /\ HasPrice(primary) => /\ primary.src = "amber" /\ primary.int = i
                              /\ primary.threshold = c.threshold /\ primary.restr = "no"
                              /\ PriceTriggerValid(primary, t)
  <2>1. ReadingAt(primary, c.threshold, t, f)
    BY <1>3, ReadingOf
  <2> QED
    BY <2>1 DEF ReadingAt
<1>5. /\ Honest(fallback, i, f)
      /\ HasPrice(a) /\ a.int = i => fallback = a
      /\ ~HasPrice(a) => fallback = a
      /\ HasPrice(fallback) => fallback = a /\ a.int = i
      /\ HasPrice(a) /\ a.int # i => ~Worth(fallback)
  BY CurrentHonest
<1>6. \/ newest = NoRecord /\ \A q \in ToSet(o) \cup {fallback} : ~Official(q, i)
      \/ /\ newest \in ToSet(o) \cup {fallback} /\ Official(newest, i)
         /\ \A q \in ToSet(o) \cup {fallback} : Official(q, i) => q.serial <= newest.serial
  <2>1. AllHonest(ToSet(o) \cup {fallback}, i, f)
    BY <1>5 DEF AllHonest
  <2>2. newest = NewestOfficial(o, fallback, t)
    OBVIOUS
  <2> HIDE DEF fallback, newest
  <2> QED
    BY <2>1, <2>2, NewestOfficialIs DEF NewestAmong
<1> HIDE DEF fallback, prior, newest, replayed
<1>7. Official(fallback, i) => fallback = a
  BY <1>5 DEF Official
<1>8. /\ Restricted(newest) <=> Restricted(n)
      /\ Honest(newest, i, f)
      /\ HasPrice(a) /\ a.int = i => a.serial = n.serial \/ n.restr = "intervention"
  <2>1. CASE ~HasInterval(n)
    <3>1. newest = NoRecord
      BY <1>6, <1>7, <2>1 DEF Evident, Official, Worth
    <3>2. n = NoRecord /\ ~(HasPrice(a) /\ a.int = i)
      BY <2>1 DEF Evident
    <3> QED
      BY <1>3, <3>1, <3>2, NoRecordHonest
  <2>2. CASE HasInterval(n)
    <3>1. Official(n, i)
      BY <2>2 DEF Evident
    <3>2. PICK q \in ToSet(o) : Official(q, i) /\ q.serial = n.serial
      BY <2>2 DEF Evident
    <3>3. Official(newest, i) /\ newest.serial >= n.serial /\ Honest(newest, i, f)
      <4>1. ~(newest = NoRecord)
        BY <1>3, <1>6, <3>2, NoRecordHonest DEF Official
      <4>2. Official(newest, i) /\ newest.serial >= n.serial /\ newest \in ToSet(o) \cup {fallback}
        BY <1>6, <3>2, <4>1 DEF Honest, MarketRecords
      <4> QED
        BY <1>5, <4>2 DEF AllHonest
    <3>4. newest.serial <= n.serial
      <4>1. CASE newest \in ToSet(o)
        BY <3>3, <4>1 DEF Evident
      <4>2. CASE newest = fallback
        BY <1>7, <3>3, <4>2 DEF Evident
      <4> QED
        BY <1>6, <3>3, <4>1, <4>2, <3>2
    <3>5. newest.serial = n.serial
      BY <3>3, <3>4 DEF Honest, MarketRecords
    <3>6. newest.restr = n.restr
      BY <3>1, <3>3, <3>5 DEF Honest
    <3>7. ASSUME HasPrice(a), a.int = i, n.restr # "intervention"
          PROVE  a.serial = n.serial
      <4>1. HasPrice(n)
        BY <3>1, <3>7 DEF Official, Worth
      <4>2. q.price = n.price
        BY <3>1, <3>2 DEF Honest, AllHonest
      <4>3. HasPrice(q)
        BY <4>1, <4>2 DEF HasPrice
      <4>4. a.serial <= n.serial /\ n.serial <= a.serial
        BY <3>2, <3>7, <4>3 DEF Evident
      <4> QED
        BY <4>4 DEF Honest, MarketRecords
    <3> QED
      BY <3>3, <3>6, <3>7 DEF Restricted
  <2> QED
    BY <2>1, <2>2
<1>9. CASE replayed
  <2>1. primary \in MarketRecords
    BY <1>4 DEF Honest
  <2>2. x.result = Emptied(primary, "withheld") /\ x.last = amber
    BY <1>1, <1>9, <2>1, WithheldIs
  <2>3. x.result \in MarketRecords /\ x.result.price = 0 /\ x.result.status = "withheld"
        /\ x.result.src = "amber" /\ x.result.restr = "no" /\ x.result.int = primary.int
    BY <1>2, <1>4, <1>9, <2>2, <2>1, EmptiedIs
  <2> QED
    BY <1>4, <2>2, <2>3 DEF Honest, HasPrice, Official
<1>10. CASE ~replayed /\ Restricted(newest)
  <2>1. x.result = [newest EXCEPT !.price = 0]
    BY <1>1, <1>10
  <2>2. Official(newest, i) /\ newest.status = "restricted"
    BY <1>3, <1>6, <1>8, <1>10, NoRecordHonest DEF Official, Worth, Honest, Judged, Restricted
  <2>3. x.result \in MarketRecords /\ x.result.price = 0 /\ x.result.status = "restricted"
        /\ x.result.src = newest.src /\ x.result.restr = newest.restr
        /\ x.result.int = newest.int /\ x.result.serial = newest.serial
    <3>1. newest \in MarketRecords
      BY <1>8 DEF Honest
    <3>2. x.result = Emptied(newest, "restricted")
      BY <2>1, <2>2, <3>1 DEF MarketRecords, Emptied
    <3> QED
      BY <3>1, <3>2, EmptiedIs
  <2>4. newest.restr = "intervention" => newest.price = 0
    BY <1>8 DEF Honest, HasPrice, MarketRecords
  <2>5. Honest(x.result, i, f) /\ ~HasPrice(x.result)
    BY <1>8, <2>2, <2>3, <2>4 DEF Honest, HasPrice, Official, Worth
  <2>6. x.last \in {amber, primary} /\ (x.last # amber => HasPrice(primary) /\ x.last = primary
                                           /\ ~replayed)
    BY <1>1
  <2> QED
    BY <2>3, <2>5, <2>6 DEF prior, replayed
<1>11. CASE ~replayed /\ ~Restricted(newest) /\ HasPrice(primary)
  <2>1. x.result = primary /\ x.last = primary
    BY <1>1, <1>11
  <2> QED
    BY <1>4, <1>8, <1>11, <2>1 DEF replayed, prior
<1>12. CASE ~replayed /\ ~Restricted(newest) /\ ~HasPrice(primary)
             /\ Contradicts(fallback, prior, c.threshold, t)
  <2>1. x.result = Withheld(fallback) /\ x.last = amber
    BY <1>1, <1>12
  <2>2. fallback.restr # "intervention" /\ fallback.src # "amber"
    BY <1>5, <1>12 DEF Contradicts, PriceTriggerValid, Honest, Evident
  <2>3. fallback \in MarketRecords
    BY <1>5 DEF Honest
  <2>4. x.result = Emptied(fallback, "withheld")
    BY <2>1, <2>3, WithheldIs
  <2>5. x.result \in MarketRecords /\ x.result.price = 0 /\ x.result.status = "withheld"
        /\ x.result.src = fallback.src /\ x.result.restr = fallback.restr
        /\ x.result.int = fallback.int
    BY <2>3, <2>4, EmptiedIs
  <2> QED
    BY <1>5, <2>1, <2>2, <2>5 DEF Honest, HasPrice, Official, Worth
<1>13. CASE ~replayed /\ ~Restricted(newest) /\ ~HasPrice(primary)
             /\ ~Contradicts(fallback, prior, c.threshold, t)
  <2>1. x.result = fallback /\ x.last = amber /\ Honest(x.result, i, f) /\ ~Restricted(n)
    BY <1>1, <1>5, <1>8, <1>13
  <2>2. CASE HasPrice(fallback)
    <3>1. fallback = a /\ a.int = i /\ HasPrice(a) /\ HasInterval(n) /\ a.threshold = c.threshold
          /\ a.src = "official"
      BY <1>5, <2>2 DEF Evident, Honest, MarketRecords
    <3>2. n.restr # "intervention" /\ a.serial = n.serial
      BY <1>8, <2>1, <3>1 DEF Restricted
    <3>3. Official(a, i) /\ Official(n, i)
      BY <3>1 DEF Official, Worth, Evident
    <3>4. a.restr = n.restr
      BY <3>2, <3>3 DEF Honest
    <3>5. PriceTriggerValid(a, t)
      BY <2>1, <3>1, <3>4, ValidIs DEF Restricted
    <3> QED
      BY <1>13, <2>1, <2>2, <3>1, <3>2, <3>5 DEF prior, fallback
  <2>3. CASE ~HasPrice(fallback)
    <3>1. Official(a, i) => fallback.status = "restricted"
      <4>1. ASSUME Official(a, i)
            PROVE  fallback = a /\ a.restr = "intervention"
        BY <1>5, <2>3, <4>1 DEF Official, Worth
      <4> QED
        BY <4>1 DEF Honest
    <3> QED
      BY <2>1, <2>3, <3>1
  <2> QED
    BY <2>2, <2>3
<1> QED
  BY <1>9, <1>10, <1>11, <1>12, <1>13

\* What is remembered of an answer.
LEMMA RememberedPrice ==
    ASSUME NEW t \in Nat, NEW i, i = Interval(t), NEW f, NEW before, Honest(before, i, f),
           NEW r, Honest(r, i, f), NEW e, e = RememberExportPrice(before, r, t)
    PROVE  /\ Honest(e, i, f)
           /\ PriceTriggerValid(r, t) => e = r
           /\ ~PriceTriggerValid(r, t) /\ r.status \in {"restricted", "withheld"} => e = NoRecord
           /\ ~PriceTriggerValid(r, t) /\ r.status \notin {"restricted", "withheld"} => e = before
<1>1. i \in Int /\ before.int \in Int /\ before.int <= i
  BY Intervals DEF Honest, MarketRecords
<1>2. Honest(NoRecord, i, f)
  BY <1>1, Intervals, NoRecordHonest
<1> QED
  BY <1>1, <1>2 DEF RememberExportPrice, PriceTriggerValid

\* A confirmed price was judged under the settings, and belongs to a market that is open.
Valid(r, c) == HasPrice(r) => /\ c.on /\ r.threshold = c.threshold
                              /\ r.status \in {"watching", "candidate"}

\* With Amber configured the answer obeys the withdrawal and, of an official price, the veto.
LEMMA AmberAnswer ==
    ASSUME clock \in Nat, NEW i, i = Interval(clock), NEW f,
           NEW c \in Configurations, c.on, c.amber, NEW reading \in Readings,
           NEW a, Honest(a, i, f),
           NEW o \in Seq(MarketRecords), AllHonest(ToSet(o), i, f),
           NEW n, Honest(n, i, f), Evident(a, o, n, c, i),
           NEW amber, Honest(amber, i, f),
           NEW x, x = Selected(reading, a, o, amber, c, clock),
           NEW primary, primary = AmberResult(reading, c.threshold, clock),
           NEW k, Honest(k, i, f), Matches(k, amber, o, clock),
           NEW before, Honest(before, i, f), Valid(before, c), Withdraws(k, before, c),
           NEW past, Confirms(before, past, c, i), past = n \/ Official(a, i),
           NEW later, later = NewestKnown(k, x.last),
           NEW e, e = RememberExportPrice(before, x.result, clock)
    PROVE  /\ Honest(later, i, f) /\ Matches(later, x.last, o, clock)
           /\ Honest(e, i, f) /\ Valid(e, c) /\ Withdraws(later, e, c) /\ Confirms(e, n, c, i)
           /\ HasPrice(e) /\ HasInterval(n) =>
                 ~Restricted(n) /\ (e.src = "official" => e.int = i /\ e.serial = n.serial)
<1> DEFINE prior == PriorAmber(amber, o, clock)
<1>1. /\ Honest(x.result, i, f) /\ x.last \in {amber, primary}
      /\ x.last # amber => HasPrice(primary) /\ x.last = primary /\ ~Replayed(primary, prior)
      /\ HasPrice(x.result) =>
            /\ PriceTriggerValid(x.result, clock) /\ x.result.threshold = c.threshold
            /\ ~Restricted(n)
            /\ \/ x.result = a /\ a.src = "official" /\ HasInterval(n) /\ a.serial = n.serial
                    /\ ~HasPrice(primary) /\ ~Contradicts(a, prior, c.threshold, clock)
               \/ x.result = primary /\ x.last = primary /\ primary.src = "amber"
      /\ ~HasPrice(x.result) =>
            \/ x.result.status \in {"restricted", "withheld"}
            \/ ~Official(a, i) /\ x.last = amber /\ ~Restricted(n)
  BY Chosen
<1>2. i \in Nat \ {0} /\ c.threshold \in {0, 1, 2}
  BY Intervals, ConfigurationsAssumption
<1>3. ReadingAt(primary, c.threshold, clock, f)
  BY <1>2, ReadingOf
<1>4. /\ Honest(primary, i, f)
      /\ HasPrice(primary) => primary.src = "amber" /\ primary.int = i /\ primary.serial > 0
  BY <1>3 DEF ReadingAt
<1> HIDE DEF prior
<1>5. Honest(later, i, f)
  BY <1>1, <1>4 DEF NewestKnown
<1>6. ASSUME x.last = amber
      PROVE  later = k /\ Matches(later, x.last, o, clock)
  <2>1. CASE amber.int = i
    <3>1. amber # NoRecord
      BY <1>2, <2>1, NoRecordHonest
    <3>2. PriorAmber(amber, o, clock) = amber
      BY <3>1 DEF PriorAmber
    <3>3. amber.serial = k.serial
      BY <2>1, <3>2 DEF Matches
    <3>4. amber.serial \in Nat
      BY DEF Honest, MarketRecords
    <3>5. ~(amber.serial > k.serial)
      BY <3>3, <3>4
    <3>6. later = k
      BY <1>6, <3>5 DEF NewestKnown
    <3> QED
      BY <1>6, <3>6
  <2>2. CASE amber.int # i
    BY <1>6, <2>2 DEF NewestKnown
  <2> QED
    BY <2>1, <2>2
<1>7. ASSUME x.last # amber
      PROVE  Matches(later, x.last, o, clock)
  <2>1. x.last = primary /\ HasPrice(primary) /\ ~Replayed(primary, prior) /\ primary.int = i
        /\ primary.src = "amber" /\ primary.serial > 0 /\ primary # NoRecord
    BY <1>1, <1>4, <1>7, NoRecordHonest
  <2>2. primary.serial \in Nat /\ k.serial \in Nat
    BY <1>4 DEF Honest, MarketRecords
  <2>3. PriorAmber(primary, o, clock) = primary
    BY <2>1 DEF PriorAmber
  <2>4. later = IF primary.serial > k.serial THEN primary ELSE k
    BY <2>1 DEF NewestKnown
  <2>5. CASE primary.serial > k.serial
    BY <1>2, <2>1, <2>3, <2>4, <2>5 DEF Matches, HasInterval
  <2>6. CASE ~(primary.serial > k.serial)
    <3>1. HasInterval(k)
      BY <2>1, <2>2, <2>6, NoRecordHonest DEF Matches
    <3>2. prior.int = i /\ prior.serial = k.serial /\ prior.price = k.price /\ k.int = i
          /\ k.src = "amber" /\ HasPrice(k)
      BY <3>1 DEF Matches, prior
    <3>3. ~(primary.serial < prior.serial) /\ (primary.serial = prior.serial =>
              primary.price = prior.price)
      BY <2>1, <3>2 DEF Replayed
    <3>4. primary.serial = k.serial
      BY <2>2, <2>6, <3>2, <3>3
    <3>5. primary.price = k.price
      BY <3>2, <3>3, <3>4
    <3> QED
      BY <2>1, <2>3, <2>4, <2>6, <3>1, <3>2, <3>4, <3>5 DEF Matches
  <2> QED
    BY <2>1, <2>5, <2>6
<1>8. Matches(later, x.last, o, clock)
  BY <1>6, <1>7
<1>9. /\ Honest(e, i, f)
      /\ PriceTriggerValid(x.result, clock) => e = x.result
      /\ ~PriceTriggerValid(x.result, clock) /\ x.result.status \in {"restricted", "withheld"}
            => e = NoRecord
      /\ ~PriceTriggerValid(x.result, clock) /\ x.result.status \notin {"restricted", "withheld"}
            => e = before
  BY <1>1, RememberedPrice
<1>10. CASE HasPrice(x.result)
  <2>1. e = x.result /\ e.threshold = c.threshold /\ e.int = i
        /\ e.status \in {"watching", "candidate"} /\ ~Restricted(n)
    BY <1>1, <1>9, <1>10 DEF PriceTriggerValid
  <2>2. CASE x.result = a /\ a.src = "official" /\ HasInterval(n) /\ a.serial = n.serial
               /\ ~HasPrice(primary) /\ ~Contradicts(a, prior, c.threshold, clock)
    <3>1. x.last = amber
      BY <1>1, <2>2
    <3>2. later = k
      BY <1>6, <3>1
    <3>3. ASSUME HasInterval(k), k.price < c.threshold
          PROVE  a.price < c.threshold
      <4>1. prior.int = i /\ prior.price = k.price /\ HasPrice(k)
        BY <3>3 DEF Matches, prior
      <4>2. HasPrice(prior) /\ prior.price < c.threshold
        BY <3>3, <4>1 DEF HasPrice
      <4>3. PriceTriggerValid(a, clock) /\ a.int = i
        BY <1>1, <1>10, <2>1, <2>2
      <4>4. ~(a.price >= c.threshold)
        BY <2>2, <4>1, <4>2, <4>3 DEF Contradicts
      <4>5. a.price \in {0, 1, 2}
        BY DEF Honest, MarketRecords
      <4> QED
        BY <1>2, <4>4, <4>5
    <3> QED
      BY <1>5, <1>8, <1>9, <2>1, <2>2, <3>2, <3>3 DEF Withdraws, Confirms, Valid
  <2>3. CASE x.result = primary /\ x.last = primary /\ primary.src = "amber"
    <3>1. primary # NoRecord /\ primary.int = i
      BY <1>2, <1>10, <2>1, <2>3, NoRecordHonest
    <3>2. PriorAmber(x.last, o, clock) = primary
      BY <2>3, <3>1 DEF PriorAmber
    <3>3. HasInterval(later) => later.price = primary.price
      BY <1>8, <3>2 DEF Matches
    <3> QED
      BY <1>5, <1>8, <1>9, <2>1, <2>3, <3>3 DEF Withdraws, Confirms, Valid
  <2> QED
    BY <1>1, <1>10, <2>2, <2>3
<1>11. CASE ~HasPrice(x.result) /\ x.result.status \in {"restricted", "withheld"}
  <2>1. e = NoRecord
    BY <1>9, <1>11 DEF PriceTriggerValid
  <2> QED
    BY <1>5, <1>8, <1>9, <2>1, NoRecordHonest DEF Withdraws, Confirms, Valid
<1>12. CASE ~HasPrice(x.result) /\ x.result.status \notin {"restricted", "withheld"}
  <2>1. e = before /\ ~Official(a, i) /\ x.last = amber /\ ~Restricted(n) /\ past = n
    BY <1>1, <1>9, <1>12 DEF PriceTriggerValid
  <2>2. later = k
    BY <1>6, <2>1
  <2>3. n.restr # "intervention"
    BY <2>1 DEF Restricted
  <2> QED
    BY <1>5, <1>8, <1>9, <2>1, <2>2, <2>3 DEF Confirms
<1> QED
  BY <1>10, <1>11, <1>12

-----------------------------------------------------------------------------
(* What a step leaves in memory. *)

\* The signature of an official report is the report.
LEMMA SignatureIs ==
    ASSUME NEW r \in MarketRecords, NEW q \in MarketRecords, r.src = "official",
           NEW x, x = Signature(q), x = Signature(r)
    PROVE  q = r
<1>1. x = [r EXCEPT !.serial = r.serial]
  BY DEF Signature
<1>2. x = r
  BY <1>1 DEF MarketRecords
<1>3. x = [q EXCEPT !.serial = IF q.src = "official" THEN q.serial ELSE 0]
  BY DEF Signature
<1>4. x.src = q.src
  BY <1>3 DEF MarketRecords
<1>5. x = [q EXCEPT !.serial = q.serial]
  BY <1>2, <1>3, <1>4
<1>6. x = q
  BY <1>5 DEF MarketRecords
<1> QED
  BY <1>2, <1>6

\* The latest observation is a record.
LEMMA LatestHonest ==
    ASSUME NEW o \in Seq(MarketRecords), NEW src, NEW i
    PROVE  Latest(o, src, i) \in MarketRecords
<1>1. NoRecord \in MarketRecords
  BY DEF NoRecord, MarketRecords
<1>2. \A q \in ToSet(o) : q \in MarketRecords
  BY Elements
<1> QED
  BY <1>1, <1>2, LatestIs

\* What is appended of a provider is worth it, and an official report is not lost.
LEMMA KeptIs ==
    ASSUME NEW o \in Seq(MarketRecords), NEW r \in MarketRecords, NEW t,
           NEW p, p = RememberProvider(o, r, t)
    PROVE  /\ p \in Seq(MarketRecords) /\ ToSet(o) \subseteq ToSet(p)
           /\ \A q \in ToSet(p) : q \in ToSet(o) \/ (q = r /\ Worth(r))
           /\ r.src = "official" /\ Worth(r) => r \in ToSet(p)
           /\ \A src, j : r.src # src => Latest(p, src, j) = Latest(o, src, j)
           /\ ~Worth(r) => p = o
<1> DEFINE worth == \/ r.src = "official" /\ (HasPrice(r) \/ r.restr = "intervention")
                    \/ r.src = "amber" /\ HasPrice(r) /\ r.int = Interval(t)
           former == Latest(o, r.src, r.int)
<1>1. p = IF worth /\ Signature(former) # Signature(r) THEN Noted(o, r) ELSE o
  BY DEF RememberProvider
<1>2. worth => Worth(r)
  BY DEF Worth
<1>3. r.src = "official" /\ Worth(r) => worth
  BY DEF Worth
<1>4. former \in MarketRecords
  BY LatestHonest
<1>5. former = NoRecord \/ former \in ToSet(o)
  BY LatestIs
<1> HIDE DEF worth, former
<1>6. CASE worth /\ Signature(former) # Signature(r)
  BY <1>1, <1>2, <1>6, NotedIs
<1>7. CASE ~(worth /\ Signature(former) # Signature(r))
  <2>1. p = o
    BY <1>1, <1>7
  <2>2. ASSUME r.src = "official", Worth(r)
        PROVE  r \in ToSet(p)
    <3>1. Signature(former) = Signature(r)
      BY <1>3, <1>7, <2>2
    <3>2. former = r
      BY <1>4, <2>2, <3>1, SignatureIs
    <3>3. former # NoRecord
      BY <2>2, <3>2, NoRecordHonest
    <3> QED
      BY <1>5, <2>1, <3>2, <3>3
  <2> QED
    BY <2>1, <2>2
<1> QED
  BY <1>6, <1>7

\* What a step under the lock adds to the observations.
LEMMA RememberedIs ==
    ASSUME NEW o \in Seq(MarketRecords), NEW r \in MarketRecords, NEW amber \in MarketRecords,
           NEW c, NEW p, p = Remembered(r, o, amber, c)
    PROVE  /\ p \in Seq(MarketRecords) /\ ToSet(o) \subseteq ToSet(p)
           /\ \A q \in ToSet(p) : q \in ToSet(o) \/ (q = r /\ HasPrice(r))
                                     \/ (q = amber /\ Worth(amber))
           /\ r.src = "official" /\ HasPrice(r) => r \in ToSet(p)
           /\ \A src, j : amber.src # src /\ (HasPrice(r) => r.src # src) =>
                 Latest(p, src, j) = Latest(o, src, j)
<1> DEFINE kept == IF c.amber THEN RememberProvider(o, amber, clock) ELSE o
           former == IF c.amber THEN Latest(kept, r.src, r.int)
                     ELSE IF kept = <<>> THEN NoRecord ELSE Last(kept)
<1>1. p = IF HasPrice(r) /\ Signature(former) # Signature(r) THEN Noted(kept, r) ELSE kept
  BY DEF Remembered
<1>2. /\ kept \in Seq(MarketRecords) /\ ToSet(o) \subseteq ToSet(kept)
      /\ \A q \in ToSet(kept) : q \in ToSet(o) \/ (q = amber /\ Worth(amber))
      /\ \A src, j : amber.src # src => Latest(kept, src, j) = Latest(o, src, j)
  <2>1. CASE kept = o
    BY <2>1
  <2>2. CASE kept = RememberProvider(o, amber, clock)
    <3> HIDE DEF kept
    <3> QED
      BY <2>2, KeptIs
  <2> QED
    BY <2>1, <2>2
<1> HIDE DEF kept
<1>3. former \in MarketRecords /\ (former = NoRecord \/ former \in ToSet(kept))
  <2>1. NoRecord \in MarketRecords
    BY DEF NoRecord, MarketRecords
  <2>2. CASE c.amber
    BY <1>2, <2>2, LatestIs, LatestHonest
  <2>3. CASE ~c.amber /\ kept # <<>>
    <3>1. former = kept[Len(kept)] /\ Len(kept) \in DOMAIN kept
      BY <1>2, <2>3 DEF Last
    <3> QED
      BY <1>2, <3>1, Elements
  <2>4. CASE ~c.amber /\ kept = <<>>
    BY <2>1, <2>4
  <2> QED
    BY <2>2, <2>3, <2>4
<1> HIDE DEF former
<1>4. CASE HasPrice(r) /\ Signature(former) # Signature(r)
  <2>1. p = Noted(kept, r)
    BY <1>1, <1>4
  <2>2. /\ p \in Seq(MarketRecords) /\ ToSet(p) = ToSet(kept) \cup {r}
        /\ \A src, j : r.src # src => Latest(p, src, j) = Latest(kept, src, j)
    <3>1. kept \in Seq(MarketRecords)
      BY <1>2
    <3>2. /\ Noted(kept, r) \in Seq(MarketRecords)
          /\ ToSet(Noted(kept, r)) = ToSet(kept) \cup {r}
          /\ \A src, j : r.src # src =>
                Latest(Noted(kept, r), src, j) = Latest(kept, src, j)
      BY <3>1, NotedIs
    <3> QED
      BY <2>1, <3>2
  <2>3. \A src, j : amber.src # src /\ (HasPrice(r) => r.src # src) =>
            Latest(p, src, j) = Latest(o, src, j)
    BY <1>2, <1>4, <2>2
  <2> QED
    BY <1>2, <1>4, <2>2, <2>3
<1>5. CASE ~(HasPrice(r) /\ Signature(former) # Signature(r))
  <2>1. p = kept
    BY <1>1, <1>5
  <2>2. ASSUME r.src = "official", HasPrice(r)
        PROVE  r \in ToSet(p)
    <3>1. Signature(former) = Signature(r)
      BY <1>5, <2>2
    <3>2. former = r
      BY <1>3, <2>2, <3>1, SignatureIs
    <3>3. former # NoRecord
      BY <2>2, <3>2, NoRecordHonest
    <3> QED
      BY <1>3, <2>1, <3>2, <3>3
  <2> QED
    BY <1>2, <2>1, <2>2
<1> QED
  BY <1>4, <1>5

\* A report that no report with a price precedes is accepted as it is.
LEMMA GuardIdle ==
    ASSUME NEW o \in Seq(MarketRecords), NEW r \in MarketRecords, NEW th,
           HasPrice(r) /\ r.src = "official" =>
              \A q \in ToSet(o) : Official(q, r.int) /\ HasPrice(q) => q.serial <= r.serial
    PROVE  PreventDispatchReplay(r, o, th) = r
<1> DEFINE newer == {q \in ToSet(o) : /\ q.src = "official" /\ HasPrice(q)
                                      /\ q.int = r.int /\ q.serial > r.serial}
<1>1. \A q \in ToSet(o) : q.serial \in Nat
  <2>1. \A q \in ToSet(o) : q \in MarketRecords
    BY Elements
  <2> QED
    BY <2>1 DEF MarketRecords
<1>2. r.serial \in Nat
  BY DEF MarketRecords
<1>3. HasPrice(r) /\ r.src = "official" => newer = {}
  BY <1>1, <1>2 DEF Official, Worth
<1> QED
  BY <1>3 DEF PreventDispatchReplay

\* What a step under the lock leaves of the observations o and of the guarded result g.
Leaves(o, g, amber, before, i, f) ==
    /\ obs' \in Seq(MarketRecords) /\ AllHonest(ToSet(obs'), i, f) /\ Telling(ToSet(obs'))
    /\ ToSet(o) \subseteq ToSet(obs')
    /\ \A q \in ToSet(obs') : q \in ToSet(o) \/ (q = g /\ HasPrice(g))
                                \/ (q = amber /\ Worth(amber))
    /\ g.src = "official" /\ HasPrice(g) => g \in ToSet(obs')
    /\ \A src, j : amber.src # src /\ (HasPrice(g) => g.src # src) =>
          Latest(obs', src, j) = Latest(o, src, j)
    /\ last' = amber /\ result' = CurrentAt(g, clock) /\ Honest(result', i, f)
    /\ confirmed' = RememberExportPrice(before, result', clock)
    /\ Honest(confirmed', i, f) /\ Honest(active', i, f)
    /\ active' # NoRecord => HasPrice(active')
    /\ expiry' \in Nat /\ (expiry' > 0 => HasPrice(result')) /\ saving' \in BOOLEAN

\* What a step under the lock leaves, for an honest result and honest observations.
LEMMA Committed ==
    ASSUME clock \in Nat, NEW i, i = Interval(clock), NEW f,
           NEW o \in Seq(MarketRecords), AllHonest(ToSet(o), i, f), Telling(ToSet(o)),
           NEW r, NEW amber, Honest(amber, i, f),
           NEW c, NEW before, Honest(before, i, f),
           NEW g, g = PreventDispatchReplay(r, o, c.threshold), Honest(g, i, f),
           Commit(r, o, amber, before, c)
    PROVE  Leaves(o, g, amber, before, i, f)
<1>1. /\ obs' = Remembered(g, o, amber, c) /\ last' = amber
      /\ result' = CurrentAt(g, clock)
      /\ confirmed' = RememberExportPrice(before, result', clock)
      /\ active' = Candidate(result')
      /\ expiry' = IF HasPrice(result') THEN result'.int ELSE 0
      /\ saving' \in BOOLEAN
  BY DEF Commit
<1>2. g \in MarketRecords /\ amber \in MarketRecords
  BY DEF Honest
<1>3. /\ obs' \in Seq(MarketRecords) /\ ToSet(o) \subseteq ToSet(obs')
      /\ \A q \in ToSet(obs') : q \in ToSet(o) \/ (q = g /\ HasPrice(g))
                                   \/ (q = amber /\ Worth(amber))
      /\ g.src = "official" /\ HasPrice(g) => g \in ToSet(obs')
      /\ \A src, j : amber.src # src /\ (HasPrice(g) => g.src # src) =>
            Latest(obs', src, j) = Latest(o, src, j)
  BY <1>1, <1>2, RememberedIs
<1>4. AllHonest(ToSet(obs'), i, f) /\ Telling(ToSet(obs'))
  BY <1>3 DEF AllHonest, Telling, Worth
<1>5. Honest(result', i, f)
  BY <1>1, CurrentHonest
<1>6. Honest(confirmed', i, f)
  BY <1>1, <1>5, RememberedPrice
<1>7. Honest(active', i, f) /\ (active' # NoRecord => HasPrice(active'))
  <2>1. Honest(NoRecord, i, f)
    BY Intervals, NoRecordHonest
  <2> QED
    BY <1>1, <1>5, <2>1 DEF Candidate, Honest
<1>8. result'.int \in Nat
  BY <1>5 DEF Honest, MarketRecords
<1> QED
  BY <1>1, <1>3, <1>4, <1>5, <1>6, <1>7, <1>8 DEF Leaves

\* More observations that say nothing new of the dispatch of this interval.
LEMMA EvidenceGrows ==
    ASSUME NEW a, NEW o, NEW p, NEW n, NEW c, NEW i, Evident(a, o, n, c, i),
           ToSet(o) \subseteq ToSet(p), a.serial \in Nat,
           \A q \in ToSet(p) : q \in ToSet(o) \/ ~Official(q, i) \/ (q = a /\ HasPrice(a))
    PROVE  Evident(a, p, n, c, i)
BY DEF Evident, Official

\* What a list of observations knows.
LEMMA KnownFromIs ==
    ASSUME clock \in Nat, NEW i, i = Interval(clock), NEW f,
           NEW o \in Seq(MarketRecords), AllHonest(ToSet(o), i, f), Telling(ToSet(o)),
           NEW c, NEW k, k = KnownFrom(o)
    PROVE  /\ Honest(k.official, i, f) /\ Honest(k.amber, i, f)
           /\ k = [official |-> k.official, amber |-> k.amber]
           /\ Evident(NoRecord, o, k.official, c, i)
           /\ Matches(k.amber, NoRecord, o, clock)
<1>1. i \in Nat \ {0}
  BY Intervals
<1>2. /\ k.official = NewestOfficial(o, NoRecord, clock)
      /\ k.amber = PriorAmber(NoRecord, o, clock)
      /\ k = [official |-> k.official, amber |-> k.amber]
  BY DEF KnownFrom
<1>3. AllHonest(ToSet(o) \cup {NoRecord}, i, f)
  BY <1>1, NoRecordHonest DEF AllHonest
<1>4. NewestAmong(k.official, ToSet(o) \cup {NoRecord}, i)
  BY <1>2, <1>3, NewestOfficialIs
<1>5. ~Official(NoRecord, i) /\ ~HasPrice(NoRecord) /\ ~HasInterval(NoRecord)
      /\ NoRecord.src # "amber"
  BY <1>1, NoRecordHonest DEF Official
<1>6. k.official = NoRecord \/ (k.official \in ToSet(o) /\ HasInterval(k.official))
  BY <1>1, <1>4, <1>5 DEF NewestAmong, Official, HasInterval
<1>7. Honest(k.official, i, f)
  BY <1>3, <1>6 DEF AllHonest
<1>8. Evident(NoRecord, o, k.official, c, i)
  <2>1. CASE k.official = NoRecord
    BY <1>4, <1>5, <2>1 DEF NewestAmong, Evident
  <2>2. CASE k.official # NoRecord
    BY <1>4, <1>5, <1>6, <2>2 DEF NewestAmong, Evident
  <2> QED
    BY <2>1, <2>2
<1>9. PriorAmber(NoRecord, o, clock) = k.amber /\ k.amber = Latest(o, "amber", i)
  BY <1>2 DEF PriorAmber
<1>10. \/ k.amber = NoRecord
       \/ k.amber \in ToSet(o) /\ k.amber.src = "amber" /\ k.amber.int = i
  BY <1>9, LatestIs
<1>11. Honest(k.amber, i, f) /\ (k.amber # NoRecord => HasPrice(k.amber))
  BY <1>3, <1>10 DEF AllHonest, Telling, Worth, Honest
<1>12. Matches(k.amber, NoRecord, o, clock)
  <2>1. CASE k.amber = NoRecord
    BY <1>1, <1>9, <2>1, NoRecordHonest DEF Matches
  <2>2. CASE k.amber # NoRecord
    BY <1>1, <1>9, <1>10, <1>11, <2>2 DEF Matches, HasInterval
  <2> QED
    BY <2>1, <2>2
<1> QED
  BY <1>2, <1>7, <1>8, <1>11, <1>12

-----------------------------------------------------------------------------
(* The invariant, and what an accepted download makes of it. *)

MonitorInv == MonitorTypeOK /\ Sources /\ Configured /\ Newest /\ Withdrawn

\* The parts of the invariant that the steps use.
LEMMA MonitorFacts ==
    ASSUME MonitorInv, NEW i, i = Interval(clock)
    PROVE  /\ clock \in Nat /\ i \in Nat \ {0}
           /\ cfg \in Configurations /\ cfg.threshold \in {0, 1, 2}
           /\ Honest(aemo, i, feed) /\ Honest(last, i, feed) /\ Honest(confirmed, i, feed)
           /\ Honest(result, i, feed) /\ Honest(active, i, feed) /\ Honest(store.active, i, feed)
           /\ Honest(known.official, i, feed) /\ Honest(known.amber, i, feed)
           /\ obs \in Seq(MarketRecords) /\ AllHonest(ToSet(obs), i, feed) /\ Telling(ToSet(obs))
           /\ store.obs \in Seq(MarketRecords) /\ AllHonest(ToSet(store.obs), i, feed)
           /\ Telling(ToSet(store.obs))
           /\ Evident(aemo, obs, known.official, cfg, i)
           /\ Confirms(confirmed, known.official, cfg, i)
<1>1. MonitorTypeOK /\ Sources /\ Newest
  BY DEF MonitorInv
<1>2. clock \in Nat /\ cfg \in Configurations /\ obs \in Seq(MarketRecords)
      /\ store.obs \in Seq(MarketRecords)
  BY <1>1 DEF MonitorTypeOK
<1>3. i \in Nat \ {0} /\ cfg.threshold \in {0, 1, 2}
  BY <1>2, Intervals, ConfigurationsAssumption
<1>4. AllHonest(Believed, i, feed) /\ Telling(ToSet(obs)) /\ Telling(ToSet(store.obs))
  BY <1>1 DEF Sources
<1>5. AllHonest(ToSet(obs), i, feed) /\ AllHonest(ToSet(store.obs), i, feed)
  BY <1>4 DEF AllHonest, Believed
<1>6. /\ Honest(aemo, i, feed) /\ Honest(last, i, feed) /\ Honest(confirmed, i, feed)
      /\ Honest(result, i, feed) /\ Honest(active, i, feed) /\ Honest(store.active, i, feed)
      /\ Honest(known.official, i, feed) /\ Honest(known.amber, i, feed)
  BY <1>4 DEF AllHonest, Believed
<1> QED
  BY <1>1, <1>2, <1>3, <1>4, <1>5, <1>6 DEF Newest

\* A download that is used, read at this moment.
LEMMA DownloadedIs ==
    ASSUME MonitorInv, Welcome(fetch), NEW r \in Downloaded(fetch), NEW i, i = Interval(clock)
    PROVE  /\ Honest(r, i, feed) /\ r.src # "amber"
           /\ HasPrice(r) => r.int = i /\ r.src = "official" /\ r.threshold = cfg.threshold
           /\ r = NoRecord \/ cfg.on
<1>1. i \in Nat \ {0}
  BY MonitorFacts
<1>2. CASE r = NoRecord
  BY <1>1, <1>2, NoRecordHonest
<1>3. CASE r # NoRecord
  <2>1. fetch.phase = "reading" /\ fetch.fresh
        /\ r = Parsed(fetch.content, fetch.int, fetch.serial, fetch.threshold, clock)
    BY <1>3 DEF Downloaded, Welcome
  <2>2. fetch \in Downloads /\ fetch.int \in Nat /\ fetch.serial \in Nat
        /\ fetch.threshold \in {0, 1, 2} /\ fetch.content \in Reports
    BY DEF MonitorInv, MonitorTypeOK, Downloads
  <2>3. cfg.on /\ fetch.threshold = cfg.threshold
    BY <2>1 DEF MonitorInv, Configured
  <2>4. /\ fetch.int <= i /\ fetch.int > 0 /\ fetch.content # NoReport
        /\ fetch.int = i => fetch.serial \in 1 .. MaxSerial /\ feed[fetch.serial] = fetch.content
    BY <2>1 DEF MonitorInv, Sources
  <2>5. /\ fetch.content.price \in {0, 1, 2}
        /\ fetch.content.restr \in {"no", "suspended", "intervention"}
        /\ fetch.content.price > 0 => fetch.content.restr # "intervention"
    BY <2>2 DEF Reports, Contents, NoReport
  <2>6. Judged(fetch.content.price, fetch.content.restr, fetch.threshold)
            \in {"restricted", "candidate", "watching"}
        /\ (fetch.content.restr = "intervention" =>
              Judged(fetch.content.price, fetch.content.restr, fetch.threshold) = "restricted")
    BY DEF Judged
  <2>7. CASE fetch.content.price > 0 /\ i # fetch.int
    <3>1. r = [src |-> "official", int |-> fetch.int, serial |-> fetch.serial,
               threshold |-> fetch.threshold, price |-> 0, restr |-> "no", status |-> "missing"]
      BY <2>1, <2>7 DEF Parsed
    <3> QED
      BY <2>2, <2>3, <2>4, <3>1 DEF Honest, MarketRecords, HasPrice, Official, Worth
  <2>8. CASE ~(fetch.content.price > 0 /\ i # fetch.int)
    <3>1. r = [src |-> "official", int |-> fetch.int, serial |-> fetch.serial,
               threshold |-> fetch.threshold, price |-> fetch.content.price,
               restr |-> fetch.content.restr,
               status |-> Judged(fetch.content.price, fetch.content.restr, fetch.threshold)]
      BY <2>1, <2>8 DEF Parsed
    <3>2. r \in MarketRecords
      BY <2>2, <2>5, <2>6, <3>1 DEF MarketRecords
    <3>3. ~HasPrice(r) => r.status \notin {"watching", "candidate"}
      <4>1. ASSUME ~HasPrice(r)
            PROVE  fetch.content.restr = "intervention" \/ fetch.content = NoReport
        BY <2>2, <2>5, <3>1, <4>1 DEF HasPrice, Reports, Contents
      <4> QED
        BY <2>4, <2>6, <3>1, <4>1
    <3> QED
      BY <2>2, <2>3, <2>4, <2>5, <2>6, <2>8, <3>1, <3>2, <3>3
         DEF Honest, HasPrice, Official, Worth
  <2> QED
    BY <2>7, <2>8
<1> QED
  BY <1>2, <1>3

\* What the guard against replays makes of a downloaded report.
LEMMA GuardedReport ==
    ASSUME MonitorInv, NEW i, i = Interval(clock),
           NEW r, Honest(r, i, feed), r.src # "amber",
           HasPrice(r) => r.int = i /\ r.src = "official",
           NEW p, p = PreventDispatchReplay(r, obs, cfg.threshold)
    PROVE  /\ Honest(p, i, feed) /\ p.src # "amber" /\ (~HasPrice(r) => p = r)
           /\ HasPrice(r) => HasPrice(p) /\ p.int = i /\ p.src = "official"
<1>1. /\ cfg.threshold \in {0, 1, 2}
      /\ obs \in Seq(MarketRecords) /\ AllHonest(ToSet(obs), i, feed)
  BY MonitorFacts
<1>2. ~HasPrice(r) => p = r
  BY DEF PreventDispatchReplay
<1>3. HasPrice(r) => Honest(p, i, feed) /\ p.src = "official" /\ p.int = i /\ HasPrice(p)
  BY <1>1, Prevented
<1> QED
  BY <1>2, <1>3

\* An accepted report, with the observations that keep it, is the evidence of its interval.
LEMMA ReportAccepted ==
    ASSUME MonitorInv, NEW i, i = Interval(clock),
           NEW r, Honest(r, i, feed), r.src # "amber", r = NoRecord \/ cfg.on,
           HasPrice(r) => r.int = i /\ r.src = "official" /\ r.threshold = cfg.threshold,
           NEW p, p = PreventDispatchReplay(r, obs, cfg.threshold),
           NEW n, n = NewestKnown(known.official, r),
           NEW o, ToSet(obs) \subseteq ToSet(o),
           \A q \in ToSet(o) : q \in ToSet(obs) \/ q = p,
           p.src = "official" /\ Worth(p) => p \in ToSet(o)
    PROVE  /\ Honest(p, i, feed) /\ p.src # "amber" /\ (~HasPrice(r) => p = r)
           /\ Honest(n, i, feed) /\ Evident(p, o, n, cfg, i)
           /\ known.official = n \/ Official(p, i)
<1> DEFINE k == known.official
<1>1. /\ clock \in Nat /\ i \in Nat \ {0} /\ cfg.threshold \in {0, 1, 2}
      /\ Honest(k, i, feed) /\ Evident(aemo, obs, k, cfg, i)
      /\ obs \in Seq(MarketRecords) /\ AllHonest(ToSet(obs), i, feed)
  BY MonitorFacts
<1>2. n = IF r.int = i /\ (HasPrice(r) \/ r.restr = "intervention") /\ r.serial > k.serial
            THEN r ELSE k
  BY DEF NewestKnown
<1> HIDE DEF k
<1>3. r.serial \in Nat /\ k.serial \in Nat /\ k.int \in Nat
  BY <1>1 DEF Honest, MarketRecords
<1>4. Official(r, i) <=> r.int = i /\ Worth(r)
  BY <1>1 DEF Official, Honest, MarketRecords
<1>5. Honest(n, i, feed)
  BY <1>1, <1>2
<1>6. ~HasPrice(r) => p = r
  BY DEF PreventDispatchReplay
<1>7. HasPrice(r) => cfg.on /\ Official(r, i)
  BY <1>4, NoRecordHonest DEF Worth
<1>8. HasPrice(r) =>
        /\ Honest(p, i, feed) /\ p.src = "official" /\ p.int = i /\ HasPrice(p)
        /\ \A q \in ToSet(obs) : Official(q, i) /\ HasPrice(q) => q.serial <= p.serial
        /\ \/ p = r
           \/ p.threshold = cfg.threshold /\ p.serial > r.serial
                 /\ \E q \in ToSet(obs) : Official(q, i) /\ q.serial = p.serial
  BY <1>1, Prevented
<1>9. Honest(p, i, feed) /\ p.src # "amber" /\ p.serial \in Nat
  <2>1. Honest(p, i, feed) /\ p.src # "amber"
    BY <1>6, <1>8
  <2> QED
    BY <2>1 DEF Honest, MarketRecords
<1>10. CASE ~Official(r, i)
  <2>1. p = r /\ ~HasPrice(r) /\ n = k
    BY <1>2, <1>4, <1>6, <1>7, <1>10 DEF Worth
  <2>2. \A q \in ToSet(o) : Official(q, i) => q \in ToSet(obs)
    BY <1>10, <2>1
  <2>3. Evident(p, o, n, cfg, i)
    BY <1>1, <1>9, <1>10, <2>1, <2>2 DEF Evident
  <2> QED
    BY <1>5, <1>9, <2>1, <2>3 DEF k
<1>11. CASE Official(r, i) /\ p = r
  <2>1. n = IF r.serial > k.serial THEN r ELSE k
    BY <1>2, <1>4, <1>11 DEF Worth
  <2>2. r \in ToSet(o) /\ r.serial > 0 /\ HasInterval(r) /\ r.src = "official"
    BY <1>1, <1>11 DEF Official, Honest, HasInterval
  <2>3. HasInterval(n) /\ r.serial <= n.serial /\ k.serial <= n.serial /\ n.serial \in Nat
    <3>1. CASE r.serial > k.serial
      BY <1>3, <2>1, <2>2, <3>1
    <3>2. CASE ~(r.serial > k.serial)
      <4>1. k # NoRecord
        BY <1>3, <2>2, <3>2, NoRecordHonest
      <4> QED
        BY <1>1, <1>3, <2>1, <3>2, <4>1 DEF Evident
    <3> QED
      BY <3>1, <3>2
  <2>4. \A q \in ToSet(obs) : Official(q, i) => q.serial <= n.serial
    <3>1. ASSUME NEW q \in ToSet(obs), Official(q, i)
          PROVE  q.serial <= n.serial
      <4>1. q.serial <= k.serial
        BY <1>1, <3>1 DEF Evident
      <4>2. q.serial \in Nat
        BY <1>1 DEF AllHonest, Honest, MarketRecords
      <4> QED
        BY <1>3, <2>3, <4>1, <4>2
    <3> QED
      BY <3>1
  <2>5. \A q \in ToSet(o) : Official(q, i) => q.serial <= n.serial
    BY <1>11, <2>3, <2>4
  <2>6. Official(n, i) /\ \E q \in ToSet(o) : Official(q, i) /\ q.serial = n.serial
    <3>1. CASE n = r
      BY <1>11, <2>2, <3>1
    <3>2. CASE n = k
      BY <1>1, <2>3, <3>2 DEF Evident
    <3> QED
      BY <2>1, <3>1, <3>2
  <2>7. HasPrice(r) => /\ cfg.on /\ r.threshold = cfg.threshold
                       /\ \A q \in ToSet(o) : Official(q, i) /\ HasPrice(q) =>
                             q.serial <= r.serial
    BY <1>3, <1>7, <1>8, <1>11
  <2>8. Evident(p, o, n, cfg, i)
    BY <1>9, <1>11, <2>3, <2>5, <2>6, <2>7 DEF Evident
  <2> QED
    BY <1>5, <1>9, <1>11, <2>8
<1>12. CASE Official(r, i) /\ p # r
  <2>1. /\ HasPrice(r) /\ p.src = "official" /\ p.int = i /\ HasPrice(p) /\ cfg.on
        /\ p.threshold = cfg.threshold /\ p.serial > r.serial
    BY <1>6, <1>7, <1>8, <1>12
  <2>2. PICK q \in ToSet(obs) : Official(q, i) /\ q.serial = p.serial
    BY <1>8, <1>12, <2>1
  <2>3. HasInterval(k) /\ p.serial <= k.serial
    BY <1>1, <2>2 DEF Evident
  <2>4. n = k
    BY <1>2, <1>3, <1>9, <2>1, <2>3
  <2>5. \A x \in ToSet(o) : Official(x, i) => x.serial <= k.serial
    BY <1>1, <1>12, <2>3 DEF Evident
  <2>6. Official(k, i) /\ \E x \in ToSet(o) : Official(x, i) /\ x.serial = k.serial
    BY <1>1, <2>3 DEF Evident
  <2>7. \A x \in ToSet(o) : Official(x, i) /\ HasPrice(x) => x.serial <= p.serial
    BY <1>8, <1>9, <2>1
  <2>8. Evident(p, o, k, cfg, i)
    BY <1>9, <2>1, <2>3, <2>5, <2>6, <2>7 DEF Evident
  <2>9. Official(p, i)
    BY <2>1 DEF Official, Worth
  <2> QED
    BY <1>5, <1>6, <1>9, <2>4, <2>8, <2>9
<1> QED
  BY <1>10, <1>11, <1>12

\* A step under the lock, with Amber configured: the choice between the providers is kept.
LEMMA AmberCommits ==
    ASSUME MonitorInv, cfg.on, cfg.amber, running = "up", NEW i, i = Interval(clock),
           NEW a, Honest(a, i, feed), NEW o \in Seq(MarketRecords),
           AllHonest(ToSet(o), i, feed), Telling(ToSet(o)),
           NEW n, Honest(n, i, feed), Evident(a, o, n, cfg, i),
           known.official = n \/ Official(a, i), Matches(known.amber, last, o, clock),
           NEW x, x = Selected(native, a, o, last, cfg, clock),
           Commit(x.result, o, x.last, confirmed, cfg), aemo' = a,
           known' = [official |-> n, amber |-> AmberUsed(x.last)],
           fetch' \in {fetch, NoDownload}, heard' \in {heard, FALSE},
           UNCHANGED <<clock, feed, native, cfg, running, store, changes>>
    PROVE  MonitorInv'
<1> DEFINE primary == AmberResult(native, cfg.threshold, clock)
           later == NewestKnown(known.amber, x.last)
           e == RememberExportPrice(confirmed, x.result, clock)
<1>1. MonitorTypeOK /\ Sources /\ Configured /\ Newest /\ Withdrawn
  BY DEF MonitorInv
<1>2. /\ clock \in Nat /\ i \in Nat \ {0}
      /\ cfg \in Configurations /\ cfg.threshold \in {0, 1, 2}
      /\ Honest(last, i, feed) /\ Honest(confirmed, i, feed) /\ Honest(store.active, i, feed)
      /\ Honest(known.official, i, feed) /\ Honest(known.amber, i, feed)
      /\ store.obs \in Seq(MarketRecords) /\ AllHonest(ToSet(store.obs), i, feed)
      /\ Telling(ToSet(store.obs)) /\ Confirms(confirmed, known.official, cfg, i)
  BY MonitorFacts
<1>3. native \in Readings
  BY <1>1 DEF MonitorTypeOK
<1>4. Valid(confirmed, cfg) /\ Withdraws(known.amber, confirmed, cfg)
  BY <1>1 DEF Valid, Configured, EvidenceIsConfigured, Withdrawn
<1>5. /\ Honest(x.result, i, feed) /\ x.last \in {last, primary}
      /\ x.last # last => HasPrice(primary) /\ x.last = primary
      /\ HasPrice(x.result) =>
            /\ PriceTriggerValid(x.result, clock) /\ x.result.threshold = cfg.threshold
            /\ \/ x.result = a /\ a.src = "official"
               \/ x.result = primary /\ x.last = primary /\ primary.src = "amber"
  <2>1. primary = AmberResult(native, cfg.threshold, clock)
    OBVIOUS
  <2> HIDE DEF primary
  <2> QED
    BY <1>2, <1>3, <2>1, Chosen
<1>6. /\ Honest(later, i, feed) /\ Matches(later, x.last, o, clock)
      /\ Honest(e, i, feed) /\ Valid(e, cfg) /\ Withdraws(later, e, cfg) /\ Confirms(e, n, cfg, i)
  <2>1. primary = AmberResult(native, cfg.threshold, clock)
        /\ later = NewestKnown(known.amber, x.last)
        /\ e = RememberExportPrice(confirmed, x.result, clock)
    OBVIOUS
  <2> HIDE DEF primary, later, e
  <2> QED
    BY <1>2, <1>3, <1>4, <2>1, AmberAnswer
<1>7. ReadingAt(primary, cfg.threshold, clock, feed)
  BY <1>2, <1>3, ReadingOf
<1>8. /\ known' = [official |-> n, amber |-> later]
      /\ e = RememberExportPrice(confirmed, x.result, clock)
  BY DEF AmberUsed
<1> HIDE DEF primary, later, e
<1>9. /\ Honest(primary, i, feed)
      /\ HasPrice(primary) => primary.src = "amber" /\ primary.threshold = cfg.threshold
      /\ last # NoRecord => last.src = "amber" /\ HasPrice(last)
      /\ HasPrice(last) => last.threshold = cfg.threshold
  BY <1>1, <1>7 DEF ReadingAt, Configured, EvidenceIsConfigured
<1>10. /\ Honest(x.last, i, feed) /\ (HasPrice(x.last) => x.last.threshold = cfg.threshold)
       /\ x.last # NoRecord => x.last.src = "amber" /\ HasPrice(x.last)
  BY <1>2, <1>5, <1>9
<1>11. PreventDispatchReplay(x.result, o, cfg.threshold) = x.result
  <2>1. x.result \in MarketRecords
    BY <1>5 DEF Honest
  <2>2. HasPrice(x.result) /\ x.result.src = "official" => x.result = a /\ x.result.int = i
    BY <1>5 DEF PriceTriggerValid
  <2>3. HasPrice(x.result) /\ x.result.src = "official" =>
           \A q \in ToSet(o) : Official(q, x.result.int) /\ HasPrice(q) =>
              q.serial <= x.result.serial
    BY <2>2 DEF Evident
  <2> QED
    BY <2>1, <2>3, GuardIdle
<1>12. /\ obs' \in Seq(MarketRecords) /\ AllHonest(ToSet(obs'), i, feed) /\ Telling(ToSet(obs'))
       /\ ToSet(o) \subseteq ToSet(obs')
       /\ \A q \in ToSet(obs') : q \in ToSet(o) \/ (q = x.result /\ HasPrice(x.result))
                                    \/ q = x.last
       /\ \A src, j : x.last.src # src /\ (HasPrice(x.result) => x.result.src # src) =>
             Latest(obs', src, j) = Latest(o, src, j)
       /\ last' = x.last /\ result' = CurrentAt(x.result, clock) /\ Honest(result', i, feed)
       /\ confirmed' = RememberExportPrice(confirmed, result', clock)
       /\ Honest(active', i, feed) /\ (active' # NoRecord => HasPrice(active'))
       /\ expiry' \in Nat /\ (expiry' > 0 => HasPrice(result')) /\ saving' \in BOOLEAN
  <2>1. clock \in Nat /\ i = Interval(clock) /\ AllHonest(ToSet(o), i, feed) /\ Telling(ToSet(o))
    BY <1>2
  <2>2. Honest(x.last, i, feed) /\ Honest(confirmed, i, feed) /\ Honest(x.result, i, feed)
    BY <1>2, <1>5, <1>10
  <2>3. x.result = PreventDispatchReplay(x.result, o, cfg.threshold)
    BY <1>11
  <2>4. Commit(x.result, o, x.last, confirmed, cfg)
    OBVIOUS
  <2>5. Leaves(o, x.result, x.last, confirmed, i, feed)
    BY <2>1, <2>2, <2>3, <2>4, Committed
  <2> QED
    BY <2>5 DEF Leaves
<1>13. result' = x.result
  BY <1>5, <1>12 DEF CurrentAt, PriceTriggerValid
<1>14. confirmed' = e
  BY <1>8, <1>12, <1>13
<1>15. Evident(a, obs', n, cfg, i)
  <2>1. a.serial \in Nat
    BY DEF Honest, MarketRecords
  <2>2. ~Official(x.last, i)
    BY <1>10, NoRecordHonest DEF Official
  <2>3. HasPrice(x.result) => x.result = a \/ ~Official(x.result, i)
    BY <1>5 DEF Official
  <2>4. \A q \in ToSet(obs') : q \in ToSet(o) \/ ~Official(q, i) \/ (q = a /\ HasPrice(a))
    BY <1>12, <2>2, <2>3
  <2> QED
    BY <1>12, <2>1, <2>4, EvidenceGrows
<1>16. Matches(later, x.last, obs', clock)
  <2>1. PriorAmber(x.last, obs', clock) = PriorAmber(x.last, o, clock)
    <3>1. CASE x.last # NoRecord
      BY <3>1 DEF PriorAmber
    <3>2. CASE x.last = NoRecord
      <4>1. x.last.src # "amber" /\ ~HasPrice(x.last)
        BY <3>2, NoRecordHonest
      <4>2. HasPrice(x.result) => x.result.src # "amber"
        BY <1>5, <4>1
      <4>3. Latest(obs', "amber", i) = Latest(o, "amber", i)
        BY <1>12, <4>1, <4>2
      <4> QED
        BY <3>2, <4>3 DEF PriorAmber
    <3> QED
      BY <3>1, <3>2
  <2> QED
    BY <1>6, <2>1 DEF Matches
<1>17. MonitorTypeOK'
  <2>1. /\ a \in MarketRecords /\ last' \in MarketRecords /\ confirmed' \in MarketRecords
        /\ result' \in MarketRecords /\ active' \in MarketRecords /\ n \in MarketRecords
        /\ later \in MarketRecords
    BY <1>6, <1>10, <1>12, <1>13, <1>14 DEF Honest
  <2>2. known' \in [official : MarketRecords, amber : MarketRecords]
    BY <1>8, <2>1
  <2>3. NoDownload \in Downloads
    BY DEF NoDownload, Downloads, Reports
  <2>4. fetch' \in Downloads /\ heard' \in BOOLEAN
    BY <1>1, <2>3 DEF MonitorTypeOK
  <2> QED
    BY <1>1, <1>12, <2>1, <2>2, <2>4 DEF MonitorTypeOK
<1>18. Sources'
  <2>1. AllHonest(Believed', i, feed)
    BY <1>2, <1>6, <1>8, <1>10, <1>12, <1>14 DEF AllHonest, Believed
  <2>2. Listed' = Listed
    BY DEF Listed
  <2>3. fetch'.int <= i /\ (fetch'.phase = "reading" => fetch' = fetch)
    BY <1>1, <1>2 DEF NoDownload, Sources
  <2>4. (Interval(clock))' = i
    BY DEF Interval
  <2> QED
    BY <1>1, <1>2, <1>12, <2>1, <2>2, <2>3, <2>4 DEF Sources
<1>19. Configured'
  <2>1. EvidenceIsConfigured'
    BY <1>5, <1>6, <1>10, <1>12, <1>13, <1>14 DEF EvidenceIsConfigured, Evident, Valid
  <2>2. fetch'.phase = "reading" => fetch' = fetch
    BY DEF NoDownload
  <2> QED
    BY <1>1, <1>6, <1>10, <1>12, <1>14, <2>1, <2>2 DEF Configured, Valid
<1>20. Newest' /\ Withdrawn'
  <2>1. (Interval(clock))' = i
    BY DEF Interval
  <2> QED
    BY <1>6, <1>8, <1>12, <1>14, <1>15, <1>16, <2>1 DEF Newest, Withdrawn
<1> QED
  BY <1>17, <1>18, <1>19, <1>20 DEF MonitorInv

\* The official price in force is the one of the newest report, unless that one is about an
\* intervention.
LEMMA NewestPrice ==
    ASSUME NEW i, NEW f, NEW a, NEW o, NEW n, NEW c, Evident(a, o, n, c, i),
           AllHonest(ToSet(o), i, f), Honest(a, i, f), Honest(n, i, f), i > 0,
           HasPrice(a), a.int = i, n.restr # "intervention"
    PROVE  /\ HasInterval(n) /\ a.src = "official" /\ a.serial = n.serial
           /\ a.price = n.price /\ a.restr = n.restr
<1>1. HasInterval(n) /\ a.serial <= n.serial /\ Official(n, i)
  BY DEF Evident
<1>2. PICK q \in ToSet(o) : Official(q, i) /\ q.serial = n.serial
  BY <1>1 DEF Evident
<1>3. HasPrice(n) /\ Honest(q, i, f)
  BY <1>1 DEF Official, Worth, AllHonest
<1>4. HasPrice(q)
  <2>1. q.price = n.price
    BY <1>1, <1>2, <1>3 DEF Honest
  <2> QED
    BY <1>3, <2>1 DEF HasPrice
<1>5. n.serial <= a.serial
  BY <1>2, <1>4 DEF Evident
<1>6. a.serial = n.serial
  BY <1>1, <1>5 DEF Honest, MarketRecords
<1>7. Official(a, i)
  BY DEF Official, Worth, Evident, Honest, MarketRecords
<1> QED
  BY <1>1, <1>6, <1>7 DEF Honest, Official

\* A step under the lock with the direct source, without a price or with new settings.
LEMMA PlainCommits ==
    ASSUME MonitorInv, running = "up", NEW i, i = Interval(clock),
           NEW c \in Configurations, cfg' = c,
           NEW g, Honest(g, i, feed),
           HasPrice(g) => c.on /\ ~c.amber /\ g.threshold = c.threshold /\ g = aemo' /\ g.int = i,
           NEW before, Honest(before, i, feed), Valid(before, c),
           ~c.amber => before.src # "amber",
           Leaves(obs, g, NoRecord, before, i, feed),
           NEW n, Honest(n, i, feed), NEW k, Honest(k, i, feed),
           known' = [official |-> n, amber |-> k],
           Honest(aemo', i, feed), Evident(aemo', obs', n, c, i),
           ~HasPrice(g) => Confirms(before, n, c, i),
           c.amber => Matches(k, NoRecord, obs, clock) /\ Withdraws(k, before, c),
           fetch' \in Downloads,
           fetch' = NoDownload \/ (/\ fetch'.phase = fetch.phase /\ fetch'.int = fetch.int
                                   /\ fetch'.serial = fetch.serial
                                   /\ fetch'.content = fetch.content
                                   /\ fetch'.threshold = fetch.threshold
                                   /\ (fetch'.phase = "reading" /\ fetch'.fresh
                                         => c = cfg /\ fetch.fresh)),
           heard' = FALSE \/ (heard' = heard /\ c = cfg),
           changes' \in Nat, UNCHANGED <<clock, feed, native, running, store>>
    PROVE  MonitorInv'
<1>1. MonitorTypeOK /\ Sources /\ Configured /\ Newest /\ Withdrawn
  BY DEF MonitorInv
<1>2. /\ clock \in Nat /\ i \in Nat \ {0} /\ Honest(store.active, i, feed)
      /\ store.obs \in Seq(MarketRecords) /\ AllHonest(ToSet(store.obs), i, feed)
      /\ Telling(ToSet(store.obs))
  BY MonitorFacts
<1>3. /\ Honest(NoRecord, i, feed) /\ ~HasPrice(NoRecord) /\ ~HasInterval(NoRecord)
      /\ NoRecord.src = "none"
  BY <1>2, NoRecordHonest
<1>4. /\ obs' \in Seq(MarketRecords) /\ AllHonest(ToSet(obs'), i, feed) /\ Telling(ToSet(obs'))
      /\ \A src, j : NoRecord.src # src /\ (HasPrice(g) => g.src # src) =>
            Latest(obs', src, j) = Latest(obs, src, j)
      /\ last' = NoRecord /\ result' = CurrentAt(g, clock) /\ Honest(result', i, feed)
      /\ confirmed' = RememberExportPrice(before, result', clock)
      /\ Honest(confirmed', i, feed) /\ Honest(active', i, feed)
      /\ active' # NoRecord => HasPrice(active')
      /\ expiry' \in Nat /\ (expiry' > 0 => HasPrice(result')) /\ saving' \in BOOLEAN
  BY DEF Leaves
<1>5. HasPrice(result') => result' = g /\ HasPrice(g)
  BY <1>4, CurrentHonest, <1>2
<1>6. /\ PriceTriggerValid(result', clock) => confirmed' = result' /\ HasPrice(g) /\ result' = g
      /\ ~PriceTriggerValid(result', clock) => confirmed' \in {before, NoRecord}
  <2>1. PriceTriggerValid(result', clock) => HasPrice(result')
    BY DEF PriceTriggerValid
  <2> QED
    BY <1>2, <1>4, <1>5, <2>1, RememberedPrice
<1>7. PriceTriggerValid(result', clock) => result'.status \in {"watching", "candidate"}
  BY DEF PriceTriggerValid
<1>8. Valid(confirmed', c)
  BY <1>3, <1>6, <1>7 DEF Valid
<1>9. Confirms(confirmed', n, c, i)
  <2>1. CASE ~HasPrice(g)
    BY <1>3, <1>6, <2>1 DEF Confirms
  <2>2. CASE HasPrice(g) /\ n.restr = "intervention"
    BY <2>2 DEF Confirms
  <2>3. CASE HasPrice(g) /\ n.restr # "intervention"
    <3>1. aemo' = g /\ g.int = i /\ result' = g
      BY <1>4, <2>3 DEF CurrentAt
    <3>2. HasInterval(n) /\ g.serial = n.serial
      <4>1. Evident(g, obs', n, c, i) /\ AllHonest(ToSet(obs'), i, feed)
        BY <1>4, <3>1
      <4>2. Honest(g, i, feed) /\ Honest(n, i, feed) /\ i > 0
        BY <1>2
      <4>3. HasPrice(g) /\ g.int = i /\ n.restr # "intervention"
        BY <2>3, <3>1
      <4> QED
        BY ONLY <4>1, <4>2, <4>3, NewestPrice
    <3>3. CASE PriceTriggerValid(g, clock)
      BY <1>6, <3>1, <3>2, <3>3 DEF Confirms
    <3>4. CASE ~PriceTriggerValid(g, clock)
      <4>1. g.status \in {"restricted", "withheld"}
        BY <2>3, <3>1, <3>4 DEF PriceTriggerValid, Honest, Judged
      <4>2. confirmed' = NoRecord
        BY <1>4, <3>1, <3>4, <4>1 DEF RememberExportPrice
      <4> QED
        BY <1>3, <4>2 DEF Confirms
    <3> QED
      BY <3>3, <3>4
  <2> QED
    BY <2>1, <2>2, <2>3
<1>10. (Interval(clock))' = i
  BY DEF Interval
<1>11. Withdrawn'
  <2>1. ASSUME c.amber
        PROVE  Matches(k, NoRecord, obs', clock) /\ Withdraws(k, confirmed', c)
    <3>1. ~HasPrice(g) /\ confirmed' \in {before, NoRecord}
      BY <1>6, <2>1
    <3>2. Latest(obs', "amber", i) = Latest(obs, "amber", i)
      BY <1>3, <1>4, <3>1
    <3>3. PriorAmber(NoRecord, obs', clock) = PriorAmber(NoRecord, obs, clock)
      BY <3>2 DEF PriorAmber
    <3> QED
      BY <1>3, <2>1, <3>1, <3>3 DEF Matches, Withdraws
  <2> QED
    BY <1>4, <2>1 DEF Withdrawn
<1>12. MonitorTypeOK'
  <2>1. /\ aemo' \in MarketRecords /\ last' \in MarketRecords /\ confirmed' \in MarketRecords
        /\ result' \in MarketRecords /\ active' \in MarketRecords /\ n \in MarketRecords
        /\ k \in MarketRecords
    BY <1>3, <1>4 DEF Honest
  <2>2. known' \in [official : MarketRecords, amber : MarketRecords]
    BY <2>1
  <2>3. heard' \in BOOLEAN
    BY <1>1 DEF MonitorTypeOK
  <2> QED
    BY <1>1, <1>4, <2>1, <2>2, <2>3 DEF MonitorTypeOK
<1>13. Sources'
  <2>1. AllHonest(Believed', i, feed)
    BY <1>2, <1>3, <1>4 DEF AllHonest, Believed
  <2>2. Listed' = Listed
    BY DEF Listed
  <2>3. /\ fetch'.int <= i
        /\ fetch'.phase = "reading" =>
              /\ fetch.phase = "reading" /\ fetch'.int = fetch.int
              /\ fetch'.serial = fetch.serial /\ fetch'.content = fetch.content
    BY <1>1, <1>2 DEF NoDownload, Sources
  <2> QED
    BY <1>1, <1>2, <1>4, <1>10, <2>1, <2>2, <2>3 DEF Sources
<1>14. Configured'
  <2>1. EvidenceIsConfigured'
    BY <1>3, <1>4, <1>5, <1>8 DEF EvidenceIsConfigured, Evident, Valid
  <2>2. fetch'.phase = "reading" /\ fetch'.fresh =>
            c = cfg /\ fetch.phase = "reading" /\ fetch.fresh /\ fetch'.threshold = fetch.threshold
    BY DEF NoDownload
  <2>3. ~c.amber => confirmed'.src # "amber" /\ (HasPrice(result') => result' = aemo')
    BY <1>3, <1>5, <1>6 DEF Evident
  <2>4. expiry' > 0 => c.on
    BY <1>4, <1>5
  <2> QED
    BY <1>1, <1>4, <1>8, <2>1, <2>2, <2>3, <2>4 DEF Configured, Valid
<1>15. Newest'
  BY <1>9, <1>10 DEF Newest
<1> QED
  BY <1>11, <1>12, <1>13, <1>14, <1>15 DEF MonitorInv

-----------------------------------------------------------------------------
(* What the monitor answers. *)

\* The answer of this moment with Amber configured, and the reading it remembers.
LEMMA AmberNow ==
    ASSUME MonitorInv, cfg.on, cfg.amber, NEW i, i = Interval(clock),
           NEW n, n = known.official, NEW later, later = AmberUsed(Current.last),
           NEW e, e = RememberExportPrice(confirmed, Current.result, clock)
    PROVE  /\ Honest(later, i, feed) /\ Matches(later, Current.last, obs, clock)
           /\ Honest(e, i, feed) /\ Valid(e, cfg) /\ Withdraws(later, e, cfg)
           /\ Confirms(e, n, cfg, i)
           /\ HasPrice(e) /\ HasInterval(n) =>
                 ~Restricted(n) /\ (e.src = "official" => e.int = i /\ e.serial = n.serial)
           /\ Honest(Current.last, i, feed)
           /\ HasPrice(Current.last) => Current.last.threshold = cfg.threshold
           /\ Current.last # NoRecord => Current.last.src = "amber" /\ HasPrice(Current.last)
<1> DEFINE primary == AmberResult(native, cfg.threshold, clock)
           x == Selected(native, aemo, obs, last, cfg, clock)
<1>1. MonitorTypeOK /\ Configured /\ Withdrawn
  BY DEF MonitorInv
<1>2. /\ clock \in Nat /\ i \in Nat \ {0} /\ cfg \in Configurations
      /\ cfg.threshold \in {0, 1, 2}
      /\ Honest(aemo, i, feed) /\ Honest(last, i, feed) /\ Honest(confirmed, i, feed)
      /\ Honest(n, i, feed) /\ Honest(known.amber, i, feed)
      /\ obs \in Seq(MarketRecords) /\ AllHonest(ToSet(obs), i, feed)
      /\ Evident(aemo, obs, n, cfg, i) /\ Confirms(confirmed, n, cfg, i)
  BY MonitorFacts
<1>3. native \in Readings
  BY <1>1 DEF MonitorTypeOK
<1>4. /\ Valid(confirmed, cfg) /\ Withdraws(known.amber, confirmed, cfg)
      /\ Matches(known.amber, last, obs, clock)
  BY <1>1 DEF Valid, Configured, EvidenceIsConfigured, Withdrawn
<1>5. /\ Current = x /\ later = NewestKnown(known.amber, x.last)
      /\ e = RememberExportPrice(confirmed, x.result, clock)
  BY DEF Current, AmberUsed
<1>6. /\ x.last \in {last, primary}
      /\ x.last # last => HasPrice(primary) /\ x.last = primary
  <2>1. primary = AmberResult(native, cfg.threshold, clock)
        /\ x = Selected(native, aemo, obs, last, cfg, clock)
    OBVIOUS
  <2> HIDE DEF primary, x
  <2> QED
    BY <1>2, <1>3, <2>1, Chosen
<1>7. /\ Honest(later, i, feed) /\ Matches(later, x.last, obs, clock)
      /\ Honest(e, i, feed) /\ Valid(e, cfg) /\ Withdraws(later, e, cfg)
      /\ Confirms(e, n, cfg, i)
      /\ HasPrice(e) /\ HasInterval(n) =>
            ~Restricted(n) /\ (e.src = "official" => e.int = i /\ e.serial = n.serial)
  <2>1. primary = AmberResult(native, cfg.threshold, clock)
        /\ x = Selected(native, aemo, obs, last, cfg, clock)
    OBVIOUS
  <2> HIDE DEF primary, x
  <2> QED
    BY <1>2, <1>3, <1>4, <1>5, <2>1, AmberAnswer
<1>8. ReadingAt(primary, cfg.threshold, clock, feed)
  BY <1>2, <1>3, ReadingOf
<1> HIDE DEF primary, x
<1>9. /\ Honest(primary, i, feed)
      /\ HasPrice(primary) => primary.src = "amber" /\ primary.threshold = cfg.threshold
      /\ last # NoRecord => last.src = "amber" /\ HasPrice(last)
      /\ HasPrice(last) => last.threshold = cfg.threshold
  BY <1>1, <1>8 DEF ReadingAt, Configured, EvidenceIsConfigured
<1> QED
  BY <1>2, <1>5, <1>6, <1>7, <1>9

\* The answer of this moment with the direct source.
LEMMA PlainNow ==
    ASSUME MonitorInv, ~cfg.amber, NEW i, i = Interval(clock), NEW n, n = known.official,
           NEW e, e = RememberExportPrice(confirmed, CurrentAt(result, clock), clock)
    PROVE  /\ Honest(e, i, feed) /\ Valid(e, cfg) /\ e.src # "amber" /\ Confirms(e, n, cfg, i)
           /\ HasPrice(e) /\ HasInterval(n) =>
                 \/ n.restr = "intervention"
                 \/ ~Restricted(n) /\ e.price = n.price
<1> DEFINE current == CurrentAt(result, clock)
<1>1. Configured
  BY DEF MonitorInv
<1>2. /\ clock \in Nat /\ i \in Nat \ {0}
      /\ Honest(aemo, i, feed) /\ Honest(confirmed, i, feed) /\ Honest(result, i, feed)
      /\ Honest(n, i, feed) /\ AllHonest(ToSet(obs), i, feed)
      /\ Evident(aemo, obs, n, cfg, i) /\ Confirms(confirmed, n, cfg, i)
  BY MonitorFacts
<1>3. /\ Honest(NoRecord, i, feed) /\ ~HasPrice(NoRecord) /\ NoRecord.src = "none"
  BY <1>2, NoRecordHonest
<1>4. Honest(current, i, feed) /\ (HasPrice(current) => current = result /\ result.int = i)
  BY <1>2, CurrentHonest
<1>5. e = RememberExportPrice(confirmed, current, clock)
  OBVIOUS
<1> HIDE DEF current
<1>6. /\ Honest(e, i, feed)
      /\ PriceTriggerValid(current, clock) => e = current
      /\ ~PriceTriggerValid(current, clock) => e \in {confirmed, NoRecord}
  BY <1>2, <1>4, <1>5, RememberedPrice
<1>7. CASE PriceTriggerValid(current, clock)
  <2>1. e = aemo /\ HasPrice(aemo) /\ aemo.int = i /\ aemo.status \in {"watching", "candidate"}
    BY <1>1, <1>4, <1>6, <1>7 DEF Configured, PriceTriggerValid
  <2>2. Valid(e, cfg) /\ e.src # "amber"
    BY <1>2, <2>1 DEF Valid, Evident
  <2>3. CASE n.restr = "intervention"
    BY <1>6, <2>2, <2>3 DEF Confirms
  <2>4. CASE n.restr # "intervention"
    <3>1. /\ HasInterval(n) /\ aemo.serial = n.serial
          /\ aemo.price = n.price /\ aemo.restr = n.restr
      BY <1>2, <2>1, <2>4, NewestPrice
    <3>2. ~Restricted(aemo)
      BY <1>2, <2>1 DEF Honest, Judged, Restricted
    <3> QED
      BY <1>6, <2>1, <2>2, <3>1, <3>2 DEF Confirms, Restricted
  <2> QED
    BY <2>3, <2>4
<1>8. CASE e = NoRecord
  BY <1>3, <1>6, <1>8 DEF Valid, Confirms
<1>9. CASE e = confirmed
  <2>1. Valid(e, cfg) /\ e.src # "amber"
    BY <1>1, <1>9 DEF Configured, EvidenceIsConfigured, Valid
  <2>2. ASSUME HasPrice(e), HasInterval(n), n.restr # "intervention"
        PROVE  ~Restricted(n) /\ e.price = n.price
    <3>1. e.src = "official"
      BY <1>6, <2>1, <2>2 DEF Honest, MarketRecords
    <3>2. e.int = i /\ e.serial = n.serial
      BY <1>2, <1>9, <2>2, <3>1 DEF Confirms
    <3>3. Official(e, i) /\ Official(n, i)
      BY <1>2, <2>2, <3>1, <3>2 DEF Official, Worth, Evident
    <3>4. e.price = n.price /\ e.restr = n.restr
      BY <1>2, <1>6, <3>2, <3>3 DEF Honest
    <3>5. ~Restricted(e)
      BY <1>6, <2>1, <2>2 DEF Valid, Honest, Judged, Restricted
    <3> QED
      BY <3>4, <3>5 DEF Restricted
  <2> QED
    BY <1>2, <1>6, <1>9, <2>1, <2>2
<1> QED
  BY <1>6, <1>7, <1>8, <1>9

-----------------------------------------------------------------------------
(* The steps. *)

\* The invariant holds before the first start.
LEMMA InitMonitor == MonitorInit => MonitorInv
<1> SUFFICES ASSUME MonitorInit
             PROVE  MonitorInv
  OBVIOUS
<1>1. /\ clock = 1 /\ cfg \in Configurations /\ running = "down" /\ changes = 0
      /\ feed = [s \in 1 .. MaxSerial |-> NoReport] /\ native = NoReading
      /\ obs = <<>> /\ aemo = NoRecord /\ last = NoRecord /\ confirmed = NoRecord
      /\ result = NoRecord /\ active = NoRecord /\ expiry = 0 /\ saving = FALSE
      /\ store = [obs |-> <<>>, active |-> NoRecord]
      /\ fetch = NoDownload /\ heard = FALSE /\ known = Nothing
  BY DEF MonitorInit
<1>2. Interval(clock) \in Nat \ {0}
  BY <1>1, Intervals
<1>3. /\ \A f : Honest(NoRecord, Interval(clock), f)
      /\ ~HasPrice(NoRecord) /\ ~HasInterval(NoRecord) /\ NoRecord.src = "none"
      /\ NoRecord.int = 0
  BY <1>2, NoRecordHonest
<1>4. NoRecord \in MarketRecords
  BY DEF NoRecord, MarketRecords
<1>5. ToSet(obs) = {} /\ ToSet(store.obs) = {}
  BY <1>1 DEF ToSet
<1>6. MonitorTypeOK
  <2>1. NoDownload \in Downloads /\ NoReport \in Reports /\ NoReading \in Readings
    BY DEF NoDownload, Downloads, Reports, Readings
  <2>2. feed \in [1 .. MaxSerial -> Reports]
    BY <1>1, <2>1
  <2>3. known \in [official : MarketRecords, amber : MarketRecords]
    BY <1>1, <1>4 DEF Nothing
  <2>4. store \in [obs : Seq(MarketRecords), active : MarketRecords]
    BY <1>1, <1>4
  <2> QED
    BY <1>1, <1>4, <2>1, <2>2, <2>3, <2>4 DEF MonitorTypeOK
<1>7. Sources
  <2>1. AllHonest(Believed, Interval(clock), feed)
    BY <1>1, <1>3, <1>5 DEF AllHonest, Believed, Nothing
  <2>2. Listed = 1 .. 0
    BY <1>1 DEF Listed
  <2>3. 0 \in 0 .. MaxSerial
    BY MonitorBoundsAssumption
  <2>4. \E m \in 0 .. MaxSerial : Listed = 1 .. m
    BY <2>2, <2>3
  <2> QED
    BY <1>1, <1>2, <1>5, <2>1, <2>4 DEF Sources, Telling, NoDownload, NoReading
<1>8. Configured
  BY <1>1, <1>3 DEF Configured, EvidenceIsConfigured, NoDownload
<1>9. Evident(NoRecord, obs, NoRecord, cfg, Interval(clock))
  BY <1>2, <1>3, <1>5 DEF Evident, Official
<1>10. Newest
  BY <1>1, <1>3, <1>9 DEF Newest, Confirms, Nothing
<1>11. PriorAmber(NoRecord, obs, clock) = NoRecord
  BY <1>1 DEF PriorAmber, Latest
<1>12. Withdrawn
  BY <1>1, <1>2, <1>3, <1>11 DEF Withdrawn, Matches, Withdraws, Nothing
<1> QED
  BY <1>6, <1>7, <1>8, <1>10, <1>12 DEF MonitorInv

\* A report's URL has been read from the index.
LEMMA FetchIndexStep ==
    ASSUME MonitorInv, FetchIndex
    PROVE  MonitorInv'
<1>1. MonitorTypeOK /\ Sources /\ Configured /\ Newest /\ Withdrawn
  BY DEF MonitorInv
<1>2. PICK s \in Listed : fetch' = ReportOf(s)
  BY DEF FetchIndex
<1>3. /\ running = "up" /\ cfg.on /\ cfg' = cfg /\ running' = running
      /\ UNCHANGED <<clock, feed, native, obs, aemo, last, confirmed, result, active, expiry,
                     saving, store, heard, known, changes>>
  BY DEF FetchIndex, sources, memory
<1>4. s \in 1 .. MaxSerial /\ feed[s] # NoReport
  BY DEF Listed
<1>5. fetch' = [phase |-> "reading", fresh |-> TRUE, threshold |-> cfg.threshold,
                int |-> Interval(clock), serial |-> s, content |-> feed[s]]
  BY <1>2 DEF ReportOf
<1>6. clock \in Nat /\ Interval(clock) \in Nat \ {0} /\ cfg.threshold \in {0, 1, 2}
  BY MonitorFacts
<1>7. MonitorTypeOK'
  <2>1. feed[s] \in Reports /\ s \in Nat
    BY <1>1, <1>4 DEF MonitorTypeOK
  <2>2. fetch' \in Downloads
    BY <1>5, <1>6, <2>1 DEF Downloads
  <2> QED
    BY <1>1, <1>3, <2>2 DEF MonitorTypeOK
<1>8. Sources'
  <2>1. (Interval(clock))' = Interval(clock) /\ Listed' = Listed /\ Believed' = Believed
    BY <1>3 DEF Interval, Listed, Believed
  <2> QED
    BY <1>1, <1>3, <1>4, <1>5, <1>6, <2>1 DEF Sources
<1>9. Configured'
  BY <1>1, <1>3, <1>5 DEF Configured, EvidenceIsConfigured
<1>10. Newest' /\ Withdrawn'
  BY <1>1, <1>3 DEF Newest, Withdrawn, Interval
<1> QED
  BY <1>7, <1>8, <1>9, <1>10 DEF MonitorInv

\* The end of a download.
LEMMA ApplyResultStep ==
    ASSUME MonitorInv, ApplyResult
    PROVE  MonitorInv'
<1> DEFINE i == Interval(clock)
<1>1. MonitorTypeOK /\ Sources /\ Configured /\ Newest /\ Withdrawn
  BY DEF MonitorInv
<1>2. /\ running = "up" /\ fetch' = NoDownload
      /\ UNCHANGED <<clock, feed, native, cfg, running, store, heard, changes>>
  BY DEF ApplyResult, sources
<1>3. /\ clock \in Nat /\ i \in Nat \ {0} /\ cfg \in Configurations
      /\ cfg.threshold \in {0, 1, 2}
      /\ Honest(last, i, feed) /\ Honest(confirmed, i, feed)
      /\ Honest(known.official, i, feed) /\ Honest(known.amber, i, feed)
      /\ obs \in Seq(MarketRecords) /\ AllHonest(ToSet(obs), i, feed) /\ Telling(ToSet(obs))
      /\ Evident(aemo, obs, known.official, cfg, i)
      /\ Confirms(confirmed, known.official, cfg, i)
  BY MonitorFacts
<1>4. (Interval(clock))' = i /\ Listed' = Listed
  BY <1>2 DEF Interval, Listed
<1>5. NoDownload \in Downloads /\ NoDownload.phase = "idle" /\ NoDownload.int = 0
  BY DEF NoDownload, Downloads, Reports
<1>6. /\ Honest(NoRecord, i, feed) /\ ~HasPrice(NoRecord) /\ ~HasInterval(NoRecord)
      /\ ~Worth(NoRecord) /\ NoRecord.src = "none" /\ NoRecord.int = 0
  BY <1>3, NoRecordHonest
<1>7. CASE ~Welcome(fetch)
  <2>1. UNCHANGED <<obs, aemo, last, confirmed, result, active, expiry, saving, known>>
    BY <1>7 DEF ApplyResult, memory
  <2>2. MonitorTypeOK'
    BY <1>1, <1>2, <1>5, <2>1 DEF MonitorTypeOK
  <2>3. Believed' = Believed
    BY <1>2, <2>1 DEF Believed
  <2>4. Sources'
    BY <1>1, <1>2, <1>3, <1>4, <1>5, <2>1, <2>3 DEF Sources
  <2>5. Configured'
    BY <1>1, <1>2, <1>5, <2>1 DEF Configured, EvidenceIsConfigured
  <2>6. Newest' /\ Withdrawn'
    BY <1>1, <1>2, <1>4, <2>1 DEF Newest, Withdrawn
  <2> QED
    BY <2>2, <2>4, <2>5, <2>6 DEF MonitorInv
<1>8. CASE Welcome(fetch)
  <2> DEFINE official(r) == PreventDispatchReplay(r, obs, cfg.threshold)
             kept(r) == IF cfg.amber THEN RememberProvider(obs, official(r), clock) ELSE obs
             choice(r) == Selected(native, official(r), kept(r), last, cfg, clock)
  <2>1. PICK r \in Downloaded(fetch) :
          /\ aemo' = official(r)
          /\ Commit(IF cfg.amber THEN choice(r).result ELSE r, kept(r), choice(r).last,
                    confirmed, cfg)
          /\ known' = [official |-> IF cfg.amber \/ HasPrice(r)
                                      THEN NewestKnown(known.official, r) ELSE known.official,
                       amber |-> IF cfg.amber THEN AmberUsed(choice(r).last) ELSE known.amber]
    BY <1>8 DEF ApplyResult
  <2> DEFINE p == official(r)
             o == kept(r)
             x == choice(r)
             n == NewestKnown(known.official, r)
  <2>2. /\ p = PreventDispatchReplay(r, obs, cfg.threshold)
        /\ o = IF cfg.amber THEN RememberProvider(obs, p, clock) ELSE obs
        /\ x = Selected(native, p, o, last, cfg, clock)
        /\ n = NewestKnown(known.official, r)
        /\ aemo' = p /\ Commit(IF cfg.amber THEN x.result ELSE r, o, x.last, confirmed, cfg)
        /\ known' = [official |-> IF cfg.amber \/ HasPrice(r) THEN n ELSE known.official,
                     amber |-> IF cfg.amber THEN AmberUsed(x.last) ELSE known.amber]
    BY <2>1
  <2> HIDE DEF official, kept, choice, p, o, x, n
  <2>3. /\ Honest(r, i, feed) /\ r.src # "amber"
        /\ HasPrice(r) => r.int = i /\ r.src = "official" /\ r.threshold = cfg.threshold
        /\ r = NoRecord \/ cfg.on
    BY <1>8, DownloadedIs
  <2>4. /\ Honest(p, i, feed) /\ p.src # "amber" /\ (~HasPrice(r) => p = r)
        /\ HasPrice(r) => HasPrice(p) /\ p.int = i /\ p.src = "official"
    BY <2>2, <2>3, GuardedReport
  <2>5. p \in MarketRecords
    BY <2>4 DEF Honest
  <2>6. CASE cfg.amber /\ cfg.on
    <3>1. o = RememberProvider(obs, p, clock)
      BY <2>2, <2>6
    <3>2. /\ o \in Seq(MarketRecords) /\ ToSet(obs) \subseteq ToSet(o)
          /\ \A q \in ToSet(o) : q \in ToSet(obs) \/ (q = p /\ Worth(p))
          /\ p.src = "official" /\ Worth(p) => p \in ToSet(o)
          /\ \A src, j : p.src # src => Latest(o, src, j) = Latest(obs, src, j)
      BY <1>3, <2>5, <3>1, KeptIs
    <3>3. AllHonest(ToSet(o), i, feed) /\ Telling(ToSet(o))
      BY <1>3, <2>4, <3>2 DEF AllHonest, Telling
    <3>4. /\ Honest(n, i, feed) /\ Evident(p, o, n, cfg, i)
          /\ known.official = n \/ Official(p, i)
      <4>1. \A q \in ToSet(o) : q \in ToSet(obs) \/ q = p
        BY <3>2
      <4> QED
        BY <2>2, <2>3, <3>2, <4>1, ReportAccepted
    <3>5. Matches(known.amber, last, o, clock)
      <4>1. Latest(o, "amber", i) = Latest(obs, "amber", i)
        BY <2>4, <3>2
      <4>2. PriorAmber(last, o, clock) = PriorAmber(last, obs, clock)
        BY <4>1 DEF PriorAmber
      <4> QED
        BY <1>1, <2>6, <4>2 DEF Withdrawn, Matches
    <3>6. /\ Commit(x.result, o, x.last, confirmed, cfg)
          /\ known' = [official |-> n, amber |-> AmberUsed(x.last)]
      BY <2>2, <2>6
    <3> HIDE DEF i
    <3>7. i = Interval(clock)
      BY DEF i
    <3> QED
      BY <1>2, <2>2, <2>4, <2>6, <3>2, <3>3, <3>4, <3>5, <3>6, <3>7, AmberCommits
  <2>7. CASE ~(cfg.amber /\ cfg.on)
    <3>1. last = NoRecord
      BY <1>1, <2>7 DEF Configured, EvidenceIsConfigured
    <3>2. r = NoRecord => p = NoRecord
      BY <1>6, <2>4
    <3>3. ~cfg.on => r = NoRecord
      BY <2>3
    <3>4. o = obs
      <4>1. CASE cfg.amber
        BY <1>3, <1>6, <2>2, <2>5, <2>7, <3>2, <3>3, <4>1, KeptIs
      <4>2. CASE ~cfg.amber
        BY <2>2, <4>2
      <4> QED
        BY <4>1, <4>2
    <3>5. x.last = NoRecord /\ (cfg.amber => x.result = NoRecord)
      BY <2>2, <2>7, <3>1 DEF Selected
    <3>6. Commit(r, obs, NoRecord, confirmed, cfg)
      <4>1. (IF cfg.amber THEN x.result ELSE r) = r
        BY <2>7, <3>3, <3>5
      <4> QED
        BY <2>2, <3>4, <3>5, <4>1
    <3>7. Leaves(obs, p, NoRecord, confirmed, i, feed)
      BY <1>3, <1>6, <2>2, <2>4, <3>6, Committed
    <3>8. /\ ToSet(obs) \subseteq ToSet(obs')
          /\ \A q \in ToSet(obs') : q \in ToSet(obs) \/ (q = p /\ HasPrice(p))
          /\ p.src = "official" /\ HasPrice(p) => p \in ToSet(obs')
      BY <1>6, <3>7 DEF Leaves
    <3> DEFINE m == IF HasPrice(r) THEN n ELSE known.official
    <3>9. known' = [official |-> m, amber |-> known.amber]
      <4>1. CASE cfg.amber
        <5>1. r = NoRecord
          BY <2>7, <3>3, <4>1
        <5>2. n = known.official
          BY <1>3, <1>6, <2>2, <5>1 DEF NewestKnown
        <5>3. AmberUsed(NoRecord) = known.amber
          BY <1>3, <1>6 DEF AmberUsed, NewestKnown
        <5> QED
          BY <2>2, <3>5, <4>1, <5>2, <5>3
      <4>2. CASE ~cfg.amber
        BY <2>2, <4>2
      <4> QED
        BY <4>1, <4>2
    <3>10. /\ Honest(m, i, feed) /\ Evident(p, obs', m, cfg, i)
           /\ ~HasPrice(p) => m = known.official
           /\ HasPrice(p) => HasPrice(r)
      <4>1. CASE HasPrice(r)
        <5>1. \A q \in ToSet(obs') : q \in ToSet(obs) \/ q = p
          BY <3>8
        <5>2. p.src = "official" /\ Worth(p) => p \in ToSet(obs')
          BY <2>4, <3>8, <4>1
        <5>3. Honest(n, i, feed) /\ Evident(p, obs', n, cfg, i)
          BY <2>2, <2>3, <3>8, <5>1, <5>2, ReportAccepted
        <5> QED
          BY <2>4, <4>1, <5>3
      <4>2. CASE ~HasPrice(r)
        <5>1. p = r /\ \A q \in ToSet(obs') : q \in ToSet(obs)
          BY <2>4, <3>8, <4>2
        <5>2. cfg.amber => ~Official(p, i)
          BY <1>6, <2>7, <3>2, <3>3 DEF Official
        <5>3. Evident(p, obs', known.official, cfg, i)
          BY <1>3, <2>4, <3>8, <4>2, <5>1, <5>2 DEF Evident
        <5> QED
          BY <1>3, <4>2, <5>1, <5>3
      <4> QED
        BY <4>1, <4>2
    <3> HIDE DEF m
    <3>11. HasPrice(p) => /\ cfg.on /\ ~cfg.amber /\ p.threshold = cfg.threshold
                          /\ p = aemo' /\ p.int = i
      <4>1. HasPrice(p) => cfg.on /\ ~cfg.amber
        BY <2>7, <3>10, <3>3, <1>6
      <4>2. HasPrice(p) => p.threshold = cfg.threshold
        BY <3>10 DEF Evident
      <4> QED
        BY <2>2, <2>4, <3>10, <4>1, <4>2
    <3>12. /\ Valid(confirmed, cfg) /\ (~cfg.amber => confirmed.src # "amber")
           /\ cfg.amber => /\ Matches(known.amber, NoRecord, obs, clock)
                           /\ Withdraws(known.amber, confirmed, cfg)
      BY <1>1, <3>1 DEF Configured, EvidenceIsConfigured, Valid, Withdrawn
    <3>13. ~HasPrice(p) => Confirms(confirmed, m, cfg, i)
      BY <1>3, <3>10
    <3>14. changes' \in Nat
      BY <1>1, <1>2 DEF MonitorTypeOK
    <3> HIDE DEF i
    <3>15. i = Interval(clock) /\ cfg' = cfg /\ Honest(aemo', i, feed)
           /\ Evident(aemo', obs', m, cfg, i)
      BY <1>2, <2>2, <2>4, <3>10 DEF i
    <3> QED
      BY <1>2, <1>3, <1>5, <2>4, <3>7, <3>9, <3>10, <3>11, <3>12, <3>13, <3>14, <3>15, PlainCommits
  <2> QED
    BY <2>6, <2>7
<1> QED
  BY <1>7, <1>8

\* The Amber entity has changed.
LEMMA AmberChangedStep ==
    ASSUME MonitorInv, AmberChanged
    PROVE  MonitorInv'
<1> DEFINE i == Interval(clock)
           x == Selected(native, aemo, obs, last, cfg, clock)
           n == known.official
<1>1. MonitorTypeOK /\ Sources /\ Configured /\ Newest /\ Withdrawn
  BY DEF MonitorInv
<1>2. /\ running = "up" /\ heard /\ heard' = FALSE
      /\ Commit(x.result, obs, x.last, confirmed, cfg)
      /\ known' = [known EXCEPT !.amber = AmberUsed(x.last)]
      /\ UNCHANGED <<clock, feed, native, cfg, running, aemo, store, fetch, changes>>
  BY DEF AmberChanged, sources
<1>3. cfg.on /\ cfg.amber
  BY <1>1, <1>2 DEF Configured
<1>4. /\ Honest(aemo, i, feed) /\ Honest(n, i, feed) /\ Evident(aemo, obs, n, cfg, i)
      /\ obs \in Seq(MarketRecords) /\ AllHonest(ToSet(obs), i, feed) /\ Telling(ToSet(obs))
  BY MonitorFacts
<1>5. known' = [official |-> n, amber |-> AmberUsed(x.last)]
  <2>1. known \in [official : MarketRecords, amber : MarketRecords]
    BY <1>1 DEF MonitorTypeOK
  <2> HIDE DEF x
  <2> QED
    BY <1>2, <2>1
<1>6. Matches(known.amber, last, obs, clock)
  BY <1>1, <1>3 DEF Withdrawn
<1>7. i = Interval(clock) /\ x = Selected(native, aemo, obs, last, cfg, clock)
      /\ n = known.official
  OBVIOUS
<1> HIDE DEF i, x, n
<1> QED
  BY <1>2, <1>3, <1>4, <1>5, <1>6, <1>7, AmberCommits

\* The export controller has asked.
LEMMA ConsultStep ==
    ASSUME MonitorInv, Consult
    PROVE  MonitorInv'
<1> DEFINE i == Interval(clock)
           n == known.official
           later == AmberUsed(Current.last)
           e == RememberExportPrice(confirmed, Current.result, clock)
<1>1. MonitorTypeOK /\ Sources /\ Configured /\ Newest /\ Withdrawn
  BY DEF MonitorInv
<1>2. /\ running = "up" /\ cfg.on /\ last' = Current.last /\ confirmed' = e
      /\ known' = IF cfg.amber THEN [known EXCEPT !.amber = later] ELSE known
      /\ UNCHANGED <<clock, feed, native, cfg, running, obs, aemo, result, active, expiry,
                     saving, store, fetch, heard, changes>>
  BY DEF Consult, sources
<1>3. /\ clock \in Nat /\ i \in Nat \ {0}
      /\ Honest(n, i, feed) /\ Honest(known.amber, i, feed) /\ Honest(last, i, feed)
      /\ Evident(aemo, obs, n, cfg, i)
  BY MonitorFacts
<1>4. known \in [official : MarketRecords, amber : MarketRecords]
  BY <1>1 DEF MonitorTypeOK
<1>5. (Interval(clock))' = i /\ Listed' = Listed
  BY <1>2 DEF Interval, Listed
<1>6. i = Interval(clock) /\ n = known.official /\ later = AmberUsed(Current.last)
      /\ e = RememberExportPrice(confirmed, Current.result, clock)
  OBVIOUS
<1> HIDE DEF i, n, later, e
<1>7. CASE cfg.amber
  <2>1. /\ Honest(later, i, feed) /\ Matches(later, Current.last, obs, clock)
        /\ Honest(e, i, feed) /\ Valid(e, cfg) /\ Withdraws(later, e, cfg)
        /\ Confirms(e, n, cfg, i)
        /\ Honest(Current.last, i, feed)
        /\ HasPrice(Current.last) => Current.last.threshold = cfg.threshold
        /\ Current.last # NoRecord => Current.last.src = "amber" /\ HasPrice(Current.last)
    BY <1>2, <1>6, <1>7, AmberNow
  <2>2. known' = [official |-> n, amber |-> later]
    BY <1>2, <1>4, <1>6, <1>7
  <2>3. MonitorTypeOK'
    <3>1. later \in MarketRecords /\ e \in MarketRecords /\ last' \in MarketRecords
          /\ n \in MarketRecords
      BY <1>2, <1>3, <2>1 DEF Honest
    <3>2. known' \in [official : MarketRecords, amber : MarketRecords]
      BY <2>2, <3>1
    <3> QED
      BY <1>1, <1>2, <3>1, <3>2 DEF MonitorTypeOK
  <2>4. Sources'
    <3>1. AllHonest(Believed', i, feed)
      BY <1>1, <1>2, <1>3, <1>6, <2>1, <2>2 DEF Sources, AllHonest, Believed
    <3> QED
      BY <1>1, <1>2, <1>5, <1>6, <3>1 DEF Sources
  <2>5. Configured'
    BY <1>1, <1>2, <1>7, <2>1 DEF Configured, EvidenceIsConfigured, Valid
  <2>6. Newest' /\ Withdrawn'
    BY <1>2, <1>3, <1>5, <2>1, <2>2 DEF Newest, Withdrawn
  <2> QED
    BY <2>3, <2>4, <2>5, <2>6 DEF MonitorInv
<1>8. CASE ~cfg.amber
  <2>1. Current.last = last /\ Current.result = CurrentAt(result, clock) /\ known' = known
    BY <1>2, <1>8 DEF Current
  <2>2. /\ Honest(e, i, feed) /\ Valid(e, cfg) /\ e.src # "amber" /\ Confirms(e, n, cfg, i)
    BY <1>6, <1>8, <2>1, PlainNow
  <2>3. MonitorTypeOK'
    BY <1>1, <1>2, <2>1, <2>2 DEF MonitorTypeOK, Honest
  <2>4. Sources'
    <3>1. Believed' \subseteq Believed \cup {e}
      BY <1>2, <1>6, <2>1 DEF Believed
    <3>2. \A r \in Believed : Honest(r, i, feed)
      BY <1>1, <1>6 DEF Sources, AllHonest
    <3>3. AllHonest(Believed', i, feed)
      BY <2>2, <3>1, <3>2 DEF AllHonest
    <3> QED
      BY <1>1, <1>2, <1>5, <1>6, <3>3 DEF Sources
  <2>5. Configured'
    BY <1>1, <1>2, <1>8, <2>1, <2>2 DEF Configured, EvidenceIsConfigured, Valid
  <2>6. Newest' /\ Withdrawn'
    BY <1>2, <1>3, <1>5, <1>6, <1>8, <2>1, <2>2 DEF Newest, Withdrawn
  <2> QED
    BY <2>3, <2>4, <2>5, <2>6 DEF MonitorInv
<1> QED
  BY <1>7, <1>8

\* The timer of the candidate has fired.
LEMMA ExpireStep ==
    ASSUME MonitorInv, Expire
    PROVE  MonitorInv'
<1> DEFINE i == Interval(clock)
           source == IF HasInterval(result) THEN result ELSE active
           stale == [source EXCEPT !.price = 0, !.status = "missing"]
           x == Selected(native, aemo, obs, last, cfg, clock)
           n == known.official
<1>1. MonitorTypeOK /\ Sources /\ Configured /\ Newest /\ Withdrawn
  BY DEF MonitorInv
<1>2. /\ running = "up" /\ expiry > 0
      /\ UNCHANGED <<clock, feed, native, cfg, running, aemo, store, fetch, heard, changes>>
  BY DEF Expire, sources
<1>3. \/ /\ source.int = expiry
         /\ Commit(IF cfg.amber THEN x.result ELSE stale, obs, x.last, confirmed, cfg)
         /\ known' = IF cfg.amber THEN [known EXCEPT !.amber = AmberUsed(x.last)] ELSE known
      \/ expiry' = 0 /\ UNCHANGED <<obs, last, confirmed, result, active, saving, known>>
  BY DEF Expire
<1>4. /\ clock \in Nat /\ i \in Nat \ {0} /\ cfg \in Configurations
      /\ Honest(aemo, i, feed) /\ Honest(n, i, feed) /\ Evident(aemo, obs, n, cfg, i)
      /\ Honest(known.amber, i, feed) /\ Honest(confirmed, i, feed)
      /\ Honest(result, i, feed) /\ Honest(active, i, feed)
      /\ Confirms(confirmed, n, cfg, i)
      /\ obs \in Seq(MarketRecords) /\ AllHonest(ToSet(obs), i, feed) /\ Telling(ToSet(obs))
  BY MonitorFacts
<1>5. cfg.on /\ known \in [official : MarketRecords, amber : MarketRecords]
      /\ fetch \in Downloads /\ changes \in Nat
  BY <1>1, <1>2 DEF Configured, MonitorTypeOK
<1>6. i = Interval(clock) /\ x = Selected(native, aemo, obs, last, cfg, clock)
      /\ n = known.official
  OBVIOUS
<1>7. (Interval(clock))' = i /\ Listed' = Listed
  BY <1>2 DEF Interval, Listed
<1> HIDE DEF i, x, n
<1>8. CASE expiry' = 0 /\ UNCHANGED <<obs, last, confirmed, result, active, saving, known>>
  <2>1. MonitorTypeOK'
    BY <1>1, <1>2, <1>8 DEF MonitorTypeOK
  <2>2. Believed' = Believed
    BY <1>2, <1>8 DEF Believed
  <2>3. Sources'
    BY <1>1, <1>2, <1>6, <1>7, <1>8, <2>2 DEF Sources
  <2>4. Configured'
    BY <1>1, <1>2, <1>8 DEF Configured, EvidenceIsConfigured
  <2>5. Newest' /\ Withdrawn'
    BY <1>1, <1>2, <1>6, <1>7, <1>8 DEF Newest, Withdrawn
  <2> QED
    BY <2>1, <2>3, <2>4, <2>5 DEF MonitorInv
<1>9. CASE /\ cfg.amber
           /\ Commit(IF cfg.amber THEN x.result ELSE stale, obs, x.last, confirmed, cfg)
           /\ known' = IF cfg.amber THEN [known EXCEPT !.amber = AmberUsed(x.last)] ELSE known
  <2>1. Commit(x.result, obs, x.last, confirmed, cfg)
    BY <1>9
  <2>2. known' = [official |-> n, amber |-> AmberUsed(x.last)]
    BY <1>5, <1>6, <1>9
  <2>3. Matches(known.amber, last, obs, clock)
    BY <1>1, <1>9 DEF Withdrawn
  <2> QED
    BY <1>2, <1>4, <1>5, <1>6, <1>9, <2>1, <2>2, <2>3, AmberCommits
<1>10. CASE /\ ~cfg.amber /\ source.int = expiry
            /\ Commit(IF cfg.amber THEN x.result ELSE stale, obs, x.last, confirmed, cfg)
            /\ known' = IF cfg.amber THEN [known EXCEPT !.amber = AmberUsed(x.last)] ELSE known
  <2>1. HasPrice(source) /\ Honest(source, i, feed)
    <3>1. CASE HasInterval(result)
      BY <1>1, <1>2, <1>4, <3>1 DEF Configured
    <3>2. CASE ~HasInterval(result)
      <4>1. active # NoRecord
        BY <1>2, <1>4, <1>10, <3>2, NoRecordHonest
      <4> QED
        BY <1>1, <1>4, <3>2, <4>1 DEF Configured
    <3> QED
      BY <3>1, <3>2
  <2>2. stale = [source EXCEPT !.price = 0, !.status = "missing"]
    OBVIOUS
  <2> HIDE DEF source, stale
  <2>3. source \in MarketRecords /\ source.restr # "intervention"
    BY <2>1 DEF Honest
  <2>4. stale = Emptied(source, "missing")
    BY <2>2, <2>3 DEF Emptied, MarketRecords
  <2>5. /\ stale \in MarketRecords /\ stale.price = 0 /\ stale.status = "missing"
        /\ stale.src = source.src /\ stale.int = source.int /\ stale.restr = source.restr
    BY <2>3, <2>4, EmptiedIs
  <2>6. Honest(stale, i, feed) /\ ~HasPrice(stale)
    BY <2>1, <2>3, <2>5 DEF Honest, HasPrice, Official, Worth
  <2>7. stale = PreventDispatchReplay(stale, obs, cfg.threshold)
    BY <2>6 DEF PreventDispatchReplay
  <2>8. last = NoRecord /\ x.last = NoRecord
    BY <1>1, <1>5, <1>6, <1>10 DEF Configured, Selected
  <2>9. Honest(NoRecord, i, feed) /\ ~Worth(NoRecord)
    BY <1>4, NoRecordHonest
  <2>10. Commit(stale, obs, NoRecord, confirmed, cfg)
    BY <1>10, <2>8
  <2>11. Leaves(obs, stale, NoRecord, confirmed, i, feed)
    BY <1>4, <1>6, <2>6, <2>7, <2>9, <2>10, Committed
  <2>12. Evident(aemo, obs', n, cfg, i)
    <3>1. ToSet(obs) \subseteq ToSet(obs') /\ \A q \in ToSet(obs') : q \in ToSet(obs)
      BY <2>6, <2>9, <2>11 DEF Leaves
    <3>2. aemo.serial \in Nat
      BY <1>4 DEF Honest, MarketRecords
    <3> QED
      BY <1>4, <3>1, <3>2, EvidenceGrows
  <2> DEFINE k == known.amber
  <2>13. known' = [official |-> n, amber |-> k] /\ Honest(k, i, feed)
    BY <1>4, <1>5, <1>6, <1>10
  <2> HIDE DEF k
  <2>14. Valid(confirmed, cfg) /\ confirmed.src # "amber"
    BY <1>1, <1>10 DEF Configured, EvidenceIsConfigured, Valid
  <2>15. /\ cfg' = cfg /\ changes' \in Nat /\ fetch' \in Downloads
         /\ Honest(aemo', i, feed) /\ Evident(aemo', obs', n, cfg, i)
    BY <1>2, <1>4, <1>5, <2>12
  <2> QED
    BY <1>2, <1>4, <1>6, <1>10, <2>6, <2>11, <2>13, <2>14, <2>15, PlainCommits
<1> QED
  BY <1>3, <1>8, <1>9, <1>10

\* The operator has changed the settings.
LEMMA UpdateConfigurationStep ==
    ASSUME MonitorInv, NEW c \in Configurations, UpdateConfiguration(c)
    PROVE  MonitorInv'
<1> DEFINE i == Interval(clock)
           n == KnownFrom(obs).official
           k == KnownFrom(obs).amber
<1>1. MonitorTypeOK /\ Sources /\ Configured /\ Newest /\ Withdrawn
  BY DEF MonitorInv
<1>2. /\ running = "up" /\ c # cfg /\ changes' = changes + 1 /\ cfg' = c /\ aemo' = NoRecord
      /\ Commit(NoRecord, obs, NoRecord, NoRecord, c)
      /\ fetch' = [fetch EXCEPT !.fresh = (fetch.phase # "reading")]
      /\ heard' = FALSE /\ known' = KnownFrom(obs)
      /\ UNCHANGED <<clock, feed, native, running, store>>
  BY DEF UpdateConfiguration, Change, sources
<1>3. /\ clock \in Nat /\ i \in Nat \ {0}
      /\ obs \in Seq(MarketRecords) /\ AllHonest(ToSet(obs), i, feed) /\ Telling(ToSet(obs))
  BY MonitorFacts
<1>4. /\ Honest(NoRecord, i, feed) /\ ~HasPrice(NoRecord) /\ ~HasInterval(NoRecord)
      /\ ~Worth(NoRecord) /\ NoRecord.src = "none" /\ NoRecord.int = 0
      /\ NoRecord.serial \in Nat
  BY <1>3, NoRecordHonest
<1>5. /\ Honest(n, i, feed) /\ Honest(k, i, feed) /\ known' = [official |-> n, amber |-> k]
      /\ Evident(NoRecord, obs, n, c, i) /\ Matches(k, NoRecord, obs, clock)
  BY <1>2, <1>3, KnownFromIs
<1>6. NoRecord = PreventDispatchReplay(NoRecord, obs, c.threshold)
  BY <1>4 DEF PreventDispatchReplay
<1>7. i = Interval(clock)
  OBVIOUS
<1> HIDE DEF i, n, k
<1>8. Leaves(obs, NoRecord, NoRecord, NoRecord, i, feed)
  BY <1>2, <1>3, <1>4, <1>6, <1>7, Committed
<1>9. Evident(NoRecord, obs', n, c, i)
  <2>1. ToSet(obs) \subseteq ToSet(obs') /\ \A q \in ToSet(obs') : q \in ToSet(obs)
    BY <1>4, <1>8 DEF Leaves
  <2> QED
    BY <1>4, <1>5, <2>1, EvidenceGrows
<1>10. /\ fetch' \in Downloads
       /\ fetch'.phase = fetch.phase /\ fetch'.int = fetch.int
       /\ fetch'.serial = fetch.serial /\ fetch'.content = fetch.content
       /\ fetch'.threshold = fetch.threshold /\ ~(fetch'.phase = "reading" /\ fetch'.fresh)
  <2>1. fetch \in Downloads
    BY <1>1 DEF MonitorTypeOK
  <2>2. (fetch.phase # "reading") \in BOOLEAN
    OBVIOUS
  <2> QED
    BY <1>2, <2>1, <2>2 DEF Downloads
<1>11. changes' \in Nat
  BY <1>1, <1>2 DEF MonitorTypeOK
<1>12. Valid(NoRecord, c) /\ Withdraws(k, NoRecord, c) /\ Confirms(NoRecord, n, c, i)
  BY <1>4 DEF Valid, Withdraws, Confirms
<1>13. Honest(aemo', i, feed) /\ Evident(aemo', obs', n, c, i)
  BY <1>2, <1>4, <1>9
<1> QED
  BY <1>2, <1>4, <1>5, <1>7, <1>8, <1>10, <1>11, <1>12, <1>13, PlainCommits

\* A save ends, with or without success.
LEMMA SaveEndsStep ==
    ASSUME MonitorInv, SaveEnds
    PROVE  MonitorInv'
<1>1. MonitorTypeOK /\ Sources /\ Configured /\ Newest /\ Withdrawn
  BY DEF MonitorInv
<1>2. /\ saving' = FALSE /\ running = "up" /\ changes' \in Nat
      /\ store' = store \/ store' = [obs |-> obs, active |-> active]
      /\ UNCHANGED <<clock, feed, native, cfg, running, obs, aemo, last, confirmed, result,
                     active, expiry, fetch, heard, known>>
  BY <1>1 DEF SaveEnds, Change, sources, memory, MonitorTypeOK
<1>3. (Interval(clock))' = Interval(clock) /\ Listed' = Listed
  BY <1>2 DEF Interval, Listed
<1>4. /\ store'.active \in {active, store.active}
      /\ store'.obs = obs \/ store'.obs = store.obs
  BY <1>2
<1>5. MonitorTypeOK'
  <2>1. obs \in Seq(MarketRecords) /\ active \in MarketRecords
        /\ store \in [obs : Seq(MarketRecords), active : MarketRecords]
    BY <1>1 DEF MonitorTypeOK
  <2>2. store' \in [obs : Seq(MarketRecords), active : MarketRecords]
    BY <1>2, <2>1
  <2> QED
    BY <1>1, <1>2, <2>2 DEF MonitorTypeOK
<1>6. Sources'
  <2>1. AllHonest(Believed', Interval(clock), feed)
    BY <1>1, <1>2, <1>4 DEF Sources, AllHonest, Believed
  <2> QED
    BY <1>1, <1>2, <1>3, <1>4, <2>1 DEF Sources
<1>7. Configured'
  BY <1>1, <1>2 DEF Configured, EvidenceIsConfigured
<1>8. Newest' /\ Withdrawn'
  BY <1>1, <1>2, <1>3 DEF Newest, Withdrawn
<1> QED
  BY <1>5, <1>6, <1>7, <1>8 DEF MonitorInv

\* The process dies or is unloaded.
LEMMA StopMonitorStep ==
    ASSUME MonitorInv, StopMonitor
    PROVE  MonitorInv'
<1> DEFINE i == Interval(clock)
<1>1. MonitorTypeOK /\ Sources /\ Configured /\ Newest /\ Withdrawn
  BY DEF MonitorInv
<1>2. /\ running' = "down" /\ changes' = changes + 1
      /\ obs' = <<>> /\ aemo' = NoRecord /\ last' = NoRecord /\ confirmed' = NoRecord
      /\ result' = NoRecord /\ active' = NoRecord /\ expiry' = 0
      /\ saving' = FALSE /\ fetch' = NoDownload /\ heard' = FALSE /\ known' = Nothing
      /\ UNCHANGED <<clock, feed, native, cfg, store>>
  BY DEF StopMonitor, Change, sources
<1>3. clock \in Nat /\ i \in Nat \ {0}
  BY MonitorFacts
<1>4. /\ Honest(NoRecord, i, feed) /\ NoRecord \in MarketRecords
      /\ ~HasPrice(NoRecord) /\ ~HasInterval(NoRecord) /\ NoRecord.src = "none"
      /\ NoRecord.int = 0
  BY <1>3, NoRecordHonest DEF Honest
<1>5. (Interval(clock))' = i /\ Listed' = Listed
  BY <1>2 DEF Interval, Listed
<1>6. ToSet(obs') = {}
  BY <1>2 DEF ToSet
<1>7. MonitorTypeOK'
  <2>1. NoDownload \in Downloads
    BY DEF NoDownload, Downloads, Reports
  <2>2. known' \in [official : MarketRecords, amber : MarketRecords]
    BY <1>2, <1>4 DEF Nothing
  <2>3. changes' \in Nat
    BY <1>1, <1>2 DEF MonitorTypeOK
  <2>4. obs' \in Seq(MarketRecords)
    BY <1>2
  <2>5. store' \in [obs : Seq(MarketRecords), active : MarketRecords]
    BY <1>1, <1>2 DEF MonitorTypeOK
  <2> QED
    BY <1>1, <1>2, <1>4, <2>1, <2>2, <2>3, <2>4, <2>5 DEF MonitorTypeOK
<1>8. Sources'
  <2>1. AllHonest(Believed', i, feed)
    BY <1>1, <1>2, <1>4, <1>6 DEF Sources, AllHonest, Believed, Nothing
  <2> QED
    BY <1>1, <1>2, <1>3, <1>5, <1>6, <2>1 DEF Sources, Telling, NoDownload
<1>9. Configured'
  BY <1>2, <1>4 DEF Configured, EvidenceIsConfigured, NoDownload
<1>10. Newest'
  <2>1. Evident(NoRecord, obs', NoRecord, cfg, i)
    BY <1>3, <1>4, <1>6 DEF Evident, Official
  <2> QED
    BY <1>2, <1>4, <1>5, <2>1 DEF Newest, Confirms, Nothing
<1>11. Withdrawn'
  <2>1. PriorAmber(NoRecord, <<>>, clock) = NoRecord
    BY DEF PriorAmber, Latest
  <2> QED
    BY <1>2, <1>3, <1>4, <2>1 DEF Withdrawn, Matches, Withdraws, Nothing
<1> QED
  BY <1>7, <1>8, <1>9, <1>10, <1>11 DEF MonitorInv

\* The history is restored.
LEMMA StartMonitorStep ==
    ASSUME MonitorInv, StartMonitor
    PROVE  MonitorInv'
<1> DEFINE i == Interval(clock)
           o == RestoredState(store).obs
           d == RestoredState(store).active
           n == KnownFrom(o).official
           k == KnownFrom(o).amber
<1>1. MonitorTypeOK /\ Sources /\ Configured /\ Newest /\ Withdrawn
  BY DEF MonitorInv
<1>2. /\ running = "down" /\ running' = "up"
      /\ obs' = o /\ active' = d /\ expiry' = RestoredExpiry
      /\ fetch' = IF cfg.on THEN NoDownload ELSE Due
      /\ heard' = (cfg.on /\ cfg.amber) /\ known' = KnownFrom(o)
      /\ UNCHANGED <<clock, feed, native, cfg, aemo, last, confirmed, result,
                     saving, store, changes>>
  BY DEF StartMonitor, sources
<1>3. /\ clock \in Nat /\ i \in Nat \ {0} /\ cfg \in Configurations
      /\ Honest(store.active, i, feed)
      /\ store.obs \in Seq(MarketRecords) /\ AllHonest(ToSet(store.obs), i, feed)
      /\ Telling(ToSet(store.obs))
  BY MonitorFacts
<1>4. /\ Honest(NoRecord, i, feed) /\ NoRecord \in MarketRecords
      /\ ~HasPrice(NoRecord) /\ ~HasInterval(NoRecord) /\ NoRecord.src = "none"
      /\ NoRecord.int = 0
  BY <1>3, NoRecordHonest DEF Honest
<1>5. result = NoRecord /\ aemo = NoRecord /\ last = NoRecord /\ confirmed = NoRecord
  BY <1>1, <1>2 DEF Configured
<1>6. (Interval(clock))' = i /\ Listed' = Listed
  BY <1>2 DEF Interval, Listed
<1>7. /\ o = [m \in DOMAIN store.obs |->
                IF RestoredOfficial(store.obs[m]) \/ RestoredAmber(store.obs[m])
                  THEN store.obs[m] ELSE NoRecord]
      /\ d = IF HasPrice(store.active) THEN store.active ELSE NoRecord
  BY DEF RestoredState
<1>8. i = Interval(clock) /\ n = KnownFrom(o).official /\ k = KnownFrom(o).amber
  OBVIOUS
<1> HIDE DEF i, o, d, n, k
<1>9. o \in Seq(MarketRecords) /\ AllHonest(ToSet(o), i, feed) /\ Telling(ToSet(o))
  <2>1. \A m \in DOMAIN store.obs : store.obs[m] \in ToSet(store.obs)
    BY <1>3, Elements
  <2>2. DOMAIN o = DOMAIN store.obs
        /\ \A m \in DOMAIN store.obs : o[m] \in ToSet(store.obs) \cup {NoRecord}
    BY <1>7, <2>1
  <2>3. \A m \in DOMAIN store.obs : o[m] \in MarketRecords
    BY <1>3, <1>4, <2>2 DEF AllHonest, Honest
  <2>4. o \in Seq(MarketRecords)
    <3>1. DOMAIN store.obs = 1 .. Len(store.obs) /\ Len(store.obs) \in Nat
      BY <1>3
    <3>2. o \in [1 .. Len(store.obs) -> MarketRecords]
      BY <1>7, <2>3, <3>1
    <3> QED
      BY <3>1, <3>2
  <2>5. \A q \in ToSet(o) : q \in ToSet(store.obs) \cup {NoRecord}
    BY <2>2 DEF ToSet
  <2> QED
    BY <1>3, <1>4, <2>4, <2>5 DEF AllHonest, Telling
<1>10. /\ Honest(d, i, feed) /\ (d # NoRecord => HasPrice(d))
       /\ RestoredExpiry \in Nat /\ (RestoredExpiry > 0 => cfg.on)
  BY <1>3, <1>4, <1>7 DEF RestoredExpiry, Honest, MarketRecords
<1>11. /\ Honest(n, i, feed) /\ Honest(k, i, feed) /\ known' = [official |-> n, amber |-> k]
       /\ Evident(NoRecord, o, n, cfg, i) /\ Matches(k, NoRecord, o, clock)
  BY <1>2, <1>3, <1>8, <1>9, KnownFromIs
<1>12. fetch' \in Downloads /\ fetch'.phase # "reading" /\ fetch'.int = 0
  BY <1>2 DEF NoDownload, Due, Downloads, Reports
<1>13. MonitorTypeOK'
  <2>1. d \in MarketRecords /\ n \in MarketRecords /\ k \in MarketRecords
    BY <1>10, <1>11 DEF Honest
  <2>2. known' \in [official : MarketRecords, amber : MarketRecords]
    BY <1>11, <2>1
  <2>3. heard' \in BOOLEAN
    BY <1>2
  <2> QED
    BY <1>1, <1>2, <1>9, <1>10, <1>12, <2>1, <2>2, <2>3 DEF MonitorTypeOK
<1>14. Sources'
  <2>1. AllHonest(Believed', i, feed)
    BY <1>2, <1>3, <1>4, <1>5, <1>9, <1>10, <1>11 DEF AllHonest, Believed
  <2> QED
    BY <1>1, <1>2, <1>3, <1>6, <1>9, <1>12, <2>1 DEF Sources
<1>15. Configured'
  BY <1>2, <1>4, <1>5, <1>10, <1>12 DEF Configured, EvidenceIsConfigured
<1>16. Newest' /\ Withdrawn'
  BY <1>2, <1>4, <1>5, <1>6, <1>11 DEF Newest, Withdrawn, Confirms, Withdraws
<1> QED
  BY <1>13, <1>14, <1>15, <1>16 DEF MonitorInv

\* The operator of the market publishes a report.
LEMMA PublishStep ==
    ASSUME MonitorInv, Publish
    PROVE  MonitorInv'
<1> DEFINE i == Interval(clock)
<1>1. MonitorTypeOK /\ Sources /\ Configured /\ Newest /\ Withdrawn
  BY DEF MonitorInv
<1>2. PICK content \in Contents : feed' = [feed EXCEPT ![Cardinality(Listed) + 1] = content]
  BY DEF Publish
<1>3. /\ Cardinality(Listed) < MaxSerial /\ changes' = changes + 1
      /\ UNCHANGED <<clock, native, cfg, running, obs, aemo, last, confirmed, result, active,
                     expiry, saving, store, fetch, heard, known>>
  BY DEF Publish, Change, memory
<1>4. PICK m \in 0 .. MaxSerial : Listed = 1 .. m
  BY <1>1 DEF Sources
<1>5. m \in Nat /\ MaxSerial \in Nat
  BY <1>4, MonitorBoundsAssumption
<1>6. Cardinality(Listed) = m
  BY <1>4, <1>5, FS_Interval
<1>7. m + 1 \in 1 .. MaxSerial /\ feed[m + 1] = NoReport
  BY <1>3, <1>4, <1>5, <1>6 DEF Listed
<1>8. feed \in [1 .. MaxSerial -> Reports]
  BY <1>1 DEF MonitorTypeOK
<1>9. /\ feed' \in [1 .. MaxSerial -> Reports] /\ content # NoReport
      /\ feed'[m + 1] = content
      /\ \A s \in 1 .. MaxSerial : s # m + 1 => feed'[s] = feed[s]
  <2>1. content \in Reports /\ content # NoReport
    BY DEF Reports, Contents, NoReport
  <2> QED
    BY <1>2, <1>6, <1>7, <1>8, <2>1
<1>10. Listed' = 1 .. (m + 1)
  <2>1. \A s \in 1 .. MaxSerial : s \in Listed <=> s <= m
    BY <1>4, <1>5
  <2>2. \A s \in 1 .. MaxSerial : feed'[s] # NoReport <=> s <= m + 1
    BY <1>5, <1>7, <1>9, <2>1 DEF Listed
  <2> QED
    BY <1>5, <1>7, <2>2 DEF Listed
<1>11. clock \in Nat /\ i \in Nat \ {0} /\ (Interval(clock))' = i
  BY <1>3, MonitorFacts DEF Interval
<1>12. ASSUME NEW r, Honest(r, i, feed)
       PROVE  Honest(r, i, feed')
  <2>1. ASSUME Official(r, i)
        PROVE  r.serial # m + 1
    <3>1. feed[r.serial].price = r.price /\ feed[r.serial].restr = r.restr
      BY <1>12, <2>1 DEF Honest
    <3>2. r.price > 0 \/ r.restr = "intervention"
      BY <2>1 DEF Official, Worth, HasPrice
    <3> QED
      BY <1>7, <3>1, <3>2 DEF NoReport
  <2> QED
    BY <1>9, <1>12, <2>1 DEF Honest
<1>13. MonitorTypeOK'
  <2>1. changes' \in Nat
    BY <1>1, <1>3 DEF MonitorTypeOK
  <2> QED
    BY <1>1, <1>3, <1>9, <2>1 DEF MonitorTypeOK
<1>14. Sources'
  <2>1. AllHonest(Believed', i, feed')
    <3>1. Believed' = Believed
      BY <1>3 DEF Believed
    <3> QED
      BY <1>1, <1>12, <3>1 DEF Sources, AllHonest
  <2>2. \E x \in 0 .. MaxSerial : Listed' = 1 .. x
    BY <1>7, <1>10
  <2>3. fetch.phase = "reading" /\ fetch.int = i =>
           fetch.serial \in 1 .. MaxSerial /\ feed'[fetch.serial] = fetch.content
    <3>1. ASSUME fetch.phase = "reading", fetch.int = i
          PROVE  fetch.serial \in 1 .. MaxSerial /\ fetch.serial # m + 1
                   /\ feed[fetch.serial] = fetch.content
      BY <1>1, <1>7, <3>1 DEF Sources
    <3> QED
      BY <1>9, <3>1
  <2> HIDE DEF i
  <2>4. i = Interval(clock)
    BY DEF i
  <2> QED
    BY <1>1, <1>3, <1>11, <2>1, <2>2, <2>3, <2>4 DEF Sources
<1>15. Configured'
  BY <1>1, <1>3 DEF Configured, EvidenceIsConfigured
<1>16. Newest' /\ Withdrawn'
  BY <1>1, <1>3, <1>11 DEF Newest, Withdrawn
<1> QED
  BY <1>13, <1>14, <1>15, <1>16 DEF MonitorInv

\* The Amber entity is updated.
LEMMA AmberUpdatesStep ==
    ASSUME MonitorInv, AmberUpdates
    PROVE  MonitorInv'
<1>1. MonitorTypeOK /\ Sources /\ Configured /\ Newest /\ Withdrawn
  BY DEF MonitorInv
<1>2. /\ native' \in [int : {Interval(clock)}, price : {1, 2}, stamp : 1 .. MaxStamp]
                       \cup {NoReading}
      /\ heard' = (heard \/ (running = "up" /\ cfg.on /\ cfg.amber)) /\ changes' = changes + 1
      /\ UNCHANGED <<clock, feed, cfg, running, obs, aemo, last, confirmed, result, active,
                     expiry, saving, store, fetch, known>>
  BY DEF AmberUpdates, Change, memory
<1>3. Interval(clock) \in Nat \ {0} /\ (Interval(clock))' = Interval(clock)
      /\ Listed' = Listed /\ Believed' = Believed
  BY <1>2, MonitorFacts DEF Interval, Listed, Believed
<1>4. native' \in Readings /\ native'.int <= Interval(clock)
  <2>1. CASE native' = NoReading
    BY <1>3, <2>1 DEF Readings, NoReading
  <2>2. CASE native' \in [int : {Interval(clock)}, price : {1, 2}, stamp : 1 .. MaxStamp]
    <3>1. 1 .. MaxStamp \subseteq Nat \ {0}
      BY MonitorBoundsAssumption
    <3> QED
      BY <1>3, <2>2, <3>1 DEF Readings
  <2> QED
    BY <1>2, <2>1, <2>2
<1>5. heard' \in BOOLEAN /\ changes' \in Nat /\ (heard' => cfg.on /\ cfg.amber)
  BY <1>1, <1>2 DEF MonitorTypeOK, Configured
<1>6. MonitorTypeOK'
  BY <1>1, <1>2, <1>4, <1>5 DEF MonitorTypeOK
<1>7. Sources'
  BY <1>1, <1>2, <1>3, <1>4 DEF Sources
<1>8. Configured'
  BY <1>1, <1>2, <1>5 DEF Configured, EvidenceIsConfigured
<1>9. Newest' /\ Withdrawn'
  BY <1>1, <1>2, <1>3 DEF Newest, Withdrawn
<1> QED
  BY <1>6, <1>7, <1>8, <1>9 DEF MonitorInv

\* Half an interval passes.
LEMMA AdvanceStep ==
    ASSUME MonitorInv, Advance
    PROVE  MonitorInv'
<1> DEFINE i == Interval(clock)
           j == Interval(clock + 1)
<1>1. MonitorTypeOK /\ Sources /\ Configured /\ Newest /\ Withdrawn
  BY DEF MonitorInv
<1>2. /\ clock' = clock + 1
      /\ UNCHANGED <<native, cfg, running, aemo, last, confirmed, result, active,
                     expiry, saving, store, fetch, heard, changes>>
  BY DEF Advance, memory
<1>3. clock \in Nat /\ i \in Nat \ {0} /\ j \in {i, i + 1} /\ clock' \in Nat
      /\ (Interval(clock))' = j
  <2>1. clock \in Nat /\ i \in Nat \ {0}
    BY MonitorFacts
  <2>2. j \in {i, i + 1}
    BY <2>1, Intervals
  <2>3. (Interval(clock))' = j
    BY <1>2 DEF Interval
  <2> QED
    BY <1>2, <2>1, <2>2, <2>3
<1>4. i = Interval(clock)
  OBVIOUS
<1> HIDE DEF i, j
<1>5. CASE j = i
  <2>1. UNCHANGED <<feed, obs, known>>
    BY <1>5 DEF Advance, i, j
  <2>2. Listed' = Listed /\ Believed' = Believed
    BY <1>2, <2>1 DEF Listed, Believed
  <2>3. MonitorTypeOK'
    BY <1>1, <1>2, <1>3, <2>1 DEF MonitorTypeOK
  <2>4. Sources'
    BY <1>1, <1>2, <1>3, <1>4, <1>5, <2>1, <2>2 DEF Sources
  <2>5. Configured'
    BY <1>1, <1>2, <2>1 DEF Configured, EvidenceIsConfigured
  <2>6. Newest'
    BY <1>1, <1>2, <1>3, <1>4, <1>5, <2>1 DEF Newest
  <2>7. Interval(clock') = Interval(clock)
    BY <1>2, <1>4, <1>5 DEF j
  <2>8. PriorAmber(last, obs, clock') = PriorAmber(last, obs, clock)
    BY <2>7 DEF PriorAmber
  <2>9. Matches(known.amber, last, obs, clock) => Matches(known.amber, last, obs, clock')
    BY <2>7, <2>8 DEF Matches
  <2>10. Withdrawn'
    BY <1>1, <1>2, <2>1, <2>9 DEF Withdrawn
  <2> QED
    BY <2>3, <2>4, <2>5, <2>6, <2>10 DEF MonitorInv
<1>6. CASE j # i
  <2>1. /\ feed' = [s \in 1 .. MaxSerial |-> NoReport] /\ obs' = <<>> /\ known' = Nothing
    BY <1>6 DEF Advance, i, j
  <2>2. j = i + 1
    BY <1>3, <1>6
  <2>3. /\ Honest(NoRecord, j, feed') /\ NoRecord \in MarketRecords
        /\ ~HasPrice(NoRecord) /\ ~HasInterval(NoRecord) /\ NoRecord.src = "none"
        /\ NoRecord.int = 0
    BY <1>3, NoRecordHonest DEF Honest
  <2>4. ToSet(obs') = {}
    BY <2>1 DEF ToSet
  <2>5. ASSUME NEW r, Honest(r, i, feed)
        PROVE  Honest(r, j, feed') /\ r.int < j
    <3>1. r.int \in Nat /\ r.int <= i
      BY <2>5 DEF Honest, MarketRecords
    <3>2. r.int <= j /\ r.int < j /\ r.int # j
      BY <1>3, <2>2, <3>1
    <3> QED
      BY <2>5, <3>2 DEF Honest, Official
  <2>6. Listed' = 1 .. 0
    BY <2>1 DEF Listed
  <2>7. MonitorTypeOK'
    <3>1. feed' \in [1 .. MaxSerial -> Reports]
      BY <2>1 DEF Reports
    <3>2. known' \in [official : MarketRecords, amber : MarketRecords]
      BY <2>1, <2>3 DEF Nothing
    <3> QED
      BY <1>1, <1>2, <1>3, <2>1, <3>1, <3>2 DEF MonitorTypeOK
  <2>8. Sources'
    <3>1. AllHonest(Believed', j, feed')
      BY <1>1, <1>2, <1>4, <2>1, <2>3, <2>4, <2>5 DEF Sources, AllHonest, Believed, Nothing
    <3>2. native.int <= j /\ fetch.int < j
      <4>1. native.int \in Nat /\ fetch.int \in Nat
        BY <1>1 DEF MonitorTypeOK, Readings, NoReading, Downloads
      <4>2. native.int <= i /\ fetch.int <= i
        BY <1>1, <1>4 DEF Sources
      <4> QED
        BY <1>3, <2>2, <4>1, <4>2
    <3>3. fetch.int \in Nat
      BY <1>1 DEF MonitorTypeOK, Downloads
    <3>4. fetch.int <= j /\ fetch.int # j
      BY <1>3, <2>2, <3>2, <3>3
    <3>5. 0 \in 0 .. MaxSerial
      BY MonitorBoundsAssumption
    <3>6. \E m \in 0 .. MaxSerial : Listed' = 1 .. m
      BY <2>6, <3>5
    <3>7. Telling(ToSet(obs')) /\ Telling(ToSet(store.obs))
      BY <1>1, <2>4 DEF Telling, Sources
    <3> QED
      BY <1>1, <1>2, <1>3, <3>1, <3>2, <3>4, <3>6, <3>7 DEF Sources
  <2>9. Configured'
    BY <1>1, <1>2, <2>1 DEF Configured, EvidenceIsConfigured
  <2>10. /\ aemo.int < j /\ aemo.int # j /\ Honest(aemo, i, feed) /\ aemo.src # "amber"
         /\ HasPrice(aemo) => cfg.on /\ aemo.threshold = cfg.threshold
         /\ last.int # j
    <3>1. Honest(aemo, i, feed) /\ Honest(last, i, feed)
          /\ Evident(aemo, obs, known.official, cfg, i)
      BY <1>4, MonitorFacts
    <3>2. aemo.int < j /\ last.int < j /\ aemo.int \in Nat /\ last.int \in Nat
      BY <2>5, <3>1 DEF Honest, MarketRecords
    <3> QED
      BY <1>3, <3>1, <3>2 DEF Evident
  <2>11. Evident(aemo, obs', NoRecord, cfg, j)
    BY <2>3, <2>4, <2>10 DEF Evident, Official
  <2>12. Newest'
    BY <1>2, <1>3, <2>1, <2>3, <2>11 DEF Newest, Confirms, Nothing
  <2>13. PriorAmber(last, <<>>, clock').int # j
    BY <1>3, <2>3, <2>10 DEF PriorAmber, Latest
  <2>14. Interval(clock') = j
    BY <1>3
  <2>15. Withdrawn'
    BY <1>2, <2>1, <2>3, <2>13, <2>14 DEF Withdrawn, Matches, Withdraws, Nothing
  <2> QED
    BY <2>7, <2>8, <2>9, <2>12, <2>15 DEF MonitorInv
<1> QED
  BY <1>5, <1>6

\* Nothing changes.
LEMMA StutterStep ==
    ASSUME MonitorInv, UNCHANGED monitorVars
    PROVE  MonitorInv'
<1>1. UNCHANGED <<clock, feed, native, cfg, running, obs, aemo, last, confirmed, result, active,
                  expiry, saving, store, fetch, heard, known, changes>>
  BY DEF monitorVars, sources, memory
<1> QED
  BY <1>1 DEF MonitorInv, MonitorTypeOK, Sources, Believed, Listed, Configured,
              EvidenceIsConfigured, Newest, Withdrawn, Interval

\* Every step preserves the invariant.
LEMMA MonitorStep ==
    ASSUME MonitorInv, [MonitorNext]_monitorVars
    PROVE  MonitorInv'
<1>1. CASE UNCHANGED monitorVars
  BY <1>1, StutterStep
<1>2. ASSUME NEW c \in Configurations, UpdateConfiguration(c)
      PROVE  MonitorInv'
  BY <1>2, UpdateConfigurationStep
<1> QED
  BY <1>1, <1>2, FetchIndexStep, ApplyResultStep, AmberChangedStep, ConsultStep, ExpireStep,
     SaveEndsStep, StopMonitorStep, StartMonitorStep, PublishStep, AmberUpdatesStep, AdvanceStep
     DEF MonitorNext

\* The invariant behind the three theorems below.
LEMMA MonitorInvariant == MonitorSpec => []MonitorInv
<1>1. MonitorInit => MonitorInv
  BY InitMonitor
<1>2. MonitorInv /\ [MonitorNext]_monitorVars => MonitorInv'
  BY MonitorStep
<1> QED
  BY <1>1, <1>2, PTL DEF MonitorSpec

\* No price in memory was judged under settings the operator has changed since
\* (_async_apply_result and update_configuration of aemo_monitor.py).
THEOREM EvidenceStaysConfigured == MonitorSpec => []EvidenceIsConfigured
<1>1. MonitorInv => EvidenceIsConfigured
  BY DEF MonitorInv, Configured
<1> QED
  BY <1>1, MonitorInvariant, PTL

\* An official report the monitor has used is never overruled by an older one, by a failed
\* download, by the other provider or by a restart (_select_source, export_result).  Left out
\* by VetoHolds is an intervention reported by the direct source, which has no price and is
\* not kept (_prevent_dispatch_replay).
THEOREM VetoStands == MonitorSpec => []VetoHolds
<1>1. ASSUME MonitorInv, HasInterval(known.official), Permitted
      PROVE  \/ known.official.restr = "intervention" /\ ~cfg.amber
             \/ /\ ~Restricted(known.official)
                /\ ExportResult.src = "official" => known.official.price >= cfg.threshold
  <2> DEFINE i == Interval(clock)
             n == known.official
             e == RememberExportPrice(confirmed, Current.result, clock)
  <2>1. /\ ExportResult = e /\ HasPrice(e) /\ e.price >= cfg.threshold /\ cfg.on
    <3>1. HasPrice(ExportResult) /\ ExportResult.price >= cfg.threshold
      BY <1>1 DEF Permitted
    <3>2. ExportResult = e \/ ExportResult = NoRecord
      BY DEF ExportResult
    <3>3. cfg.on
      BY <3>1, <3>2, MonitorFacts, NoRecordHonest, <1>1 DEF ExportResult
    <3>4. ~HasPrice(NoRecord)
      BY DEF HasPrice, NoRecord
    <3> QED
      BY <3>1, <3>2, <3>3, <3>4
  <2>2. i = Interval(clock) /\ n = known.official
        /\ e = RememberExportPrice(confirmed, Current.result, clock)
    OBVIOUS
  <2> HIDE DEF i, n, e
  <2>3. i > 0 /\ Honest(n, i, feed) /\ Evident(aemo, obs, n, cfg, i)
    BY <1>1, <2>2, MonitorFacts
  <2>4. CASE cfg.amber
    <3>1. /\ ~Restricted(n) /\ (e.src = "official" => e.int = i /\ e.serial = n.serial)
          /\ Honest(e, i, feed)
      BY <1>1, <2>1, <2>2, <2>4, AmberNow
    <3>2. ASSUME e.src = "official"
          PROVE  e.price = n.price
      <4>1. Official(e, i) /\ Official(n, i)
        BY <1>1, <2>1, <2>2, <2>3, <3>1, <3>2 DEF Official, Worth, Evident
      <4> QED
        BY <2>3, <3>1, <3>2, <4>1 DEF Honest
    <3> QED
      BY <2>1, <2>2, <3>1, <3>2
  <2>5. CASE ~cfg.amber
    <3>1. Current.result = CurrentAt(result, clock)
      BY <2>5 DEF Current
    <3>2. n.restr = "intervention" \/ (~Restricted(n) /\ e.price = n.price)
      BY <1>1, <2>1, <2>2, <2>5, <3>1, PlainNow
    <3> QED
      BY <2>1, <2>2, <2>5, <3>2
  <2> QED
    BY <2>4, <2>5
<1>2. MonitorInv => VetoHolds
  BY <1>1 DEF VetoHolds
<1> QED
  BY <1>2, MonitorInvariant, PTL

\* A price the Amber entity has withdrawn stays withdrawn for its interval: neither the
\* official fallback nor an older reading nor a restart gives permission against it.
THEOREM WithdrawalStands == MonitorSpec => []WithdrawalHolds
<1>1. ASSUME MonitorInv, cfg.amber, HasInterval(AmberUsed(Current.last)),
             AmberUsed(Current.last).price < cfg.threshold
      PROVE  ~Permitted
  <2> DEFINE i == Interval(clock)
             n == known.official
             later == AmberUsed(Current.last)
             e == RememberExportPrice(confirmed, Current.result, clock)
  <2>1. i = Interval(clock) /\ n = known.official /\ later = AmberUsed(Current.last)
        /\ e = RememberExportPrice(confirmed, Current.result, clock)
    OBVIOUS
  <2>2. ~HasPrice(NoRecord)
    BY DEF HasPrice, NoRecord
  <2>3. ExportResult = NoRecord \/ (ExportResult = e /\ cfg.on)
    BY DEF ExportResult
  <2> HIDE DEF i, n, later, e
  <2>4. CASE ExportResult = NoRecord
    BY <2>2, <2>4 DEF Permitted
  <2>5. CASE ExportResult = e /\ cfg.on
    <3>1. Withdraws(later, e, cfg) /\ Honest(e, i, feed)
      BY <1>1, <2>1, <2>5, AmberNow
    <3>2. ~HasPrice(e) \/ e.price < cfg.threshold
      BY <1>1, <2>1, <3>1 DEF Withdraws
    <3>3. e.price \in {0, 1, 2} /\ cfg.threshold \in {0, 1, 2}
      BY <1>1, <2>1, <3>1, MonitorFacts DEF Honest, MarketRecords
    <3> QED
      BY <2>5, <3>2, <3>3 DEF Permitted
  <2> QED
    BY <2>3, <2>4, <2>5
<1>2. MonitorInv => WithdrawalHolds
  BY <1>1 DEF WithdrawalHolds
<1> QED
  BY <1>2, MonitorInvariant, PTL
=============================================================================
