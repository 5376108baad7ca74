------------------------- MODULE FoxessSessionsProofs -------------------------
(***************************************************************************)
(* What the session reducers guarantee of every step they return, for      *)
(* every power range and attempt limit.                                    *)
(***************************************************************************)
EXTENDS FoxessSessions, TLAPS

\* The commands a session of this phase and power may execute: one that forces
\* the battery needs a starting session of its direction and at most its power.
Licensed(ch, phase, power) ==
    {c \in Commands(Powers) :
        IsPositive(c) => /\ phase = "starting" /\ c.kw <= power
                         /\ c.mode \in {"none", ForcedMode(ch)}}

ForcingPhases == {"starting", "active", "recovering"}

\* The guarantee: a typed session, licensed commands, commands only together with
\* a new starting or stopping session, an owner that lets go only when the observed
\* mode is Self Use, and a power that never rises under a session that forces.
Sound(ch, s, o, r) ==
    /\ r.state \in SessionOf(ch)
    /\ r.plan \in Seq(Licensed(ch, r.state.phase, r.state.power))
    /\ r.plan # <<>> => r.state.phase \in {"starting", "stopping"} /\ r.state # s
    /\ Owned(s) /\ ~Owned(r.state) => o.mode = "SelfUse"
    /\ {s.phase, r.state.phase} \subseteq ForcingPhases => r.state.power <= s.power

\* The empty plan is a plan over every set of commands.
LEMMA EmptyPlan == \A S : <<>> \in Seq(S)
  OBVIOUS

\* An optional command belongs to every set its command belongs to.
LEMMA UnlessTyped ==
    ASSUME NEW S, NEW c \in S, NEW done \in BOOLEAN
    PROVE  Unless(done, c) \in Seq(S)
  BY DEF Unless

\* Concatenating three plans over a set gives a plan over it.
LEMMA ThreeTyped ==
    ASSUME NEW S, NEW a \in Seq(S), NEW b \in Seq(S), NEW c \in Seq(S)
    PROVE  (a \o b) \o c \in Seq(S)
  OBVIOUS

\* A plan of planner/foxess.py that forces a direction is licensed by a starting
\* session of at least its power.
LEMMA ForcePlanLicensed ==
    ASSUME NEW ch \in Channels, NEW o \in Observations(Powers),
           NEW p \in Powers, NEW limit \in Powers
    PROVE  PlanFoxessCommands(ForceOf(ch, p), o, limit) \in Seq(Licensed(ch, "starting", p))
<1> DEFINE q == Lesser(p, limit)
           S == Licensed(ch, "starting", p)
<1>1. q \in Powers /\ q <= p /\ 0 \in Powers
  BY MaxKwAssumption DEF Lesser, Powers
<1>2. /\ SetCharge(0) \in Commands(Powers) /\ SetDischarge(0) \in Commands(Powers)
      /\ SetCharge(q) \in Commands(Powers) /\ SetDischarge(q) \in Commands(Powers)
      /\ SelectMode(ForcedMode(ch)) \in Commands(Powers)
  BY <1>1 DEF SetCharge, SetDischarge, SelectMode, Commands, ForcedModes, ForcedMode, Channels
<1>3. /\ SetCharge(0) \in S /\ SetDischarge(0) \in S
      /\ SetCharge(q) \in S /\ SetDischarge(q) \in S
  BY <1>1, <1>2 DEF Licensed, SetCharge, SetDischarge, Powers
<1>4. SelectMode(ForcedMode(ch)) \in S
  BY <1>1, <1>2 DEF Licensed, SelectMode, Powers
<1>5. CASE ch = "charge"
  <2>1. PlanFoxessCommands(ForceOf(ch, p), o, limit) = PlanForceCharge(o, q)
    BY <1>5 DEF PlanFoxessCommands, ForceOf, ForceCharge
  <2>2. /\ Unless(o.dis = 0, SetDischarge(0)) \in Seq(S)
        /\ Unless(o.chg = q, SetCharge(q)) \in Seq(S)
        /\ Unless(o.mode = "ForceCharge", SelectMode("ForceCharge")) \in Seq(S)
    BY <1>3, <1>4, <1>5, UnlessTyped DEF ForcedMode
  <2> QED
    BY <2>1, <2>2, ThreeTyped DEF PlanForceCharge
<1>6. CASE ch = "export"
  <2>1. PlanFoxessCommands(ForceOf(ch, p), o, limit) = PlanForceDischarge(o, q)
    BY <1>6 DEF PlanFoxessCommands, ForceOf, ForceDischarge
  <2>2. /\ Unless(o.chg = 0, SetCharge(0)) \in Seq(S)
        /\ Unless(o.dis = q, SetDischarge(q)) \in Seq(S)
        /\ Unless(o.mode = "ForceDischarge", SelectMode("ForceDischarge")) \in Seq(S)
    BY <1>3, <1>4, <1>6, UnlessTyped DEF ForcedMode
  <2> QED
    BY <2>1, <2>2, ThreeTyped DEF PlanForceDischarge
<1> QED
  BY <1>5, <1>6 DEF Channels

\* A restoring plan forces nothing: every session may execute it.
LEMMA RestorePlanLicensed ==
    ASSUME NEW ch, NEW o \in Observations(Powers), NEW limit, NEW phase, NEW power
    PROVE  PlanFoxessCommands(RestoreSelfUse, o, limit) \in Seq(Licensed(ch, phase, power))
<1> DEFINE S == Licensed(ch, phase, power)
<1>1. 0 \in Powers
  BY MaxKwAssumption DEF Powers
<1>2. SelectMode("SelfUse") \in S /\ SetCharge(0) \in S /\ SetDischarge(0) \in S
  BY <1>1 DEF Licensed, SelectMode, SetCharge, SetDischarge, Commands, IsPositive,
              IsForce, ForcedModes
<1>3. /\ Unless(o.mode = "SelfUse", SelectMode("SelfUse")) \in Seq(S)
      /\ Unless(o.chg = 0, SetCharge(0)) \in Seq(S)
      /\ Unless(o.dis = 0, SetDischarge(0)) \in Seq(S)
  BY <1>2, UnlessTyped
<1>4. PlanFoxessCommands(RestoreSelfUse, o, limit) = PlanRestoreMode(o)
  BY DEF PlanFoxessCommands, RestoreSelfUse
<1> QED
  BY <1>3, <1>4, ThreeTyped DEF PlanRestoreMode

-----------------------------------------------------------------------------
(* The reducers, one lemma for each of the two plans and each phase. *)

\* A start confirms the target it finds or asks for it: the session ends up
\* starting or active with no more power than asked, and licenses its commands.
LEMMA StartStep ==
    ASSUME NEW ch \in Channels, NEW s \in SessionOf(ch), NEW o \in Observations(Powers),
           NEW kw \in Powers, NEW limit \in Powers
    PROVE  LET r == Start(ch, s, o, kw, limit) IN
           /\ r.state \in SessionOf(ch) /\ Owned(r.state) /\ r.state.power <= kw
           /\ r.plan \in Seq(Licensed(ch, r.state.phase, r.state.power))
           /\ r.plan # <<>> => r.state.phase = "starting" /\ r.state.fresh
<1> DEFINE target == TargetPower(ch, kw, limit)
           r == Start(ch, s, o, kw, limit)
<1>1. target \in Powers /\ target <= kw
  BY DEF TargetPower, Lesser, Powers
<1>2. Bump(s.attempts) \in 0 .. AttemptCap /\ 0 \in 0 .. AttemptCap
  BY MaxAttemptsAssumption DEF Bump, AttemptCap, SessionOf
<1>3. {"starting", "active"} \subseteq Phases(ch)
  BY DEF Phases
<1>4. CASE ResponseMatches(ForceOf(ch, target), o)
  <2>1. r.state = [s EXCEPT !.phase = "active", !.power = target, !.attempts = 0]
        /\ r.plan = <<>>
    BY <1>4 DEF Start, Quiet, Step
  <2>2. r.state \in SessionOf(ch) /\ Owned(r.state) /\ r.state.power <= kw
    BY <1>1, <1>2, <1>3, <2>1 DEF SessionOf, Owned, OwnedPhases
  <2>3. r.plan \in Seq(Licensed(ch, r.state.phase, r.state.power))
    BY <2>1, EmptyPlan
  <2> QED
    BY <2>1, <2>2, <2>3
<1>5. CASE ~ResponseMatches(ForceOf(ch, target), o)
  <2>1. /\ r.state = [phase |-> "starting", power |-> target,
                      attempts |-> Bump(s.attempts), fresh |-> TRUE]
        /\ r.plan = PlanFoxessCommands(ForceOf(ch, target), o, limit)
    BY <1>5 DEF Start, Step
  <2>2. r.plan \in Seq(Licensed(ch, "starting", target))
    BY <1>1, <2>1, ForcePlanLicensed
  <2>3. r.state \in SessionOf(ch) /\ Owned(r.state) /\ r.state.power <= kw
    BY <1>1, <1>2, <1>3, <2>1 DEF SessionOf, Owned, OwnedPhases
  <2> QED
    BY <2>1, <2>2, <2>3
<1> QED
  BY <1>4, <1>5

\* A stop is done when complete Self Use is observed, and asks for it otherwise.
LEMMA StopStep ==
    ASSUME NEW ch \in Channels, NEW s \in SessionOf(ch), NEW o \in Observations(Powers)
    PROVE  LET r == Stop(ch, s, o) IN
           /\ r.state \in SessionOf(ch)
           /\ r.plan \in Seq(Licensed(ch, r.state.phase, r.state.power))
           /\ r.plan # <<>> => r.state.phase = "stopping" /\ r.state.fresh
           /\ ~Owned(r.state) => o.mode = "SelfUse"
<1> DEFINE r == Stop(ch, s, o)
<1>1. /\ 0 \in Powers /\ 0 \in 0 .. AttemptCap
      /\ StopAttempts(ch, s) \in 0 .. AttemptCap
      /\ Bump(StopAttempts(ch, s)) \in 0 .. AttemptCap
  BY MaxAttemptsAssumption, MaxKwAssumption
     DEF Powers, StopAttempts, Bump, AttemptCap, SessionOf
<1>2. {"idle", "stopping"} \subseteq Phases(ch)
  BY DEF Phases
<1>3. CASE ResponseMatches(RestoreSelfUse, o)
  <2>1. r.state = IdleSession /\ r.plan = <<>>
    BY <1>3 DEF Stop, Quiet, Step
  <2>2. o.mode = "SelfUse"
    BY <1>3 DEF ResponseMatches, RestoreSelfUse, SelfUseObservation
  <2>3. r.state \in SessionOf(ch)
    BY <1>1, <1>2, <2>1 DEF SessionOf, IdleSession
  <2>4. r.plan \in Seq(Licensed(ch, r.state.phase, r.state.power))
    BY <2>1, EmptyPlan
  <2> QED
    BY <2>1, <2>2, <2>3, <2>4
<1>4. CASE ~ResponseMatches(RestoreSelfUse, o)
  <2>1. /\ r.state = [phase |-> "stopping", power |-> s.power,
                      attempts |-> Bump(StopAttempts(ch, s)), fresh |-> TRUE]
        /\ r.plan = PlanFoxessCommands(RestoreSelfUse, o, s.power)
    BY <1>4 DEF Stop, Step
  <2>2. r.plan \in Seq(Licensed(ch, "stopping", s.power))
    BY <2>1, RestorePlanLicensed
  <2>3. r.state \in SessionOf(ch) /\ Owned(r.state)
    BY <1>1, <1>2, <2>1 DEF SessionOf, Owned, OwnedPhases
  <2> QED
    BY <2>1, <2>2, <2>3
<1> QED
  BY <1>3, <1>4

\* A step without commands is sound when the session it keeps is.
LEMMA QuietSound ==
    ASSUME NEW ch \in Channels, NEW s \in SessionOf(ch), NEW o \in Observations(Powers),
           NEW t \in SessionOf(ch), Owned(t) \/ ~Owned(s) \/ o.mode = "SelfUse",
           t.phase \in ForcingPhases => t.power <= s.power
    PROVE  Sound(ch, s, o, Quiet(t))
<1>1. Quiet(t).state = t /\ Quiet(t).plan = <<>>
  BY DEF Quiet, Step
<1>2. Quiet(t).plan \in Seq(Licensed(ch, Quiet(t).state.phase, Quiet(t).state.power))
  BY <1>1, EmptyPlan
<1> QED
  BY <1>1, <1>2 DEF Sound

\* A start is a sound step of any session that is not waiting for one already.
LEMMA StartSound ==
    ASSUME NEW ch \in Channels, NEW s \in SessionOf(ch), NEW o \in Observations(Powers),
           NEW t \in SessionOf(ch), NEW kw \in Powers, NEW limit \in Powers,
           s.phase # "starting" \/ ~s.fresh, s.phase \in ForcingPhases => kw <= s.power
    PROVE  Sound(ch, s, o, Start(ch, t, o, kw, limit))
<1> DEFINE r == Start(ch, t, o, kw, limit)
<1>1. /\ r.state \in SessionOf(ch) /\ Owned(r.state) /\ r.state.power <= kw
      /\ r.plan \in Seq(Licensed(ch, r.state.phase, r.state.power))
      /\ r.plan # <<>> => r.state.phase = "starting" /\ r.state.fresh
  BY StartStep
<1>2. r.state.power \in Nat /\ s.power \in Nat /\ kw \in Nat
  BY <1>1, MaxKwAssumption DEF SessionOf, Powers
<1> HIDE DEF r
<1>3. r.plan # <<>> => r.state # s
  BY <1>1
<1>4. {s.phase, r.state.phase} \subseteq ForcingPhases => r.state.power <= s.power
  BY <1>1, <1>2
<1>5. Sound(ch, s, o, r)
  BY <1>1, <1>3, <1>4 DEF Sound
<1> QED
  BY <1>5 DEF r

\* A stop is a sound step of any session that is not waiting for one already.
LEMMA StopSound ==
    ASSUME NEW ch \in Channels, NEW s \in SessionOf(ch), NEW o \in Observations(Powers),
           s.phase # "stopping" \/ ~s.fresh
    PROVE  Sound(ch, s, o, Stop(ch, s, o))
<1> DEFINE r == Stop(ch, s, o)
<1>1. /\ r.state \in SessionOf(ch)
      /\ r.plan \in Seq(Licensed(ch, r.state.phase, r.state.power))
      /\ r.plan # <<>> => r.state.phase = "stopping" /\ r.state.fresh
      /\ ~Owned(r.state) => o.mode = "SelfUse"
  BY StopStep
<1>2. r.state.phase \in {"stopping", "idle"}
  BY DEF Stop, Quiet, Step, IdleSession
<1> HIDE DEF r
<1>3. r.plan # <<>> => r.state # s
  BY <1>1
<1>4. ~(r.state.phase \in ForcingPhases)
  BY <1>2 DEF ForcingPhases
<1>5. Sound(ch, s, o, r)
  BY <1>1, <1>3, <1>4 DEF Sound
<1> QED
  BY <1>5 DEF r

\* The idle session, and any session with another legal phase, fresh or bounded
\* attempts, is a session of the channel.
LEMMA SessionEdits ==
    ASSUME NEW ch \in Channels
    PROVE  /\ IdleSession \in SessionOf(ch) /\ ~Owned(IdleSession)
           /\ \A s \in SessionOf(ch), ph \in Phases(ch) :
                /\ [s EXCEPT !.phase = ph] \in SessionOf(ch)
                /\ [s EXCEPT !.phase = ph, !.fresh = FALSE] \in SessionOf(ch)
                /\ [s EXCEPT !.phase = ph, !.attempts = 0] \in SessionOf(ch)
                /\ [s EXCEPT !.phase = ph, !.attempts = 0, !.fresh = FALSE] \in SessionOf(ch)
<1>1. 0 \in Powers /\ 0 \in 0 .. AttemptCap
  BY MaxKwAssumption, MaxAttemptsAssumption DEF Powers, AttemptCap
<1>2. IdleSession \in SessionOf(ch) /\ ~Owned(IdleSession)
  BY <1>1 DEF IdleSession, SessionOf, Phases, Owned, OwnedPhases
<1>3. ASSUME NEW s \in SessionOf(ch), NEW ph \in Phases(ch)
      PROVE  /\ [s EXCEPT !.phase = ph] \in SessionOf(ch)
             /\ [s EXCEPT !.phase = ph, !.fresh = FALSE] \in SessionOf(ch)
             /\ [s EXCEPT !.phase = ph, !.attempts = 0] \in SessionOf(ch)
             /\ [s EXCEPT !.phase = ph, !.attempts = 0, !.fresh = FALSE] \in SessionOf(ch)
  BY <1>1 DEF SessionOf
<1> QED
  BY <1>2, <1>3

\* A lost source turns owned sessions to recovery and forgets nothing else.
LEMMA SourceUnavailableSound ==
    ASSUME NEW ch \in Channels, NEW s \in SessionOf(ch), NEW o \in Observations(Powers)
    PROVE  Sound(ch, s, o, SourceUnavailable(s))
<1>1. {"recovering", "idle"} \subseteq Phases(ch)
  BY DEF Phases
<1>2. CASE Owned(s)
  <2> DEFINE t == [s EXCEPT !.phase = "recovering", !.fresh = FALSE]
  <2>1. t \in SessionOf(ch)
    BY <1>1, SessionEdits
  <2>2. Owned(t) /\ t.power = s.power /\ s.power <= s.power
    BY MaxKwAssumption DEF SessionOf, Powers, Owned, OwnedPhases
  <2> QED
    BY <1>2, <2>1, <2>2, QuietSound DEF SourceUnavailable
<1>3. CASE ~Owned(s)
  <2> DEFINE t == [s EXCEPT !.phase = "idle", !.attempts = 0, !.fresh = FALSE]
  <2>1. t \in SessionOf(ch) /\ ~(t.phase \in ForcingPhases)
    BY <1>1, SessionEdits DEF SessionOf, ForcingPhases
  <2> QED
    BY <1>3, <2>1, QuietSound DEF SourceUnavailable
<1> QED
  BY <1>2, <1>3

\* A recovering session starts over in its window and stops outside it.
LEMMA FromRecoveringSound ==
    ASSUME NEW ch \in Channels, NEW s \in SessionOf(ch), NEW o \in Observations(Powers),
           NEW in \in Inputs, s.phase = "recovering"
    PROVE  Sound(ch, s, o, FromRecovering(ch, s, o, in))
<1> DEFINE t == [s EXCEPT !.phase = "idle", !.attempts = 0, !.fresh = FALSE]
<1>1. t \in SessionOf(ch)
  BY SessionEdits DEF Phases
<1>2. s.power \in Powers /\ s.power <= s.power /\ in.limit \in Powers
  BY MaxKwAssumption DEF SessionOf, Powers, Inputs
<1>3. Sound(ch, s, o, Start(ch, t, o, s.power, in.limit))
  BY <1>1, <1>2, StartSound
<1>4. Sound(ch, s, o, Stop(ch, s, o))
  BY StopSound
<1> QED
  BY <1>3, <1>4 DEF FromRecovering

\* An idle session starts when a new one is desired.
LEMMA FromIdleSound ==
    ASSUME NEW ch \in Channels, NEW s \in SessionOf(ch), NEW o \in Observations(Powers),
           NEW in \in Inputs, s.phase = "idle"
    PROVE  Sound(ch, s, o, FromIdle(ch, s, o, in))
<1>1. in.limit \in Powers /\ ~Owned(s) /\ ~(s.phase \in ForcingPhases)
  BY DEF Inputs, Owned, OwnedPhases, ForcingPhases
<1>2. Sound(ch, s, o, Start(ch, s, o, in.limit, in.limit))
  BY <1>1, StartSound
<1>3. Sound(ch, s, o, Quiet(IdleSession))
  <2>1. ~(IdleSession.phase \in ForcingPhases)
    BY DEF IdleSession, ForcingPhases
  <2> QED
    BY <1>1, <2>1, SessionEdits, QuietSound
<1> QED
  BY <1>2, <1>3 DEF FromIdle

\* A session that is pursued is confirmed, kept, or started again once its last
\* command is no longer fresh.
LEMMA PursueSound ==
    ASSUME NEW ch \in Channels, NEW s \in SessionOf(ch), NEW o \in Observations(Powers),
           NEW in \in Inputs, s.phase \in {"starting", "active"},
           NEW t \in SessionOf(ch), Owned(t), t.power = s.power
    PROVE  Sound(ch, s, o, Pursue(ch, s, o, in, t))
<1>1. s.power \in Powers /\ s.power <= s.power /\ in.limit \in Powers /\ Owned(s)
  BY MaxKwAssumption DEF SessionOf, Powers, Inputs, Owned, OwnedPhases
<1>2. Sound(ch, s, o, Quiet(t)) /\ Sound(ch, s, o, Quiet(s))
  BY <1>1, QuietSound
<1>3. ASSUME ~s.fresh
      PROVE  Sound(ch, s, o, Start(ch, s, o, s.power, in.limit))
  BY <1>1, <1>3, StartSound
<1> QED
  BY <1>2, <1>3 DEF Pursue

\* A starting session.
LEMMA FromStartingSound ==
    ASSUME NEW ch \in Channels, NEW s \in SessionOf(ch), NEW o \in Observations(Powers),
           NEW in \in Inputs, s.phase = "starting"
    PROVE  Sound(ch, s, o, FromStarting(ch, s, o, in))
<1> DEFINE t == [s EXCEPT !.phase = "active", !.attempts = 0]
<1>1. t \in SessionOf(ch) /\ Owned(t) /\ t.power = s.power
  BY SessionEdits DEF Phases, SessionOf, Owned, OwnedPhases
<1>2. Sound(ch, s, o, Pursue(ch, s, o, in, t))
  BY <1>1, PursueSound
<1>3. Sound(ch, s, o, Stop(ch, s, o))
  BY StopSound
<1> QED
  BY <1>2, <1>3 DEF FromStarting

\* An active session; a charge completes, or starts over, on observed Self Use.
LEMMA FromActiveSound ==
    ASSUME NEW ch \in Channels, NEW s \in SessionOf(ch), NEW o \in Observations(Powers),
           NEW in \in Inputs, s.phase = "active"
    PROVE  Sound(ch, s, o, FromActive(ch, s, o, in))
<1>1. s.power \in Powers /\ s.power <= s.power /\ in.limit \in Powers /\ Owned(s)
  BY MaxKwAssumption DEF SessionOf, Powers, Inputs, Owned, OwnedPhases
<1>2. Sound(ch, s, o, Stop(ch, s, o)) /\ Sound(ch, s, o, Pursue(ch, s, o, in, s))
  BY <1>1, StopSound, PursueSound
<1>3. Sound(ch, s, o, Start(ch, IdleSession, o, s.power, in.limit))
  BY <1>1, SessionEdits, StartSound
<1>4. ASSUME ch = "charge", ResponseMatches(RestoreSelfUse, o)
      PROVE  Sound(ch, s, o, Quiet([s EXCEPT !.phase = "completed", !.attempts = 0,
                                             !.fresh = FALSE]))
  <2> DEFINE t == [s EXCEPT !.phase = "completed", !.attempts = 0, !.fresh = FALSE]
  <2>1. "completed" \in Phases(ch)
    BY <1>4 DEF Phases
  <2>2. t \in SessionOf(ch)
    BY <2>1, SessionEdits
  <2>3. t.phase = "completed"
    BY DEF SessionOf
  <2>4. t \in SessionOf(ch) /\ ~(t.phase \in ForcingPhases)
    BY <2>2, <2>3 DEF ForcingPhases
  <2>5. o.mode = "SelfUse"
    BY <1>4 DEF ResponseMatches, RestoreSelfUse, SelfUseObservation
  <2> QED
    BY <2>4, <2>5, QuietSound
<1> QED
  BY <1>2, <1>3, <1>4 DEF FromActive

\* A stopping session waits for complete Self Use or for a new session.
LEMMA FromStoppingSound ==
    ASSUME NEW ch \in Channels, NEW s \in SessionOf(ch), NEW o \in Observations(Powers),
           NEW in \in Inputs, s.phase = "stopping"
    PROVE  Sound(ch, s, o, FromStopping(ch, s, o, in))
<1> DEFINE t == [s EXCEPT !.phase = "idle", !.attempts = 0]
<1>1. t \in SessionOf(ch) /\ in.limit \in Powers /\ ~(s.phase \in ForcingPhases)
  BY SessionEdits DEF Phases, Inputs, ForcingPhases
<1>2. Sound(ch, s, o, Start(ch, t, o, in.limit, in.limit))
  BY <1>1, StartSound
<1>3. ASSUME ResponseMatches(RestoreSelfUse, o)
      PROVE  Sound(ch, s, o, Quiet(IdleSession))
  <2>1. o.mode = "SelfUse" /\ ~(IdleSession.phase \in ForcingPhases)
    BY <1>3 DEF ResponseMatches, RestoreSelfUse, SelfUseObservation, IdleSession, ForcingPhases
  <2> QED
    BY <2>1, SessionEdits, QuietSound
<1>4. Sound(ch, s, o, Quiet(s))
  BY <1>1, QuietSound DEF Owned, OwnedPhases
<1>5. ASSUME ~s.fresh
      PROVE  Sound(ch, s, o, Stop(ch, s, o))
  BY <1>5, StopSound
<1> QED
  BY <1>2, <1>3, <1>4, <1>5 DEF FromStopping

\* A completed charge.
LEMMA FromCompletedSound ==
    ASSUME NEW s \in SessionOf("charge"), NEW o \in Observations(Powers),
           NEW in \in Inputs, s.phase = "completed"
    PROVE  Sound("charge", s, o, FromCompleted(s, o, in))
<1>1. /\ "charge" \in Channels /\ in.limit \in Powers
      /\ ~(s.phase \in ForcingPhases) /\ ~Owned(s) /\ ~(IdleSession.phase \in ForcingPhases)
  BY DEF Inputs, Channels, ForcingPhases, Owned, OwnedPhases, IdleSession
<1>2. Sound("charge", s, o, Start("charge", IdleSession, o, in.limit, in.limit))
  BY <1>1, SessionEdits, StartSound
<1>3. Sound("charge", s, o, Quiet(s)) /\ Sound("charge", s, o, Quiet(IdleSession))
  BY <1>1, SessionEdits, QuietSound
<1> QED
  BY <1>2, <1>3 DEF FromCompleted

\* A reduced limit only lowers the power of a session that forces the battery.
LEMMA ReducedStep ==
    ASSUME NEW ch \in Channels, NEW s \in SessionOf(ch), NEW in \in Inputs,
           s.phase # "completed"
    PROVE  LET t == Reduced(ch, s, in) IN
           /\ t \in SessionOf(ch) /\ t.phase # "completed"
           /\ t = s \/ (/\ t.phase = "starting" /\ t.power < s.power
                       /\ s.phase \in {"starting", "active", "recovering"})
<1>1. 0 \in 0 .. AttemptCap /\ "starting" \in Phases(ch) /\ in.limit \in Powers
  BY MaxAttemptsAssumption DEF AttemptCap, Phases, Inputs
<1>2. [phase |-> "starting", power |-> in.limit, attempts |-> 0, fresh |-> FALSE]
        \in SessionOf(ch)
  BY <1>1 DEF SessionOf
<1> QED
  BY <1>2 DEF Reduced

\* Every step of advance_charge_session and advance_export_session is sound.
THEOREM AdvanceSound ==
    ASSUME NEW ch \in Channels, NEW s \in SessionOf(ch), NEW o \in Observations(Powers),
           NEW in \in Inputs
    PROVE  Sound(ch, s, o, AdvanceSession(ch, s, o, in))
<1>1. CASE s.phase = "completed"
  <2>1. ch = "charge"
    BY <1>1 DEF SessionOf, Phases, Channels
  <2> QED
    BY <1>1, <2>1, FromCompletedSound DEF AdvanceSession
<1>2. CASE s.phase # "completed"
  <2> DEFINE t == Reduced(ch, s, in)
             r == AdvanceSession(ch, s, o, in)
  <2>1. /\ t \in SessionOf(ch) /\ t.phase # "completed"
        /\ t = s \/ (/\ t.phase = "starting" /\ t.power < s.power
                    /\ s.phase \in {"starting", "active", "recovering"})
    BY <1>2, ReducedStep
  <2>2. r = IF ~in.available THEN SourceUnavailable(t)
            ELSE CASE t.phase = "recovering" -> FromRecovering(ch, t, o, in)
                   [] t.phase = "idle"       -> FromIdle(ch, t, o, in)
                   [] t.phase = "starting"   -> FromStarting(ch, t, o, in)
                   [] t.phase = "active"     -> FromActive(ch, t, o, in)
                   [] t.phase = "stopping"   -> FromStopping(ch, t, o, in)
    BY <1>2 DEF AdvanceSession
  <2>3. t.phase \in {"recovering", "idle", "starting", "active", "stopping"}
    BY <2>1 DEF SessionOf, Phases
  <2> HIDE DEF t, r
  <2>4. Sound(ch, t, o, r)
    BY <2>1, <2>2, <2>3, SourceUnavailableSound, FromRecoveringSound, FromIdleSound,
       FromStartingSound, FromActiveSound, FromStoppingSound
  <2>5. s.power \in Nat /\ t.power \in Nat /\ r.state.power \in Nat
    BY <2>1, <2>4, MaxKwAssumption DEF SessionOf, Powers, Sound
  <2>6. CASE t = s
    BY <2>4, <2>6 DEF r
  <2>7. CASE /\ t.phase = "starting" /\ t.power < s.power
             /\ s.phase \in {"starting", "active", "recovering"}
    <3>1. Owned(t) /\ {t.phase, s.phase} \subseteq ForcingPhases
      BY <2>7 DEF Owned, OwnedPhases, ForcingPhases
    <3>2. r.state.phase \in ForcingPhases => r.state.power < s.power
      BY <2>4, <2>5, <2>7, <3>1 DEF Sound
    <3>3. r.plan # <<>> => r.state # s
      BY <2>4, <2>5, <2>7, <3>2 DEF Sound, ForcingPhases
    <3>4. Sound(ch, s, o, r)
      BY <2>4, <2>5, <3>1, <3>2, <3>3 DEF Sound
    <3> QED
      BY <3>4 DEF r
  <2> QED
    BY <2>1, <2>6, <2>7
<1> QED
  BY <1>1, <1>2

-----------------------------------------------------------------------------
(* The retry budget of the charge session. *)

\* A charge session within its budget; an idle one has all of it left.
Budgeted(s) == s.attempts <= MaxAttempts /\ (s.phase = "idle" => s.attempts = 0)

\* A start or a stop that still has an attempt stays within the budget.
LEMMA BudgetOfPlans ==
    ASSUME NEW s \in SessionOf("charge"), NEW o, NEW kw, NEW limit
    PROVE  /\ s.attempts < MaxAttempts => Budgeted(Start("charge", s, o, kw, limit).state)
           /\ s.phase # "stopping" \/ s.attempts < MaxAttempts
                 => Budgeted(Stop("charge", s, o).state)
<1>1. s.attempts \in Nat /\ MaxAttempts \in Nat /\ MaxAttempts > 0
  BY MaxAttemptsAssumption DEF SessionOf, AttemptCap
<1>2. s.attempts < MaxAttempts => Bump(s.attempts) <= MaxAttempts
  BY <1>1 DEF Bump, AttemptCap
<1>3. /\ Start("charge", s, o, kw, limit).state.phase \in {"active", "starting"}
      /\ Start("charge", s, o, kw, limit).state.attempts \in {0, Bump(s.attempts)}
  BY DEF Start, Step, Quiet, SessionOf
<1>4. s.phase # "stopping" \/ s.attempts < MaxAttempts
        => Bump(StopAttempts("charge", s)) <= MaxAttempts
  BY <1>1 DEF Bump, StopAttempts, AttemptCap
<1>5. \/ Stop("charge", s, o).state = IdleSession
      \/ /\ Stop("charge", s, o).state.phase = "stopping"
         /\ Stop("charge", s, o).state.attempts = Bump(StopAttempts("charge", s))
  BY DEF Stop, Step, Quiet
<1> QED
  BY <1>1, <1>2, <1>3, <1>4, <1>5 DEF Budgeted, IdleSession

\* No step of advance_charge_session exceeds the budget.
THEOREM ChargeBudgetStep ==
    ASSUME NEW s \in SessionOf("charge"), NEW o \in Observations(Powers),
           NEW in \in Inputs, Budgeted(s)
    PROVE  Budgeted(AdvanceSession("charge", s, o, in).state)
<1> DEFINE Stays(r) == Budgeted(r.state)
<1>1. "charge" \in Channels /\ MaxAttempts \in Nat /\ MaxAttempts > 0
  BY MaxAttemptsAssumption DEF Channels
<1>2. /\ IdleSession \in SessionOf("charge") /\ IdleSession.attempts = 0
      /\ Budgeted(IdleSession)
  <2>1. IdleSession \in SessionOf("charge")
    BY <1>1, SessionEdits
  <2>2. IdleSession.attempts = 0
    BY DEF IdleSession
  <2> QED
    BY <1>1, <2>1, <2>2 DEF Budgeted
<1>3. \A t : Quiet(t).state = t
  BY DEF Quiet, Step
<1>4. CASE s.phase = "completed"
  <2>1. Stays(Start("charge", IdleSession, o, in.limit, in.limit))
    BY <1>1, <1>2, BudgetOfPlans
  <2> QED
    BY <1>2, <1>3, <1>4, <2>1 DEF AdvanceSession, FromCompleted
<1>5. CASE s.phase # "completed"
  <2> DEFINE t == Reduced("charge", s, in)
  <2>1. t \in SessionOf("charge") /\ t.phase # "completed"
    BY <1>1, <1>5, ReducedStep
  <2>2. Budgeted(t) /\ t.attempts \in Nat
    BY <1>1, <2>1 DEF Reduced, Budgeted, SessionOf, AttemptCap
  <2>3. AdvanceSession("charge", s, o, in) =
          IF ~in.available THEN SourceUnavailable(t)
          ELSE CASE t.phase = "recovering" -> FromRecovering("charge", t, o, in)
                 [] t.phase = "idle"       -> FromIdle("charge", t, o, in)
                 [] t.phase = "starting"   -> FromStarting("charge", t, o, in)
                 [] t.phase = "active"     -> FromActive("charge", t, o, in)
                 [] t.phase = "stopping"   -> FromStopping("charge", t, o, in)
    BY <1>5 DEF AdvanceSession
  <2>4. t.phase \in {"recovering", "idle", "starting", "active", "stopping"}
    BY <2>1 DEF SessionOf, Phases
  <2> HIDE DEF t
  <2>5. Stays(SourceUnavailable(t))
    <3>1. Budgeted([t EXCEPT !.phase = "recovering", !.fresh = FALSE])
      BY <2>1, <2>2 DEF Budgeted, SessionOf
    <3>2. Budgeted([t EXCEPT !.phase = "idle", !.attempts = 0, !.fresh = FALSE])
      BY <1>1, <2>1 DEF Budgeted, SessionOf
    <3> QED
      BY <1>3, <3>1, <3>2 DEF SourceUnavailable
  <2>6. t.phase # "stopping" => Stays(Stop("charge", t, o))
    BY <2>1, BudgetOfPlans
  <2>7. \A kw : t.attempts < MaxAttempts => Stays(Start("charge", t, o, kw, in.limit))
    BY <2>1, BudgetOfPlans
  <2>8. ASSUME NEW u \in SessionOf("charge"), Budgeted(u)
        PROVE  Stays(Pursue("charge", t, o, in, u))
    BY <1>1, <1>3, <2>2, <2>7, <2>8 DEF Pursue
  <2>9. t.phase = "recovering" => Stays(FromRecovering("charge", t, o, in))
    <3> DEFINE u == [t EXCEPT !.phase = "idle", !.attempts = 0, !.fresh = FALSE]
    <3>1. u \in SessionOf("charge")
      BY <1>1, <2>1, SessionEdits DEF Phases
    <3>2. u.attempts < MaxAttempts
      BY <1>1, <2>1 DEF SessionOf
    <3>3. Stays(Start("charge", u, o, t.power, in.limit))
      BY <3>1, <3>2, BudgetOfPlans
    <3> QED
      BY <2>6, <3>3 DEF FromRecovering
  <2>10. t.phase = "idle" => Stays(FromIdle("charge", t, o, in))
    BY <1>1, <1>2, <1>3, <2>2, <2>7 DEF FromIdle, Budgeted
  <2>11. t.phase = "starting" => Stays(FromStarting("charge", t, o, in))
    <3> DEFINE u == [t EXCEPT !.phase = "active", !.attempts = 0]
    <3>1. u \in SessionOf("charge")
      BY <1>1, <2>1, SessionEdits DEF Phases
    <3>2. Budgeted(u)
      BY <1>1, <2>1 DEF SessionOf, Budgeted
    <3> HIDE DEF u
    <3>3. Stays(Pursue("charge", t, o, in, u))
      BY <2>8, <3>1, <3>2
    <3> QED
      BY <2>6, <3>3 DEF FromStarting, u
  <2>12. t.phase = "active" => Stays(FromActive("charge", t, o, in))
    <3> DEFINE u == [t EXCEPT !.phase = "completed", !.attempts = 0, !.fresh = FALSE]
    <3>1. Budgeted(u)
      BY <1>1, <2>1 DEF SessionOf, Budgeted
    <3>2. Stays(Pursue("charge", t, o, in, t))
      BY <2>1, <2>2, <2>8
    <3>3. Stays(Start("charge", IdleSession, o, t.power, in.limit))
      BY <1>1, <1>2, BudgetOfPlans
    <3> QED
      BY <1>3, <2>6, <3>1, <3>2, <3>3 DEF FromActive
  <2>13. t.phase = "stopping" => Stays(FromStopping("charge", t, o, in))
    <3> DEFINE u == [t EXCEPT !.phase = "idle", !.attempts = 0]
    <3>1. u \in SessionOf("charge")
      BY <1>1, <2>1, SessionEdits DEF Phases
    <3>2. u.attempts < MaxAttempts
      BY <1>1, <2>1 DEF SessionOf
    <3>3. Stays(Start("charge", u, o, in.limit, in.limit))
      BY <3>1, <3>2, BudgetOfPlans
    <3>4. t.attempts < MaxAttempts => Stays(Stop("charge", t, o))
      BY <2>1, BudgetOfPlans
    <3> QED
      BY <1>1, <1>2, <1>3, <2>2, <3>3, <3>4 DEF FromStopping
  <2> QED
    BY <2>3, <2>4, <2>5, <2>9, <2>10, <2>11, <2>12, <2>13
<1> QED
  BY <1>4, <1>5

-----------------------------------------------------------------------------
(* The power of the export session. *)

\* No step of the ordinary export changes the power between two phases that force:
\* only the charge reducer follows a reduced limit (advance_export_session).
LEMMA ExportPowerStep ==
    ASSUME NEW s \in SessionOf("export"), NEW o, NEW in,
           s.phase \in ForcingPhases, AdvanceSession("export", s, o, in).state.phase \in ForcingPhases
    PROVE  AdvanceSession("export", s, o, in).state.power = s.power
<1> DEFINE Kept(r) == r.state.phase \in ForcingPhases => r.state.power = s.power
<1>1. \A t : Quiet(t).state = t
  BY DEF Quiet, Step
<1>2. Kept(Stop("export", s, o))
  <2>1. Stop("export", s, o).state.phase \in {"idle", "stopping"}
    BY DEF Stop, Quiet, Step, IdleSession
  <2> QED
    BY <2>1 DEF ForcingPhases
<1>3. ASSUME NEW t \in SessionOf("export")
      PROVE  Kept(Start("export", t, o, s.power, in.limit))
  BY DEF Start, Quiet, Step, TargetPower, SessionOf
<1>4. /\ [s EXCEPT !.phase = "recovering", !.fresh = FALSE].power = s.power
      /\ [s EXCEPT !.phase = "active", !.attempts = 0].power = s.power
  BY DEF SessionOf
<1>5. ASSUME NEW u, u.power = s.power
      PROVE  Kept(Pursue("export", s, o, in, u))
  BY <1>1, <1>3, <1>5 DEF Pursue
<1>6. AdvanceSession("export", s, o, in) =
        IF ~in.available THEN SourceUnavailable(s)
        ELSE CASE s.phase = "recovering" -> FromRecovering("export", s, o, in)
               [] s.phase = "idle"       -> FromIdle("export", s, o, in)
               [] s.phase = "starting"   -> FromStarting("export", s, o, in)
               [] s.phase = "active"     -> FromActive("export", s, o, in)
               [] s.phase = "stopping"   -> FromStopping("export", s, o, in)
  BY DEF AdvanceSession, Reduced, SessionOf, Phases, ForcingPhases
<1>7. Kept(SourceUnavailable(s))
  BY <1>1, <1>4 DEF SourceUnavailable, ForcingPhases, Owned, OwnedPhases
<1>8. s.phase = "recovering" => Kept(FromRecovering("export", s, o, in))
  <2>1. [s EXCEPT !.phase = "idle", !.attempts = 0, !.fresh = FALSE] \in SessionOf("export")
    BY SessionEdits DEF Channels, Phases
  <2> QED
    BY <1>1, <1>2, <1>3, <2>1 DEF FromRecovering
<1>9. s.phase = "starting" => Kept(FromStarting("export", s, o, in))
  BY <1>2, <1>4, <1>5 DEF FromStarting
<1>10. s.phase = "active" => Kept(FromActive("export", s, o, in))
  BY <1>2, <1>5 DEF FromActive
<1> HIDE DEF Kept
<1>11. Kept(AdvanceSession("export", s, o, in))
  BY <1>6, <1>7, <1>8, <1>9, <1>10 DEF ForcingPhases
<1> QED
  BY <1>11 DEF Kept

-----------------------------------------------------------------------------
(* The order of the commands that force the battery. *)

Own(ch, o) == IF ch = "charge" THEN o.chg ELSE o.dis
Other(ch, o) == IF ch = "charge" THEN o.dis ELSE o.chg
SetOwn(ch, p) == IF ch = "charge" THEN SetCharge(p) ELSE SetDischarge(p)
ClearOther(ch) == IF ch = "charge" THEN SetDischarge(0) ELSE SetCharge(0)

\* Whatever comes before the command that forces the mode brings both targets, from
\* what the inverter has now, to the positive power p and to zero.
ForcesLast(ch, p, plan, o) ==
    \A i \in DOMAIN plan : IsForce(plan[i]) =>
        /\ p > 0
        /\ \A j \in 1 .. i - 1 : plan[j] \in {SetOwn(ch, p), ClearOther(ch)}
        /\ Own(ch, o) = p \/ \E j \in 1 .. i - 1 : plan[j] = SetOwn(ch, p)
        /\ Other(ch, o) = 0 \/ \E j \in 1 .. i - 1 : plan[j] = ClearOther(ch)

\* A session that forces has a power to force with.
Powered(s) == s.phase \in {"starting", "active"} => s.power > 0

\* The two target writes force nothing and differ.
LEMMA TargetsForceNothing ==
    ASSUME NEW ch \in Channels, NEW p
    PROVE  ~IsForce(SetOwn(ch, p)) /\ ~IsForce(ClearOther(ch)) /\ SetOwn(ch, p) # ClearOther(ch)
  BY DEF IsForce, SetOwn, ClearOther, SetCharge, SetDischarge, Channels

\* A plan without a forced mode is in order.
LEMMA NoForceOrdered ==
    ASSUME NEW ch, NEW p, NEW plan, NEW o, \A i \in DOMAIN plan : ~IsForce(plan[i])
    PROVE  ForcesLast(ch, p, plan, o)
  BY DEF ForcesLast

\* What a concatenation holds at every index.
LEMMA ConcatenationAt ==
    ASSUME NEW S, NEW a \in Seq(S), NEW b \in Seq(S)
    PROVE  /\ a \o b \in Seq(S) /\ Len(a \o b) = Len(a) + Len(b)
           /\ DOMAIN (a \o b) = 1 .. Len(a) + Len(b)
           /\ \A i \in 1 .. Len(a) + Len(b) :
                 (a \o b)[i] = IF i <= Len(a) THEN a[i] ELSE b[i - Len(a)]
<1>1. a \o b \in Seq(S) /\ Len(a \o b) = Len(a) + Len(b)
  OBVIOUS
<1>2. ASSUME NEW i \in 1 .. Len(a) + Len(b)
      PROVE  (a \o b)[i] = IF i <= Len(a) THEN a[i] ELSE b[i - Len(a)]
  BY <1>2
<1>3. DOMAIN (a \o b) = 1 .. Len(a \o b)
  BY <1>1
<1> QED
  BY <1>1, <1>2, <1>3

\* An optional command is none or the command.
LEMMA UnlessLength ==
    ASSUME NEW S, NEW c \in S, NEW done \in BOOLEAN
    PROVE  /\ Unless(done, c) \in Seq(S)
           /\ Len(Unless(done, c)) = IF done THEN 0 ELSE 1
           /\ ~done => Unless(done, c)[1] = c
<1>1. CASE done
  BY <1>1 DEF Unless
<1>2. CASE ~done
  BY <1>2 DEF Unless
<1> QED
  BY <1>1, <1>2

\* Clear the other target, set one's own, select the mode, each unless it is done.
LEMMA ThreeOrdered ==
    ASSUME NEW ch \in Channels, NEW p \in Nat, p > 0, NEW o, NEW selected \in BOOLEAN, NEW m,
           NEW clear, clear = ClearOther(ch), NEW set, set = SetOwn(ch, p),
           NEW cleared \in BOOLEAN, cleared => Other(ch, o) = 0,
           NEW done \in BOOLEAN, done => Own(ch, o) = p
    PROVE  ForcesLast(ch, p, (Unless(cleared, clear) \o Unless(done, set)) \o Unless(selected, m), o)
<1> DEFINE S == {clear, set, m}
           A == Unless(cleared, clear)
           B == Unless(done, set)
           C == Unless(selected, m)
           P == (A \o B) \o C
<1>1. ~IsForce(set) /\ ~IsForce(clear)
  BY TargetsForceNothing
<1>2. /\ A \in Seq(S) /\ B \in Seq(S) /\ C \in Seq(S)
      /\ Len(A) = (IF cleared THEN 0 ELSE 1) /\ (~cleared => A[1] = clear)
      /\ Len(B) = (IF done THEN 0 ELSE 1) /\ (~done => B[1] = set)
      /\ Len(C) = (IF selected THEN 0 ELSE 1)
  <2>1. clear \in S /\ set \in S /\ m \in S
    OBVIOUS
  <2> HIDE DEF S
  <2> QED
    BY <2>1, UnlessLength
<1> HIDE DEF A, B, C
<1>3. /\ A \o B \in Seq(S) /\ Len(A \o B) = Len(A) + Len(B)
      /\ \A i \in 1 .. Len(A) + Len(B) :
            (A \o B)[i] = IF i <= Len(A) THEN A[i] ELSE B[i - Len(A)]
  BY <1>2, ConcatenationAt
<1>4. /\ DOMAIN P = 1 .. Len(A) + Len(B) + Len(C)
      /\ \A i \in 1 .. Len(A) + Len(B) : P[i] = (A \o B)[i]
  BY <1>2, <1>3, ConcatenationAt
<1> HIDE DEF P
<1>5. /\ ~cleared => P[1] = clear
      /\ ~done => P[IF cleared THEN 1 ELSE 2] = set
  BY <1>2, <1>3, <1>4
<1>6. DOMAIN P \subseteq 1 .. (IF cleared THEN 0 ELSE 1) + (IF done THEN 0 ELSE 1) + 1
  BY <1>2, <1>4
<1>7. ASSUME NEW i \in 1 .. (IF cleared THEN 0 ELSE 1) + (IF done THEN 0 ELSE 1) + 1,
             IsForce(P[i])
      PROVE  /\ \A j \in 1 .. i - 1 : P[j] \in {set, clear}
             /\ done \/ \E j \in 1 .. i - 1 : P[j] = set
             /\ cleared \/ \E j \in 1 .. i - 1 : P[j] = clear
  <2>1. CASE cleared /\ done
    <3>1. i = 1
      BY <2>1
    <3> QED
      BY <2>1, <3>1
  <2>2. CASE ~cleared /\ done
    <3>1. i \in 1 .. 2
      BY <2>2
    <3>2. i = 2
      BY <1>1, <1>5, <1>7, <2>2, <3>1
    <3> QED
      BY <1>5, <2>2, <3>2
  <2>3. CASE cleared /\ ~done
    <3>1. i \in 1 .. 2
      BY <2>3
    <3>2. i = 2
      BY <1>1, <1>5, <1>7, <2>3, <3>1
    <3> QED
      BY <1>5, <2>3, <3>2
  <2>4. CASE ~cleared /\ ~done
    <3>1. i \in 1 .. 3
      BY <2>4
    <3>2. i = 3
      BY <1>1, <1>5, <1>7, <2>4, <3>1
    <3> QED
      BY <1>5, <2>4, <3>2
  <2> QED
    BY <2>1, <2>2, <2>3, <2>4
<1>8. ForcesLast(ch, p, P, o)
  BY <1>6, <1>7 DEF ForcesLast
<1> QED
  BY <1>8 DEF P, A, B, C

\* A plan of planner/foxess.py that forces a direction at a power within the limit
\* selects the mode last.
LEMMA ForcePlanOrdered ==
    ASSUME NEW ch \in Channels, NEW o, NEW p \in Powers, NEW limit \in Powers, 0 < p, p <= limit
    PROVE  ForcesLast(ch, p, PlanFoxessCommands(ForceOf(ch, p), o, limit), o)
<1>1. Lesser(p, limit) = p /\ p \in Nat
  BY MaxKwAssumption DEF Lesser, Powers
<1>2. CASE ch = "charge"
  <2>1. PlanFoxessCommands(ForceOf(ch, p), o, limit) = PlanForceCharge(o, p)
    BY <1>1, <1>2 DEF PlanFoxessCommands, ForceOf, ForceCharge
  <2> DEFINE cleared == o.dis = 0
             done == o.chg = p
             selected == o.mode = "ForceCharge"
  <2>2. /\ Other(ch, o) = o.dis /\ ClearOther(ch) = SetDischarge(0)
        /\ Own(ch, o) = o.chg /\ SetOwn(ch, p) = SetCharge(p)
    BY <1>2 DEF Other, Own, ClearOther, SetOwn
  <2>3. /\ cleared \in BOOLEAN /\ done \in BOOLEAN /\ selected \in BOOLEAN
        /\ cleared => Other(ch, o) = 0
        /\ done => Own(ch, o) = p
    BY <2>2
  <2>4. PlanForceCharge(o, p) = (Unless(cleared, SetDischarge(0)) \o Unless(done, SetCharge(p)))
                                   \o Unless(selected, SelectMode("ForceCharge"))
    BY DEF PlanForceCharge
  <2> HIDE DEF cleared, done, selected
  <2>5. ForcesLast(ch, p, PlanForceCharge(o, p), o)
    BY <1>1, <2>2, <2>3, <2>4, ThreeOrdered
  <2> QED
    BY <2>1, <2>5
<1>3. CASE ch = "export"
  <2>1. PlanFoxessCommands(ForceOf(ch, p), o, limit) = PlanForceDischarge(o, p)
    BY <1>1, <1>3 DEF PlanFoxessCommands, ForceOf, ForceDischarge
  <2> DEFINE cleared == o.chg = 0
             done == o.dis = p
             selected == o.mode = "ForceDischarge"
  <2>2. /\ Other(ch, o) = o.chg /\ ClearOther(ch) = SetCharge(0)
        /\ Own(ch, o) = o.dis /\ SetOwn(ch, p) = SetDischarge(p)
    BY <1>3 DEF Other, Own, ClearOther, SetOwn
  <2>3. /\ cleared \in BOOLEAN /\ done \in BOOLEAN /\ selected \in BOOLEAN
        /\ cleared => Other(ch, o) = 0
        /\ done => Own(ch, o) = p
    BY <2>2
  <2>4. PlanForceDischarge(o, p) = (Unless(cleared, SetCharge(0)) \o Unless(done, SetDischarge(p)))
                                      \o Unless(selected, SelectMode("ForceDischarge"))
    BY DEF PlanForceDischarge
  <2> HIDE DEF cleared, done, selected
  <2>5. ForcesLast(ch, p, PlanForceDischarge(o, p), o)
    BY <1>1, <2>2, <2>3, <2>4, ThreeOrdered
  <2> QED
    BY <2>1, <2>5
<1> QED
  BY <1>2, <1>3 DEF Channels

\* With the native limit at the commissioned power, every step of a reducer keeps the
\* power of a session that forces positive and returns a plan that forces last.
LEMMA OrderedStep ==
    ASSUME NEW ch \in Channels, NEW s \in SessionOf(ch), NEW o \in Observations(Powers),
           NEW in \in Inputs, in.available => in.limit = MaxKw, Powered(s)
    PROVE  LET r == AdvanceSession(ch, s, o, in) IN
           Powered(r.state) /\ ForcesLast(ch, r.state.power, r.plan, o)
<1> DEFINE Good(r) == Powered(r.state) /\ ForcesLast(ch, r.state.power, r.plan, o)
<1>1. /\ MaxKw \in Powers /\ MaxKw > 0 /\ s.power \in Powers
      /\ \A p \in Powers : p \in Nat /\ p <= MaxKw
      /\ IdleSession \in SessionOf(ch)
  <2>1. MaxKw \in Powers /\ MaxKw > 0 /\ \A p \in Powers : p \in Nat /\ p <= MaxKw
    BY MaxKwAssumption DEF Powers
  <2>2. s.power \in Powers
    BY DEF SessionOf
  <2> QED
    BY <2>1, <2>2, SessionEdits
<1>2. ASSUME NEW t, Powered(t)
      PROVE  Good(Quiet(t))
  BY <1>2, NoForceOrdered DEF Quiet, Step
<1>3. ASSUME NEW t, t.phase \notin {"starting", "active"}
      PROVE  Good(Quiet(t))
  BY <1>2, <1>3 DEF Powered
<1>4. Good(Stop(ch, s, o))
  <2>1. Good(Quiet(IdleSession))
    BY <1>3 DEF IdleSession
  <2> DEFINE t == [phase |-> "stopping", power |-> s.power,
                   attempts |-> Bump(StopAttempts(ch, s)), fresh |-> TRUE]
             plan == PlanFoxessCommands(RestoreSelfUse, o, s.power)
  <2>2. Powered(t)
    BY DEF Powered
  <2>3. plan \in Seq(Licensed(ch, "stopping", s.power))
    BY RestorePlanLicensed
  <2>4. \A i \in DOMAIN plan : ~IsForce(plan[i])
    <3>1. \A i \in DOMAIN plan : plan[i] \in Licensed(ch, "stopping", s.power)
      BY <2>3
    <3> QED
      BY <3>1 DEF Licensed, IsPositive
  <2>5. ForcesLast(ch, s.power, plan, o)
    BY <2>4, NoForceOrdered
  <2> HIDE DEF plan
  <2>6. Good(Step(t, plan))
    BY <2>2, <2>5 DEF Step
  <2> QED
    BY <2>1, <2>6 DEF Stop, plan
<1>5. ASSUME NEW t \in SessionOf(ch), NEW kw \in Powers, kw > 0
      PROVE  Good(Start(ch, t, o, kw, MaxKw))
  <2>1. TargetPower(ch, kw, MaxKw) = kw
    BY <1>1 DEF TargetPower, Lesser
  <2> DEFINE a == [t EXCEPT !.phase = "active", !.power = kw, !.attempts = 0]
             b == [phase |-> "starting", power |-> kw, attempts |-> Bump(t.attempts),
                   fresh |-> TRUE]
             plan == PlanFoxessCommands(ForceOf(ch, kw), o, MaxKw)
  <2>2. Good(Quiet(a))
    <3>1. a.power = kw
      BY DEF SessionOf
    <3> QED
      BY <1>2, <1>5, <3>1 DEF Powered
  <2>3. ForcesLast(ch, kw, plan, o)
    BY <1>1, <1>5, ForcePlanOrdered
  <2> HIDE DEF plan
  <2>4. Good(Step(b, plan))
    BY <1>5, <2>3 DEF Step, Powered
  <2> HIDE DEF Good
  <2> QED
    BY <2>1, <2>2, <2>4 DEF Start, plan
<1>6. NewSessionDesired(in) => in.limit = MaxKw
  BY DEF NewSessionDesired
<1> HIDE DEF Good
<1>7. CASE s.phase = "completed"
  <2>1. ch = "charge"
    BY <1>7 DEF SessionOf, Phases
  <2>2. NewSessionDesired(in) => Good(Start("charge", IdleSession, o, in.limit, in.limit))
    BY <1>1, <1>5, <1>6, <2>1
  <2>3. Good(Quiet(s)) /\ Good(Quiet(IdleSession))
    BY <1>3, <1>7 DEF IdleSession
  <2>4. Good(AdvanceSession(ch, s, o, in))
    BY <1>7, <2>2, <2>3 DEF AdvanceSession, FromCompleted
  <2> QED
    BY <2>4 DEF Good
<1>8. CASE s.phase # "completed" /\ ~in.available
  <2> DEFINE t == Reduced(ch, s, in)
  <2>1. t \in SessionOf(ch)
    BY <1>8, ReducedStep
  <2>2. AdvanceSession(ch, s, o, in) = SourceUnavailable(t)
    BY <1>8 DEF AdvanceSession
  <2> HIDE DEF t
  <2>3. /\ Good(Quiet([t EXCEPT !.phase = "recovering", !.fresh = FALSE]))
        /\ Good(Quiet([t EXCEPT !.phase = "idle", !.attempts = 0, !.fresh = FALSE]))
    BY <1>3, <2>1 DEF SessionOf
  <2>4. Good(AdvanceSession(ch, s, o, in))
    BY <2>2, <2>3 DEF SourceUnavailable
  <2> QED
    BY <2>4 DEF Good
<1>9. CASE s.phase # "completed" /\ in.available
  <2>1. in.limit = MaxKw /\ Reduced(ch, s, in) = s
    BY <1>1, <1>9 DEF Reduced
  <2>2. AdvanceSession(ch, s, o, in) =
          CASE s.phase = "recovering" -> FromRecovering(ch, s, o, in)
            [] s.phase = "idle"       -> FromIdle(ch, s, o, in)
            [] s.phase = "starting"   -> FromStarting(ch, s, o, in)
            [] s.phase = "active"     -> FromActive(ch, s, o, in)
            [] s.phase = "stopping"   -> FromStopping(ch, s, o, in)
    BY <1>9, <2>1 DEF AdvanceSession
  <2>3. s.phase \in {"recovering", "idle", "starting", "active", "stopping"}
    BY <1>9 DEF SessionOf, Phases
  <2>4. s.power > 0 => Good(Start(ch, s, o, s.power, in.limit))
    BY <1>1, <1>5, <2>1
  <2>5. ASSUME NEW u, Powered(u), s.phase \in {"starting", "active"}
        PROVE  Good(Pursue(ch, s, o, in, u))
    <3>1. s.power > 0
      BY <2>5 DEF Powered
    <3> QED
      BY <1>2, <2>4, <2>5, <3>1 DEF Pursue
  <2>6. s.phase = "recovering" => Good(FromRecovering(ch, s, o, in))
    <3> DEFINE t == [s EXCEPT !.phase = "idle", !.attempts = 0, !.fresh = FALSE]
    <3>1. t \in SessionOf(ch)
      BY SessionEdits DEF Phases
    <3>2. s.power > 0 => Good(Start(ch, t, o, s.power, in.limit))
      BY <1>1, <1>5, <2>1, <3>1
    <3> QED
      BY <1>4, <3>2 DEF FromRecovering
  <2>7. s.phase = "idle" => Good(FromIdle(ch, s, o, in))
    <3>1. Good(Start(ch, s, o, in.limit, in.limit))
      BY <1>1, <1>5, <2>1
    <3>2. Good(Quiet(IdleSession))
      BY <1>3 DEF IdleSession
    <3> QED
      BY <3>1, <3>2 DEF FromIdle
  <2>8. s.phase = "starting" => Good(FromStarting(ch, s, o, in))
    <3> DEFINE u == [s EXCEPT !.phase = "active", !.attempts = 0]
    <3>1. s.phase = "starting" => Powered(u)
      BY DEF Powered, SessionOf
    <3> HIDE DEF u
    <3>2. s.phase = "starting" => Good(Pursue(ch, s, o, in, u))
      BY <2>5, <3>1
    <3> QED
      BY <1>4, <3>2 DEF FromStarting, u
  <2>9. s.phase = "active" => Good(FromActive(ch, s, o, in))
    <3> DEFINE u == [s EXCEPT !.phase = "completed", !.attempts = 0, !.fresh = FALSE]
    <3>1. Good(Quiet(u))
      BY <1>3 DEF SessionOf
    <3>2. s.phase = "active" => Good(Start(ch, IdleSession, o, s.power, in.limit))
      BY <1>1, <1>5, <2>1 DEF Powered
    <3>3. s.phase = "active" => Good(Pursue(ch, s, o, in, s))
      BY <2>5
    <3> HIDE DEF u
    <3> QED
      BY <1>4, <3>1, <3>2, <3>3 DEF FromActive, u
  <2>10. s.phase = "stopping" => Good(FromStopping(ch, s, o, in))
    <3> DEFINE t == [s EXCEPT !.phase = "idle", !.attempts = 0]
    <3>1. t \in SessionOf(ch)
      BY SessionEdits DEF Phases
    <3>2. Good(Start(ch, t, o, in.limit, in.limit))
      BY <1>1, <1>5, <2>1, <3>1
    <3>3. Good(Quiet(IdleSession)) /\ (s.phase = "stopping" => Good(Quiet(s)))
      BY <1>3 DEF IdleSession
    <3> QED
      BY <1>4, <3>2, <3>3 DEF FromStopping
  <2>11. Good(AdvanceSession(ch, s, o, in))
    BY <2>2, <2>3, <2>6, <2>7, <2>8, <2>9, <2>10
  <2> QED
    BY <2>11 DEF Good
<1> QED
  BY <1>7, <1>8, <1>9
=============================================================================
