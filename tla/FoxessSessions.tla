--------------------------- MODULE FoxessSessions ---------------------------
(***************************************************************************)
(* The reducers of the two automatic FoxESS sessions: the free-window      *)
(* charge (planner/charge_session.py) and the ordinary ZEROHERO export     *)
(* (planner/export_session.py).  A reducer takes the session, the observed *)
(* inverter and the inputs of one reconciliation and returns the next      *)
(* session and the commands to execute.                                    *)
(*                                                                         *)
(* last_command_at is kept as "fresh": whether the last command is younger  *)
(* than the 30 s of the acceptance timeout and the retry interval.  An     *)
(* older stamp and None read alike.  The stamp of a recovering session is  *)
(* never read before it is replaced, and is dropped.                       *)
(***************************************************************************)
EXTENDS FoxessPlanner

CONSTANTS
    MaxAttempts,    \* three by default in the code
    MaxKw           \* largest commissioned power, in kilowatt steps
ASSUME MaxAttemptsAssumption == MaxAttempts \in Nat \ {0}
ASSUME MaxKwAssumption == MaxKw \in Nat \ {0}
Powers == 0 .. MaxKw

\* Attempts are not read above MaxAttempts; the model stops counting there.
AttemptCap == MaxAttempts + 1

Channels == {"charge", "export"}
Phases(ch) == {"idle", "starting", "active", "stopping", "recovering"}
                \cup (IF ch = "charge" THEN {"completed"} ELSE {})
SessionOf(ch) == [phase : Phases(ch), power : Powers, attempts : 0 .. AttemptCap,
                  fresh : BOOLEAN]
IdleSession == [phase |-> "idle", power |-> 0, attempts |-> 0, fresh |-> FALSE]

OwnedPhases == {"starting", "active", "stopping", "recovering"}
Owned(s) == s.phase \in OwnedPhases

ForcedMode(ch) == IF ch = "charge" THEN "ForceCharge" ELSE "ForceDischarge"
ForceOf(ch, p) == IF ch = "charge" THEN ForceCharge(p) ELSE ForceDischarge(p)

\* The inputs of one advance: open is the session window without a finish
\* request, limit the smaller of the commissioned and the native limit.
Inputs == [available : BOOLEAN, open : BOOLEAN, eligible : BOOLEAN, limit : Powers]
NewSessionDesired(in) == in.available /\ in.open /\ in.eligible /\ in.limit > 0

Bump(attempts) == IF attempts < AttemptCap THEN attempts + 1 ELSE AttemptCap

Step(s, p) == [state |-> s, plan |-> p]
Quiet(s) == Step(s, <<>>)

\* Only the charge reducer bounds the power it remembers by the current limit.
TargetPower(ch, kw, limit) == IF ch = "charge" THEN Lesser(kw, limit) ELSE kw

Start(ch, s, o, kw, limit) ==
    LET target == TargetPower(ch, kw, limit) IN
    IF ResponseMatches(ForceOf(ch, target), o)
      THEN Quiet([s EXCEPT !.phase = "active", !.power = target, !.attempts = 0])
      ELSE Step([phase |-> "starting", power |-> target,
                 attempts |-> Bump(s.attempts), fresh |-> TRUE],
                PlanFoxessCommands(ForceOf(ch, target), o, limit))

\* The charge reducer opens a fresh attempt budget when it starts to stop; the
\* export reducer carries on with the attempts the start has used.
StopAttempts(ch, s) == IF ch = "charge" /\ s.phase # "stopping" THEN 0 ELSE s.attempts
Stop(ch, s, o) ==
    IF ResponseMatches(RestoreSelfUse, o)
      THEN Quiet(IdleSession)
      ELSE Step([phase |-> "stopping", power |-> s.power,
                 attempts |-> Bump(StopAttempts(ch, s)), fresh |-> TRUE],
                PlanFoxessCommands(RestoreSelfUse, o, s.power))

SourceUnavailable(s) ==
    IF Owned(s) THEN Quiet([s EXCEPT !.phase = "recovering", !.fresh = FALSE])
                ELSE Quiet([s EXCEPT !.phase = "idle", !.attempts = 0, !.fresh = FALSE])

\* Fault for the runs: recovery waits for the next window.
FromRecoveringInWindow(ch, s, o, in) ==
    IF in.open /\ s.power > 0
      THEN Start(ch, [s EXCEPT !.phase = "idle", !.attempts = 0, !.fresh = FALSE],
                 o, s.power, in.limit)
      ELSE Quiet(s)

FromRecovering(ch, s, o, in) ==
    IF in.open /\ s.power > 0
      THEN Start(ch, [s EXCEPT !.phase = "idle", !.attempts = 0, !.fresh = FALSE],
                 o, s.power, in.limit)
      ELSE Stop(ch, s, o)

FromIdle(ch, s, o, in) ==
    IF NewSessionDesired(in) THEN Start(ch, s, o, in.limit, in.limit) ELSE Quiet(IdleSession)

\* Fault for the runs: a retry follows the current limit upwards.
PursueAtLimit(ch, s, o, in, confirmed) ==
    IF ResponseMatches(ForceOf(ch, s.power), o) THEN Quiet(confirmed)
    ELSE IF s.fresh \/ s.attempts >= MaxAttempts THEN Quiet(s)
    ELSE Start(ch, s, o, in.limit, in.limit)

\* starting and active while the window is open: confirm, wait, give up, retry.
Pursue(ch, s, o, in, confirmed) ==
    IF ResponseMatches(ForceOf(ch, s.power), o) THEN Quiet(confirmed)
    ELSE IF s.fresh \/ s.attempts >= MaxAttempts THEN Quiet(s)
    ELSE Start(ch, s, o, s.power, in.limit)

FromStarting(ch, s, o, in) ==
    IF ~in.open THEN Stop(ch, s, o)
    ELSE Pursue(ch, s, o, in, [s EXCEPT !.phase = "active", !.attempts = 0])

\* Only a charge notices that its forced mode ended externally in the window.
FromActive(ch, s, o, in) ==
    IF ~in.open THEN Stop(ch, s, o)
    ELSE IF ch = "charge" /\ ResponseMatches(RestoreSelfUse, o)
      THEN IF NewSessionDesired(in)
             THEN Start(ch, IdleSession, o, s.power, in.limit)
             ELSE Quiet([s EXCEPT !.phase = "completed", !.attempts = 0, !.fresh = FALSE])
    ELSE Pursue(ch, s, o, in, s)

\* Fault for the runs: a stop that was commanded counts as done.
FromStoppingTrusting(ch, s, o, in) ==
    IF s.fresh THEN Quiet(s) ELSE Quiet(IdleSession)

FromStopping(ch, s, o, in) ==
    IF NewSessionDesired(in)
      THEN Start(ch, [s EXCEPT !.phase = "idle", !.attempts = 0], o, in.limit, in.limit)
    ELSE IF ResponseMatches(RestoreSelfUse, o) THEN Quiet(IdleSession)
    ELSE IF s.fresh \/ s.attempts >= MaxAttempts THEN Quiet(s)
    ELSE Stop(ch, s, o)

FromCompleted(s, o, in) ==
    IF NewSessionDesired(in) /\ o.mode = "SelfUse"
      THEN Start("charge", IdleSession, o, in.limit, in.limit)
    ELSE IF in.open THEN Quiet(s)
    ELSE Quiet(IdleSession)

\* A reduced limit takes effect during a running charge with fresh attempts.
Reduced(ch, s, in) ==
    IF /\ ch = "charge"
       /\ s.phase \in {"starting", "active", "recovering"}
       /\ 0 < in.limit /\ in.limit < s.power
      THEN [phase |-> "starting", power |-> in.limit, attempts |-> 0, fresh |-> FALSE]
      ELSE s

\* advance_charge_session and the ordinary path of advance_export_session.
AdvanceSession(ch, session, o, in) ==
    IF session.phase = "completed" THEN FromCompleted(session, o, in)
    ELSE LET s == Reduced(ch, session, in) IN
         IF ~in.available THEN SourceUnavailable(s)
         ELSE CASE s.phase = "recovering" -> FromRecovering(ch, s, o, in)
                [] s.phase = "idle"       -> FromIdle(ch, s, o, in)
                [] s.phase = "starting"   -> FromStarting(ch, s, o, in)
                [] s.phase = "active"     -> FromActive(ch, s, o, in)
                [] s.phase = "stopping"   -> FromStopping(ch, s, o, in)

\* Feedback lost outside the reducers (planner/foxess_recovery.py).
MarkUnavailable(s) ==
    IF Owned(s) THEN [s EXCEPT !.phase = "recovering", !.fresh = FALSE] ELSE s
=============================================================================
