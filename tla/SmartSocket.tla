----------------------------- MODULE SmartSocket -----------------------------
(***************************************************************************)
(* The smart-socket path of the EV controller (planner/ev.py from          *)
(* SmartSocketObservation to reconcile_smart_socket_stage, and the cycle   *)
(* of ev_active.py on that path): a staged current before power, and one   *)
(* power cycle for a car that reports no power.                            *)
(*                                                                         *)
(* The car's request is "under" the planned current (but valid), "staged"  *)
(* at it or "over" it.  A tick is the controller's interval of 30 s, which *)
(* is longer than the connector's settle time.  A cycle is suspended at    *)
(* every save and every service call.                                      *)
(***************************************************************************)
EXTENDS Integers, Sequences

CONSTANTS
    Lasts,       \* ticks each phase of a recovery may, or must, last
    Sustained,   \* ticks of "no_power" before a recovery
    Rearm,       \* ticks of charging that end the episode
    Retry,       \* ticks before an unconfirmed staging write is repeated
    MaxChanges   \* bound: changes of the environment and faults in a behaviour

Confirming == {"confirming_current", "confirming_socket_off", "confirming_socket_on",
               "awaiting_actuator", "confirming_charging"}
Active == Confirming \cup {"power_off_dwell", "post_power_settle"}
Ended  == {"recovered", "fault"}

ASSUME LastsAssumption == Lasts \in [Active -> Nat \ {0}]
ASSUME SpansAssumption == {Sustained, Rearm, Retry} \subseteq Nat \ {0} /\ MaxChanges \in Nat

VARIABLES
    car,      \* plugged in, charging state and its age, request, switch, fault
    socket,   \* on, and whether it was switched on since the last tick
    link,     \* whether the car's entities are available
    range,    \* whether the car reports a writable current range
    target,   \* what the planning of the cycle asks for: "charge", "none", "reject"
    window,   \* whether the free window is open
    gate,     \* ev_control_gate_status: "ready", "locked" (rehearsal), "closed"
    setup,    \* the commissioned path and the power-switching option
    mem,      \* recovery state and staging hold
    disk,     \* the stored recovery state
    pc,       \* where the cycle is suspended
    job,      \* what the cycle captured and still has to send
    cuts,     \* history: recovery power-offs since charging was last sustained
    changes   \* environment changes and faults so far

site == <<link, range, target, window, gate, setup>>
socketVars == <<car, socket, site, mem, disk, pc, job, cuts, changes>>

Unset == -1
Idle == [attempted |-> FALSE, phase |-> "idle", age |-> 0]
To(phase) == [attempted |-> TRUE, phase |-> phase, age |-> 0]
Fault(rec) == [rec EXCEPT !.attempted = TRUE, !.phase = "fault"]

View == [plugged |-> car.plugged, state |-> car.state, age |-> car.age, amps |-> car.amps,
         switch |-> car.switch, range |-> range, on |-> socket.on, fresh |-> socket.fresh,
         visible |-> link]

NoView == [plugged |-> FALSE, state |-> "stopped", age |-> 0, amps |-> "staged",
           switch |-> FALSE, range |-> FALSE, on |-> FALSE, fresh |-> FALSE, visible |-> FALSE]
NoJob == [obs |-> NoView, kind |-> "none", cmds |-> << >>]

Fresh(d) == [rec |-> d, stage |-> Unset]

SocketInit ==
    /\ \E a \in {"under", "over"}, s \in BOOLEAN :
          car = [plugged |-> TRUE, state |-> "no_power", age |-> 0, amps |-> a, switch |-> s,
                 faulty |-> FALSE]
    /\ socket = [on |-> FALSE, fresh |-> FALSE]
    /\ link = TRUE /\ range = TRUE /\ target = "charge" /\ window = FALSE /\ gate = "ready"
    /\ \E w \in BOOLEAN : setup = [smart |-> TRUE, switching |-> w]
    /\ disk = Idle /\ mem = Fresh(Idle) /\ pc = "idle" /\ job = NoJob
    /\ cuts = 0 /\ changes = 0

-------------------------------------------------------------------------------
(* The recovery reducer.  o is the view, wanted the planned charge.          *)

\* The socket and the charging state are read when the cycle decides; the request
\* and the switch were read before the minute's save.
Now(o) == [o EXCEPT !.on = socket.on, !.fresh = socket.fresh, !.state = car.state, !.age = car.age]

\* _smart_recovery_permissions_hold; the cable is read at once.
Permitted(wanted) == car.plugged /\ wanted

\* _smart_recovery_eligibility; stable: the cloud evidence has not changed lately.
Eligible(o, wanted, stable) ==
    /\ o.state = "no_power" /\ o.age >= Sustained /\ stable
    /\ Permitted(wanted) /\ o.on /\ o.range

Step(rec, cmds) == [rec |-> rec, cmds |-> cmds]

\* _smart_recovery_restart
RecoveryRestart(o) ==
    Step(To("confirming_charging"),
         (IF o.amps = "staged" THEN << >> ELSE <<"amps">>)
             \o (IF o.switch THEN << >> ELSE <<"start">>))

\* Mutant: an awaited observation is awaited for ever.
AwaitForever(rec, seen, next) == IF seen THEN next ELSE Step(rec, << >>)

\* A phase that waits for one observation and gives up after its time.
Await(rec, seen, next) ==
    IF seen THEN next
    ELSE IF rec.age >= Lasts[rec.phase] THEN Step(Fault(rec), << >>) ELSE Step(rec, << >>)

\* reconcile_smart_socket_recovery: the next state and the commands to send now.
Recover(rec, o, wanted, stable) ==
    LET staged == o.amps = "staged"
        permitted == Permitted(wanted)
        off == Step(To("confirming_socket_off"), <<"off">>)
        lasted == rec.phase \in Active /\ rec.age >= Lasts[rec.phase]
    IN CASE o.state = "charging" /\ o.age >= Rearm -> Step(Idle, << >>)
         [] OTHER ->
       CASE rec.phase \in Ended -> Step(rec, << >>)
         [] rec.phase = "idle" ->
              IF ~Eligible(o, wanted, stable) THEN Step(rec, << >>)
              ELSE IF staged THEN off ELSE Step(To("confirming_current"), <<"amps">>)
         [] rec.phase = "confirming_current" -> Await(rec, staged, off)
         [] rec.phase = "confirming_socket_off" ->
              Await(rec, ~o.on, Step(To("power_off_dwell"), << >>))
         [] rec.phase = "power_off_dwell" ->
              IF ~lasted THEN Step(rec, << >>)
              ELSE IF permitted THEN Step(To("confirming_socket_on"), <<"on">>)
              ELSE Step(Fault(rec), << >>)
         [] rec.phase = "confirming_socket_on" ->
              Await(rec, o.on, Step(To("post_power_settle"), << >>))
         [] rec.phase = "post_power_settle" ->
              IF ~lasted THEN Step(rec, << >>)
              ELSE IF ~permitted \/ ~o.on THEN Step(Fault(rec), << >>)
              ELSE IF o.range THEN RecoveryRestart(o) ELSE Step(To("awaiting_actuator"), << >>)
         [] rec.phase = "awaiting_actuator" ->
              IF ~permitted \/ ~o.on THEN Step(Fault(rec), << >>)
              ELSE Await(rec, o.range, RecoveryRestart(o))
         [] rec.phase = "confirming_charging" ->
              Await(rec, o.state = "charging", Step(To("recovered"), << >>))

-------------------------------------------------------------------------------
(* The ordinary plan: current before power, then settle, then start.        *)

\* plan_smart_socket_commands
Plan(o, wanted, connected, inWindow) ==
    LET amps == IF o.amps = "staged" THEN << >> ELSE <<"amps">>
    IN CASE ~wanted ->
              IF o.on /\ ~inWindow /\ (setup.switching \/ ~connected) THEN <<"off">> ELSE << >>
         [] wanted /\ ~o.on -> amps \o (IF o.amps = "over" THEN << >> ELSE <<"on">>)
         [] wanted /\ o.on /\ o.fresh -> << >>
         [] OTHER -> amps \o (IF o.switch THEN << >> ELSE <<"start">>)

\* Mutant: an unconfirmed staging write is not repeated.
StagedOnce(stage, o, cmds) ==
    IF ~o.on /\ cmds = <<"amps">>
    THEN IF stage = Unset THEN [stage |-> 0, cmds |-> cmds]
         ELSE [stage |-> stage, cmds |-> << >>]
    ELSE [stage |-> IF \E i \in DOMAIN cmds : cmds[i] = "on" THEN Unset ELSE stage, cmds |-> cmds]

\* reconcile_smart_socket_stage: a write that only stages is held until Retry.
Staged(stage, o, cmds) ==
    IF ~o.on /\ cmds = <<"amps">>
    THEN IF stage = Unset \/ stage >= Retry THEN [stage |-> 0, cmds |-> cmds]
         ELSE [stage |-> stage, cmds |-> << >>]
    ELSE [stage |-> IF \E i \in DOMAIN cmds : cmds[i] = "on" THEN Unset ELSE stage, cmds |-> cmds]

-------------------------------------------------------------------------------
(* The cycle.                                                               *)

Spend == changes < MaxChanges /\ changes' = changes + 1
End == pc' = "idle" /\ job' = NoJob
Kept == UNCHANGED <<mem, disk, changes>>

\* async_save stores the recovery state or raises, which ends the cycle.
SaveOk == disk' = mem'.rec /\ changes' = changes
SaveFails == disk' = disk /\ Spend /\ End

BeginCycle(kind, cmds) == pc' = "send" /\ job' = [job EXCEPT !.kind = kind, !.cmds = cmds]

\* The capture, the minute save, the gate and reset_smart_state_for_path.
Look ==
    /\ pc = "idle"
    /\ UNCHANGED <<car, socket, site, cuts>>
    /\ mem' = IF gate # "closed" /\ ~setup.smart THEN Fresh(Idle) ELSE mem
    /\ \/ SaveOk /\ pc' = "decide" /\ job' = [NoJob EXCEPT !.obs = View]
       \/ mem' = mem /\ Kept /\ pc' = "decide" /\ job' = [NoJob EXCEPT !.obs = View]
       \/ SaveFails

\* Nothing to do: the gate, another path, a blind car, a rejected plan.
DecideNothing ==
    /\ pc = "decide" /\ Kept /\ End
    /\ \/ gate = "closed" \/ ~setup.smart \/ ~job.obs.visible
       \/ job.obs.plugged /\ target = "reject"
    /\ UNCHANGED <<car, socket, site, cuts>>

Ready == pc = "decide" /\ gate # "closed" /\ setup.smart /\ job.obs.visible

\* _async_reconcile_disconnected_smart_socket
DecideUnplugged ==
    LET cmds == Plan(Now(job.obs), FALSE, FALSE, window)
    IN /\ Ready /\ ~job.obs.plugged /\ Kept
       /\ IF gate = "locked" \/ cmds = << >> THEN End ELSE BeginCycle("plan", cmds)
       /\ UNCHANGED <<car, socket, site, cuts>>

\* _async_reconcile_smart_socket: the recovery comes first and is stored before
\* its commands; the ordinary plan runs when it has nothing to do.
DecidePlugged == \E stable \in BOOLEAN :
    LET o == Now(job.obs)
        wanted == target = "charge"
        r == Recover(mem.rec, o, wanted, stable)
        busy == r.rec.phase \in Active \/ r.cmds # << >>
        plan == Plan(o, wanted, TRUE, window)
        s == Staged(mem.stage, o, plan)
    IN /\ Ready /\ o.plugged /\ target # "reject"
       /\ UNCHANGED <<car, socket, site, cuts>>
       /\ \/ gate = "locked" /\ busy /\ Kept /\ End
          \/ /\ ~(gate = "locked" /\ busy)
             /\ r.rec # mem.rec
             /\ mem' = [mem EXCEPT !.rec = r.rec]
             /\ \/ SaveFails
                \/ /\ SaveOk
                   /\ IF r.cmds # << >> THEN BeginCycle("recovery", r.cmds)
                      ELSE IF busy \/ gate = "locked" THEN End
                      ELSE pc' = "plan" /\ job' = [job EXCEPT !.obs = o]
          \/ r.rec = mem.rec /\ busy /\ gate # "locked" /\ Kept /\ End
          \/ r.rec = mem.rec /\ ~busy /\ gate = "locked" /\ Kept /\ End
          \/ /\ r.rec = mem.rec /\ ~busy /\ gate # "locked"
             /\ mem' = [mem EXCEPT !.stage = s.stage] /\ UNCHANGED <<disk, changes>>
             /\ IF s.cmds = << >> THEN End ELSE BeginCycle("plan", s.cmds)

\* The ordinary plan after the end of a recovery was stored.
PlanAfterSave ==
    LET s == Staged(mem.stage, job.obs, Plan(job.obs, target = "charge", TRUE, window))
    IN /\ pc = "plan"
       /\ mem' = [mem EXCEPT !.stage = s.stage] /\ UNCHANGED <<disk, changes>>
       /\ IF s.cmds = << >> THEN End ELSE BeginCycle("plan", s.cmds)
       /\ UNCHANGED <<car, socket, site, cuts>>

-------------------------------------------------------------------------------
(* The adapter.                                                             *)

\* Power returns to a car; whether a fault clears is the car's affair.
Cars(c) ==
    CASE c = "amps"  -> {[car EXCEPT !.amps = "staged"]}
      [] c = "start" -> {[car EXCEPT !.switch = TRUE]}
      [] c = "on"    -> {[car EXCEPT !.faulty = f] : f \in BOOLEAN}
      [] OTHER       -> {car}
Sockets(c) ==
    CASE c = "on"  -> [on |-> TRUE, fresh |-> ~socket.on \/ socket.fresh]
      [] c = "off" -> [on |-> FALSE, fresh |-> FALSE]
      [] OTHER     -> socket

Apply(c) == car' \in Cars(c) /\ socket' = Sockets(c)
Rest == pc' = (IF Len(job.cmds) = 1 THEN "log" ELSE "send") /\ job' = [job EXCEPT !.cmds = Tail(@)]
Count(c) == cuts' = IF job.kind = "recovery" /\ c = "off" THEN cuts + 1 ELSE cuts

\* A command takes effect, or is lost on its way.
Send ==
    /\ pc = "send" /\ gate = "ready"
    /\ \/ Apply(Head(job.cmds)) /\ UNCHANGED changes
       \/ UNCHANGED <<car, socket>> /\ Spend
    /\ Count(Head(job.cmds)) /\ Rest
    /\ UNCHANGED <<site, mem, disk>>

\* The live gate closed, or the service raised before or after it took effect.
SendFails ==
    /\ pc = "send" /\ pc' = "log" /\ job' = [job EXCEPT !.cmds = << >>]
    /\ \/ gate # "ready" /\ UNCHANGED <<car, socket, cuts, changes>>
       \/ /\ gate = "ready" /\ Spend /\ Count(Head(job.cmds))
          /\ (Apply(Head(job.cmds)) \/ UNCHANGED <<car, socket>>)
    /\ UNCHANGED <<site, mem, disk>>

\* _async_execute_ev_plan stores the outcome.
Log ==
    /\ pc = "log" /\ mem' = mem /\ End
    /\ SaveOk \/ (disk' = disk /\ Spend)
    /\ UNCHANGED <<car, socket, site, cuts>>

Cycle == \/ Look \/ DecideNothing \/ DecideUnplugged \/ DecidePlugged \/ PlanAfterSave
         \/ Send \/ SendFails \/ Log

-------------------------------------------------------------------------------
(* The environment.                                                         *)

\* What the car says of itself, within a tick.
Says == IF ~car.plugged THEN "disconnected" ELSE IF ~socket.on \/ car.faulty THEN "no_power"
        ELSE IF car.switch THEN "charging" ELSE "stopped"

Drive ==
    /\ Spend
    /\ \/ car' = [car EXCEPT !.plugged = ~@] /\ UNCHANGED socket
       \/ car' = [car EXCEPT !.switch = ~@] /\ UNCHANGED socket
       \/ \E a \in {"under", "over"} \ {car.amps} : car' = [car EXCEPT !.amps = a] /\ UNCHANGED socket
       \/ car' = car /\ socket' = Sockets(IF socket.on THEN "off" ELSE "on")
    /\ UNCHANGED <<site, mem, disk, pc, job, cuts>>

Surroundings ==
    /\ Spend
    /\ \/ link' = ~link /\ UNCHANGED <<range, target, window, gate>>
       \/ range' = ~range /\ UNCHANGED <<link, target, window, gate>>
       \/ \E t \in {"charge", "none", "reject"} \ {target} :
             target' = t /\ UNCHANGED <<link, range, window, gate>>
       \/ window' = ~window /\ UNCHANGED <<link, range, target, gate>>
       \/ \E g \in {"ready", "locked", "closed"} \ {gate} :
             gate' = g /\ UNCHANGED <<link, range, target, window>>
    /\ UNCHANGED <<car, socket, setup, mem, disk, pc, job, cuts>>

\* Mutant: the latch of the episode is not restored.
RestoredIdle(d) == Fresh(Idle)

\* EvPersistedState's recovery state; the staging hold is transient.
RestoredRecovery(d) == Fresh(d)

\* The process dies anywhere, or the entry is reloaded with another path.
Restart1(s) ==
    /\ Spend /\ End
    /\ setup' = s /\ mem' = RestoredRecovery(disk)
    /\ UNCHANGED <<car, socket, link, range, target, window, gate, disk>>
Crash == Restart1(setup) /\ UNCHANGED cuts
SelectPath == pc = "idle" /\ Restart1([setup EXCEPT !.smart = ~@]) /\ cuts' = 0

Older(rec) == IF rec.phase \in Active /\ rec.age < Lasts[rec.phase] THEN [rec EXCEPT !.age = @ + 1] ELSE rec

\* Time passes between cycles; sustained charging ends the episode.
Tick ==
    LET span == IF Sustained > Rearm THEN Sustained ELSE Rearm
        age == IF car.state # Says THEN 0 ELSE IF car.age < span THEN car.age + 1 ELSE car.age
    IN /\ pc = "idle"
       /\ car' = [car EXCEPT !.state = Says, !.age = age]
       /\ socket' = [socket EXCEPT !.fresh = FALSE]
       /\ mem' = [rec |-> Older(mem.rec),
                  stage |-> IF mem.stage \in 0 .. Retry - 1 THEN mem.stage + 1 ELSE mem.stage]
       /\ disk' = Older(disk)
       /\ cuts' = IF Says = "charging" /\ age >= Rearm THEN 0 ELSE cuts
       /\ UNCHANGED <<site, pc, job, changes>>

SocketNext == Cycle \/ Drive \/ Surroundings \/ Crash \/ SelectPath \/ Tick

\* The interval timer keeps running cycles, a cycle finishes what it awaits,
\* and time passes between cycles.
SocketSpec == SocketInit /\ [][SocketNext]_socketVars /\ WF_socketVars(Cycle) /\ SF_socketVars(Tick)

-------------------------------------------------------------------------------
(* Properties.                                                              *)

\* A car without power is given at most one power cycle until it has charged for
\* a sustained time or the direct path was selected, whatever crashes, failing
\* saves, lost commands and raising services come between.
OnePowerCycle == cuts <= 1

\* Nothing leaves a car that should charge without power for ever: not a recovery
\* that was interrupted anywhere, not a lost command, not a held staging write.
Unpowered ==
    /\ setup.smart /\ car.plugged /\ link /\ gate = "ready" /\ target = "charge"
    /\ ~socket.on
PowerReturns == []<>~Unpowered

\* A recovery ends, in charging or in a latched fault, while the car can be seen.
Recovering ==
    /\ setup.smart /\ car.plugged /\ link /\ gate = "ready" /\ target # "reject"
    /\ mem.rec.phase \in Active
RecoveryEnds == []<>~Recovering

===============================================================================
