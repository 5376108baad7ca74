-------------------------- MODULE ManualControlProofs --------------------------
(***************************************************************************)
(* Theorems about the diagnostic test and the manual session               *)
(* (ManualControl), for every set of requests, every number of             *)
(* restorations and every budget of tests and faults.                      *)
(***************************************************************************)
EXTENDS ManualControl, TLAPS

Cmds == Commands({0, Kw})
DiagnosticSteps == {"save", "saving", "lock", "exec", "sent", "arm", "cleanup", "restore",
                    "rlock", "blocked", "failed", "finish"}
SessionSteps == {"save", "saving", "persist", "persisting", "mlock", "leave", "relinquish",
                 "surrender", "surrendered", "go", "exec", "sent", "release", "store"}
Steps == DiagnosticSteps \cup SessionSteps \cup {"idle"}
Calls == [pc : Steps, next : Steps, gen : Nat, plan : Seq(Cmds)]

SessionPhases == {"idle", "pending", "confirming", "held"}
Pages == [target : Targets, phase : SessionPhases, gen : Nat, stamp : Nat]
ManualSessions ==
    [hold : BOOLEAN, target : Targets, phase : SessionPhases, gen : Nat, stamp : Nat,
     durable : Nat \cup {-1}, relinquished : Nat \cup {-1}, fault : BOOLEAN, trusted : BOOLEAN]
Tests == [kind : {"none", "charge"}, phase : {"idle", "starting", "running", "stopping",
          "restore_failed"}, attempts : Nat, gen : Nat, wgen : Nat]
Checkpoints == [kind : {"none", "charge"}, phase : {"idle", "starting", "running", "stopping",
                "restore_failed"}, attempts : Nat]
Lives == {"down", "handoff", "starting", "sessions", "up", "unloading", "unloaded"}

\* The steps of each kind of call, and where its suspensions lead.
Fits(t, c) ==
    /\ t \in Diagnostics => /\ c.pc \in DiagnosticSteps \cup {"idle"}
                            /\ c.next \in DiagnosticSteps \cup {"idle"}
    /\ t \in Sessions => /\ c.pc \in SessionSteps \cup {"idle"}
                         /\ c.pc \in {"save", "saving"} => c.next = "surrender"
    /\ c.pc \in {"persist", "persisting"} =>
          c.next \in {"mlock", "relinquish", "go", "release", "leave"}
    /\ c.pc \in {"save", "saving"} =>
          c.next \in {"lock", "arm", "cleanup", "restore", "rlock", "blocked", "failed",
                      "finish", "surrender"}
    /\ c.pc = "idle" => c = NoTask
    /\ c.pc = "sent" => c.plan # <<>>
CallsFit == task \in [Tasks -> Calls] /\ \A t \in Tasks : Fits(t, task[t])

StateOK ==
    /\ inv \in Observations({0, Kw}) /\ gate \in {"open", "no_export", "closed"}
    /\ life \in Lives /\ lock \in Tasks \cup {"free"}
    /\ diag \in Tests /\ diagDisk \in Checkpoints
    /\ saver \in Tasks \cup {"none"} /\ snap \in Checkpoints
    /\ timer \in Nat \cup {Unarmed} /\ retry \in Nat \cup {Unarmed}
    /\ man \in ManualSessions /\ manDisk \in Pages \cup {Malformed}
    /\ writer \in Tasks \cup {"none"} /\ page \in Pages
    /\ sess \in {"idle", "owned"} /\ sessDisk \in {"idle", "owned"}
    /\ acked \in Nat
    /\ left \in [tests : Nat, faults : Nat, smooth : BOOLEAN]

TypeOK == StateOK /\ CallsFit

-------------------------------------------------------------------------------
(* Types. *)

LEMMA Names == /\ "none" \notin Tasks /\ "free" \notin Tasks /\ Diagnostics \cap Sessions = {}
               /\ Diagnostics \cup Sessions = Tasks /\ NoTask \in Calls
               /\ \A t \in Tasks : Fits(t, NoTask)
BY DEF Tasks, Diagnostics, Sessions, NoTask, Calls, Steps, Fits, DiagnosticSteps, SessionSteps

\* The commands of a plan.
LEMMA Unlesses ==
    ASSUME NEW c1 \in Cmds, NEW c2 \in Cmds, NEW c3 \in Cmds, NEW b1, NEW b2, NEW b3
    PROVE  Unless(b1, c1) \o Unless(b2, c2) \o Unless(b3, c3) \in Seq(Cmds)
<1>1. /\ Unless(b1, c1) \in Seq(Cmds) /\ Unless(b2, c2) \in Seq(Cmds)
      /\ Unless(b3, c3) \in Seq(Cmds)
  BY DEF Unless
<1> QED
  BY <1>1

LEMMA Plans ==
    ASSUME StateOK
    PROVE  /\ PlanForceCharge(inv, Kw) \in Seq(Cmds) /\ PlanForceDischarge(inv, Kw) \in Seq(Cmds)
           /\ PlanRestoreMode(inv) \in Seq(Cmds) /\ BlindRestore \in Seq(Cmds)
           /\ PlanFoxessCommands(Decision, inv, Kw) \in Seq(Cmds)
<1>1. /\ SetCharge(0) \in Cmds /\ SetCharge(Kw) \in Cmds /\ SetDischarge(0) \in Cmds
      /\ SetDischarge(Kw) \in Cmds /\ SelectMode("SelfUse") \in Cmds
      /\ SelectMode("ForceCharge") \in Cmds /\ SelectMode("ForceDischarge") \in Cmds
  BY DEF SetCharge, SetDischarge, SelectMode, Cmds, Commands, ForcedModes
<1>2. PlanForceCharge(inv, Kw) \in Seq(Cmds) /\ PlanForceDischarge(inv, Kw) \in Seq(Cmds)
  BY <1>1, Unlesses DEF PlanForceCharge, PlanForceDischarge
<1>3. PlanRestoreMode(inv) \in Seq(Cmds)
  BY <1>1, Unlesses DEF PlanRestoreMode
<1>4. BlindRestore \in Seq(Cmds)
  BY <1>1 DEF BlindRestore
<1>5. Lesser(Kw, Kw) = Kw
  BY DEF Lesser
<1>6. PlanFoxessCommands(Decision, inv, Kw) \in Seq(Cmds)
  BY <1>2, <1>3, <1>5 DEF PlanFoxessCommands, Decision, ForceDischarge, RestoreSelfUse
<1> QED
  BY <1>2, <1>3, <1>4, <1>6

\* One call changes: how each of the shorthands types it.
LEMMA Put ==
    ASSUME CallsFit, NEW t \in Tasks, NEW c \in Calls, Fits(t, c), task' = [task EXCEPT ![t] = c]
    PROVE  CallsFit' /\ task'[t] = c /\ \A u \in Tasks \ {t} : task'[u] = task[u]
BY DEF CallsFit

LEMMA GotoFits ==
    ASSUME CallsFit, NEW t \in Tasks, NEW s \in Steps \ {"idle"}, Goto(t, s),
           Fits(t, [task[t] EXCEPT !.pc = s])
    PROVE  CallsFit'
<1>1. [task[t] EXCEPT !.pc = s] \in Calls
  BY DEF CallsFit, Calls
<1>2. task' = [task EXCEPT ![t] = [task[t] EXCEPT !.pc = s]]
  BY DEF Goto, CallsFit
<1> QED
  BY <1>1, <1>2, Put

LEMMA EndFits ==
    ASSUME CallsFit, NEW t \in Tasks, End(t)
    PROVE  CallsFit' /\ task'[t] = NoTask
BY Names, Put DEF End

LEMMA SaveFits ==
    ASSUME CallsFit, NEW t \in Diagnostics,
           NEW s \in {"lock", "arm", "cleanup", "restore", "rlock", "blocked", "failed", "finish"},
           SaveThen(t, s)
    PROVE  CallsFit'
<1>1. t \in Tasks /\ t \notin Sessions
  BY Names
<1> DEFINE c == [task[t] EXCEPT !.pc = "save", !.next = s]
<1>2. c \in Calls /\ c.pc = "save" /\ c.next = s
  BY <1>1 DEF CallsFit, Calls, Steps, DiagnosticSteps
<1>3. Fits(t, c)
  BY <1>1, <1>2 DEF Fits, DiagnosticSteps
<1>4. task' = [task EXCEPT ![t] = c]
  BY <1>1 DEF SaveThen, CallsFit
<1> HIDE DEF c
<1> QED
  BY <1>1, <1>2, <1>3, <1>4, Put

LEMMA PersistFits ==
    ASSUME CallsFit, NEW t \in Sessions, NEW c \in Calls, c.pc = "persist",
           c.next \in {"mlock", "relinquish", "go", "release", "leave"},
           task' = [task EXCEPT ![t] = c]
    PROVE  CallsFit'
<1>1. t \in Tasks /\ t \notin Diagnostics
  BY Names
<1>2. Fits(t, c)
  BY <1>1 DEF Fits, SessionSteps
<1> QED
  BY <1>1, <1>2, Put

LEMMA PersistThenFits ==
    ASSUME CallsFit, NEW t \in Sessions,
           NEW s \in {"mlock", "relinquish", "go", "release", "leave"}, PersistThen(t, s)
    PROVE  CallsFit'
<1>1. t \in Tasks /\ task[t] \in Calls
  BY Names DEF CallsFit
<1> DEFINE c == [task[t] EXCEPT !.pc = "persist", !.next = s]
<1>2. task' = [task EXCEPT ![t] = c]
  BY <1>1 DEF PersistThen, CallsFit
<1>3. c \in Calls /\ c.pc = "persist" /\ c.next = s
  BY <1>1 DEF Calls, Steps, SessionSteps
<1> HIDE DEF c
<1> QED
  BY <1>2, <1>3, PersistFits

LEMMA SpendFits ==
    ASSUME StateOK, NEW k, Spend(k)
    PROVE  left' \in [tests : Nat, faults : Nat, smooth : BOOLEAN]
<1>1. left.faults - 1 \in Nat
  BY DEF StateOK, Spend
<1> QED
  BY <1>1 DEF StateOK, Spend

LEMMA ForgetFits ==
    ASSUME StateOK, ForgetMemory, inv' \in Observations({0, Kw}),
           left' \in [tests : Nat, faults : Nat, smooth : BOOLEAN]
    PROVE  TypeOK'
<1>1. CallsFit'
  BY Names DEF ForgetMemory, CallsFit
<1>2. NoTest \in Tests /\ NoSession \in ManualSessions /\ NoPage \in Pages
      /\ Journal(NoTest) \in Checkpoints
  BY DEF NoTest, Tests, NoSession, ManualSessions, NoPage, Pages, Journal, Checkpoints, Targets,
         SessionPhases
<1>3. StateOK'
  BY <1>2, Names DEF StateOK, ForgetMemory, Lives, Unarmed
<1> QED
  BY <1>1, <1>3 DEF TypeOK

LEMMA Records ==
    ASSUME StateOK
    PROVE  Journal(diag) \in Checkpoints /\ Payload(man) \in Pages
BY DEF StateOK, Journal, Payload, Tests, Checkpoints, ManualSessions, Pages

LEMMA TypeStore ==
    ASSUME TypeOK, NEW t \in Tasks, Store(t)
    PROVE  TypeOK'
<1>1. CallsFit /\ StateOK /\ Journal(diag) \in Checkpoints /\ Payload(man) \in Pages
      /\ Journal(NoTest) \in Checkpoints /\ NoPage \in Pages /\ task[t] \in Calls /\ Fits(t, task[t])
  BY Records
     DEF TypeOK, CallsFit, Journal, NoTest, Checkpoints, NoPage, Pages, Targets, SessionPhases
<1>2. CASE TakeSave(t)
  <2>1. CallsFit'
    <3>1. Fits(t, [task[t] EXCEPT !.pc = "saving"]) /\ "saving" \in Steps
      BY <1>1, <1>2 DEF TakeSave, At, Fits, Calls, Steps, DiagnosticSteps, SessionSteps
    <3> QED
      BY <1>1, <1>2, <3>1, GotoFits DEF TakeSave
  <2>2. StateOK'
    BY <1>1, <1>2
       DEF TakeSave, StateOK, callbacks, manSaving, auto, entry
  <2> QED
    BY <2>1, <2>2 DEF TypeOK
<1>3. CASE SaveDone(t)
  <2>1. CallsFit'
    <3>1. task[t].next \in {"lock", "arm", "cleanup", "restore", "rlock", "blocked", "failed",
                            "finish", "surrender"}
      BY <1>1, <1>3 DEF SaveDone, At, Fits
    <3>2. Fits(t, [task[t] EXCEPT !.pc = task[t].next]) /\ task[t].next \in Steps \ {"idle"}
      BY <1>1, <1>3, <3>1 DEF SaveDone, At, Fits, Calls, Steps, DiagnosticSteps, SessionSteps
    <3> QED
      BY <1>1, <1>3, <3>2, GotoFits DEF SaveDone
  <2>2. StateOK'
    BY <1>1, <1>3
       DEF SaveDone, StateOK, callbacks, manSaving, auto, entry
  <2> QED
    BY <2>1, <2>2 DEF TypeOK
<1>4. CASE TakePersist(t)
  <2>1. CallsFit'
    <3>1. Fits(t, [task[t] EXCEPT !.pc = "persisting"]) /\ "persisting" \in Steps
      BY <1>1, <1>4 DEF TakePersist, At, Fits, Calls, Steps, DiagnosticSteps, SessionSteps
    <3> QED
      BY <1>1, <1>4, <3>1, GotoFits DEF TakePersist
  <2>2. StateOK'
    BY <1>1, <1>4
       DEF TakePersist, StateOK, callbacks, diagSaving, auto, entry
  <2> QED
    BY <2>1, <2>2 DEF TypeOK
<1>5. CASE PersistDone(t)
  <2>1. CallsFit'
    <3>1. task[t].next \in {"mlock", "relinquish", "go", "release", "leave"}
      BY <1>1, <1>5 DEF PersistDone, At, Fits
    <3>2. Fits(t, [task[t] EXCEPT !.pc = task[t].next]) /\ task[t].next \in Steps \ {"idle"}
      BY <1>1, <1>5, <3>1 DEF PersistDone, At, Fits, Calls, Steps, DiagnosticSteps, SessionSteps
    <3>3. CASE Goto(t, task[t].next)
      BY <1>1, <3>2, <3>3, GotoFits
    <3>4. CASE UNCHANGED task
      BY <1>1, <3>4 DEF CallsFit
    <3> QED
      BY <1>5, <3>3, <3>4 DEF PersistDone
  <2>2. man' \in ManualSessions
    <3>1. man \in ManualSessions /\ page.gen \in Nat
      BY <1>1 DEF StateOK, Pages
    <3>2. \/ UNCHANGED man
          \/ man' = [man EXCEPT !.durable = page.gen, !.fault = FALSE]
      BY <1>5 DEF PersistDone
    <3> QED
      BY <3>1, <3>2 DEF ManualSessions
  <2>3. StateOK'
    BY <1>1, <1>5, <2>2
       DEF PersistDone, StateOK, callbacks, diagSaving, auto, entry
  <2> QED
    BY <2>1, <2>3 DEF TypeOK
<1> QED
  BY <1>2, <1>3, <1>4, <1>5 DEF Store

LEMMA TypeStoreFails ==
    ASSUME TypeOK, NEW t \in Tasks, StoreFails(t)
    PROVE  TypeOK'
<1>1. CallsFit /\ StateOK /\ Journal(NoTest) \in Checkpoints /\ NoPage \in Pages
      /\ task[t] \in Calls /\ Fits(t, task[t])
  BY DEF TypeOK, CallsFit, Journal, NoTest, Checkpoints, NoPage, Pages, Targets, SessionPhases
<1>2. left' \in [tests : Nat, faults : Nat, smooth : BOOLEAN]
  BY <1>1, SpendFits DEF StoreFails, SaveFails, PersistFails
<1>3. CASE SaveFails(t) /\ ForgetMemory
  BY <1>1, <1>2, <1>3, ForgetFits DEF SaveFails, StateOK
<1>4. CASE SaveFails(t) /\ ~ForgetMemory
  <2>1. CallsFit'
    <3>1. task[t].next = "cleanup" =>
            Fits(t, [task[t] EXCEPT !.pc = "cleanup"]) /\ "cleanup" \in Steps
      BY <1>1, <1>4, Names
         DEF SaveFails, At, Fits, Calls, Steps, DiagnosticSteps, SessionSteps
    <3> QED
      BY <1>1, <1>4, <3>1, GotoFits, EndFits DEF SaveFails
  <2>2. StateOK'
    BY <1>1, <1>2, <1>4
       DEF SaveFails, StateOK, callbacks, manSaving, auto
  <2> QED
    BY <2>1, <2>2 DEF TypeOK
<1>5. CASE PersistFails(t)
  <2>1. CallsFit'
    BY <1>1, <1>5, EndFits DEF PersistFails
  <2>2. man' \in ManualSessions
    BY <1>1, <1>5 DEF PersistFails, StateOK, ManualSessions
  <2>3. StateOK'
    BY <1>1, <1>2, <1>5, <2>2
       DEF PersistFails, StateOK, callbacks, diagSaving, auto
  <2> QED
    BY <2>1, <2>3 DEF TypeOK
<1> QED
  BY <1>3, <1>4, <1>5 DEF StoreFails

LEMMA Landed ==
    ASSUME TypeOK, NEW t \in Tasks, At(t, "sent"), Land(t)
    PROVE  inv' \in Observations({0, Kw})
<1>1. task[t].plan \in Seq(Cmds) /\ task[t].plan # <<>>
  BY DEF TypeOK, CallsFit, Fits, At, Calls
<1>2. Head(task[t].plan) \in Cmds
  BY <1>1
<1> DEFINE c == Head(task[t].plan)
<1>3. inv' = Apply(c, inv) /\ c \in Cmds /\ inv \in Observations({0, Kw})
  BY <1>2 DEF Land, TypeOK, StateOK
<1> HIDE DEF c
<1>4. Kw \in {0, Kw} /\ "SelfUse" \in Modes /\ ForcedModes \subseteq Modes
  BY DEF Modes, ForcedModes
<1> QED
  BY <1>3, <1>4 DEF Apply, Cmds, Commands, Observations

LEMMA TypeSend ==
    ASSUME TypeOK, NEW t \in Tasks, SendCommand(t) \/ CommandLands(t)
    PROVE  TypeOK'
<1>1. CallsFit /\ StateOK /\ task[t] \in Calls /\ Fits(t, task[t])
  BY DEF TypeOK, CallsFit
<1>2. CASE SendCommand(t)
  <2>1. Fits(t, [task[t] EXCEPT !.pc = "sent"]) /\ "sent" \in Steps
    BY <1>1, <1>2 DEF SendCommand, At, Fits, Calls, Steps, DiagnosticSteps, SessionSteps
  <2>2. CallsFit'
    BY <1>1, <1>2, <2>1, GotoFits DEF SendCommand
  <2>3. StateOK'
    BY <1>1, <1>2 DEF SendCommand, StateOK, diagSaving, callbacks, manSaving, auto, entry
  <2> QED
    BY <2>2, <2>3 DEF TypeOK
<1>3. CASE CommandLands(t)
  <2> DEFINE c == [task[t] EXCEPT !.pc = "exec", !.plan = Tail(@)]
  <2>1. c \in Calls /\ Fits(t, c)
    <3>1. task[t].plan \in Seq(Cmds) /\ task[t].plan # <<>>
      BY <1>1, <1>3 DEF CommandLands, At, Fits, Calls
    <3>2. Tail(task[t].plan) \in Seq(Cmds)
      BY <3>1
    <3> QED
      BY <1>1, <1>3, <3>2 DEF CommandLands, At, Fits, Calls, Steps, DiagnosticSteps, SessionSteps
  <2>2. task' = [task EXCEPT ![t] = c]
    BY <1>1, <1>3 DEF CommandLands, CallsFit
  <2> HIDE DEF c
  <2>3. CallsFit'
    BY <1>1, <2>1, <2>2, Put
  <2>4. inv' \in Observations({0, Kw})
    BY <1>3, Landed DEF CommandLands
  <2>5. StateOK'
    BY <1>1, <1>3, <2>4 DEF CommandLands, StateOK, diagSaving, callbacks, manSaving, auto, entry
  <2> QED
    BY <2>3, <2>5 DEF TypeOK
<1> QED
  BY <1>2, <1>3

LEMMA Ended ==
    ASSUME TypeOK, NEW t \in Tasks, Complete(t) \/ Raises(t)
    PROVE  /\ inv' \in Observations({0, Kw})
           /\ left' \in [tests : Nat, faults : Nat, smooth : BOOLEAN]
<1>1. CASE UNCHANGED <<inv, left>>
  BY <1>1 DEF TypeOK, StateOK
<1>2. CASE At(t, "sent") /\ Spend("service") /\ (Land(t) \/ UNCHANGED inv)
  BY <1>2, Landed, SpendFits DEF TypeOK, StateOK
<1> QED
  BY <1>1, <1>2 DEF Complete, Raises

\* A new call of the test's side that starts with a store write.
LEMMA SaveCall ==
    ASSUME CallsFit, NEW t \in Diagnostics, NEW g \in Nat, NEW p \in Seq(Cmds),
           NEW s \in {"lock", "arm", "cleanup", "restore", "rlock", "blocked", "failed", "finish"},
           task' = [task EXCEPT ![t] = [pc |-> "save", next |-> s, gen |-> g, plan |-> p]]
    PROVE  CallsFit'
<1> DEFINE c == [pc |-> "save", next |-> s, gen |-> g, plan |-> p]
<1>1. t \in Tasks /\ t \notin Sessions
  BY Names
<1>2. c \in Calls /\ Fits(t, c)
  BY <1>1 DEF Calls, Steps, DiagnosticSteps, Fits
<1> HIDE DEF c
<1> QED
  BY <1>1, <1>2, Put DEF c

LEMMA TypeStartTest ==
    ASSUME TypeOK, StartTest("charge") \/ CancelStart
    PROVE  TypeOK'
<1>1. CallsFit /\ StateOK /\ "start" \in Diagnostics /\ "start" \in Tasks
      /\ diag.gen + 1 \in Nat /\ <<>> \in Seq(Cmds)
  BY DEF TypeOK, StateOK, Tests, Diagnostics, Tasks
<1>2. CASE StartTest("charge")
  <2>1. CallsFit'
    <3>1. PlanTest("charge") \in Seq(Cmds)
      BY <1>1, Plans DEF PlanTest
    <3> QED
      BY <1>1, <1>2, <3>1, SaveCall DEF StartTest
  <2>2. diag' \in Tests /\ left' \in [tests : Nat, faults : Nat, smooth : BOOLEAN]
    <3>1. left.tests - 1 \in Nat /\ diag \in Tests /\ diag.gen + 1 \in Nat
      BY <1>1, <1>2 DEF StartTest, StateOK
    <3>2. left' = [left EXCEPT !.tests = left.tests - 1]
          /\ diag' = [diag EXCEPT !.kind = "charge", !.phase = "starting", !.attempts = 0,
                                  !.gen = diag.gen + 1]
      BY <1>2 DEF StartTest
    <3>3. diag' \in Tests
      BY <3>1, <3>2 DEF Tests
    <3> QED
      BY <1>1, <3>1, <3>2, <3>3 DEF StateOK
  <2>3. StateOK'
    BY <1>1, <1>2, <2>2 DEF StartTest, StateOK, diagSaving, callbacks, manSaving, auto
  <2> QED
    BY <2>1, <2>3 DEF TypeOK
<1>3. CASE CancelStart
  <2>1. CallsFit'
    BY <1>1, <1>3, SaveCall, EndFits DEF CancelStart
  <2>2. diag' \in Tests
    BY <1>1, <1>3 DEF CancelStart, StateOK, Tests
  <2>3. inv' \in Observations({0, Kw})
    BY <1>1, <1>3, Landed DEF CancelStart, StateOK
  <2>4. left' \in [tests : Nat, faults : Nat, smooth : BOOLEAN]
    BY <1>1, <1>3, SpendFits DEF CancelStart
  <2>5. StateOK'
    BY <1>1, <1>3, <2>2, <2>3, <2>4 DEF CancelStart, StateOK, diagSaving, manSaving, auto, Unarmed
  <2> QED
    BY <2>1, <2>5 DEF TypeOK
<1> QED
  BY <1>2, <1>3

LEMMA TypeStop ==
    ASSUME TypeOK, UserStop \/ TimerExpires \/ RetryFires
    PROVE  TypeOK'
<1>1. CallsFit /\ StateOK /\ "stop" \in Diagnostics /\ "retry" \in Diagnostics
      /\ "stop" \in Tasks /\ "retry" \in Tasks /\ task["retry"] \in Calls
  BY DEF TypeOK, CallsFit, Diagnostics, Tasks
<1>2. ASSUME BeginStop
      PROVE  CallsFit' /\ diag' \in Tests
  <2>1. CallsFit'
    BY <1>1, <1>2, SaveFits DEF BeginStop
  <2>2. diag \in Tests /\ diag.gen + 1 \in Nat
    BY <1>1 DEF StateOK, Tests
  <2>3. PICK a \in Nat : diag' = [diag EXCEPT !.gen = diag.gen + 1, !.phase = "stopping",
                                             !.attempts = a]
    BY <1>2, <2>2 DEF BeginStop, Tests
  <2>4. diag' \in Tests
    BY <2>2, <2>3 DEF Tests
  <2> QED
    BY <2>1, <2>4
<1>3. CASE UserStop
  <2>1. left' \in [tests : Nat, faults : Nat, smooth : BOOLEAN]
    BY <1>1, <1>3, SpendFits DEF UserStop
  <2>2. StateOK'
    BY <1>1, <1>2, <1>3, <2>1 DEF UserStop, StateOK, diagSaving, manSaving, auto, Unarmed
  <2> QED
    BY <1>2, <1>3, <2>2 DEF TypeOK, UserStop
<1>4. CASE TimerExpires
  <2>1. CallsFit' /\ diag' \in Tests
    <3>1. CASE BeginStop
      BY <1>2, <3>1
    <3>2. CASE UNCHANGED <<diag, task>>
      BY <1>1, <3>2 DEF CallsFit, StateOK
    <3> QED
      BY <1>4, <3>1, <3>2 DEF TimerExpires
  <2>2. StateOK'
    BY <1>1, <1>4, <2>1 DEF TimerExpires, StateOK, diagSaving, manSaving, auto, Unarmed, entry
  <2> QED
    BY <2>1, <2>2 DEF TypeOK
<1>5. CASE RetryFires
  <2>1. CallsFit'
    <3>1. CASE Goto("retry", "restore")
      <4>1. Fits("retry", [task["retry"] EXCEPT !.pc = "restore"]) /\ "restore" \in Steps
        BY <1>1, <1>5, Names
           DEF RetryFires, At, Fits, Calls, Steps, DiagnosticSteps, SessionSteps, CallsFit
      <4> QED
        BY <1>1, <3>1, <4>1, GotoFits
    <3>2. CASE UNCHANGED task
      BY <1>1, <3>2 DEF CallsFit
    <3> QED
      BY <1>5, <3>1, <3>2 DEF RetryFires
  <2>2. StateOK'
    BY <1>1, <1>5 DEF RetryFires, StateOK, diagSaving, manSaving, auto, Unarmed, entry
  <2> QED
    BY <2>1, <2>2 DEF TypeOK
<1> QED
  BY <1>3, <1>4, <1>5

LEMMA TypeRestoreWith ==
    ASSUME TypeOK, NEW t \in Diagnostics, NEW plan \in Seq(Cmds), At(t, "restore"),
           RestoreWith(t, plan)
    PROVE  /\ CallsFit' /\ diag' \in Tests
           /\ timer' \in Nat \cup {Unarmed} /\ retry' \in Nat \cup {Unarmed}
<1>1. CallsFit /\ StateOK /\ t \in Tasks /\ diag.gen \in Nat /\ <<>> \in Seq(Cmds) /\ diag \in Tests
      /\ timer \in Nat \cup {Unarmed} /\ retry \in Nat \cup {Unarmed}
  BY Names DEF TypeOK, StateOK, Tests
<1>2. CASE ~Testing /\ End(t) /\ UNCHANGED <<diag, timer, retry>>
  BY <1>1, <1>2, EndFits
<1>3. CASE /\ Testing /\ ~Permitted /\ diag' = [diag EXCEPT !.phase = "stopping"]
           /\ task' = [task EXCEPT ![t] = [NoTask EXCEPT !.pc = "save", !.next = "blocked",
                                                         !.gen = diag.gen]]
           /\ UNCHANGED <<timer, retry>>
  <2> DEFINE c == [NoTask EXCEPT !.pc = "save", !.next = "blocked", !.gen = diag.gen]
  <2>1. c \in Calls /\ c.pc = "save" /\ c.next = "blocked"
    BY <1>1 DEF NoTask, Calls, Steps, DiagnosticSteps
  <2>2. Fits(t, c)
    BY <1>1, <2>1, Names DEF Fits, DiagnosticSteps
  <2>3. task' = [task EXCEPT ![t] = c]
    BY <1>3
  <2> HIDE DEF c
  <2>4. CallsFit'
    BY <1>1, <2>1, <2>2, <2>3, Put
  <2>5. diag' \in Tests
    BY <1>1, <1>3 DEF Tests
  <2> QED
    BY <1>1, <1>3, <2>4, <2>5
<1>4. CASE /\ diag' = [NoTest EXCEPT !.gen = diag.gen, !.wgen = diag.wgen]
           /\ timer' = Unarmed /\ retry' = Unarmed /\ SaveThen(t, "finish")
  BY <1>1, <1>4, SaveFits DEF Tests, NoTest
<1>5. CASE /\ diag' = [diag EXCEPT !.phase = "restore_failed"] /\ SaveThen(t, "finish")
           /\ UNCHANGED <<timer, retry>>
  BY <1>1, <1>5, SaveFits DEF Tests
<1>6. CASE /\ diag' = [diag EXCEPT !.phase = "stopping", !.attempts = @ + 1] /\ Reconciles(t, plan)
           /\ UNCHANGED <<timer, retry>>
  <2>1. CallsFit'
    BY <1>1, <1>6, SaveCall DEF Reconciles
  <2>2. diag.attempts + 1 \in Nat
    BY <1>1 DEF Tests
  <2>3. diag' \in Tests
    BY <1>1, <1>6, <2>2 DEF Tests
  <2> QED
    BY <1>1, <1>6, <2>1, <2>3
<1> QED
  BY <1>2, <1>3, <1>4, <1>5, <1>6 DEF RestoreWith

LEMMA TypeDiagnostic ==
    ASSUME TypeOK, NEW t \in Diagnostics, Diagnostic(t)
    PROVE  TypeOK'
<1>1. CallsFit /\ StateOK /\ t \in Tasks /\ task[t] \in Calls /\ Fits(t, task[t]) /\ diag \in Tests
      /\ diag.gen \in Nat
  BY Names DEF TypeOK, CallsFit, StateOK, Tests
<1>2. CASE Restore(t)
  <2>1. PICK plan \in Seq(Cmds) : RestoreWith(t, plan)
    BY <1>1, <1>2, Plans DEF Restore
  <2>2. /\ CallsFit' /\ diag' \in Tests
        /\ timer' \in Nat \cup {Unarmed} /\ retry' \in Nat \cup {Unarmed}
    BY <1>2, <2>1, TypeRestoreWith DEF Restore
  <2>3. left' \in [tests : Nat, faults : Nat, smooth : BOOLEAN]
    BY <1>1, <1>2, SpendFits DEF Restore, StateOK
  <2>4. StateOK'
    BY <1>1, <1>2, <2>2, <2>3 DEF Restore, StateOK, diagSaving, manSaving, auto
  <2> QED
    BY <2>2, <2>4 DEF TypeOK
<1>3. CASE RestoreLocks(t) \/ (t = "start" /\ StartLocks)
  <2>1. Fits(t, [task[t] EXCEPT !.pc = "exec"]) /\ "exec" \in Steps
    BY <1>1, <1>3, Names DEF RestoreLocks, StartLocks, At, Fits, Calls, Steps, DiagnosticSteps
  <2>2. CallsFit'
    BY <1>1, <1>3, <2>1, GotoFits, EndFits DEF RestoreLocks, StartLocks
  <2>3. diag' \in Tests
    BY <1>1, <1>3 DEF RestoreLocks, StartLocks, Tests
  <2>4. StateOK'
    BY <1>1, <1>3, <2>3
       DEF RestoreLocks, StartLocks, StateOK, diagSaving, callbacks, manSaving, auto, entry
  <2> QED
    BY <2>2, <2>4 DEF TypeOK
<1>4. CASE RestoreContinues(t)
  <2>1. CallsFit'
    BY <1>1, <1>4, SaveFits, EndFits DEF RestoreContinues
  <2>2. /\ inv' \in Observations({0, Kw})
        /\ left' \in [tests : Nat, faults : Nat, smooth : BOOLEAN]
    BY <1>1, <1>4, Ended DEF RestoreContinues
  <2>3. retry' \in Nat \cup {Unarmed}
    BY <1>1, <1>4 DEF RestoreContinues, Schedule, StateOK
  <2>4. StateOK'
    BY <1>1, <1>4, <2>2, <2>3 DEF RestoreContinues, StateOK, diagSaving, manSaving, auto
  <2> QED
    BY <2>1, <2>4 DEF TypeOK
<1>5. CASE RestoreEnds(t) \/ (t = "start" /\ (Arm \/ Cleanup))
  <2>1. CallsFit'
    BY <1>1, <1>5, EndFits DEF RestoreEnds, Arm, Cleanup
  <2>2. retry' \in Nat \cup {Unarmed} /\ timer' \in Nat \cup {Unarmed}
    BY <1>1, <1>5 DEF RestoreEnds, Schedule, StateOK, Arm, Cleanup
  <2>3. StateOK'
    BY <1>1, <1>5, <2>2
       DEF RestoreEnds, Arm, Cleanup, StateOK, diagSaving, manSaving, auto, entry
  <2> QED
    BY <2>1, <2>3 DEF TypeOK
<1>6. CASE t = "start" /\ StartContinues
  <2>1. CallsFit'
    BY <1>1, <1>6, SaveFits, EndFits DEF StartContinues
  <2>2. /\ inv' \in Observations({0, Kw})
        /\ left' \in [tests : Nat, faults : Nat, smooth : BOOLEAN]
    BY <1>1, <1>6, Ended DEF StartContinues
  <2>3. diag' \in Tests
    BY <1>1, <1>6 DEF StartContinues, Tests
  <2>4. StateOK'
    BY <1>1, <1>6, <2>2, <2>3
       DEF StartContinues, StateOK, diagSaving, callbacks, manSaving, auto
  <2> QED
    BY <2>1, <2>4 DEF TypeOK
<1> QED
  BY <1>2, <1>3, <1>4, <1>5, <1>6 DEF Diagnostic

LEMMA LeaveFits ==
    ASSUME CallsFit, NEW t \in Sessions, LeaveNext(t)
    PROVE  CallsFit'
<1>1. t \in Tasks /\ t \notin Diagnostics /\ task[t] \in Calls /\ Fits(t, task[t])
  BY Names DEF CallsFit
<1>2. Fits(t, [task[t] EXCEPT !.pc = "leave"]) /\ "leave" \in Steps
  BY <1>1 DEF Fits, Calls, Steps, SessionSteps
<1>3. Goto(t, "leave")
  BY DEF LeaveNext, Goto
<1> QED
  BY <1>1, <1>2, <1>3, GotoFits

LEMMA TypeCompare ==
    ASSUME TypeOK, NEW t \in Sessions, NEW m \in ManualSessions,
           CompareFrom(t, m) \/ ConfirmFrom(t, m)
    PROVE  CallsFit' /\ man' \in ManualSessions
<1>1. CallsFit /\ StateOK /\ t \in Tasks /\ task[t] \in Calls
  BY Names DEF TypeOK, CallsFit
<1>2. ASSUME ConfirmFrom(t, m)
      PROVE  CallsFit' /\ man' \in ManualSessions
  <2> DEFINE c == [task[t] EXCEPT !.pc = "persist", !.next = "release", !.gen = m.gen]
  <2>1. CallsFit'
    <3>1. task' = [task EXCEPT ![t] = c]
      BY <1>1, <1>2 DEF ConfirmFrom, CallsFit
    <3>2. c \in Calls /\ c.pc = "persist" /\ c.next = "release"
      BY <1>1 DEF Calls, Steps, SessionSteps, ManualSessions
    <3> HIDE DEF c
    <3> QED
      BY <1>1, <3>1, <3>2, PersistFits
  <2>2. man' \in ManualSessions
    BY <1>2 DEF ConfirmFrom, ManualSessions, SessionPhases
  <2> QED
    BY <2>1, <2>2
<1>3. CASE LeaveNext(t) /\ man' = m
  BY <1>1, <1>3, LeaveFits
<1>4. CASE /\ man' = [m EXCEPT !.phase = "confirming"]
           /\ task' = [task EXCEPT ![t].pc = "persist", ![t].next = "go", ![t].gen = m.gen,
                                   ![t].plan = PlanFoxessCommands(Decision, inv, Kw)]
  <2> DEFINE p == PlanFoxessCommands(Decision, inv, Kw)
             c == [task[t] EXCEPT !.pc = "persist", !.next = "go", !.gen = m.gen, !.plan = p]
  <2>1. p \in Seq(Cmds) /\ m.gen \in Nat
    BY <1>1, Plans DEF ManualSessions
  <2>2. task' = [task EXCEPT ![t] = c]
    BY <1>1, <1>4 DEF CallsFit
  <2> HIDE DEF p
  <2>3. c \in Calls /\ c.pc = "persist" /\ c.next = "go"
    BY <1>1, <2>1 DEF Calls, Steps, SessionSteps
  <2> HIDE DEF c
  <2>4. CallsFit'
    BY <1>1, <2>2, <2>3, PersistFits
  <2>5. man' \in ManualSessions
    BY <1>4 DEF ManualSessions, SessionPhases
  <2> QED
    BY <2>4, <2>5
<1> QED
  BY <1>2, <1>3, <1>4 DEF CompareFrom

LEMMA TypeRelinquish ==
    ASSUME TypeOK, NEW t \in Sessions, RelinquishFrom(t)
    PROVE  /\ CallsFit' /\ man' \in ManualSessions /\ diag' \in Tests
           /\ timer' \in Nat \cup {Unarmed} /\ retry' \in Nat \cup {Unarmed}
<1>1. CallsFit /\ StateOK /\ t \in Tasks /\ task[t] \in Calls /\ man \in ManualSessions
      /\ diag \in Tests /\ man.gen \in Nat /\ t \notin Diagnostics
  BY Names DEF TypeOK, CallsFit, StateOK, ManualSessions
<1>2. CASE CompareFrom(t, man) /\ UNCHANGED <<diag, timer, retry>>
  BY <1>1, <1>2, TypeCompare DEF StateOK
<1>3. CASE /\ diag' = [NoTest EXCEPT !.gen = diag.gen + 1, !.wgen = diag.wgen]
           /\ timer' = Unarmed /\ retry' = Unarmed /\ UNCHANGED man
           /\ task' = [task EXCEPT ![t].pc = "save", ![t].next = "surrender", ![t].gen = man.gen]
  <2> DEFINE c == [task[t] EXCEPT !.pc = "save", !.next = "surrender", !.gen = man.gen]
  <2>1. task' = [task EXCEPT ![t] = c]
    BY <1>1, <1>3 DEF CallsFit
  <2>2. c \in Calls /\ Fits(t, c)
    BY <1>1 DEF Calls, Steps, SessionSteps, Fits
  <2> HIDE DEF c
  <2>3. CallsFit'
    BY <1>1, <2>1, <2>2, Put
  <2>4. diag.gen + 1 \in Nat /\ diag.wgen \in Nat
    BY <1>1 DEF Tests
  <2>5. diag' \in Tests
    BY <1>3, <2>4 DEF Tests, NoTest
  <2> QED
    BY <1>1, <1>3, <2>3, <2>5
<1> QED
  BY <1>2, <1>3 DEF RelinquishFrom

LEMMA TypeFence ==
    ASSUME TypeOK, NEW t \in Sessions, Fence(t)
    PROVE  TypeOK'
<1>1. CallsFit /\ StateOK /\ t \in Tasks /\ task[t] \in Calls /\ man.gen \in Nat
  BY Names DEF TypeOK, CallsFit, StateOK, ManualSessions
<1>2. /\ CallsFit' /\ man' \in ManualSessions /\ diag' \in Tests
      /\ timer' \in Nat \cup {Unarmed} /\ retry' \in Nat \cup {Unarmed}
  <2>1. CASE LeaveNext(t) /\ UNCHANGED <<man, diag, timer, retry>>
    BY <1>1, <2>1, LeaveFits DEF StateOK
  <2>2. CASE /\ task' = [task EXCEPT ![t].pc = "persist", ![t].next = "relinquish",
                                      ![t].gen = man.gen]
             /\ UNCHANGED <<man, diag, timer, retry>>
    <3> DEFINE c == [task[t] EXCEPT !.pc = "persist", !.next = "relinquish", !.gen = man.gen]
    <3>1. task' = [task EXCEPT ![t] = c]
      BY <1>1, <2>2 DEF CallsFit
    <3>2. c \in Calls /\ c.pc = "persist" /\ c.next = "relinquish"
      BY <1>1 DEF Calls, Steps, SessionSteps
    <3> HIDE DEF c
    <3>3. CallsFit'
      BY <1>1, <3>1, <3>2, PersistFits
    <3> QED
      BY <1>1, <2>2, <3>3 DEF StateOK
  <2>3. CASE RelinquishFrom(t)
    BY <2>3, TypeRelinquish
  <2> QED
    BY <2>1, <2>2, <2>3 DEF Fence
<1>3. StateOK'
  BY <1>1, <1>2 DEF Fence, StateOK, diagSaving, manSaving, auto, entry
<1> QED
  BY <1>2, <1>3 DEF TypeOK

LEMMA TypeHandoff ==
    ASSUME TypeOK, NEW t \in Tasks, Handoff(t)
    PROVE  TypeOK'
<1>1. CallsFit /\ StateOK /\ task[t] \in Calls /\ Fits(t, task[t]) /\ man \in ManualSessions
      /\ man.gen \in Nat /\ man.stamp \in Nat
  BY DEF TypeOK, CallsFit, StateOK, ManualSessions
<1>2. t \in Sessions /\ t \notin Diagnostics
  BY <1>1, Names
     DEF Handoff, RequestLocks, Leave, Relinquish, Surrender, Go, Executed, ReleaseHold, At, Fits,
         DiagnosticSteps
<1>3. CASE RequestLocks(t)
  BY <1>2, <1>3, TypeFence DEF RequestLocks
<1>4. CASE Leave(t)
  <2>1. CallsFit'
    BY <1>1, <1>4, EndFits DEF Leave
  <2>2. StateOK'
    BY <1>1, <1>4 DEF Leave, StateOK, diagSaving, callbacks, manSaving, auto
  <2> QED
    BY <2>1, <2>2 DEF TypeOK
<1>5. CASE Relinquish(t)
  <2>1. /\ CallsFit' /\ man' \in ManualSessions /\ diag' \in Tests
        /\ timer' \in Nat \cup {Unarmed} /\ retry' \in Nat \cup {Unarmed}
    <3>1. CASE RelinquishFrom(t)
      BY <1>2, <3>1, TypeRelinquish
    <3>2. CASE LeaveNext(t) /\ UNCHANGED <<man, diag, timer, retry>>
      BY <1>1, <1>2, <3>2, LeaveFits DEF StateOK
    <3> QED
      BY <1>5, <3>1, <3>2 DEF Relinquish
  <2>2. StateOK'
    BY <1>1, <1>5, <2>1 DEF Relinquish, StateOK, diagSaving, manSaving, auto, entry
  <2> QED
    BY <2>1, <2>2 DEF TypeOK
<1>6. CASE Surrender(t)
  <2>1. CallsFit' /\ man' \in ManualSessions
    <3>1. CASE Goto(t, "surrendered") /\ UNCHANGED man
      <4>1. Fits(t, [task[t] EXCEPT !.pc = "surrendered"]) /\ "surrendered" \in Steps
        BY <1>1, <1>2 DEF Fits, Calls, Steps, SessionSteps
      <4> QED
        BY <1>1, <3>1, <4>1, GotoFits
    <3>2. CASE CompareFrom(t, [man EXCEPT !.relinquished = man.gen])
      <4>1. [man EXCEPT !.relinquished = man.gen] \in ManualSessions
        BY <1>1 DEF ManualSessions
      <4> QED
        BY <1>2, <3>2, <4>1, TypeCompare
    <3>3. CASE LeaveNext(t) /\ UNCHANGED man
      BY <1>1, <1>2, <3>3, LeaveFits
    <3> QED
      BY <1>6, <3>1, <3>2, <3>3 DEF Surrender
  <2>2. StateOK'
    BY <1>1, <1>6, <2>1 DEF Surrender, StateOK, diagSaving, callbacks, manSaving, entry
  <2> QED
    BY <2>1, <2>2 DEF TypeOK
<1>7. CASE Go(t)
  <2>1. CallsFit'
    <3>1. Fits(t, [task[t] EXCEPT !.pc = "exec"]) /\ "exec" \in Steps
      BY <1>1, <1>2 DEF Fits, Calls, Steps, SessionSteps
    <3> QED
      BY <1>1, <1>2, <1>7, <3>1, GotoFits, LeaveFits DEF Go
  <2>2. StateOK'
    BY <1>1, <1>7 DEF Go, StateOK, diagSaving, callbacks, manSaving, auto, entry
  <2> QED
    BY <2>1, <2>2 DEF TypeOK
<1>8. CASE Executed(t)
  <2>1. CallsFit' /\ man' \in ManualSessions
    BY <1>1, <1>2, <1>8, TypeCompare, LeaveFits DEF Executed
  <2>2. /\ inv' \in Observations({0, Kw})
        /\ left' \in [tests : Nat, faults : Nat, smooth : BOOLEAN]
    BY <1>1, <1>8, Ended DEF Executed
  <2>3. StateOK'
    BY <1>1, <1>8, <2>1, <2>2 DEF Executed, StateOK, diagSaving, callbacks, manSaving, auto
  <2> QED
    BY <2>1, <2>3 DEF TypeOK
<1>9. CASE ReleaseHold(t)
  <2>1. CallsFit' /\ man' \in ManualSessions
    <3>1. CASE man' = [man EXCEPT !.phase = "pending"] /\ PersistThen(t, "leave")
      BY <1>1, <1>2, <3>1, PersistThenFits DEF ManualSessions, SessionPhases
    <3>2. CASE UNCHANGED man /\ LeaveNext(t)
      BY <1>1, <1>2, <3>2, LeaveFits
    <3>3. CASE man' = [man EXCEPT !.hold = man.target # "automatic"] /\ LeaveNext(t)
      <4>1. CallsFit'
        BY <1>1, <1>2, <3>3, LeaveFits
      <4>2. man' \in ManualSessions
        BY <1>1, <3>3 DEF ManualSessions
      <4> QED
        BY <4>1, <4>2
    <3> QED
      BY <1>9, <3>1, <3>2, <3>3 DEF ReleaseHold
  <2>2. StateOK'
    BY <1>1, <1>9, <2>1 DEF ReleaseHold, StateOK, diagSaving, callbacks, manSaving, auto, entry
  <2> QED
    BY <2>1, <2>2 DEF TypeOK
<1> QED
  BY <1>3, <1>4, <1>5, <1>6, <1>7, <1>8, <1>9 DEF Handoff

LEMMA TypeAdmit ==
    ASSUME TypeOK, NEW r \in Requests, NEW t \in Sessions, Admit(t, r)
    PROVE  TypeOK'
<1>1. CallsFit /\ StateOK /\ man \in ManualSessions /\ man.gen + 1 \in Nat
      /\ r.stamp \in Nat /\ r.target \in Targets
  BY ManualAssumption DEF TypeOK, StateOK, ManualSessions
<1>2. CallsFit'
  BY <1>1, PersistThenFits DEF Admit
<1>3. man' \in ManualSessions
  <2>1. man' = [man EXCEPT !.hold = TRUE, !.target = r.target, !.phase = "pending",
                           !.gen = man.gen + 1, !.stamp = r.stamp, !.trusted = TRUE]
    BY DEF Admit
  <2> QED
    BY <1>1, <2>1 DEF ManualSessions, SessionPhases
<1>4. StateOK'
  BY <1>1, <1>3 DEF Admit, StateOK, diagSaving, callbacks, manSaving, auto, entry
<1> QED
  BY <1>2, <1>4 DEF TypeOK

LEMMA TypeTick ==
    ASSUME TypeOK, Tick \/ StoreSession
    PROVE  TypeOK'
<1>1. CallsFit /\ StateOK /\ "tick" \in Sessions /\ "tick" \in Tasks /\ "tick" \notin Diagnostics
      /\ task["tick"] \in Calls /\ Fits("tick", task["tick"])
  BY Names DEF TypeOK, CallsFit, Sessions
<1>2. CASE Tick /\ man.hold /\ Fence("tick")
  BY <1>1, <1>2, TypeFence
<1>3. CASE Tick /\ ~man.hold /\ AutomaticTurn
  <2>1. CallsFit'
    <3>1. ASSUME NEW p \in Seq(Cmds),
                 task' = [task EXCEPT !["tick"].pc = "store", !["tick"].plan = p]
          PROVE  CallsFit'
      <4> DEFINE c == [task["tick"] EXCEPT !.pc = "store", !.plan = p]
      <4>1. task' = [task EXCEPT !["tick"] = c]
        BY <1>1, <3>1 DEF CallsFit
      <4>2. c \in Calls /\ Fits("tick", c)
        BY <1>1, <3>1 DEF Calls, Steps, SessionSteps, Fits
      <4> HIDE DEF c
      <4> QED
        BY <1>1, <4>1, <4>2, Put
    <3>2. Fits("tick", [task["tick"] EXCEPT !.pc = "store"]) /\ "store" \in Steps
      BY <1>1 DEF Fits, Calls, Steps, SessionSteps
    <3> QED
      BY <1>1, <1>3, <3>1, <3>2, GotoFits, Plans DEF AutomaticTurn
  <2>2. StateOK'
    <3>1. Tick /\ AutomaticTurn /\ UNCHANGED <<inv, diag, diagSaving, callbacks, man, manSaving,
                                               sessDisk, entry>>
      BY <1>3 DEF Tick
    <3> QED
      BY <1>1, <3>1 DEF AutomaticTurn, StateOK, diagSaving, callbacks, manSaving, entry
  <2> QED
    BY <2>1, <2>2 DEF TypeOK
<1>4. CASE StoreSession
  <2>1. CallsFit'
    <3>1. Fits("tick", [task["tick"] EXCEPT !.pc = "exec"]) /\ "exec" \in Steps
      BY <1>1 DEF Fits, Calls, Steps, SessionSteps
    <3> QED
      BY <1>1, <1>4, <3>1, GotoFits DEF StoreSession
  <2>2. StateOK'
    BY <1>1, <1>4 DEF StoreSession, StateOK, diagSaving, callbacks, manSaving, entry
  <2> QED
    BY <2>1, <2>2 DEF TypeOK
<1> QED
  BY <1>2, <1>3, <1>4 DEF Tick

LEMMA TypeSetup ==
    ASSUME TypeOK, Setup \/ Unload \/ UnloadTest \/ Unloaded
    PROVE  TypeOK'
<1>1. CallsFit /\ StateOK /\ "boot" \in Diagnostics /\ man \in ManualSessions /\ diag \in Tests
      /\ diagDisk \in Checkpoints /\ manDisk \in Pages \cup {Malformed}
  BY DEF TypeOK, StateOK, Diagnostics
<1>2. CASE RestoreHandoff
  <2>1. man' \in ManualSessions
    BY <1>1, <1>2
       DEF RestoreHandoff, ManualSessions, Pages, NoSession, NoPage, Malformed, Targets,
           SessionPhases
  <2>2. StateOK' /\ CallsFit'
    BY <1>1, <1>2, <2>1
       DEF RestoreHandoff, StateOK, diagSaving, callbacks, manSaving, auto, Lives, CallsFit
  <2> QED
    BY <2>2 DEF TypeOK
<1>3. CASE LoadTest
  <2>1. CallsFit'
    BY <1>1, <1>3, SaveFits DEF LoadTest, CallsFit
  <2>2. diag' \in Tests
    BY <1>1, <1>3 DEF LoadTest, Tests, Checkpoints, NoTest
  <2>3. StateOK'
    BY <1>1, <1>3, <2>2
       DEF LoadTest, StateOK, diagSaving, callbacks, manSaving, auto, Lives
  <2> QED
    BY <2>1, <2>3 DEF TypeOK
<1>4. CASE TestLoaded \/ LoadSessions
  <2>1. StateOK' /\ CallsFit'
    BY <1>1, <1>4
       DEF TestLoaded, LoadSessions, StateOK, diagSaving, callbacks, manSaving, auto, Lives,
           CallsFit
  <2> QED
    BY <2>1 DEF TypeOK
<1>5. CASE Unload
  <2>1. man' \in ManualSessions
    BY <1>1, <1>5 DEF Unload, ManualSessions
  <2>2. left' \in [tests : Nat, faults : Nat, smooth : BOOLEAN]
    BY <1>1, <1>5, SpendFits DEF Unload
  <2>3. StateOK' /\ CallsFit'
    BY <1>1, <1>5, <2>1, <2>2
       DEF Unload, StateOK, diagSaving, callbacks, manSaving, auto, Lives, CallsFit
  <2> QED
    BY <2>3 DEF TypeOK
<1>6. CASE UnloadTest
  <2>1. CallsFit'
    BY <1>1, <1>6, SaveFits DEF UnloadTest, CallsFit
  <2>2. diag' \in Tests /\ manDisk' \in Pages \cup {Malformed}
    BY <1>1, <1>6, Records DEF UnloadTest, Tests
  <2>3. StateOK'
    BY <1>1, <1>6, <2>2 DEF UnloadTest, StateOK, diagSaving, auto, Lives, Unarmed
  <2> QED
    BY <2>1, <2>3 DEF TypeOK
<1>7. CASE Unloaded
  BY <1>1, <1>7, ForgetFits DEF Unloaded, StateOK
<1> QED
  BY <1>2, <1>3, <1>4, <1>5, <1>6, <1>7 DEF Setup

LEMMA TypeFault ==
    ASSUME TypeOK, Crash \/ ChangeGate \/ Corrupt
    PROVE  TypeOK'
<1>1. CallsFit /\ StateOK
  BY DEF TypeOK
<1>2. CASE Crash
  <2>1. inv' \in Observations({0, Kw})
    BY <1>1, <1>2, Landed DEF Crash, StateOK
  <2> QED
    BY <1>1, <1>2, <2>1, ForgetFits, SpendFits DEF Crash
<1>3. CASE ChangeGate
  <2>1. left' \in [tests : Nat, faults : Nat, smooth : BOOLEAN]
    BY <1>1, <1>3, SpendFits DEF ChangeGate, StateOK
  <2>2. StateOK' /\ CallsFit'
    BY <1>1, <1>3, <2>1
       DEF ChangeGate, StateOK, diagSaving, callbacks, manSaving, auto, CallsFit
  <2> QED
    BY <2>2 DEF TypeOK
<1>4. CASE Corrupt
  <2>1. left' \in [tests : Nat, faults : Nat, smooth : BOOLEAN]
    BY <1>1, <1>4, SpendFits DEF Corrupt
  <2>2. StateOK' /\ CallsFit'
    BY <1>1, <1>4, <2>1
       DEF Corrupt, StateOK, diagSaving, callbacks, auto, CallsFit
  <2> QED
    BY <2>2 DEF TypeOK
<1> QED
  BY <1>2, <1>3, <1>4

LEMMA TypeInit == Init => TypeOK
<1> SUFFICES ASSUME Init PROVE TypeOK
  OBVIOUS
<1>1. CallsFit
  BY Names DEF Init, CallsFit
<1>2. NoTest \in Tests /\ NoSession \in ManualSessions /\ NoPage \in Pages
      /\ Journal(NoTest) \in Checkpoints /\ SelfUseObservation \in Observations({0, Kw})
  BY DEF NoTest, Tests, NoSession, ManualSessions, NoPage, Pages, Journal, Checkpoints, Targets,
         SessionPhases, SelfUseObservation, Observations, Modes
<1>3. Budget.tests \in Nat /\ Budget.faults \in Nat
  BY ManualAssumption DEF BudgetType
<1>4. StateOK
  BY <1>2, <1>3 DEF Init, StateOK, Lives, Unarmed
<1> QED
  BY <1>1, <1>4 DEF TypeOK

\* The actions of Next, one by one, for the proofs that follow.
Turn(t) ==
    \/ TakeSave(t) \/ SaveDone(t) \/ TakePersist(t) \/ PersistDone(t)
    \/ SendCommand(t) \/ CommandLands(t)
    \/ RequestLocks(t) \/ Leave(t) \/ Relinquish(t) \/ Surrender(t)
    \/ Go(t) \/ Executed(t) \/ ReleaseHold(t)
    \/ t \in Diagnostics /\ (Restore(t) \/ RestoreLocks(t) \/ RestoreContinues(t) \/ RestoreEnds(t))
    \/ t = "start" /\ (StartLocks \/ StartContinues \/ Arm \/ Cleanup)
    \/ t = "tick" /\ StoreSession
Event ==
    \/ \E r \in Requests, t \in {"req1", "req2"} : Admit(t, r)
    \/ StartTest("charge") \/ UserStop \/ TimerExpires \/ RetryFires \/ Tick
    \/ RestoreHandoff \/ LoadTest \/ TestLoaded \/ LoadSessions \/ UnloadTest \/ Unloaded
    \/ CancelStart \/ Crash \/ Unload \/ ChangeGate \/ Corrupt
    \/ \E t \in Tasks : SaveFails(t) \/ PersistFails(t)

LEMMA Cases ==
    ASSUME Next
    PROVE  (\E t \in Tasks : Turn(t)) \/ (AllWait /\ Event)
<1>1. CASE \E t \in Tasks : Resume(t)
  BY <1>1 DEF Resume, Turn, Store, Handoff, Diagnostic
<1>2. CASE AllWait /\ Operator
  BY <1>2 DEF Operator, NextCall, Event
<1>3. CASE AllWait /\ (User \/ Clock \/ Setup \/ UnloadTest \/ Unloaded \/ Fault)
  BY <1>3 DEF User, Clock, Setup, Fault, Event, StoreFails
<1> QED
  BY <1>1, <1>2, <1>3 DEF Next

LEMMA TypeStep == TypeOK /\ [Next]_vars => TypeOK'
<1> SUFFICES ASSUME TypeOK, [Next]_vars PROVE TypeOK'
  OBVIOUS
<1>1. ASSUME NEW t \in Tasks, Turn(t)
      PROVE  TypeOK'
  BY <1>1, TypeStore, TypeSend, TypeHandoff, TypeDiagnostic, TypeTick
     DEF Turn, Store, Handoff, Diagnostic, Diagnostics
<1>2. CASE Event
  <2>1. "req1" \in Sessions /\ "req2" \in Sessions
    BY DEF Sessions
  <2> QED
    BY <1>2, <2>1, TypeAdmit, TypeStartTest, TypeStop, TypeTick, TypeSetup, TypeFault,
       TypeStoreFails
       DEF Event, Setup, StoreFails
<1>3. CASE UNCHANGED vars
  BY <1>3
     DEF vars, TypeOK, StateOK, CallsFit, Fits
<1> QED
  BY <1>1, <1>2, <1>3, Cases

\* Every reachable state has the types of the code's fields, and a call of the test or
\* of the session is only ever at a step of its own.
THEOREM TypeInvariant == Spec => []TypeOK
BY TypeInit, TypeStep, PTL DEF Spec

-------------------------------------------------------------------------------
(* The order of the requests. *)

\* While the configuration entry is not set up there is no session and no call.
Asleep == life = "down" => /\ man = NoSession /\ writer = "none"
                           /\ \A t \in Tasks : task[t] = NoTask

\* A session whose journal was not readable is fenced, and does nothing before a
\* request.
Untrusted ==
    ~man.trusted =>
        /\ man.hold
        /\ \A t \in Sessions : task[t].pc \in {"idle", "leave"}

\* The page that is being written is not older than what was answered, and it is the
\* session itself unless a request was admitted during the write.
Written ==
    writer # "none" =>
        /\ page.stamp >= acked /\ page.gen <= man.gen
        /\ page.gen = man.gen => page.stamp = man.stamp
        /\ page.gen # man.gen => man.durable # man.gen

\* What was answered is in the journal and in the session restored from it.
OrderInv ==
    /\ Asleep /\ Untrusted /\ Written
    /\ \A t \in Tasks : At(t, "persisting") => writer = t
    /\ manDisk.stamp >= acked
    /\ life # "down" => man.stamp >= acked
    /\ man.durable <= man.gen
    /\ man.durable = man.gen => manDisk.stamp = man.stamp

\* A turn that neither writes the journal nor answers a request keeps the session's
\* stamp, generation and trust, and moves one call.  The tick does the same.
LEMMA Moves ==
    ASSUME TypeOK, NEW t \in Tasks, Turn(t) \/ (t = "tick" /\ Tick),
           ~TakePersist(t), ~PersistDone(t), ~Leave(t)
    PROVE  /\ UNCHANGED <<life, manDisk, writer, page, acked>>
           /\ man'.stamp = man.stamp /\ man'.gen = man.gen /\ man'.durable = man.durable
           /\ man'.trusted = man.trusted /\ (~At(t, "release") => man'.hold = man.hold)
           /\ \A u \in Tasks \ {t} : task'[u] = task[u]
           /\ task'[t].pc # "persisting"
           /\ task[t].pc # "idle" \/ life = "up"
<1> DEFINE Same(m) == /\ m.stamp = man.stamp /\ m.gen = man.gen /\ m.durable = man.durable
                      /\ m.trusted = man.trusted /\ (~At(t, "release") => m.hold = man.hold)
           One == (\A u \in Tasks \ {t} : task'[u] = task[u]) /\ task'[t].pc # "persisting"
           P == UNCHANGED <<life, manDisk, writer, page, acked>> /\ Same(man') /\ One
                  /\ (task[t].pc # "idle" \/ life = "up")
<1>1. CallsFit /\ task \in [Tasks -> Calls] /\ task[t] \in Calls /\ Fits(t, task[t])
      /\ man \in ManualSessions
  BY DEF TypeOK, CallsFit, StateOK
<1>2. ASSUME NEW s, s # "persisting", Goto(t, s)
      PROVE  One
  BY <1>1, <1>2 DEF Goto, Calls
<1>3. ASSUME NEW s, SaveThen(t, s) \/ PersistThen(t, s) \/ End(t) \/ LeaveNext(t)
      PROVE  One
  <2>1. CASE SaveThen(t, s)
    BY <1>1, <2>1 DEF SaveThen, Calls
  <2>2. CASE PersistThen(t, s)
    BY <1>1, <2>2 DEF PersistThen, Calls
  <2>3. CASE End(t)
    BY <1>1, <2>3 DEF End, NoTask
  <2>4. CASE LeaveNext(t)
    BY <1>1, <2>4 DEF LeaveNext, Calls
  <2> QED
    BY <1>3, <2>1, <2>2, <2>3, <2>4
<1>4. ASSUME NEW m \in ManualSessions, Same(m), CompareFrom(t, m) \/ ConfirmFrom(t, m)
      PROVE  One /\ Same(man')
  <2>1. CASE ConfirmFrom(t, m)
    <3>1. One
      BY <1>1, <2>1 DEF ConfirmFrom, Calls
    <3>2. Same(man')
      BY <1>4, <2>1 DEF ConfirmFrom, ManualSessions
    <3> QED
      BY <3>1, <3>2
  <2>2. CASE LeaveNext(t) /\ man' = m
    BY <1>3, <1>4, <2>2
  <2>3. CASE /\ man' = [m EXCEPT !.phase = "confirming"]
             /\ task' = [task EXCEPT ![t].pc = "persist", ![t].next = "go", ![t].gen = m.gen,
                                     ![t].plan = PlanFoxessCommands(Decision, inv, Kw)]
    <3>1. One
      BY <1>1, <2>3 DEF Calls
    <3>2. Same(man')
      BY <1>4, <2>3 DEF ManualSessions
    <3> QED
      BY <3>1, <3>2
  <2> QED
    BY <1>4, <2>1, <2>2, <2>3 DEF CompareFrom
<1>5. ASSUME RelinquishFrom(t)
      PROVE  One /\ Same(man')
  <2>1. CASE /\ UNCHANGED man
             /\ task' = [task EXCEPT ![t].pc = "save", ![t].next = "surrender", ![t].gen = man.gen]
    BY <1>1, <2>1 DEF Calls
  <2>2. CASE CompareFrom(t, man)
    BY <1>1, <1>4, <2>2
  <2> QED
    BY <1>5, <2>1, <2>2 DEF RelinquishFrom
<1> HIDE DEF One, Same
<1>6. Same(man)
  BY DEF Same
<1>7. ASSUME Fence(t)
      PROVE  One /\ Same(man')
  <2>1. CASE task' = [task EXCEPT ![t].pc = "persist", ![t].next = "relinquish",
                                  ![t].gen = man.gen] /\ UNCHANGED man
    BY <1>1, <1>6, <2>1 DEF One, Same, Calls
  <2>2. CASE LeaveNext(t) /\ UNCHANGED man
    BY <1>3, <1>6, <2>2
  <2>3. CASE RelinquishFrom(t)
    BY <1>5, <2>3
  <2> QED
    BY <1>7, <2>1, <2>2, <2>3 DEF Fence
<1>8. ASSUME t = "tick", Tick
      PROVE  P
  <2>1. CASE Fence(t)
    BY <1>7, <1>8, <2>1 DEF Fence, Tick, manSaving, entry
  <2>2. CASE ~man.hold /\ AutomaticTurn /\ UNCHANGED <<man, manSaving, entry>>
    <3>1. One
      BY <1>1, <1>2, <1>8, <2>2 DEF AutomaticTurn, One, Calls
    <3> QED
      BY <1>6, <1>8, <2>2, <3>1 DEF Tick, manSaving, entry
  <2> QED
    BY <1>8, <2>1, <2>2 DEF Tick
<1>9. ASSUME TakeSave(t)
      PROVE  P
  BY <1>2, <1>6, <1>9 DEF TakeSave, At, manSaving, entry
<1>10. ASSUME SaveDone(t)
       PROVE  P
  <2>1. task[t].next # "persisting" /\ task[t].pc # "idle"
    BY <1>1, <1>10 DEF SaveDone, At, Fits
  <2> QED
    BY <1>2, <1>6, <1>10, <2>1 DEF SaveDone, manSaving, entry
<1>11. ASSUME SendCommand(t)
       PROVE  P
  BY <1>2, <1>6, <1>11 DEF SendCommand, At, manSaving, entry
<1>12. ASSUME CommandLands(t)
       PROVE  P
  <2>1. One
    BY <1>1, <1>12 DEF CommandLands, One, Calls
  <2> QED
    BY <1>6, <1>12, <2>1 DEF CommandLands, At, manSaving, entry
<1>13. ASSUME RequestLocks(t)
       PROVE  P
  <2>1. One /\ Same(man')
    BY <1>13, <1>7 DEF RequestLocks
  <2> QED
    BY <1>13, <2>1 DEF RequestLocks, Fence, At, manSaving, entry
<1>14. ASSUME Relinquish(t)
       PROVE  P
  <2>1. One /\ Same(man')
    BY <1>3, <1>5, <1>6, <1>14 DEF Relinquish
  <2> QED
    BY <1>14, <2>1 DEF Relinquish, At, manSaving, entry
<1>15. ASSUME Surrender(t)
       PROVE  P
  <2>1. One /\ Same(man')
    <3>1. CASE Goto(t, "surrendered") /\ UNCHANGED man
      BY <1>2, <1>6, <3>1
    <3>2. CASE CompareFrom(t, [man EXCEPT !.relinquished = man.gen])
      <4>1. [man EXCEPT !.relinquished = man.gen] \in ManualSessions
            /\ Same([man EXCEPT !.relinquished = man.gen])
        BY <1>1 DEF ManualSessions, Same
      <4> QED
        BY <1>4, <3>2, <4>1
    <3>3. CASE LeaveNext(t) /\ UNCHANGED man
      BY <1>3, <1>6, <3>3
    <3> QED
      BY <1>15, <3>1, <3>2, <3>3 DEF Surrender
  <2> QED
    BY <1>15, <2>1 DEF Surrender, At, manSaving, entry
<1>16. ASSUME Go(t)
       PROVE  P
  BY <1>2, <1>3, <1>6, <1>16 DEF Go, At, manSaving, entry
<1>17. ASSUME Executed(t)
       PROVE  P
  <2>1. One /\ Same(man')
    BY <1>1, <1>3, <1>4, <1>6, <1>17 DEF Executed
  <2> QED
    BY <1>17, <2>1 DEF Executed, Complete, Raises, At, manSaving
<1>18. ASSUME ReleaseHold(t)
       PROVE  P
  <2>1. One /\ Same(man')
    <3>1. CASE man' = [man EXCEPT !.phase = "pending"] /\ PersistThen(t, "leave")
      <4>1. Same(man')
        BY <1>1, <3>1 DEF Same, ManualSessions
      <4> QED
        BY <1>3, <3>1, <4>1
    <3>2. CASE UNCHANGED man /\ LeaveNext(t)
      BY <1>3, <1>6, <3>2
    <3>3. CASE man' = [man EXCEPT !.hold = man.target # "automatic"] /\ LeaveNext(t)
      <4>1. Same(man')
        BY <1>1, <1>18, <3>3 DEF Same, ManualSessions, ReleaseHold
      <4> QED
        BY <1>3, <3>3, <4>1
    <3> QED
      BY <1>18, <3>1, <3>2, <3>3 DEF ReleaseHold
  <2> QED
    BY <1>18, <2>1 DEF ReleaseHold, At, manSaving, entry
<1>19. ASSUME t \in Diagnostics /\ Restore(t)
       PROVE  P
  <2>1. PICK plan : RestoreWith(t, plan)
    BY <1>19 DEF Restore
  <2>2. One
    <3>1. CASE task' = [task EXCEPT ![t] = [NoTask EXCEPT !.pc = "save", !.next = "blocked",
                                                          !.gen = diag.gen]]
      BY <1>1, <3>1 DEF One, NoTask
    <3>2. CASE Reconciles(t, plan)
      BY <1>1, <3>2 DEF One, Reconciles
    <3>3. CASE SaveThen(t, "finish") \/ End(t)
      BY <1>3, <3>3
    <3> QED
      BY <2>1, <3>1, <3>2, <3>3 DEF RestoreWith
  <2> QED
    BY <1>6, <1>19, <2>2 DEF Restore, At, manSaving
<1>20. ASSUME RestoreLocks(t) \/ (t = "start" /\ StartLocks)
       PROVE  P
  BY <1>2, <1>3, <1>6, <1>20 DEF RestoreLocks, StartLocks, At, manSaving, entry
<1>21. ASSUME RestoreContinues(t)
       PROVE  P
  BY <1>3, <1>6, <1>21 DEF RestoreContinues, Complete, Raises, At, manSaving
<1>22. ASSUME RestoreEnds(t) \/ (t = "start" /\ (Arm \/ Cleanup))
       PROVE  P
  BY <1>3, <1>6, <1>22 DEF RestoreEnds, Arm, Cleanup, At, manSaving, entry
<1>23. ASSUME t = "start" /\ StartContinues
       PROVE  P
  BY <1>3, <1>6, <1>23 DEF StartContinues, Complete, Raises, At, manSaving
<1>24. ASSUME t = "tick" /\ StoreSession
       PROVE  P
  BY <1>2, <1>6, <1>24 DEF StoreSession, At, manSaving, entry
<1>25. P
  BY <1>9, <1>10, <1>11, <1>12, <1>13, <1>14, <1>15, <1>16, <1>17, <1>18, <1>19, <1>20, <1>21,
     <1>22, <1>23, <1>24, <1>8 DEF Turn
<1> QED
  BY <1>25 DEF One, Same

\* A step that keeps the journal and its writer, and the session's stamp, generation
\* and trust, and moves one call.
LEMMA Frame ==
    ASSUME TypeOK, OrderInv, TypeOK', NEW t \in Tasks, life # "down", life' # "down",
           UNCHANGED <<manDisk, writer, page, acked>>,
           man'.stamp = man.stamp, man'.gen = man.gen, man'.durable = man.durable,
           man'.trusted = man.trusted,
           ~man.trusted => man'.hold /\ (t \in Sessions => task'[t].pc \in {"idle", "leave"}),
           \A u \in Tasks \ {t} : task'[u] = task[u],
           task'[t].pc # "persisting"
    PROVE  OrderInv'
<1>1. Asleep' /\ Written'
  BY DEF OrderInv, Asleep, Written
<1>2. Untrusted'
  BY Names DEF OrderInv, Untrusted
<1>3. \A u \in Tasks : At(u, "persisting")' => writer' = u
  BY DEF OrderInv, At
<1> QED
  BY <1>1, <1>2, <1>3 DEF OrderInv

\* The same, when no call moves.
LEMMA FrameIdle ==
    ASSUME TypeOK, OrderInv, TypeOK', life # "down", life' # "down",
           UNCHANGED <<manDisk, writer, page, acked, task>>,
           man'.stamp = man.stamp, man'.gen = man.gen, man'.durable = man.durable,
           man'.trusted = man.trusted, ~man.trusted => man'.hold
    PROVE  OrderInv'
<1>1. "boot" \in Tasks /\ "boot" \notin Sessions /\ task["boot"].pc # "persisting"
  BY DEF Tasks, Diagnostics, Sessions, TypeOK, CallsFit, Fits, DiagnosticSteps
<1> QED
  BY <1>1, Frame

LEMMA OrderForget ==
    ASSUME TypeOK, OrderInv, ForgetMemory
    PROVE  OrderInv'
<1>1. \A t \in Tasks : task'[t] = NoTask /\ task'[t].pc = "idle"
  BY DEF ForgetMemory, NoTask
<1>2. Asleep' /\ Untrusted' /\ Written'
  BY <1>1, Names DEF ForgetMemory, Asleep, Untrusted, Written, NoSession
<1> QED
  BY <1>1, <1>2 DEF OrderInv, ForgetMemory, NoSession, At

LEMMA OrderTurn ==
    ASSUME TypeOK, OrderInv, TypeOK', NEW t \in Tasks, Turn(t) \/ (t = "tick" /\ Tick)
    PROVE  OrderInv'
<1>1. man \in ManualSessions /\ task \in [Tasks -> Calls] /\ task[t] \in Calls /\ Fits(t, task[t])
      /\ page \in Pages /\ Payload(man) \in Pages /\ acked \in Nat
  BY Records DEF TypeOK, StateOK, CallsFit
<1>2. task[t].pc # "idle" => life # "down"
  BY DEF OrderInv, Asleep, NoTask
<1>3. CASE TakePersist(t)
  <2>1. t \in Sessions /\ man.trusted /\ life # "down"
    BY <1>1, <1>2, <1>3, Names DEF TakePersist, At, Fits, DiagnosticSteps, OrderInv, Untrusted
  <2>2. task'[t].pc = "persisting" /\ \A u \in Tasks \ {t} : task'[u] = task[u]
    BY <1>1, <1>3 DEF TakePersist, Goto
  <2>3. Asleep' /\ Untrusted'
    BY <1>3, <2>1 DEF TakePersist, entry, Asleep, Untrusted
  <2>4. Written'
    BY <1>1, <1>3, <2>1 DEF TakePersist, entry, Written, Payload, OrderInv, ManualSessions
  <2>5. \A u \in Tasks : At(u, "persisting")' => writer' = u
    BY <1>3, <2>2, Names DEF TakePersist, OrderInv, At
  <2> QED
    BY <1>3, <2>3, <2>4, <2>5 DEF TakePersist, entry, OrderInv
<1>4. CASE PersistDone(t)
  <2>1. t \in Sessions /\ man.trusted /\ life # "down" /\ writer = t
    BY <1>1, <1>2, <1>4, Names DEF PersistDone, At, Fits, DiagnosticSteps, OrderInv, Untrusted
  <2>2. writer # "none" /\ Written
    BY <2>1, Names DEF OrderInv
  <2>3. /\ page.stamp >= acked /\ page.gen <= man.gen
        /\ page.gen = man.gen => page.stamp = man.stamp
        /\ page.gen # man.gen => man.durable # man.gen
    BY <2>2 DEF Written
  <2>4. man'.trusted /\ man'.stamp = man.stamp /\ man'.gen = man.gen
    BY <1>1, <1>4, <2>1 DEF PersistDone, ManualSessions
  <2>5. Asleep' /\ Untrusted'
    BY <1>4, <2>1, <2>4 DEF PersistDone, entry, Asleep, Untrusted
  <2>6. CASE page.gen = man.gen
    <3>1. man'.durable = man.gen /\ writer' = "none"
      BY <1>1, <1>4, <2>6 DEF PersistDone, ManualSessions
    <3>2. task'[t].pc # "persisting" /\ \A u \in Tasks \ {t} : task'[u] = task[u]
      <4>1. task[t].next # "persisting" /\ Goto(t, task[t].next)
        BY <1>1, <1>4, <2>6 DEF PersistDone, At, Fits
      <4> QED
        BY <1>1, <4>1 DEF Goto
    <3>3. \A u \in Tasks : ~At(u, "persisting")'
      BY <2>1, <3>2, Names DEF OrderInv, At
    <3>4. manDisk' = page /\ acked' = acked /\ life' = life
      BY <1>4 DEF PersistDone, entry
    <3>5. man'.durable <= man'.gen
      BY <1>1, <2>4, <3>1 DEF ManualSessions
    <3> QED
      BY <2>1, <2>3, <2>4, <2>5, <2>6, <3>1, <3>3, <3>4, <3>5 DEF OrderInv, Written
  <2>7. CASE page.gen # man.gen
    <3>1. /\ UNCHANGED <<man, writer, task, acked, life>> /\ manDisk' = page
          /\ page' = Payload(man)
      BY <1>4, <2>7 DEF PersistDone, entry
    <3>2. Written'
      BY <1>1, <2>1, <3>1 DEF Written, Payload, OrderInv, ManualSessions
    <3> QED
      BY <2>3, <2>5, <2>7, <3>1, <3>2 DEF OrderInv, At
  <2> QED
    BY <2>6, <2>7
<1>5. CASE Leave(t)
  <2>1. life # "down" /\ task'[t].pc = "idle" /\ \A u \in Tasks \ {t} : task'[u] = task[u]
    BY <1>1, <1>2, <1>5 DEF Leave, At, End, NoTask
  <2>2. Asleep' /\ Untrusted'
    BY <1>5, <2>1, Names DEF Leave, OrderInv, Asleep, Untrusted
  <2>3. acked' \in {acked, man.stamp} /\ (acked' # acked => man.durable = man.gen)
        /\ man.stamp >= acked'
    BY <1>1, <1>5, <2>1 DEF Leave, OrderInv, ManualSessions
  <2>4. UNCHANGED <<man, manDisk, writer, page, life>>
    BY <1>5 DEF Leave, manSaving
  <2>5. Written' /\ manDisk'.stamp >= acked'
    BY <1>1, <2>3, <2>4 DEF OrderInv, Written, ManualSessions
  <2>6. \A u \in Tasks : At(u, "persisting")' => writer' = u
    BY <2>1, <2>4 DEF OrderInv, At
  <2> QED
    BY <2>2, <2>3, <2>4, <2>5, <2>6 DEF OrderInv
<1>6. CASE ~TakePersist(t) /\ ~PersistDone(t) /\ ~Leave(t)
  <2>1. /\ UNCHANGED <<life, manDisk, writer, page, acked>>
        /\ man'.stamp = man.stamp /\ man'.gen = man.gen /\ man'.durable = man.durable
        /\ man'.trusted = man.trusted /\ (~At(t, "release") => man'.hold = man.hold)
        /\ \A u \in Tasks \ {t} : task'[u] = task[u]
        /\ task'[t].pc # "persisting"
        /\ task[t].pc # "idle" \/ life = "up"
    BY <1>6, Moves
  <2>2. ASSUME ~man.trusted
        PROVE  man'.hold /\ (t \in Sessions => task'[t].pc \in {"idle", "leave"})
    <3>1. ~At(t, "release")
      BY <1>1, <2>2, Names DEF OrderInv, Untrusted, At, Fits, DiagnosticSteps
    <3>2. man'.hold
      BY <2>1, <2>2, <3>1 DEF OrderInv, Untrusted
    <3>3. ASSUME t \in Sessions
          PROVE  t = "tick" /\ Tick
      <4>1. task[t].pc \in {"idle", "leave"}
        BY <2>2, <3>3 DEF OrderInv, Untrusted
      <4>2. ~Turn(t)
        BY <1>6, <3>3, <4>1, Names
           DEF Turn, TakeSave, SaveDone, TakePersist, PersistDone, SendCommand, CommandLands,
               RequestLocks, Relinquish, Surrender, Go, Executed, Complete, Raises, ReleaseHold,
               StoreSession, At, Diagnostics, Sessions
      <4> QED
        BY <4>2
    <3>4. ASSUME Tick
          PROVE  task'["tick"].pc = "leave"
      <4>1. Fence("tick")
        BY <2>2, <3>4 DEF Tick, OrderInv, Untrusted
      <4>2. LeaveNext("tick")
        BY <2>2, <4>1 DEF Fence
      <4> QED
        BY <1>1, <4>2 DEF LeaveNext, Tasks, Sessions, Calls
    <3> QED
      BY <3>2, <3>3, <3>4
  <2> QED
    BY <1>2, <2>1, <2>2, Frame
<1> QED
  BY <1>3, <1>4, <1>5, <1>6

\* A request is admitted: it is not older than the one before.
LEMMA OrderAdmit ==
    ASSUME TypeOK, OrderInv, TypeOK', NEW r \in Requests, NEW t \in {"req1", "req2"}, Admit(t, r)
    PROVE  OrderInv'
<1>1. man \in ManualSessions /\ task \in [Tasks -> Calls] /\ page \in Pages /\ acked \in Nat
      /\ t \in Tasks /\ r.stamp \in Nat /\ manDisk \in Pages \cup {Malformed}
  BY ManualAssumption DEF TypeOK, StateOK, CallsFit, Tasks, Sessions
<1>2. man'.stamp = r.stamp /\ man'.gen = man.gen + 1 /\ man'.trusted /\ man'.durable = man.durable
  BY <1>1 DEF Admit, ManualSessions
<1>3. /\ UNCHANGED <<life, manDisk, writer, page, acked>> /\ life # "down"
      /\ r.stamp >= man.stamp /\ man.stamp >= acked
  BY <1>1 DEF Admit, Acceptable, entry, manSaving, OrderInv, ManualSessions
<1>4. task'[t].pc = "persist" /\ \A u \in Tasks \ {t} : task'[u] = task[u]
  BY <1>1 DEF Admit, PersistThen, Calls
<1>5. Asleep' /\ Untrusted'
  BY <1>2, <1>3 DEF Asleep, Untrusted
<1>6. man.gen \in Nat /\ man.durable \in Nat \cup {-1} /\ man.durable <= man.gen
  BY <1>1 DEF ManualSessions, OrderInv
<1>7. Written'
  BY <1>1, <1>2, <1>3, <1>6 DEF OrderInv, Written, Pages
<1>8. \A u \in Tasks : At(u, "persisting")' => writer' = u
  BY <1>3, <1>4 DEF OrderInv, At
<1>9. man'.durable <= man'.gen /\ man'.durable # man'.gen /\ man'.stamp >= acked'
  BY <1>1, <1>2, <1>3, <1>6 DEF ManualSessions
<1> QED
  BY <1>3, <1>5, <1>7, <1>8, <1>9 DEF OrderInv

\* What a test, its user and its timers do.
LEMMA OrderTest ==
    ASSUME TypeOK, OrderInv, TypeOK',
           StartTest("charge") \/ UserStop \/ TimerExpires \/ RetryFires \/ CancelStart
    PROVE  OrderInv'
<1>1. task \in [Tasks -> Calls] /\ Diagnostics \subseteq Tasks
      /\ {"start", "stop", "retry"} \subseteq Diagnostics /\ Diagnostics \cap Sessions = {}
  BY Names DEF TypeOK, CallsFit, Diagnostics
<1>2. task["start"].pc # "idle" => life # "down"
  BY <1>1 DEF OrderInv, Asleep, NoTask
<1>3. ASSUME BeginStop
      PROVE  \E t \in Diagnostics : task'[t].pc # "persisting"
                                    /\ \A u \in Tasks \ {t} : task'[u] = task[u]
  BY <1>1, <1>3 DEF BeginStop, SaveThen, Calls
<1>4. /\ UNCHANGED <<life, man, manDisk, writer, page, acked>> /\ life # "down"
  BY <1>2 DEF StartTest, UserStop, TimerExpires, RetryFires, CancelStart, manSaving, entry, At
<1>5. UNCHANGED task \/ \E t \in Diagnostics : task'[t].pc # "persisting"
                                               /\ \A u \in Tasks \ {t} : task'[u] = task[u]
  <2>1. CASE StartTest("charge") \/ CancelStart
    BY <1>1, <2>1 DEF StartTest, CancelStart, End, NoTask
  <2>2. CASE UserStop \/ TimerExpires
    BY <1>3, <2>2 DEF UserStop, TimerExpires
  <2>3. CASE RetryFires
    BY <1>1, <2>3 DEF RetryFires, Goto, Calls
  <2> QED
    BY <2>1, <2>2, <2>3
<1>6. ~man.trusted => man'.hold
  BY <1>4 DEF OrderInv, Untrusted
<1>7. CASE UNCHANGED task
  BY <1>4, <1>6, <1>7, FrameIdle
<1>8. CASE \E t \in Diagnostics : task'[t].pc # "persisting"
                                  /\ \A u \in Tasks \ {t} : task'[u] = task[u]
  BY <1>1, <1>4, <1>6, <1>8, Frame
<1> QED
  BY <1>5, <1>7, <1>8

\* Setup and unload.
LEMMA OrderSetup ==
    ASSUME TypeOK, OrderInv, TypeOK',
           Setup \/ UnloadTest \/ Unloaded \/ Unload
    PROVE  OrderInv'
<1>1. task \in [Tasks -> Calls] /\ Diagnostics \subseteq Tasks
      /\ "boot" \in Diagnostics /\ Diagnostics \cap Sessions = {} /\ man \in ManualSessions
      /\ manDisk \in Pages \cup {Malformed} /\ acked \in Nat
  BY Names DEF TypeOK, StateOK, CallsFit, Diagnostics
<1>2. ~man.trusted => man.hold
  BY DEF OrderInv, Untrusted
<1>3. ASSUME SaveThen("boot", "restore")
      PROVE  task'["boot"].pc # "persisting" /\ \A u \in Tasks \ {"boot"} : task'[u] = task[u]
  BY <1>1, <1>3 DEF SaveThen, Calls
<1>4. CASE RestoreHandoff
  <2>1. /\ UNCHANGED <<manDisk, writer, page, task, acked>> /\ life' = "handoff"
        /\ writer = "none" /\ \A t \in Tasks : task[t] = NoTask
    BY <1>4 DEF RestoreHandoff, manSaving, OrderInv, Asleep
  <2>2. manDisk.phase = "malformed" => manDisk.stamp = 0
    BY <1>1 DEF Pages, SessionPhases, Malformed, NoPage
  <2>3. man'.stamp >= acked /\ man'.durable <= man'.gen
        /\ (man'.durable = man'.gen => manDisk.stamp = man'.stamp)
        /\ (~man'.trusted => man'.hold)
    BY <1>1, <1>4, <2>2 DEF RestoreHandoff, OrderInv, NoSession, Pages, Malformed, NoPage
  <2>4. Asleep' /\ Untrusted' /\ Written'
    BY <2>1, <2>3, Names DEF Asleep, Untrusted, Written, NoTask
  <2> QED
    BY <2>1, <2>3, <2>4 DEF OrderInv, At, NoTask
<1>5. CASE LoadTest
  <2>1. /\ UNCHANGED <<man, manDisk, writer, page, acked>>
        /\ life # "down" /\ life' # "down"
    BY <1>5 DEF LoadTest, manSaving
  <2>2. UNCHANGED task \/ SaveThen("boot", "restore")
    BY <1>5 DEF LoadTest
  <2> QED
    BY <1>1, <1>2, <1>3, <2>1, <2>2, Frame, FrameIdle
<1>6. CASE TestLoaded \/ LoadSessions \/ Unload
  <2>1. /\ UNCHANGED <<manDisk, writer, page, acked, task>>
        /\ life # "down" /\ life' # "down"
        /\ man'.stamp = man.stamp /\ man'.gen = man.gen /\ man'.durable = man.durable
        /\ man'.trusted = man.trusted /\ (~man.trusted => man'.hold)
    BY <1>1, <1>2, <1>6 DEF TestLoaded, LoadSessions, Unload, manSaving, ManualSessions
  <2> QED
    BY <2>1, FrameIdle
<1>7. CASE UnloadTest
  <2>1. /\ UNCHANGED <<man, writer, page, acked>> /\ writer = "none"
        /\ life # "down" /\ life' # "down"
    BY <1>7 DEF UnloadTest
  <2>2. manDisk'.stamp >= acked /\ (man.durable = man.gen => manDisk'.stamp = man.stamp)
    BY <1>7, <2>1 DEF UnloadTest, OrderInv, Payload
  <2>3. UNCHANGED task \/ SaveThen("boot", "restore")
    BY <1>7 DEF UnloadTest
  <2>4. \A u \in Sessions : task'[u] = task[u]
    BY <1>1, <1>3, <2>3, Names
  <2>5. \A u \in Tasks : ~At(u, "persisting")'
    BY <1>3, <2>1, <2>3, Names DEF OrderInv, At
  <2>6. Asleep' /\ Untrusted' /\ Written'
    BY <2>1, <2>4 DEF OrderInv, Asleep, Untrusted, Written
  <2> QED
    BY <2>1, <2>2, <2>5, <2>6 DEF OrderInv
<1>8. CASE Unloaded
  BY <1>8, OrderForget DEF Unloaded
<1> QED
  BY <1>4, <1>5, <1>6, <1>7, <1>8 DEF Setup

\* Crashes, a damaged journal, refused writes, the gates.
LEMMA OrderFault ==
    ASSUME TypeOK, OrderInv, TypeOK',
           Crash \/ ChangeGate \/ Corrupt \/ \E t \in Tasks : SaveFails(t) \/ PersistFails(t)
    PROVE  OrderInv'
<1>1. task \in [Tasks -> Calls] /\ man \in ManualSessions /\ \A t \in Tasks : Fits(t, task[t])
  BY DEF TypeOK, StateOK, CallsFit
<1>2. ~man.trusted => man.hold
  BY DEF OrderInv, Untrusted
<1>3. CASE Crash
  BY <1>3, OrderForget DEF Crash
<1>4. CASE ChangeGate
  <2>1. UNCHANGED <<life, man, manDisk, writer, page, acked, task>>
    BY <1>4 DEF ChangeGate, manSaving
  <2> QED
    BY <2>1 DEF OrderInv, Asleep, Untrusted, Written, At
<1>5. CASE Corrupt
  <2>1. /\ UNCHANGED <<life, man, writer, page, task>> /\ acked' = 0 /\ manDisk'.stamp = 0
        /\ life = "down"
    BY <1>5 DEF Corrupt, Malformed, NoPage
  <2>2. man = NoSession /\ writer = "none"
    BY <2>1 DEF OrderInv, Asleep
  <2> QED
    BY <2>1, <2>2 DEF OrderInv, Asleep, Untrusted, Written, At, NoSession
<1>6. ASSUME NEW t \in Tasks, SaveFails(t)
      PROVE  OrderInv'
  <2>1. CASE ForgetMemory
    BY <2>1, OrderForget
  <2>2. CASE ~ForgetMemory
    <3>1. /\ UNCHANGED <<man, manDisk, writer, page, life, acked>>
          /\ (Goto(t, "cleanup") /\ task[t].next = "cleanup") \/ End(t)
      BY <1>6, <2>2 DEF SaveFails, manSaving
    <3>2. t \in Sessions => task[t].next # "cleanup"
      BY <1>1, <1>6 DEF SaveFails, At, Fits
    <3>3. life # "down"
      BY <1>6 DEF SaveFails, At, OrderInv, Asleep, NoTask
    <3>4. /\ task'[t].pc # "persisting" /\ (t \in Sessions => task'[t].pc = "idle")
          /\ \A u \in Tasks \ {t} : task'[u] = task[u]
      BY <1>1, <3>1, <3>2 DEF Goto, End, NoTask, Calls
    <3> QED
      BY <1>2, <3>1, <3>3, <3>4, Frame
  <2> QED
    BY <2>1, <2>2
<1>7. ASSUME NEW t \in Tasks, PersistFails(t)
      PROVE  OrderInv'
  <2>1. /\ UNCHANGED <<manDisk, life, acked>> /\ writer' = "none" /\ life # "down"
        /\ man'.stamp = man.stamp /\ man'.gen = man.gen /\ man'.durable = man.durable
        /\ man'.trusted = man.trusted /\ man'.hold
    BY <1>1, <1>7 DEF PersistFails, ManualSessions, OrderInv, Asleep, At, NoTask
  <2>2. task'[t].pc = "idle" /\ (\A u \in Tasks \ {t} : task'[u] = task[u]) /\ writer = t
    BY <1>1, <1>7 DEF PersistFails, End, NoTask, OrderInv
  <2>3. \A u \in Tasks : ~At(u, "persisting")'
    BY <2>2, Names DEF OrderInv, At
  <2>4. Asleep' /\ Untrusted' /\ Written'
    BY <2>1, <2>2, Names DEF OrderInv, Asleep, Untrusted, Written
  <2> QED
    BY <2>1, <2>3, <2>4 DEF OrderInv
<1> QED
  BY <1>3, <1>4, <1>5, <1>6, <1>7

LEMMA OrderInit == Init => OrderInv
<1> SUFFICES ASSUME Init PROVE OrderInv
  OBVIOUS
<1>1. \A t \in Tasks : task[t] = NoTask /\ task[t].pc = "idle"
  BY DEF Init, NoTask
<1>2. Asleep /\ Untrusted /\ Written
  BY <1>1, Names DEF Init, Asleep, Untrusted, Written, NoSession
<1> QED
  BY <1>1, <1>2 DEF Init, OrderInv, NoSession, NoPage, At

LEMMA OrderStep == TypeOK /\ OrderInv /\ [Next]_vars => OrderInv'
<1> SUFFICES ASSUME TypeOK, OrderInv, [Next]_vars, TypeOK' PROVE OrderInv'
  BY TypeStep
<1>1. ASSUME NEW t \in Tasks, Turn(t)
      PROVE  OrderInv'
  BY <1>1, OrderTurn
<1>2. CASE Event
  BY <1>2, OrderTurn, OrderAdmit, OrderTest, OrderSetup, OrderFault, Names
     DEF Event, Setup, Tasks, Sessions
<1>3. CASE UNCHANGED vars
  BY <1>3 DEF vars, manSaving, entry, OrderInv, Asleep, Untrusted, Written, At
<1> QED
  BY <1>1, <1>2, <1>3, Cases

\* The newest request that was answered as durable stays the newest, through reordered
\* and repeated messages, refused writes, unloads and restarts.
THEOREM RequestsKeepTheirOrder == Spec => []NewestRequestWins
<1>1. OrderInv => NewestRequestWins
  BY DEF OrderInv, NewestRequestWins
<1> QED
  BY <1>1, TypeInit, TypeStep, OrderInit, OrderStep, PTL DEF Spec

-------------------------------------------------------------------------------
(* The duty of a forced mode. *)

\* The steps that are made under the shared lock, and what each suspended call holds.
Locked(t) ==
    \/ task[t].pc \in {"exec", "sent"}
    \/ t \in Sessions /\ \/ task[t].pc \in {"save", "saving", "relinquish", "surrender",
                               "surrendered", "go", "release", "leave", "store"}
                         \/ task[t].pc \in {"persist", "persisting"} /\ task[t].next # "mlock"
Awake == life \in {"up", "unloading", "unloaded"}
LockInv ==
    /\ \A t \in Tasks : Locked(t) => lock = t
    /\ \A t \in Tasks : At(t, "saving") => saver = t
    /\ \A t \in Tasks : task[t].pc # "idle" => Awake \/ (life = "starting" /\ t = "boot")

\* The automatic controller's own turn works under no generation; every other step of a
\* session under the lock has one, not newer than the session's.
OwnTurn == task["tick"].gen = 0 /\ task["tick"].pc \in {"store", "exec", "sent"}
GenOf(t) ==
    /\ task[t].gen <= man.gen
    /\ Locked(t) /\ ~At(t, "leave") => task[t].gen # 0 \/ (t = "tick" /\ OwnTurn)
    /\ At(t, "store") => t = "tick" /\ OwnTurn
    /\ task[t].pc \in {"persist", "persisting"} => man.gen # 0
GenInv ==
    /\ \A t \in Sessions : GenOf(t)
    /\ man.trusted /\ (man.phase # "idle" \/ (man.hold /\ life = "up")) => man.gen # 0
    /\ manDisk.phase \notin {"idle", "malformed"} => manDisk.gen # 0
    /\ writer # "none" /\ page.phase # "idle" => page.gen # 0
    /\ man.relinquished <= man.gen
    /\ life \in {"handoff", "starting", "sessions"} =>
          man.relinquished = -1 /\ (man.hold => man.phase # "idle")

\* What a call of the manual session does after the other owners gave up.
Given == man.relinquished = man.gen
Stores(t, step) == task[t].pc \in {"persist", "persisting"} /\ task[t].next = step
Surrenders(t) == task[t].pc \in {"save", "saving", "surrender", "surrendered"}
Commanding(t) == task[t].gen # 0 /\ task[t].pc \in {"exec", "sent"}
Attempts(t) == Stores(t, "go") \/ At(t, "go") \/ Commanding(t)
Releases(t) == Stores(t, "release") \/ At(t, "release") \/ Stores(t, "leave")

HandDuty == /\ manDisk.phase # "idle" /\ (writer # "none" => page.phase # "idle")
            /\ life # "down" => man.phase # "idle"
HandFree == life # "down" /\ man.phase = "idle" /\ ~Given =>
                /\ life = "up" => ~man.hold
                /\ writer = "none" /\ \A t \in Sessions : ~At(t, "persist")
HandDisk == life # "down" /\ man.durable = man.gen /\ ~Given /\ manDisk.phase = "idle" =>
                man.phase = "idle"
HandPage == writer # "none" /\ page.gen = man.gen /\ ~Given => page.phase # "idle"
HandOf(t) ==
    /\ (Attempts(t) \/ Releases(t)) /\ task[t].gen = man.gen => Given
    /\ Surrenders(t) \/ At(t, "go") \/ Commanding(t) => HandDuty
    /\ Stores(t, "go") => man.phase # "idle" /\ (At(t, "persisting") => page.phase # "idle")
HandInv == HandFree /\ HandDisk /\ HandPage /\ \A t \in Sessions : HandOf(t)

\* The hold is lifted when the inverter is in Self Use and no other call will write the
\* journal.
HoldFree ==
    life # "down" /\ ~man.hold => \A t \in Sessions :
          task[t].pc \in {"idle", "leave", "mlock"} \/ (t = "tick" /\ OwnTurn)
HoldLast(t) ==
    task[t].gen = man.gen =>
        /\ (At(t, "persisting") /\ task[t].next = "release") \/ At(t, "release")
              => \A r \in Sessions \ {t} : task[r].pc \notin {"persist", "persisting"}
        /\ Stores(t, "release") \/ At(t, "release")
              => (man.target # "export_max" => inv = SelfUseObservation)
HoldInv == HoldFree /\ \A t \in Sessions : HoldLast(t)

\* Nothing is tested from the time the other owners gave up to the end of the hold.
QuietOf(t) == Surrenders(t) \/ Attempts(t) => ~Testing
QuietInv ==
    /\ \A t \in Sessions : QuietOf(t)
    /\ life = "up" /\ man.hold /\ man.trusted /\ Given => ~Testing

\* The automatic session is stored before its commands.
AutoDuty == sessDisk = "owned" /\ (Awake => sess = "owned")
TurnInv ==
    OwnTurn => IF At("tick", "store") THEN sess = "owned" \/ (task["tick"].plan = <<>> /\ ~Forced)
               ELSE task["tick"].plan # <<>> => AutoDuty

\* The commands of a start, and of a restoration.
StartPlan(plan, chg) ==
    \A n \in DOMAIN plan :
        /\ plan[n] \in {SetDischarge(0), SetCharge(Kw), SelectMode("ForceCharge")}
        /\ IsForce(plan[n]) => n = Len(plan) /\
              (chg = Kw \/ \E m \in 1 .. n - 1 : plan[m] = SetCharge(Kw))
RestorePlan(plan) ==
    \A n \in DOMAIN plan : plan[n] \in {SelectMode("SelfUse"), SetCharge(0), SetDischarge(0)}

Restorers == {"stop", "retry", "boot"}
Saves(t, steps) == task[t].pc \in {"save", "saving"} /\ task[t].next \in steps
StartWaits == At("start", "lock") \/ Saves("start", {"lock"})
StartActs == task["start"].pc \in {"exec", "sent"}
\* What will restore the inverter for the test of this moment.
Restores(t) ==
    \/ At(t, "restore") \/ Saves(t, {"restore"})
    \/ /\ task[t].gen = diag.gen
       /\ \/ task[t].pc \in {"rlock", "exec", "sent", "blocked", "failed"}
          \/ Saves(t, {"rlock", "blocked", "failed"})
Armed == retry = diag.gen
NoneRestores == ~Armed /\ \A t \in Restorers : ~Restores(t)
OneRestores ==
    /\ Armed => \A t \in Restorers : ~Restores(t)
    /\ \A t, u \in Restorers : Restores(t) /\ Restores(u) => t = u

TestDuty == /\ diagDisk.kind # "none" /\ (saver # "none" => snap.kind # "none")
            /\ life \notin {"down", "handoff"} => Testing
\* A start that waits for its store or the lock, and one that commands.
WaitsFresh == StartWaits /\ Fresh("start")
StartWaiting ==
    life = "up" /\ WaitsFresh =>
        /\ StartPlan(task["start"].plan, inv.chg) /\ sess = "idle"
        /\ At("start", "lock") => TestDuty
        /\ At("start", "saving") => snap.kind # "none"
StartActing ==
    StartActs /\ (life = "up" \/ At("start", "sent")) =>
        /\ StartPlan(task["start"].plan, inv.chg) /\ diag.wgen = task["start"].gen
        /\ Fresh("start") \/ (At("start", "sent") /\ IsForce(Head(task["start"].plan)))
              => TestDuty
FenceInv ==
    /\ \A t \in Diagnostics : task[t].gen <= diag.gen
    /\ retry <= diag.gen /\ (Armed => Testing)
    /\ life \in {"down", "handoff"} => retry = Unarmed
    /\ life \in {"unloading", "unloaded"} => man.hold
    /\ ~Saves("start", {"rlock"}) /\ ~At("start", "rlock") /\ ~Saves("retry", {"restore"})
    /\ life = "up" => At("boot", "idle")
    /\ \A t \in Restorers : task[t].pc \in {"exec", "sent", "rlock"} \/ Saves(t, {"rlock"})
          => RestorePlan(task[t].plan)
StartInv == StartWaiting /\ StartActing

\* No restoration takes back the charge power that a fresh start has found in place.
RestoreInv ==
    life = "up" =>
        /\ \A t \in Restorers : task[t].pc \in {"exec", "sent"} =>
              (Testing /\ ~WaitsFresh) \/ inv.chg = 0
        /\ StartWaits \/ StartActs => OneRestores
        /\ StartActs /\ ~Testing => NoneRestores
        /\ ~Testing /\ inv.chg # 0 /\ sess = "idle" /\ ~man.hold => NoneRestores
        /\ WaitsFresh /\ inv.chg # 0 => NoneRestores

TestInv == FenceInv /\ StartInv /\ RestoreInv

DutyInv == Forced => AutoDuty \/ TestDuty \/ HandDuty

-------------------------------------------------------------------------------
(* Moves of one call. *)

Now(t, step, then, fence, plan) ==
    /\ task'[t].pc = step /\ task'[t].next = then
    /\ task'[t].gen = fence /\ task'[t].plan = plan
    /\ \A u \in Tasks \ {t} : task'[u] = task[u]
To(t, step) == Now(t, step, task[t].next, task[t].gen, task[t].plan)
Ends(t) == Now(t, "idle", "idle", 0, <<>>)

LEMMA Moved ==
    ASSUME TypeOK, NEW t \in Tasks
    PROVE  /\ \A s : Goto(t, s) => To(t, s)
           /\ LeaveNext(t) => To(t, "leave")
           /\ End(t) => Ends(t)
           /\ \A s : SaveThen(t, s) => Now(t, "save", s, task[t].gen, task[t].plan)
           /\ \A s : PersistThen(t, s) => Now(t, "persist", s, task[t].gen, task[t].plan)
<1>1. task \in [Tasks -> Calls] /\ task[t] \in Calls
  BY DEF TypeOK, CallsFit
<1>2. \A s : Goto(t, s) => To(t, s)
  BY <1>1 DEF Goto, To, Now, Calls
<1>3. LeaveNext(t) => To(t, "leave")
  BY <1>1 DEF LeaveNext, To, Now, Calls
<1>4. End(t) => Ends(t)
  BY <1>1 DEF End, Ends, Now, NoTask
<1>5. \A s : SaveThen(t, s) => Now(t, "save", s, task[t].gen, task[t].plan)
  BY <1>1 DEF SaveThen, Now, Calls
<1>6. \A s : PersistThen(t, s) => Now(t, "persist", s, task[t].gen, task[t].plan)
  BY <1>1 DEF PersistThen, Now, Calls
<1> QED
  BY <1>2, <1>3, <1>4, <1>5, <1>6

\* What _async_reconcile_restore does to its call and to the test.
SameTest == diag'.kind = diag.kind /\ diag'.gen = diag.gen /\ diag'.wgen = diag.wgen
LEMMA RestoreMoves ==
    ASSUME TypeOK, NEW t \in Tasks, NEW plan, RestoreWith(t, plan)
    PROVE  /\ diag'.gen = diag.gen /\ diag'.wgen = diag.wgen
           /\ \/ ~Testing /\ Ends(t) /\ SameTest /\ UNCHANGED retry
              \/ /\ Testing /\ ~Permitted /\ SameTest /\ UNCHANGED retry
                 /\ Now(t, "save", "blocked", diag.gen, <<>>)
              \/ /\ Testing /\ Permitted /\ plan = <<>> /\ diag'.kind = "none" /\ retry' = Unarmed
                 /\ Now(t, "save", "finish", task[t].gen, task[t].plan)
              \/ /\ Testing /\ Permitted /\ SameTest /\ UNCHANGED retry
                 /\ \/ Now(t, "save", "finish", task[t].gen, task[t].plan)
                    \/ Now(t, "save", "rlock", diag.gen, plan)
<1>1. task \in [Tasks -> Calls] /\ task[t] \in Calls /\ diag \in Tests
  BY DEF TypeOK, CallsFit, StateOK
<1>2. /\ End(t) => Ends(t)
      /\ SaveThen(t, "finish") => Now(t, "save", "finish", task[t].gen, task[t].plan)
  BY Moved
<1>3. task' = [task EXCEPT ![t] = [NoTask EXCEPT !.pc = "save", !.next = "blocked",
                                                 !.gen = diag.gen]]
        => Now(t, "save", "blocked", diag.gen, <<>>)
  BY <1>1 DEF Now, NoTask
<1>4. Reconciles(t, plan) => Now(t, "save", "rlock", diag.gen, plan)
  BY <1>1 DEF Now, Reconciles
<1>5. /\ diag' = [diag EXCEPT !.phase = "stopping"] => SameTest
      /\ diag' = [diag EXCEPT !.phase = "restore_failed"] => SameTest
      /\ diag' = [diag EXCEPT !.phase = "stopping", !.attempts = @ + 1] => SameTest
      /\ diag' = diag => SameTest
  BY <1>1 DEF Tests, SameTest
<1>6. diag' = [NoTest EXCEPT !.gen = diag.gen, !.wgen = diag.wgen]
        => diag'.gen = diag.gen /\ diag'.wgen = diag.wgen /\ diag'.kind = "none"
  BY DEF NoTest
<1>7. SameTest => diag'.gen = diag.gen /\ diag'.wgen = diag.wgen
  BY DEF SameTest
<1> HIDE DEF SameTest
<1> QED
  BY <1>2, <1>3, <1>4, <1>5, <1>6, <1>7 DEF RestoreWith

\* What async_reconcile_locked does to its call and to the session, once the generation
\* is read.
Steady == /\ man'.hold = man.hold /\ man'.target = man.target /\ man'.gen = man.gen
          /\ man'.durable = man.durable /\ man'.fault = man.fault /\ man'.trusted = man.trusted
Leaves(t) == To(t, "leave") /\ man'.phase = man.phase
Confirms(t) ==
    /\ Now(t, "persist", "release", man.gen, task[t].plan) /\ Writable
    /\ man.target # "export_max" => inv = SelfUseObservation
    /\ man'.phase = (IF man.target = "automatic" THEN "idle" ELSE "held")
Attempt(t) ==
    /\ Now(t, "persist", "go", man.gen, PlanFoxessCommands(Decision, inv, Kw)) /\ Writable
    /\ man'.phase = "confirming"
Gives(t) ==
    /\ Now(t, "save", "surrender", man.gen, task[t].plan) /\ Writable /\ ~Given
    /\ man' = man /\ diag'.kind = "none" /\ diag'.gen = diag.gen + 1 /\ diag'.wgen = diag.wgen
    /\ retry' = Unarmed
Open == man.hold /\ life = "up" /\ man.trusted

LEMMA CompareMoves ==
    ASSUME TypeOK, NEW t \in Tasks, NEW m \in ManualSessions, CompareFrom(t, m),
           m = man \/ m = [man EXCEPT !.relinquished = man.gen]
    PROVE  /\ Steady /\ man'.relinquished = m.relinquished
           /\ Leaves(t) \/ Confirms(t) \/ Attempt(t)
<1>1. task \in [Tasks -> Calls] /\ task[t] \in Calls /\ man \in ManualSessions
  BY DEF TypeOK, CallsFit, StateOK
<1>2. /\ m.hold = man.hold /\ m.target = man.target /\ m.gen = man.gen /\ m.durable = man.durable
      /\ m.fault = man.fault /\ m.trusted = man.trusted /\ m.phase = man.phase
  BY <1>1 DEF ManualSessions
<1>3. CASE LeaveNext(t) /\ man' = m
  BY <1>2, <1>3, Moved DEF Steady, Leaves
<1>4. CASE Writable /\ ResponseMatches(Decision, inv) /\ ConfirmFrom(t, m)
  <2>1. Steady /\ man'.relinquished = m.relinquished
    BY <1>1, <1>2, <1>4 DEF ConfirmFrom, ManualSessions, Steady
  <2>2. man'.phase = IF man.target = "automatic" THEN "idle" ELSE "held"
    BY <1>1, <1>2, <1>4 DEF ConfirmFrom, ManualSessions
  <2>3. Now(t, "persist", "release", man.gen, task[t].plan)
    BY <1>1, <1>2, <1>4 DEF ConfirmFrom, Calls, Now
  <2>4. man.target # "export_max" => inv = SelfUseObservation
    BY <1>4 DEF ResponseMatches, Decision, RestoreSelfUse
  <2> QED
    BY <1>4, <2>1, <2>2, <2>3, <2>4 DEF Confirms
<1>5. CASE /\ Writable /\ man' = [m EXCEPT !.phase = "confirming"]
           /\ task' = [task EXCEPT ![t].pc = "persist", ![t].next = "go", ![t].gen = m.gen,
                                   ![t].plan = PlanFoxessCommands(Decision, inv, Kw)]
  <2>1. Steady /\ man'.relinquished = m.relinquished /\ man'.phase = "confirming"
    BY <1>1, <1>2, <1>5 DEF ManualSessions, Steady
  <2> DEFINE p == PlanFoxessCommands(Decision, inv, Kw)
  <2> HIDE DEF p
  <2>2. task' = [task EXCEPT ![t].pc = "persist", ![t].next = "go", ![t].gen = m.gen,
                             ![t].plan = p]
    BY <1>5 DEF p
  <2>3. Now(t, "persist", "go", man.gen, p)
    BY <1>1, <1>2, <2>2 DEF Calls, Now
  <2> QED
    BY <1>5, <2>1, <2>3 DEF Attempt, p
<1> QED
  BY <1>3, <1>4, <1>5 DEF CompareFrom

LEMMA RelinquishMoves ==
    ASSUME TypeOK, NEW t \in Tasks, RelinquishFrom(t)
    PROVE  /\ Steady /\ man'.relinquished = man.relinquished
           /\ \/ Gives(t)
              \/ /\ UNCHANGED <<diag, retry>>
                 /\ Leaves(t) \/ (Given /\ (Confirms(t) \/ Attempt(t)))
<1>1. task \in [Tasks -> Calls] /\ task[t] \in Calls /\ man \in ManualSessions /\ diag \in Tests
  BY DEF TypeOK, CallsFit, StateOK
<1>2. CASE Writable /\ man.relinquished # man.gen
  <2>1. /\ diag' = [NoTest EXCEPT !.gen = diag.gen + 1, !.wgen = diag.wgen]
        /\ retry' = Unarmed /\ UNCHANGED man
        /\ task' = [task EXCEPT ![t].pc = "save", ![t].next = "surrender", ![t].gen = man.gen]
    BY <1>2 DEF RelinquishFrom
  <2>2. Now(t, "save", "surrender", man.gen, task[t].plan)
    BY <1>1, <2>1 DEF Now, Calls
  <2>3. diag'.kind = "none" /\ diag'.gen = diag.gen + 1 /\ diag'.wgen = diag.wgen
    BY <2>1 DEF NoTest
  <2> QED
    BY <1>2, <2>1, <2>2, <2>3 DEF Gives, Given, Steady
<1>3. CASE ~(Writable /\ man.relinquished # man.gen)
  <2>1. CompareFrom(t, man) /\ UNCHANGED <<diag, retry>>
    BY <1>3 DEF RelinquishFrom
  <2>2. /\ Steady /\ man'.relinquished = man.relinquished
        /\ Leaves(t) \/ Confirms(t) \/ Attempt(t)
    BY <1>1, <2>1, CompareMoves
  <2>3. Confirms(t) \/ Attempt(t) => Given
    BY <1>3 DEF Confirms, Attempt, Given
  <2> QED
    BY <2>1, <2>2, <2>3
<1> QED
  BY <1>2, <1>3

LEMMA FenceMoves ==
    ASSUME TypeOK, NEW t \in Tasks, Fence(t)
    PROVE  /\ Steady /\ man'.relinquished = man.relinquished /\ lock = "free" /\ lock' = t
           /\ \/ Open /\ Gives(t)
              \/ /\ UNCHANGED <<diag, retry>>
                 /\ \/ Leaves(t)
                    \/ /\ Open /\ man' = man
                       /\ Now(t, "persist", "relinquish", man.gen, task[t].plan)
                    \/ Open /\ Given /\ (Confirms(t) \/ Attempt(t))
<1>1. task \in [Tasks -> Calls] /\ task[t] \in Calls /\ lock = "free" /\ lock' = t
  BY DEF TypeOK, CallsFit, Fence
<1>2. CASE LeaveNext(t) /\ UNCHANGED <<man, diag, retry>>
  BY <1>1, <1>2, Moved DEF Leaves, Steady
<1>3. CASE /\ Open /\ UNCHANGED <<man, diag, retry>>
           /\ task' = [task EXCEPT ![t].pc = "persist", ![t].next = "relinquish",
                                   ![t].gen = man.gen]
  <2>1. Now(t, "persist", "relinquish", man.gen, task[t].plan)
    BY <1>1, <1>3 DEF Now, Calls
  <2> QED
    BY <1>1, <1>3, <2>1 DEF Steady
<1>4. CASE Open /\ RelinquishFrom(t)
  BY <1>1, <1>4, RelinquishMoves
<1> QED
  BY <1>2, <1>3, <1>4 DEF Fence, Open

LEMMA SurrenderMoves ==
    ASSUME TypeOK, NEW t \in Tasks, Surrender(t)
    PROVE  /\ Steady
           /\ \/ /\ At(t, "surrender") /\ To(t, "surrendered") /\ man' = man /\ sess' = "idle"
                 /\ UNCHANGED sessDisk
              \/ /\ At(t, "surrendered") /\ sessDisk' = sess /\ UNCHANGED sess
                 /\ \/ To(t, "leave") /\ man' = man
                    \/ /\ Mine(t) /\ man'.relinquished = man.gen
                       /\ Leaves(t) \/ Confirms(t) \/ Attempt(t)
<1>1. man \in ManualSessions
  BY DEF TypeOK, StateOK
<1>2. CASE At(t, "surrender") /\ sess' = "idle" /\ Goto(t, "surrendered") /\ UNCHANGED <<man, sessDisk>>
  BY <1>2, Moved DEF Steady
<1>3. CASE /\ At(t, "surrendered") /\ sessDisk' = sess /\ UNCHANGED sess
           /\ Mine(t) /\ CompareFrom(t, [man EXCEPT !.relinquished = man.gen])
  <2> DEFINE m == [man EXCEPT !.relinquished = man.gen]
  <2>1. m \in ManualSessions /\ m.relinquished = man.gen
    BY <1>1 DEF ManualSessions
  <2>2. Steady /\ man'.relinquished = man.gen /\ (Leaves(t) \/ Confirms(t) \/ Attempt(t))
    BY <1>3, <2>1, CompareMoves
  <2> QED
    BY <1>3, <2>2
<1>4. CASE /\ At(t, "surrendered") /\ sessDisk' = sess /\ UNCHANGED sess
           /\ LeaveNext(t) /\ UNCHANGED man
  BY <1>4, Moved DEF Steady
<1> QED
  BY <1>2, <1>3, <1>4 DEF Surrender

LEMMA TurnMoves ==
    ASSUME TypeOK, AutomaticTurn
    PROVE  /\ lock = "free" /\ lock' = "tick" /\ ~Testing
           /\ \/ /\ sess = "idle" /\ sess' = "owned"
                 /\ Now("tick", "store", task["tick"].next, task["tick"].gen, PlanForceCharge(inv, Kw))
              \/ /\ sess = "owned" /\ UNCHANGED sess
                 /\ Now("tick", "store", task["tick"].next, task["tick"].gen, PlanRestoreMode(inv))
              \/ /\ sess = "owned" /\ sess' = "idle" /\ inv = SelfUseObservation
                 /\ To("tick", "store")
<1>1. "tick" \in Tasks /\ task \in [Tasks -> Calls] /\ task["tick"] \in Calls
  BY DEF TypeOK, CallsFit, Tasks, Sessions
<1>2. ASSUME NEW plan, task' = [task EXCEPT !["tick"].pc = "store", !["tick"].plan = plan]
      PROVE  Now("tick", "store", task["tick"].next, task["tick"].gen, plan)
  BY <1>1, <1>2 DEF Now, Calls
<1>3. Goto("tick", "store") => To("tick", "store")
  BY <1>1, Moved
<1> QED
  BY <1>2, <1>3 DEF AutomaticTurn

\* What a call of the session does when its commands are over.
LEMMA ExecutedMoves ==
    ASSUME TypeOK, NEW t \in Tasks, Executed(t)
    PROVE  /\ Steady /\ man'.relinquished = man.relinquished /\ task[t].pc \in {"exec", "sent"}
           /\ Leaves(t) \/ (UNCHANGED inv /\ Mine(t) /\ Confirms(t))
<1>1. man \in ManualSessions /\ task \in [Tasks -> Calls] /\ task[t] \in Calls
  BY DEF TypeOK, CallsFit, StateOK
<1>2. task[t].pc \in {"exec", "sent"}
  BY DEF Executed, Complete, Raises, At
<1>3. CASE LeaveNext(t) /\ UNCHANGED man
  BY <1>2, <1>3, Moved DEF Leaves, Steady
<1>4. CASE /\ Complete(t) /\ Mine(t) /\ Writable /\ ResponseMatches(Decision, inv)
           /\ ConfirmFrom(t, man)
  <2>1. Now(t, "persist", "release", man.gen, task[t].plan)
    BY <1>1, <1>4 DEF ConfirmFrom, Now, Calls
  <2>2. Steady /\ man'.relinquished = man.relinquished
        /\ man'.phase = (IF man.target = "automatic" THEN "idle" ELSE "held")
    BY <1>1, <1>4 DEF ConfirmFrom, ManualSessions, Steady
  <2>3. man.target # "export_max" => inv = SelfUseObservation
    BY <1>4 DEF ResponseMatches, Decision, RestoreSelfUse
  <2> QED
    BY <1>2, <1>4, <2>1, <2>2, <2>3 DEF Confirms, Complete
<1> QED
  BY <1>3, <1>4 DEF Executed

-------------------------------------------------------------------------------
(* The shared lock, and the calls of an entry that is not running. *)

\* One call moves: what it does to the lock and to the store's writer.
LEMMA LockFrame ==
    ASSUME TypeOK, LockInv, NEW t \in Tasks,
           \A u \in Tasks \ {t} : task'[u] = task[u],
           \/ lock' = lock /\ (Locked(t)' => Locked(t))
           \/ lock = "free" /\ lock' = t
           \/ lock' = "free" /\ lock = t /\ ~Locked(t)',
           \/ saver' = saver /\ (At(t, "saving")' => At(t, "saving"))
           \/ saver = "none" /\ saver' = t
           \/ saver' = "none" /\ saver = t /\ ~At(t, "saving")',
           task'[t].pc # "idle" => Awake' \/ (life' = "starting" /\ t = "boot"),
           life' = life \/ Awake' \/ (life' = "starting" /\ life = "handoff")
               \/ (life = "starting" /\ task["boot"].pc = "idle" /\ t = "boot")
    PROVE  LockInv'
<1>1. \A u \in Tasks \ {t} : (Locked(u)' <=> Locked(u)) /\ (At(u, "saving")' <=> At(u, "saving"))
  BY DEF Locked, At
<1>2. \A u \in Tasks : Locked(u)' => lock' = u
  BY <1>1, Names DEF LockInv
<1>3. \A u \in Tasks : At(u, "saving")' => saver' = u
  BY <1>1, Names DEF LockInv
<1>4. \A u \in Tasks : task'[u].pc # "idle" => Awake' \/ (life' = "starting" /\ u = "boot")
  BY DEF LockInv, Awake
<1> QED
  BY <1>2, <1>3, <1>4 DEF LockInv

LEMMA LockIdle ==
    ASSUME TypeOK, LockInv, UNCHANGED <<task, lock, saver>>,
           life' = life \/ Awake' \/ (life = "down" /\ \A t \in Tasks : task[t] = NoTask)
               \/ (life = "starting" /\ task["boot"].pc = "idle")
    PROVE  LockInv'
BY DEF LockInv, Locked, At, Awake, NoTask

LEMMA LockForget ==
    ASSUME ForgetMemory
    PROVE  LockInv'
<1>1. \A t \in Tasks : task'[t] = NoTask /\ task'[t].pc = "idle"
  BY DEF ForgetMemory, NoTask
<1> QED
  BY <1>1 DEF LockInv, Locked, At

LEMMA LockTurn ==
    ASSUME TypeOK, OrderInv, LockInv, NEW t \in Tasks, Turn(t) \/ (t = "tick" /\ Tick)
    PROVE  LockInv'
<1>1. Fits(t, task[t])
  BY DEF TypeOK, CallsFit
<1>2. task[t].pc # "idle" => Awake \/ (life = "starting" /\ t = "boot")
  BY DEF LockInv
<1> DEFINE Keeps == lock' = lock /\ (Locked(t)' => Locked(t))
           Saver == saver' = saver /\ task'[t].pc # "saving"
           Others == \A u \in Tasks \ {t} : task'[u] = task[u]
<1>3. CASE TakeSave(t)
  <2>1. Others /\ task'[t].pc = "saving" /\ task'[t].next = task[t].next
    BY <1>3, Moved DEF TakeSave, To, Now
  <2>2. Keeps /\ saver = "none" /\ saver' = t /\ life' = life /\ task[t].pc = "save"
    BY <1>3, <2>1 DEF TakeSave, Locked, At, entry
  <2> QED
    BY <1>2, <2>1, <2>2, LockFrame DEF Awake
<1>4. CASE SaveDone(t)
  <2>1. Others /\ task'[t].pc = task[t].next /\ task'[t].next = task[t].next
    BY <1>4, Moved DEF SaveDone, To, Now
  <2>2. task[t].pc = "saving" /\ saver = t /\ lock' = lock /\ life' = life /\ saver' = "none"
    BY <1>4 DEF SaveDone, At, LockInv, entry
  <2>3. /\ task[t].next \in {"lock", "arm", "cleanup", "restore", "rlock", "blocked", "failed",
                             "finish", "surrender"}
        /\ t \in Sessions => task[t].next = "surrender"
    BY <1>1, <2>2 DEF Fits
  <2>4. Keeps /\ ~At(t, "saving")'
    BY <2>1, <2>2, <2>3 DEF Locked, At
  <2> QED
    BY <1>2, <2>1, <2>2, <2>4, LockFrame DEF Awake
<1>5. CASE TakePersist(t)
  <2>1. Others /\ task'[t].pc = "persisting" /\ task'[t].next = task[t].next
    BY <1>5, Moved DEF TakePersist, To, Now
  <2>2. Keeps /\ saver' = saver /\ life' = life /\ task[t].pc = "persist"
    BY <1>5, <2>1 DEF TakePersist, Locked, At, diagSaving, entry
  <2> QED
    BY <1>2, <2>1, <2>2, LockFrame DEF Awake, At
<1>6. CASE PersistDone(t)
  <2>1. task[t].pc = "persisting" /\ lock' = lock /\ life' = life /\ saver' = saver
    BY <1>6 DEF PersistDone, At, diagSaving, entry
  <2>2. UNCHANGED task \/ To(t, task[t].next)
    BY <1>6, Moved DEF PersistDone
  <2>3. task[t].next \in {"mlock", "relinquish", "go", "release", "leave"}
    BY <1>1, <2>1 DEF Fits
  <2>4. Others /\ Keeps /\ Saver
    BY <1>1, <2>1, <2>2, <2>3, Names DEF To, Now, Locked, Fits, DiagnosticSteps
  <2>5. task'[t].pc # "idle"
    BY <2>1, <2>2, <2>3 DEF To, Now
  <2> QED
    BY <1>2, <2>1, <2>4, LockFrame DEF Awake, At
<1>7. CASE SendCommand(t) \/ CommandLands(t)
  <2>1. Others /\ task[t].pc \in {"exec", "sent"} /\ task'[t].pc \in {"exec", "sent"}
    <3>1. CASE SendCommand(t)
      BY <3>1, Moved DEF SendCommand, At, To, Now
    <3>2. CASE CommandLands(t)
      BY <3>2 DEF CommandLands, At, TypeOK, CallsFit, Calls
    <3> QED
      BY <1>7, <3>1, <3>2
  <2>2. Keeps /\ Saver /\ life' = life
    BY <1>7, <2>1 DEF SendCommand, CommandLands, Locked, At, diagSaving, entry
  <2> QED
    BY <1>2, <2>1, <2>2, LockFrame DEF Awake, At
<1>8. CASE RequestLocks(t) \/ (t = "tick" /\ Tick)
  <2>1. /\ lock = "free" /\ lock' = t /\ Others
        /\ task'[t].pc \in {"leave", "persist", "save", "store"}
    <3>1. CASE Fence(t)
      BY <3>1, FenceMoves DEF Leaves, Confirms, Attempt, Gives, To, Now
    <3>2. CASE t = "tick" /\ AutomaticTurn
      BY <3>2, TurnMoves DEF To, Now
    <3> QED
      BY <1>8, <3>1, <3>2 DEF RequestLocks, Tick
  <2>2. saver' = saver /\ life' = life
    BY <1>8 DEF RequestLocks, Fence, Tick, diagSaving, entry
  <2>3. task[t].pc # "idle" \/ Awake
    BY <1>8 DEF RequestLocks, Tick, At, Awake
  <2>4. ~At(t, "saving")'
    BY <2>1 DEF At
  <2>5. task'[t].pc # "idle" => Awake' \/ (life' = "starting" /\ t = "boot")
    BY <1>2, <2>2, <2>3 DEF Awake
  <2> QED
    BY <2>1, <2>2, <2>4, <2>5, LockFrame
<1>9. CASE Leave(t)
  <2>1. Others /\ task'[t].pc = "idle"
    BY <1>9, Moved DEF Leave, Ends, Now
  <2>2. lock = t /\ lock' = "free" /\ saver' = saver /\ life' = life
    BY <1>1, <1>9, Names DEF Leave, At, Locked, LockInv, Fits, DiagnosticSteps, diagSaving
  <2> QED
    BY <2>1, <2>2, LockFrame DEF At, Locked
<1>10. CASE Relinquish(t) \/ Surrender(t) \/ Go(t) \/ ReleaseHold(t) \/ (t = "tick" /\ StoreSession)
  <2>1. task[t].pc \in {"relinquish", "surrender", "surrendered", "go", "release", "store"}
    BY <1>10 DEF Relinquish, Surrender, Go, ReleaseHold, StoreSession, At
  <2>2. t \in Sessions /\ Locked(t)
    BY <1>1, <2>1, Names DEF Fits, DiagnosticSteps, Locked
  <2>3. Others /\ task'[t].pc \notin {"idle", "saving"}
    <3>1. CASE Relinquish(t)
      BY <3>1, Moved, RelinquishMoves
         DEF Relinquish, Leaves, Confirms, Attempt, Gives, To, Now
    <3>2. CASE Surrender(t)
      BY <3>2, SurrenderMoves DEF Leaves, Confirms, Attempt, To, Now
    <3>3. CASE Go(t) \/ ReleaseHold(t) \/ (t = "tick" /\ StoreSession)
      BY <3>3, Moved DEF Go, ReleaseHold, StoreSession, To, Now
    <3> QED
      BY <1>10, <3>1, <3>2, <3>3
  <2>4. lock' = lock /\ saver' = saver /\ life' = life
    BY <1>10 DEF Relinquish, Surrender, Go, ReleaseHold, StoreSession, diagSaving, entry
  <2> QED
    BY <1>2, <2>1, <2>2, <2>3, <2>4, LockFrame DEF Awake, At
<1>11. CASE Executed(t)
  <2>1. t \in Sessions /\ Locked(t) /\ task[t].pc # "idle"
    BY <1>11 DEF Executed, Complete, Raises, At, Locked
  <2>2. To(t, "leave") \/ Now(t, "persist", "release", man.gen, task[t].plan)
    BY <1>11, ExecutedMoves DEF Leaves, Confirms
  <2>3. lock' = lock /\ saver' = saver /\ life' = life
    BY <1>11 DEF Executed, diagSaving
  <2>4. Others /\ task'[t].pc \notin {"idle", "saving"}
    BY <2>2 DEF To, Now
  <2> QED
    BY <1>2, <2>1, <2>3, <2>4, LockFrame DEF Awake, At
<1>12. CASE t \in Diagnostics /\ (Restore(t) \/ RestoreEnds(t) \/ (t = "start" /\ (Arm \/ Cleanup)))
  <2>1. lock' = lock /\ saver' = saver /\ life' = life /\ task[t].pc # "idle"
    BY <1>12 DEF Restore, RestoreEnds, Arm, Cleanup, diagSaving, entry, At
  <2>2. Others /\ task'[t].pc \in {"idle", "save"}
    <3>1. CASE Restore(t)
      BY <3>1, RestoreMoves DEF Restore, Ends, Now
    <3>2. CASE RestoreEnds(t) \/ (t = "start" /\ (Arm \/ Cleanup))
      BY <3>2, Moved DEF RestoreEnds, Arm, Cleanup, Ends, Now
    <3> QED
      BY <1>12, <3>1, <3>2
  <2>3. ~Locked(t)' /\ ~At(t, "saving")'
    BY <1>12, <2>2, Names DEF Locked, At
  <2> QED
    BY <1>2, <2>1, <2>2, <2>3, LockFrame DEF Awake, At
<1>13. CASE t \in Diagnostics /\ (RestoreLocks(t) \/ (t = "start" /\ StartLocks))
  <2>1. saver' = saver /\ life' = life /\ task[t].pc # "idle" /\ lock = "free"
    BY <1>13 DEF RestoreLocks, StartLocks, diagSaving, entry, At
  <2>2. Others /\ ((lock' = t /\ task'[t].pc = "exec") \/ (lock' = lock /\ task'[t].pc = "idle"))
    BY <1>13, Moved DEF RestoreLocks, StartLocks, Ends, To, Now
  <2>3. ~At(t, "saving")' /\ (task'[t].pc = "idle" => ~Locked(t)')
    BY <2>2 DEF At, Locked
  <2> QED
    BY <1>2, <2>1, <2>2, <2>3, LockFrame DEF Awake, At
<1>14. CASE t \in Diagnostics /\ (RestoreContinues(t) \/ (t = "start" /\ StartContinues))
  <2>1. saver' = saver /\ life' = life /\ task[t].pc # "idle" /\ lock = t /\ lock' = "free"
    BY <1>14 DEF RestoreContinues, StartContinues, diagSaving, At, Complete, Raises
  <2>2. Others /\ task'[t].pc \in {"idle", "save"}
    BY <1>14, Moved DEF RestoreContinues, StartContinues, Ends, Now
  <2>3. ~At(t, "saving")' /\ ~Locked(t)'
    BY <1>14, <2>2, Names DEF At, Locked
  <2> QED
    BY <1>2, <2>1, <2>2, <2>3, LockFrame DEF Awake, At
<1> QED
  BY <1>3, <1>4, <1>5, <1>6, <1>7, <1>8, <1>9, <1>10, <1>11, <1>12, <1>13, <1>14
     DEF Turn, Diagnostics

LEMMA LockEvent ==
    ASSUME TypeOK, OrderInv, LockInv, Event
    PROVE  LockInv'
<1>1. Diagnostics \subseteq Tasks /\ Sessions \subseteq Tasks /\ {"start", "stop", "retry", "boot"} = Diagnostics
      /\ {"req1", "req2"} \subseteq Sessions
  BY Names DEF Diagnostics, Sessions
<1>2. task \in [Tasks -> Calls]
  BY DEF TypeOK, CallsFit
<1>3. ASSUME NEW r \in Requests, NEW t \in {"req1", "req2"}, Admit(t, r)
      PROVE  LockInv'
  <2>1. Now(t, "persist", "mlock", task[t].gen, task[t].plan) /\ life = "up"
        /\ UNCHANGED <<life, lock, saver>>
    BY <1>1, <1>3, Moved DEF Admit, diagSaving, entry
  <2>2. ~Locked(t)' /\ ~At(t, "saving")'
    BY <1>1, <2>1, Names DEF Now, Locked, At
  <2> QED
    BY <1>1, <2>1, <2>2, LockFrame DEF Now, Awake
<1>4. CASE Tick
  BY <1>4, LockTurn DEF Tasks, Sessions
<1>5. CASE StartTest("charge") \/ UserStop \/ TimerExpires \/ RetryFires
  <2>1. life = "up" /\ UNCHANGED <<life, lock, saver>>
    BY <1>5 DEF StartTest, UserStop, TimerExpires, RetryFires, diagSaving, entry
  <2>2. UNCHANGED task \/ \E t \in Diagnostics :
            task'[t].pc \in {"save", "restore"} /\ \A u \in Tasks \ {t} : task'[u] = task[u]
    <3>1. CASE StartTest("charge")
      BY <1>1, <1>2, <3>1 DEF StartTest
    <3>2. CASE UserStop \/ TimerExpires
      BY <1>1, <3>2, Moved DEF UserStop, TimerExpires, BeginStop, Now
    <3>3. CASE RetryFires
      BY <1>1, <3>3, Moved DEF RetryFires, To, Now
    <3> QED
      BY <1>5, <3>1, <3>2, <3>3
  <2>3. CASE UNCHANGED task
    BY <2>1, <2>3, LockIdle
  <2>4. ASSUME NEW t \in Diagnostics, task'[t].pc \in {"save", "restore"},
               \A u \in Tasks \ {t} : task'[u] = task[u]
        PROVE  LockInv'
    <3>1. ~Locked(t)' /\ ~At(t, "saving")'
      BY <2>4, Names DEF Locked, At
    <3> QED
      BY <1>1, <2>1, <2>4, <3>1, LockFrame DEF Awake
  <2> QED
    BY <2>2, <2>3, <2>4
<1>6. CASE CancelStart
  <2>1. /\ UNCHANGED <<life, saver>> /\ task["start"].pc \in {"lock", "exec", "sent"}
        /\ lock' = IF lock = "start" THEN "free" ELSE lock
    BY <1>6 DEF CancelStart, diagSaving
  <2>2. task'["start"].pc \in {"idle", "save"} /\ \A u \in Tasks \ {"start"} : task'[u] = task[u]
    <3>1. CASE task' = [task EXCEPT !["start"] = [pc |-> "save", next |-> "cleanup",
                                                    gen |-> diag.gen + 1, plan |-> <<>>]]
      BY <1>1, <1>2, <3>1
    <3>2. CASE End("start")
      BY <1>1, <3>2, Moved DEF Ends, Now
    <3> QED
      BY <1>6, <3>1, <3>2 DEF CancelStart
  <2>3. ~Locked("start")' /\ ~At("start", "saving")'
    BY <1>1, <2>2, Names DEF Locked, At
  <2>4. Awake \/ "start" = "boot"
    BY <1>1, <2>1 DEF LockInv
  <2> QED
    BY <1>1, <2>1, <2>2, <2>3, <2>4, LockFrame DEF Awake
<1>7. CASE RestoreHandoff \/ TestLoaded \/ LoadSessions \/ Unload \/ ChangeGate \/ Corrupt
  <2>1. UNCHANGED <<task, lock, saver>>
    BY <1>7 DEF RestoreHandoff, TestLoaded, LoadSessions, Unload, ChangeGate, Corrupt, diagSaving
  <2>2. life' = life \/ Awake' \/ (life = "down" /\ \A t \in Tasks : task[t] = NoTask)
               \/ (life = "starting" /\ task["boot"].pc = "idle")
    BY <1>7 DEF RestoreHandoff, TestLoaded, LoadSessions, Unload, ChangeGate, Corrupt, Awake,
                OrderInv, Asleep, At
  <2> QED
    BY <2>1, <2>2, LockIdle
<1>8. CASE LoadTest \/ UnloadTest
  <2>1. /\ UNCHANGED <<lock, saver>>
        /\ UNCHANGED task \/ SaveThen("boot", "restore")
        /\ Awake' \/ (life = "handoff" /\ life' = "starting" /\ SaveThen("boot", "restore"))
              \/ (life = "handoff" /\ life' = "sessions" /\ UNCHANGED task)
    BY <1>8 DEF LoadTest, UnloadTest, diagSaving, Awake
  <2>2. CASE SaveThen("boot", "restore")
    <3>1. task'["boot"].pc = "save" /\ \A u \in Tasks \ {"boot"} : task'[u] = task[u]
      BY <1>1, <2>2, Moved DEF Now
    <3>2. ~Locked("boot")' /\ ~At("boot", "saving")'
      BY <1>1, <3>1, Names DEF Locked, At
    <3>3. CASE UNCHANGED task
      <4>1. task["boot"].pc = "save" /\ (Awake \/ life = "starting")
        BY <1>1, <3>1, <3>3 DEF LockInv
      <4>2. Awake'
        BY <2>1, <4>1 DEF Awake
      <4> QED
        BY <2>1, <3>3, <4>2, LockIdle
    <3> QED
      BY <1>1, <2>1, <3>1, <3>2, <3>3, LockFrame DEF Awake
  <2>3. CASE UNCHANGED task
    BY <2>1, <2>3 DEF LockInv, Awake, Locked, At
  <2> QED
    BY <2>1, <2>2, <2>3
<1>9. CASE Unloaded \/ Crash
  BY <1>9, LockForget DEF Unloaded, Crash
<1>10. ASSUME NEW t \in Tasks, SaveFails(t)
       PROVE  LockInv'
  <2>1. CASE ForgetMemory
    BY <2>1, LockForget
  <2>2. CASE ~ForgetMemory
    <3>1. /\ task[t].pc = "saving" /\ saver = t /\ saver' = "none" /\ life' = life
          /\ lock' = IF lock = t THEN "free" ELSE lock
      BY <1>10, <2>2 DEF SaveFails, At, LockInv
    <3>2. \/ Ends(t)
          \/ task[t].next = "cleanup" /\ To(t, "cleanup")
      BY <1>10, <2>2, Moved DEF SaveFails
    <3>3. task'[t].pc \in {"idle", "cleanup"} /\ \A u \in Tasks \ {t} : task'[u] = task[u]
      BY <3>2 DEF Ends, To, Now
    <3>4. ~Locked(t)' /\ ~At(t, "saving")'
      BY <3>3 DEF Locked, At
    <3>5. task[t].pc # "idle" => Awake \/ (life = "starting" /\ t = "boot")
      BY DEF LockInv
    <3> QED
      BY <3>1, <3>3, <3>4, <3>5, LockFrame DEF Awake
  <2> QED
    BY <2>1, <2>2
<1>11. ASSUME NEW t \in Tasks, PersistFails(t)
       PROVE  LockInv'
  <2>1. /\ task[t].pc = "persisting" /\ saver' = saver /\ life' = life
        /\ lock' = IF lock = t THEN "free" ELSE lock
    BY <1>11 DEF PersistFails, At, diagSaving
  <2>2. task'[t].pc = "idle" /\ \A u \in Tasks \ {t} : task'[u] = task[u]
    BY <1>11, Moved DEF PersistFails, Ends, Now
  <2>3. ~Locked(t)' /\ ~At(t, "saving")'
    BY <2>2 DEF Locked, At
  <2> QED
    BY <2>1, <2>2, <2>3, LockFrame
<1> QED
  BY <1>3, <1>4, <1>5, <1>6, <1>7, <1>8, <1>9, <1>10, <1>11 DEF Event

-------------------------------------------------------------------------------
(* The steps of a session. *)

SameJournal == UNCHANGED <<life, manDisk, writer, page>>
\* The other owners are asked to give up, one store after the other.
Surrendering(t) ==
    /\ Surrenders(t) /\ UNCHANGED <<inv, man, diag>> /\ SameJournal
    /\ \E step \in {"saving", "surrender", "surrendered"} : To(t, step)
\* A command is sent, or lands.
Commanded(t) ==
    /\ task[t].pc \in {"exec", "sent"} /\ task[t].plan # <<>>
    /\ UNCHANGED <<man, diag>> /\ SameJournal
    /\ \E step \in {"exec", "sent"}, plan \in Seq(Cmds) : Now(t, step, task[t].next, task[t].gen, plan)
Entries(t) == At(t, "mlock") \/ (t = "tick" /\ At(t, "idle"))
\* The call gives up.
Quits(t) ==
    /\ Entries(t) \/ task[t].pc \in {"relinquish", "surrendered", "go", "exec", "sent", "release"}
    /\ Leaves(t) /\ Steady /\ UNCHANGED diag /\ SameJournal
    /\ \/ man'.relinquished = man.relinquished
       \/ At(t, "surrendered") /\ Mine(t) /\ man'.relinquished = man.gen
    /\ UNCHANGED inv \/ At(t, "sent")
Asks(t) ==
    /\ Entries(t) /\ Open /\ man' = man /\ UNCHANGED <<inv, diag>> /\ SameJournal
    /\ Now(t, "persist", "relinquish", man.gen, task[t].plan)
Yields(t) ==
    /\ Entries(t) \/ (At(t, "relinquish") /\ Mine(t))
    /\ Open /\ Gives(t) /\ UNCHANGED inv /\ SameJournal
\* Feedback is compared.
Judges(t) ==
    /\ Open /\ Steady /\ UNCHANGED <<inv, diag>> /\ SameJournal
    /\ \/ /\ Entries(t) \/ (At(t, "relinquish") /\ Mine(t))
          /\ Given /\ man'.relinquished = man.gen /\ (Confirms(t) \/ Attempt(t))
       \/ /\ At(t, "surrendered") /\ Mine(t) /\ man'.relinquished = man.gen
          /\ Confirms(t) \/ Attempt(t)
       \/ /\ task[t].pc \in {"exec", "sent"} /\ Mine(t) /\ man'.relinquished = man.relinquished
          /\ Confirms(t)
Goes(t) == /\ At(t, "go") /\ Mine(t) /\ To(t, "exec") /\ UNCHANGED <<inv, man, diag>> /\ SameJournal
Reopens(t) ==
    /\ At(t, "release") /\ Mine(t) /\ UNCHANGED <<inv, diag>> /\ SameJournal
    /\ \/ /\ man' = [man EXCEPT !.phase = "pending"]
          /\ Now(t, "persist", "leave", task[t].gen, task[t].plan)
       \/ man' = [man EXCEPT !.hold = man.target # "automatic"] /\ To(t, "leave")
Stored(t) == /\ t = "tick" /\ At(t, "store") /\ To(t, "exec") /\ sessDisk' = sess /\ UNCHANGED sess
             /\ UNCHANGED <<inv, man, diag>> /\ SameJournal
Turns(t) == /\ t = "tick" /\ At(t, "idle") /\ ~man.hold /\ life = "up" /\ AutomaticTurn
            /\ UNCHANGED <<inv, man, diag, sessDisk>> /\ SameJournal

LEMMA SessionCases ==
    ASSUME TypeOK, OrderInv, LockInv, NEW t \in Sessions, Turn(t) \/ (t = "tick" /\ Tick)
    PROVE  \/ Surrendering(t) \/ TakePersist(t) \/ PersistDone(t) \/ Commanded(t) \/ Quits(t)
           \/ Asks(t) \/ Yields(t) \/ Judges(t) \/ Leave(t) \/ Goes(t) \/ Reopens(t) \/ Stored(t)
           \/ Turns(t)
<1>1. t \in Tasks /\ t \notin Diagnostics /\ Fits(t, task[t]) /\ man \in ManualSessions
      /\ task[t] \in Calls
  BY Names DEF TypeOK, CallsFit, StateOK
<1>2. Mine(t) /\ task[t].pc \notin {"idle", "leave"} => Open
  BY DEF Mine, Current, Open, OrderInv, Untrusted
<1>3. CASE TakeSave(t) \/ SaveDone(t)
  <2>1. UNCHANGED <<inv, man, diag, life, manDisk, writer, page>> /\ Surrenders(t)
    BY <1>3 DEF TakeSave, SaveDone, Surrenders, At, entry, manSaving
  <2>2. \E step \in {"saving", "surrender", "surrendered"} : To(t, step)
    BY <1>1, <1>3, Moved DEF TakeSave, SaveDone, At, Fits
  <2> QED
    BY <2>1, <2>2 DEF Surrendering, SameJournal
<1>4. CASE SendCommand(t) \/ CommandLands(t)
  <2>1. /\ UNCHANGED <<man, diag, life, manDisk, writer, page>>
        /\ task[t].pc \in {"exec", "sent"} /\ task[t].plan # <<>>
    BY <1>1, <1>4 DEF SendCommand, CommandLands, At, entry, manSaving, Fits
  <2>2. CASE SendCommand(t)
    BY <1>1, <2>1, <2>2, Moved DEF SendCommand, To, Commanded, SameJournal, Calls
  <2>3. CASE CommandLands(t)
    <3>1. task'[t].pc = "exec" /\ task'[t].next = task[t].next /\ task'[t].gen = task[t].gen
          /\ \A u \in Tasks \ {t} : task'[u] = task[u]
      BY <1>1, <2>3 DEF CommandLands, Calls, TypeOK, CallsFit
    <3>2. task'[t].plan = Tail(task[t].plan)
      BY <1>1, <2>3 DEF CommandLands, Calls, TypeOK, CallsFit
    <3>3. task'[t].plan \in Seq(Cmds)
      <4>1. task[t].plan \in Seq(Cmds) /\ task[t].plan # <<>>
        BY <1>1, <2>3 DEF CommandLands, At, Fits, Calls
      <4> QED
        BY <3>2, <4>1
    <3>4. Now(t, "exec", task[t].next, task[t].gen, task'[t].plan)
      BY <3>1 DEF Now
    <3> QED
      BY <2>1, <3>3, <3>4 DEF Commanded, SameJournal
  <2> QED
    BY <1>4, <2>2, <2>3
<1>5. CASE RequestLocks(t) \/ (t = "tick" /\ Tick /\ man.hold)
  <2>1. Fence(t) /\ Entries(t)
    BY <1>5 DEF RequestLocks, Tick, Entries
  <2>2. UNCHANGED <<inv, life, manDisk, writer, page>>
    BY <2>1 DEF Fence, entry, manSaving
  <2> QED
    BY <1>1, <2>1, <2>2, FenceMoves DEF Quits, Asks, Yields, Judges, SameJournal, Given
<1>6. CASE t = "tick" /\ Tick /\ ~man.hold
  BY <1>6 DEF Tick, Turns, SameJournal, entry, manSaving
<1>7. CASE Relinquish(t)
  <2>1. At(t, "relinquish") /\ UNCHANGED <<inv, life, manDisk, writer, page>>
    BY <1>7 DEF Relinquish, entry, manSaving
  <2>2. CASE Mine(t) /\ RelinquishFrom(t)
    <3>1. Open
      BY <1>2, <2>1, <2>2 DEF At
    <3> QED
      BY <1>1, <2>1, <2>2, <3>1, RelinquishMoves DEF Quits, Yields, Judges, SameJournal, Given, At
  <2>3. CASE LeaveNext(t) /\ UNCHANGED <<man, diag>>
    BY <1>1, <2>1, <2>3, Moved DEF Quits, Leaves, Steady, SameJournal, At
  <2> QED
    BY <1>7, <2>2, <2>3 DEF Relinquish
<1>8. CASE Surrender(t)
  <2>1. UNCHANGED <<inv, life, manDisk, writer, page, diag>>
    BY <1>8 DEF Surrender, entry, manSaving
  <2>2. CASE At(t, "surrender") /\ To(t, "surrendered") /\ man' = man
    BY <2>1, <2>2 DEF Surrendering, Surrenders, At, SameJournal
  <2>3. CASE At(t, "surrendered") /\ To(t, "leave") /\ man' = man
    BY <2>1, <2>3 DEF Quits, Leaves, Steady, SameJournal, At
  <2>4. CASE /\ At(t, "surrendered") /\ Mine(t) /\ Steady /\ man'.relinquished = man.gen
             /\ Leaves(t) \/ Confirms(t) \/ Attempt(t)
    <3>1. Open
      BY <1>2, <2>4 DEF At
    <3> QED
      BY <2>1, <2>4, <3>1 DEF Quits, Judges, SameJournal, At
  <2> QED
    BY <1>1, <1>8, <2>2, <2>3, <2>4, SurrenderMoves
<1>9. CASE Go(t)
  <2>1. UNCHANGED <<inv, life, manDisk, writer, page, diag, man>> /\ At(t, "go")
    BY <1>9 DEF Go, entry, manSaving
  <2> QED
    BY <1>1, <1>9, <2>1, Moved DEF Go, Goes, Quits, Leaves, Steady, SameJournal, At
<1>10. CASE Executed(t)
  <2>1. UNCHANGED <<life, manDisk, writer, page, diag>> /\ (UNCHANGED inv \/ At(t, "sent"))
    BY <1>10 DEF Executed, Complete, Raises, manSaving
  <2>2. /\ Steady /\ man'.relinquished = man.relinquished /\ task[t].pc \in {"exec", "sent"}
        /\ Leaves(t) \/ (UNCHANGED inv /\ Mine(t) /\ Confirms(t))
    BY <1>1, <1>10, ExecutedMoves
  <2> QED
    BY <1>2, <2>1, <2>2 DEF Quits, Judges, SameJournal
<1>11. CASE ReleaseHold(t)
  <2>1. UNCHANGED <<inv, life, manDisk, writer, page, diag>> /\ At(t, "release")
    BY <1>11 DEF ReleaseHold, entry, manSaving
  <2> QED
    BY <1>1, <1>11, <2>1, Moved DEF ReleaseHold, Reopens, Quits, Leaves, Steady, SameJournal, At
<1>12. CASE t = "tick" /\ StoreSession
  <2>1. UNCHANGED <<inv, life, manDisk, writer, page, diag, man>> /\ At(t, "store")
    BY <1>12 DEF StoreSession, entry, manSaving
  <2> QED
    BY <1>1, <1>12, <2>1, Moved DEF StoreSession, Stored, SameJournal
<1> QED
  BY <1>1, <1>3, <1>4, <1>5, <1>6, <1>7, <1>8, <1>9, <1>10, <1>11, <1>12, Names
     DEF Turn, Diagnostics

\* A step of the test, or of the gates: no session and no automatic turn moves.
Aside ==
    /\ UNCHANGED <<man, sess, sessDisk>> /\ SameJournal
    /\ \A u \in Sessions : task'[u] = task[u]
    /\ UNCHANGED inv \/ \A s \in Sessions : ~Locked(s)
    /\ Testing' => Testing
Forgotten == ForgetMemory /\ life # "down" /\ (UNCHANGED inv \/ \E t \in Tasks : At(t, "sent") /\ Land(t))
\* The store of a session refused its write.
Drops(t) == /\ t \in Sessions /\ At(t, "saving") /\ Ends(t) /\ UNCHANGED <<inv, man, diag, sess, sessDisk>>
            /\ SameJournal

LEMMA AsideTurn ==
    ASSUME TypeOK, LockInv, NEW t \in Diagnostics, Turn(t)
    PROVE  Aside
<1>1. t \in Tasks /\ t \notin Sessions /\ Sessions \subseteq Tasks \ {t} /\ Fits(t, task[t])
      /\ diag \in Tests
  BY Names DEF TypeOK, CallsFit, StateOK
<1>2. lock = t => \A s \in Sessions : ~Locked(s)
  BY <1>1 DEF LockInv
<1>3. task[t].pc \in {"exec", "sent"} => lock = t
  BY <1>1 DEF LockInv, Locked
<1>4. CASE TakeSave(t) \/ SaveDone(t)
  <2>1. \E step : To(t, step)
    BY <1>1, <1>4, Moved DEF TakeSave, SaveDone
  <2>2. UNCHANGED <<inv, man, sess, sessDisk, diag>> /\ SameJournal
    BY <1>4 DEF TakeSave, SaveDone, auto, entry, manSaving, SameJournal
  <2> QED
    BY <1>1, <2>1, <2>2 DEF Aside, To, Now, Testing
<1>5. CASE SendCommand(t) \/ CommandLands(t)
  <2>1. \A u \in Tasks \ {t} : task'[u] = task[u]
    BY <1>1, <1>5, Moved DEF SendCommand, CommandLands, To, Now, TypeOK, CallsFit
  <2>2. UNCHANGED <<man, sess, sessDisk, diag>> /\ SameJournal /\ lock = t
    BY <1>3, <1>5 DEF SendCommand, CommandLands, auto, entry, manSaving, SameJournal, At
  <2> QED
    BY <1>1, <1>2, <2>1, <2>2 DEF Aside, Testing
<1>6. CASE Restore(t)
  <2>1. PICK plan : RestoreWith(t, plan)
    BY <1>6 DEF Restore
  <2>2. (Testing' => Testing) /\ \A u \in Tasks \ {t} : task'[u] = task[u]
    BY <1>1, <2>1, RestoreMoves DEF SameTest, Testing, Ends, Now
  <2>3. UNCHANGED <<inv, man, sess, sessDisk>> /\ SameJournal
    BY <1>6 DEF Restore, auto, manSaving, SameJournal
  <2> QED
    BY <1>1, <2>2, <2>3 DEF Aside
<1>7. CASE RestoreLocks(t) \/ (t = "start" /\ StartLocks)
  <2>1. \A u \in Tasks \ {t} : task'[u] = task[u]
    BY <1>1, <1>7, Moved DEF RestoreLocks, StartLocks, To, Ends, Now
  <2>2. Testing' => Testing
    BY <1>1, <1>7 DEF RestoreLocks, StartLocks, Testing, Tests
  <2>3. UNCHANGED <<inv, man, sess, sessDisk>> /\ SameJournal
    BY <1>7 DEF RestoreLocks, StartLocks, auto, entry, manSaving, SameJournal
  <2> QED
    BY <1>1, <2>1, <2>2, <2>3 DEF Aside
<1>8. CASE RestoreContinues(t) \/ (t = "start" /\ StartContinues)
  <2>1. \A u \in Tasks \ {t} : task'[u] = task[u]
    BY <1>1, <1>8, Moved DEF RestoreContinues, StartContinues, Ends, Now
  <2>2. Testing' => Testing
    BY <1>1, <1>8 DEF RestoreContinues, StartContinues, Testing, Tests
  <2>3. UNCHANGED <<man, sess, sessDisk>> /\ SameJournal /\ lock = t
    BY <1>8 DEF RestoreContinues, StartContinues, auto, manSaving, SameJournal
  <2> QED
    BY <1>1, <1>2, <2>1, <2>2, <2>3 DEF Aside
<1>9. CASE RestoreEnds(t) \/ (t = "start" /\ (Arm \/ Cleanup))
  <2>1. \A u \in Tasks \ {t} : task'[u] = task[u]
    BY <1>1, <1>9, Moved DEF RestoreEnds, Arm, Cleanup, Ends, Now
  <2>2. UNCHANGED <<inv, man, sess, sessDisk, diag>> /\ SameJournal
    BY <1>9 DEF RestoreEnds, Arm, Cleanup, auto, entry, manSaving, SameJournal
  <2> QED
    BY <1>1, <2>1, <2>2 DEF Aside, Testing
<1>10. ~(TakePersist(t) \/ PersistDone(t) \/ RequestLocks(t) \/ Leave(t) \/ Relinquish(t)
         \/ Surrender(t) \/ Go(t) \/ Executed(t) \/ ReleaseHold(t) \/ t = "tick")
  BY <1>1 DEF TakePersist, PersistDone, RequestLocks, Leave, Relinquish, Surrender, Go, Executed,
              ReleaseHold, At, Fits, DiagnosticSteps, Sessions
<1> QED
  BY <1>4, <1>5, <1>6, <1>7, <1>8, <1>9, <1>10 DEF Turn

LEMMA EventCases ==
    ASSUME TypeOK, LockInv, Event
    PROVE  \/ \E r \in Requests, t \in {"req1", "req2"} : Admit(t, r)
           \/ StartTest("charge") \/ Tick \/ Aside \/ RestoreHandoff \/ LoadTest \/ TestLoaded
           \/ LoadSessions \/ UnloadTest \/ Unload \/ Corrupt \/ Forgotten
           \/ \E t \in Sessions : Drops(t) \/ PersistFails(t)
<1>1. Diagnostics \subseteq Tasks /\ Sessions \subseteq Tasks /\ diag \in Tests
      /\ {"start", "stop", "retry", "boot"} = Diagnostics /\ Diagnostics \cap Sessions = {}
      /\ \A t \in Tasks : Fits(t, task[t])
  BY Names DEF Diagnostics, TypeOK, CallsFit, StateOK
<1>2. ASSUME BeginStop
      PROVE  (\A u \in Sessions : task'[u] = task[u]) /\ (Testing' => Testing)
  <2>1. Now("stop", "save", "restore", task["stop"].gen, task["stop"].plan)
    BY <1>1, <1>2, Moved DEF BeginStop
  <2> QED
    BY <1>1, <1>2, <2>1 DEF BeginStop, Now, Testing, Tests
<1>3. CASE UserStop \/ TimerExpires \/ RetryFires \/ ChangeGate
  <2>1. UNCHANGED <<inv, man, sess, sessDisk>> /\ SameJournal
    BY <1>3 DEF UserStop, TimerExpires, RetryFires, ChangeGate, manSaving, auto, entry, SameJournal
  <2>2. (\A u \in Sessions : task'[u] = task[u]) /\ (Testing' => Testing)
    <3>1. CASE UserStop \/ TimerExpires
      BY <1>2, <3>1 DEF UserStop, TimerExpires, Testing
    <3>2. CASE RetryFires
      BY <1>1, <3>2, Moved DEF RetryFires, To, Now, Testing
    <3>3. CASE ChangeGate
      BY <3>3 DEF ChangeGate, Testing
    <3> QED
      BY <1>3, <3>1, <3>2, <3>3
  <2> QED
    BY <2>1, <2>2 DEF Aside
<1>4. CASE CancelStart
  <2>1. UNCHANGED <<man, sess, sessDisk>> /\ SameJournal
    BY <1>4 DEF CancelStart, manSaving, auto, SameJournal
  <2>2. \A u \in Sessions : task'[u] = task[u]
    <3>1. CASE End("start")
      BY <1>1, <3>1, Moved DEF Ends, Now
    <3>2. CASE task' = [task EXCEPT !["start"] = [pc |-> "save", next |-> "cleanup",
                                                  gen |-> diag.gen + 1, plan |-> <<>>]]
      BY <1>1, <3>2 DEF TypeOK, CallsFit
    <3> QED
      BY <1>4, <3>1, <3>2 DEF CancelStart
  <2>3. Testing' => Testing
    BY <1>1, <1>4 DEF CancelStart, Testing, Tests
  <2>4. UNCHANGED inv \/ \A s \in Sessions : ~Locked(s)
    <3>1. At("start", "sent") => lock = "start"
      BY <1>1 DEF At, LockInv, Locked
    <3> QED
      BY <1>1, <1>4, <3>1 DEF CancelStart, LockInv
  <2> QED
    BY <2>1, <2>2, <2>3, <2>4 DEF Aside
<1>5. ASSUME NEW t \in Tasks, SaveFails(t)
      PROVE  Forgotten \/ Aside \/ (t \in Sessions /\ Drops(t))
  <2>1. /\ At(t, "saving") /\ UNCHANGED inv
        /\ ForgetMemory \/ (To(t, "cleanup") /\ task[t].next = "cleanup") \/ Ends(t)
        /\ ForgetMemory \/ (UNCHANGED <<man, sess, sessDisk, diag>> /\ SameJournal)
    BY <1>5, Moved DEF SaveFails, manSaving, auto, SameJournal
  <2>2. life # "down" \/ ~ForgetMemory
    BY <2>1 DEF LockInv, At, Awake
  <2>3. t \in Sessions => task[t].next # "cleanup"
    BY <1>1, <2>1 DEF At, Fits
  <2>4. CASE ForgetMemory
    BY <2>1, <2>2, <2>4 DEF Forgotten
  <2>5. CASE t \in Sessions /\ ~ForgetMemory
    BY <2>1, <2>3, <2>5 DEF Drops
  <2>6. CASE t \notin Sessions /\ ~ForgetMemory
    BY <1>1, <2>1, <2>6 DEF Aside, Ends, To, Now, Testing
  <2> QED
    BY <2>4, <2>5, <2>6
<1>6. CASE Unloaded \/ Crash
  BY <1>6 DEF Unloaded, Crash, Forgotten
<1>7. ASSUME NEW t \in Tasks, PersistFails(t)
      PROVE  t \in Sessions
  BY <1>1, <1>7, Names DEF PersistFails, At, Fits, DiagnosticSteps
<1> QED
  BY <1>3, <1>4, <1>5, <1>6, <1>7 DEF Event

-------------------------------------------------------------------------------
(* Generations. *)

\* The session keeps its generation, and one call of it moves.
LEMMA GenFrame ==
    ASSUME TypeOK, GenInv, NEW t \in Sessions, \A u \in Tasks \ {t} : task'[u] = task[u],
           man'.gen = man.gen, GenOf(t)'
    PROVE  \A u \in Sessions : GenOf(u)'
<1>1. Sessions \subseteq Tasks
  BY Names
<1>2. ASSUME NEW u \in Sessions, u # t
      PROVE  GenOf(u)'
  <2>1. task'[u] = task[u] /\ GenOf(u)
    BY <1>1, <1>2 DEF GenInv
  <2>2. u = "tick" => (OwnTurn' <=> OwnTurn)
    BY <2>1 DEF OwnTurn
  <2> QED
    BY <1>2, <2>1, <2>2 DEF GenOf, Locked, At
<1> QED
  BY <1>2

LEMMA GenSession ==
    ASSUME TypeOK, OrderInv, LockInv, GenInv, NEW t \in Sessions,
           Turn(t) \/ (t = "tick" /\ Tick)
    PROVE  GenInv'
<1>1. /\ t \in Tasks /\ t \notin Diagnostics /\ Fits(t, task[t]) /\ task[t] \in Calls
      /\ man \in ManualSessions /\ page \in Pages
  BY Names DEF TypeOK, CallsFit, StateOK
<1>2. man.gen \in Nat /\ man.relinquished \in Nat \cup {-1} /\ task[t].gen \in Nat
  BY <1>1 DEF ManualSessions, Calls
<1>3. GenOf(t)
  BY DEF GenInv
<1>4. Open => man.gen # 0
  BY DEF Open, GenInv
<1>5. CASE Surrendering(t) \/ Commanded(t) \/ Goes(t) \/ Stored(t)
  <2>1. PICK step \in Steps :
            /\ \E plan : Now(t, step, task[t].next, task[t].gen, plan)
            /\ \/ Surrenders(t) /\ step \in {"saving", "surrender", "surrendered"}
               \/ task[t].pc \in {"exec", "sent"} /\ step \in {"exec", "sent"}
               \/ At(t, "go") /\ step = "exec"
               \/ At(t, "store") /\ t = "tick" /\ step = "exec"
    BY <1>5 DEF Surrendering, Commanded, Goes, Stored, To, Steps, DiagnosticSteps, SessionSteps
  <2>2. UNCHANGED <<life, man, manDisk, writer, page>>
    BY <1>5 DEF Surrendering, Commanded, Goes, Stored, SameJournal
  <2>3. /\ task'[t].pc = step /\ task'[t].gen = task[t].gen
        /\ \A u \in Tasks \ {t} : task'[u] = task[u]
    BY <2>1 DEF Now
  <2>4. GenOf(t)'
    BY <1>1, <1>3, <2>1, <2>2, <2>3 DEF GenOf, Locked, OwnTurn, At, Surrenders
  <2> QED
    BY <2>2, <2>3, <2>4, GenFrame DEF GenInv
<1>6. CASE TakePersist(t)
  <2>1. To(t, "persisting") /\ UNCHANGED <<life, man, manDisk>> /\ page' = Payload(man)
    BY <1>1, <1>6, Moved DEF TakePersist, entry
  <2>2. man.trusted
    BY <1>6 DEF TakePersist, At, OrderInv, Untrusted
  <2>3. GenOf(t)'
    BY <1>3, <1>6, <2>1 DEF TakePersist, GenOf, Locked, OwnTurn, At, To, Now
  <2>4. \A u \in Sessions : GenOf(u)'
    BY <2>1, <2>3, GenFrame DEF To, Now
  <2> QED
    BY <2>1, <2>2, <2>4 DEF GenInv, Payload
<1>7. CASE PersistDone(t)
  <2>1. writer = t /\ writer # "none" /\ man.trusted /\ manDisk' = page /\ life' = life
    BY <1>1, <1>7, Names DEF PersistDone, OrderInv, Untrusted, At, entry
  <2>2. CASE page.gen = man.gen
    <3>1. /\ man'.gen = man.gen /\ man'.relinquished = man.relinquished /\ man'.phase = man.phase
          /\ man'.hold = man.hold /\ man'.trusted = man.trusted /\ writer' = "none"
      BY <1>1, <1>7, <2>2 DEF PersistDone, ManualSessions
    <3>2. To(t, task[t].next) /\ task[t].next \in {"mlock", "relinquish", "go", "release", "leave"}
      BY <1>1, <1>7, <2>2, Moved DEF PersistDone, At, Fits
    <3>3. GenOf(t)'
      BY <1>3, <1>7, <3>1, <3>2 DEF PersistDone, GenOf, Locked, OwnTurn, At, To, Now
    <3>4. \A u \in Sessions : GenOf(u)'
      BY <3>1, <3>2, <3>3, GenFrame DEF To, Now
    <3> QED
      BY <2>1, <3>1, <3>4 DEF GenInv
  <2>3. CASE page.gen # man.gen
    <3>1. UNCHANGED <<man, task>> /\ page' = Payload(man)
      BY <1>7, <2>3 DEF PersistDone
    <3>2. GenOf(t)' /\ \A u \in Tasks \ {t} : task'[u] = task[u]
      BY <1>3, <3>1 DEF GenOf, Locked, OwnTurn, At
    <3> QED
      BY <2>1, <3>1, <3>2, GenFrame DEF GenInv, Payload
  <2> QED
    BY <2>2, <2>3
<1>8. CASE Quits(t) \/ Asks(t) \/ Yields(t) \/ Judges(t)
  <2>1. /\ SameJournal /\ man'.gen = man.gen /\ man'.hold = man.hold /\ man'.trusted = man.trusted
        /\ man'.relinquished \in {man.relinquished, man.gen}
        /\ man'.phase = man.phase \/ Open
    BY <1>8 DEF Quits, Asks, Yields, Gives, Judges, Steady, Leaves
  <2>2. /\ \A u \in Tasks \ {t} : task'[u] = task[u]
        /\ \/ task'[t].pc = "leave" /\ task'[t].gen = task[t].gen
           \/ Open /\ task'[t].pc \in {"persist", "save"} /\ task'[t].gen = man.gen
    BY <1>8
       DEF Quits, Asks, Yields, Gives, Judges, Leaves, Confirms, Attempt, To, Now
  <2>3. GenOf(t)'
    BY <1>2, <1>3, <1>4, <2>1, <2>2 DEF GenOf, At, Locked
  <2>4. \A u \in Sessions : GenOf(u)'
    BY <2>1, <2>2, <2>3, GenFrame
  <2>5. life \in {"handoff", "starting", "sessions"} =>
            man'.relinquished = man.relinquished /\ man'.phase = man.phase
    BY <1>8
       DEF Quits, Asks, Yields, Gives, Judges, Leaves, Open, Mine, Current
  <2>6. man'.relinquished <= man'.gen
    BY <1>2, <2>1 DEF GenInv
  <2> QED
    BY <1>4, <2>1, <2>4, <2>5, <2>6 DEF GenInv, SameJournal
<1>9. CASE Leave(t)
  <2>1. Ends(t) /\ UNCHANGED <<life, man, manDisk, writer, page>>
    BY <1>1, <1>9, Moved DEF Leave, manSaving
  <2>2. GenOf(t)'
    BY <1>2, <2>1 DEF GenOf, Locked, At, Ends, Now
  <2> QED
    BY <2>1, <2>2, GenFrame DEF GenInv, Ends, Now
<1>10. CASE Reopens(t)
  <2>1. /\ man'.gen = man.gen /\ man'.relinquished = man.relinquished
        /\ man'.trusted = man.trusted /\ SameJournal /\ Open
    BY <1>1, <1>10
       DEF Reopens, ManualSessions, Mine, Current, Open, OrderInv, Untrusted, At
  <2>2. /\ \A u \in Tasks \ {t} : task'[u] = task[u]
        /\ task'[t].pc \in {"leave", "persist"} /\ task'[t].gen = task[t].gen
    BY <1>10 DEF Reopens, To, Now
  <2>3. GenOf(t)'
    BY <1>3, <1>4, <1>10, <2>1, <2>2 DEF Reopens, Mine, Current, GenOf, Locked, At
  <2> QED
    BY <1>4, <2>1, <2>2, <2>3, GenFrame DEF GenInv, SameJournal, Open
<1>11. CASE Turns(t)
  <2>1. /\ UNCHANGED man /\ SameJournal /\ task[t] = NoTask
        /\ task'[t].pc = "store" /\ task'[t].gen = task[t].gen
        /\ \A u \in Tasks \ {t} : task'[u] = task[u]
    BY <1>1, <1>11, TurnMoves DEF Turns, To, Now, At, Fits
  <2>2. GenOf(t)'
    BY <1>3, <1>11, <2>1 DEF Turns, GenOf, OwnTurn, NoTask, At
  <2> QED
    BY <2>1, <2>2, GenFrame DEF GenInv, SameJournal
<1> QED
  BY <1>5, <1>6, <1>7, <1>8, <1>9, <1>10, <1>11, SessionCases

LEMMA GenForget ==
    ASSUME ForgetMemory, GenInv
    PROVE  GenInv'
<1>1. \A t \in Tasks : task'[t] = NoTask /\ task'[t].pc = "idle" /\ task'[t].gen = 0
  BY DEF ForgetMemory, NoTask
<1>2. man' = NoSession /\ writer' = "none" /\ manDisk' = manDisk /\ life' = "down"
  BY DEF ForgetMemory
<1>3. man'.gen = 0 /\ ~man'.trusted /\ man'.relinquished = -1
  BY <1>2 DEF NoSession
<1>4. \A t \in Sessions : GenOf(t)'
  BY <1>1, <1>3, Names DEF GenOf, Locked, At
<1> QED
  BY <1>2, <1>3, <1>4 DEF GenInv

\* Nothing of the journal moves, and no session.
LEMMA GenStill ==
    ASSUME TypeOK, GenInv, \A u \in Sessions : task'[u] = task[u],
           UNCHANGED <<manDisk, writer, page>>,
           man'.gen = man.gen, man'.trusted = man.trusted, man'.phase = man.phase,
           man'.relinquished = man.relinquished,
           man.trusted /\ man'.hold /\ life' = "up" => man.gen # 0,
           life' \in {"handoff", "starting", "sessions"} =>
               man.relinquished = -1 /\ (man'.hold => man.phase # "idle")
    PROVE  GenInv'
<1>1. "tick" \in Sessions
  BY DEF Sessions
<1>2. \A u \in Sessions : GenOf(u)'
  BY <1>1 DEF GenInv, GenOf, Locked, OwnTurn, At
<1> QED
  BY <1>2 DEF GenInv

LEMMA GenEvent ==
    ASSUME TypeOK, OrderInv, LockInv, GenInv, Event
    PROVE  GenInv'
<1>1. /\ Sessions \subseteq Tasks /\ {"req1", "req2", "tick"} = Sessions /\ Diagnostics \subseteq Tasks
      /\ man \in ManualSessions /\ manDisk \in Pages \cup {Malformed} /\ page \in Pages
      /\ Diagnostics \cap Sessions = {} /\ "boot" \in Diagnostics
      /\ \A t \in Tasks : Fits(t, task[t]) /\ task[t] \in Calls
  BY Names DEF TypeOK, StateOK, CallsFit, Sessions, Diagnostics
<1>2. man.gen \in Nat /\ man.relinquished \in Nat \cup {-1}
  BY <1>1 DEF ManualSessions
<1>3. ASSUME NEW r \in Requests, NEW t \in {"req1", "req2"}, Admit(t, r)
      PROVE  GenInv'
  <2>1. /\ man'.gen = man.gen + 1 /\ man'.relinquished = man.relinquished
        /\ Now(t, "persist", "mlock", task[t].gen, task[t].plan) /\ task[t].gen = 0
        /\ UNCHANGED <<life, manDisk, writer, page>> /\ life = "up"
    BY <1>1, <1>3, Moved DEF Admit, ManualSessions, At, Fits, NoTask, manSaving, entry
  <2>2. ASSUME NEW u \in Sessions
        PROVE  GenOf(u)'
    <3>1. u # t => task'[u] = task[u]
      BY <1>1, <2>1 DEF Now
    <3>2. task[u].gen \in Nat /\ GenOf(u)
      BY <1>1 DEF Calls, GenInv
    <3>3. "tick" # t
      BY <1>3
    <3>4. OwnTurn' <=> OwnTurn
      BY <1>1, <2>1, <3>3 DEF Now, OwnTurn
    <3> QED
      BY <1>1, <1>2, <1>3, <2>1, <3>1, <3>2, <3>4 DEF GenOf, Locked, At, Now
  <2> QED
    BY <1>2, <2>1, <2>2 DEF GenInv
<1>4. CASE StartTest("charge")
  <2>1. (\A u \in Sessions : task'[u] = task[u]) /\ UNCHANGED <<life, man, manDisk, writer, page>>
    BY <1>1, <1>4 DEF StartTest, entry, manSaving, TypeOK, CallsFit, Diagnostics
  <2> QED
    BY <2>1, GenStill DEF GenInv
<1>5. CASE Aside
  BY <1>5, GenStill DEF Aside, SameJournal, GenInv
<1>6. CASE RestoreHandoff
  <2>1. /\ \A t \in Tasks : task'[t] = NoTask
        /\ UNCHANGED <<manDisk, writer, page>> /\ writer = "none" /\ life' = "handoff"
    BY <1>6 DEF RestoreHandoff, manSaving, OrderInv, Asleep
  <2>2. /\ man'.gen \in Nat /\ man'.relinquished = -1
        /\ man'.trusted /\ man'.phase # "idle" => man'.gen # 0
    <3>1. CASE manDisk.phase = "malformed"
      BY <1>6, <3>1 DEF RestoreHandoff, NoSession
    <3>2. CASE manDisk.phase # "malformed"
      <4>1. manDisk \in Pages
        BY <1>1, <3>2 DEF Malformed, NoPage
      <4>2. /\ man'.gen = manDisk.gen /\ man'.relinquished = -1 /\ man'.phase = manDisk.phase
        BY <1>6, <3>2 DEF RestoreHandoff
      <4> QED
        BY <3>2, <4>1, <4>2 DEF GenInv, Pages
    <3> QED
      BY <3>1, <3>2
  <2>3. man'.hold => man'.phase # "idle"
    BY <1>6 DEF RestoreHandoff, NoSession
  <2>4. \A t \in Sessions : GenOf(t)'
    BY <1>1, <2>1, <2>2 DEF GenOf, Locked, At, NoTask
  <2> QED
    BY <2>1, <2>2, <2>4, <2>3 DEF GenInv
<1>7. CASE LoadTest \/ TestLoaded
  <2>1. /\ UNCHANGED <<man, manDisk, writer, page>> /\ life \in {"handoff", "starting"}
        /\ life' \in {"starting", "sessions"}
        /\ UNCHANGED task \/ SaveThen("boot", "restore")
    BY <1>7 DEF LoadTest, TestLoaded, manSaving
  <2>2. \A u \in Sessions : task'[u] = task[u]
    BY <1>1, <2>1, Moved DEF Now
  <2> QED
    BY <2>1, <2>2, GenStill DEF GenInv
<1>8. CASE LoadSessions
  <2>1. UNCHANGED <<man, manDisk, writer, page, task>> /\ life = "sessions" /\ life' = "up"
    BY <1>8 DEF LoadSessions, manSaving
  <2> QED
    BY <2>1, GenStill DEF GenInv
<1>9. CASE UnloadTest
  <2>1. /\ UNCHANGED <<man, writer, page>> /\ life' = "unloaded" /\ writer = "none"
        /\ manDisk' \in {manDisk, Payload(man)} /\ (manDisk' = manDisk \/ man.trusted)
        /\ UNCHANGED task \/ SaveThen("boot", "restore")
    BY <1>9 DEF UnloadTest
  <2>2. \A u \in Sessions : task'[u] = task[u]
    BY <1>1, <2>1, Moved DEF Now
  <2>3. \A u \in Sessions : GenOf(u)'
    BY <1>1, <2>1, <2>2 DEF GenInv, GenOf, Locked, OwnTurn, At
  <2> QED
    BY <2>1, <2>3 DEF GenInv, Payload
<1>10. CASE Unload
  <2>1. /\ UNCHANGED <<manDisk, writer, page, task>> /\ life' = "unloading"
        /\ man'.gen = man.gen /\ man'.trusted = man.trusted /\ man'.phase = man.phase
        /\ man'.relinquished = man.relinquished
    BY <1>1, <1>10 DEF Unload, manSaving, ManualSessions
  <2> QED
    BY <2>1, GenStill
<1>11. CASE Corrupt
  <2>1. UNCHANGED <<man, writer, page, task, life>> /\ manDisk'.phase = "malformed"
    BY <1>11 DEF Corrupt, Malformed, NoPage
  <2>2. \A u \in Sessions : GenOf(u)'
    BY <2>1 DEF GenInv, GenOf, Locked, OwnTurn, At
  <2> QED
    BY <2>1, <2>2 DEF GenInv
<1>12. CASE Forgotten
  BY <1>12, GenForget DEF Forgotten
<1>13. ASSUME NEW t \in Sessions, Drops(t) \/ PersistFails(t)
       PROVE  GenInv'
  <2>1. /\ Ends(t) /\ man'.gen = man.gen /\ man'.trusted = man.trusted /\ man'.phase = man.phase
        /\ man'.relinquished = man.relinquished /\ UNCHANGED <<life, manDisk>>
        /\ writer' = "none" \/ UNCHANGED <<writer, page>>
    BY <1>1, <1>13, Moved DEF Drops, PersistFails, SameJournal, ManualSessions
  <2>2. GenOf(t)'
    BY <1>2, <2>1 DEF GenOf, Locked, At, Ends, Now
  <2>3. \A u \in Sessions : GenOf(u)'
    BY <2>1, <2>2, GenFrame DEF Ends, Now
  <2>4. man.trusted /\ man'.hold /\ life = "up" => man.gen # 0
    <3>1. CASE Drops(t)
      BY <3>1 DEF Drops, GenInv
    <3>2. CASE PersistFails(t)
      BY <1>1, <1>2, <3>2 DEF PersistFails, GenInv, GenOf, At
    <3> QED
      BY <1>13, <3>1, <3>2
  <2>5. life \notin {"handoff", "starting", "sessions"}
    BY <1>1, <1>13 DEF Drops, PersistFails, At, LockInv, Awake
  <2> QED
    BY <2>1, <2>3, <2>4, <2>5 DEF GenInv
<1> QED
  BY <1>1, <1>3, <1>4, <1>5, <1>6, <1>7, <1>8, <1>9, <1>10, <1>11, <1>12, <1>13, EventCases,
       GenSession
     DEF Event

-------------------------------------------------------------------------------
(* The journal of the session stands for what the other owners gave up. *)

\* The call that moves holds the lock, or takes it; the others stay where they are.
LEMMA Alone ==
    ASSUME TypeOK, OrderInv, LockInv, NEW t \in Sessions, Turn(t) \/ (t = "tick" /\ Tick),
           ~TakePersist(t), ~PersistDone(t)
    PROVE  /\ lock \in {"free", t} /\ life # "down" /\ life' = life
           /\ \A u \in Sessions \ {t} : ~Locked(u) /\ task'[u] = task[u]
<1>1. Sessions \subseteq Tasks /\ t \in Tasks /\ t \notin Diagnostics /\ t # "start" /\ t # "free"
  BY Names DEF Diagnostics
<1>2. lock \in {"free", t} /\ life # "down"
  <2>1. CASE RequestLocks(t) \/ (t = "tick" /\ Tick)
    BY <1>1, <2>1 DEF RequestLocks, Tick, Fence, AutomaticTurn, LockInv, Awake, At
  <2>2. CASE ~RequestLocks(t) /\ ~(t = "tick" /\ Tick)
    <3>1. task[t].pc \in {"save", "saving", "exec", "sent", "leave", "relinquish", "surrender",
                          "surrendered", "go", "release", "store"}
      BY <1>1, <2>2
         DEF Turn, TakeSave, SaveDone, SendCommand, CommandLands, Leave, Relinquish, Surrender, Go,
             Executed, Complete, Raises, ReleaseHold, StoreSession, At
    <3> QED
      BY <1>1, <3>1 DEF Locked, LockInv, Awake
  <2> QED
    BY <2>1, <2>2
<1>3. \A u \in Sessions \ {t} : ~Locked(u)
  BY <1>1, <1>2, Names DEF LockInv
<1>4. CASE Leave(t)
  BY <1>1, <1>2, <1>3, <1>4, Moved DEF Leave, Ends, Now
<1>5. CASE Turns(t)
  BY <1>1, <1>2, <1>3, <1>5, TurnMoves DEF Turns, To, Now, SameJournal
<1>6. CASE ~Leave(t) /\ ~Turns(t)
  <2>1. life' = life
    BY <1>6, SessionCases
       DEF Surrendering, Commanded, Quits, Asks, Yields, Judges, Goes, Reopens, Stored, SameJournal
  <2>2. \A u \in Tasks \ {t} : task'[u] = task[u]
    BY <1>6, SessionCases
       DEF Surrendering, Commanded, Quits, Asks, Yields, Judges, Goes, Reopens, Stored, Leaves,
           Confirms, Attempt, Gives, To, Now
  <2> QED
    BY <1>1, <1>2, <1>3, <2>1, <2>2
<1> QED
  BY <1>4, <1>5, <1>6

\* What another call is asked to keep it asks under the lock.
LEMMA HandOther ==
    ASSUME NEW t \in Sessions, ~Locked(t), task'[t] = task[t]
    PROVE  HandOf(t)'
BY DEF HandOf, Attempts, Releases, Surrenders, Commanding, Stores, Locked, At

\* The journal stays as it is.
LEMMA HandStill ==
    ASSUME HandInv, UNCHANGED <<manDisk, writer, page>>,
           man'.phase = man.phase, man'.gen = man.gen, man'.durable = man.durable,
           man'.relinquished = man.relinquished,
           \A t \in Sessions : task'[t] = task[t] \/ (HandOf(t)' /\ ~At(t, "persist")'),
           life' = life \/ life # "down",
           life' = "up" => (life = "up" /\ man'.hold = man.hold) \/ (man'.hold => man.phase # "idle")
    PROVE  HandInv'
<1>1. HandDuty => HandDuty'
  BY DEF HandDuty
<1>2. Given' <=> Given
  BY DEF Given
<1>3. ASSUME NEW t \in Sessions, task'[t] = task[t]
      PROVE  HandOf(t)'
  BY <1>1, <1>2, <1>3
     DEF HandInv, HandOf, Attempts, Releases, Surrenders, Commanding, Stores, At
<1>4. HandFree'
  BY <1>2 DEF HandInv, HandFree, At
<1>5. HandDisk' /\ HandPage'
  BY <1>2 DEF HandInv, HandDisk, HandPage
<1> QED
  BY <1>3, <1>4, <1>5 DEF HandInv

LEMMA HandWrite ==
    ASSUME TypeOK, OrderInv, LockInv, GenInv, HandInv, NEW t \in Sessions,
           TakePersist(t) \/ PersistDone(t)
    PROVE  HandInv'
<1>1. /\ t \in Tasks /\ Sessions \subseteq Tasks /\ Fits(t, task[t]) /\ task[t] \in Calls
      /\ man \in ManualSessions /\ page \in Pages /\ t # "none"
  BY Names DEF TypeOK, CallsFit, StateOK
<1>2. life # "down" /\ task[t].pc \in {"persist", "persisting"} /\ life' = life
  BY <1>1 DEF TakePersist, PersistDone, At, LockInv, Awake, entry
<1>3. HandOf(t) /\ HandFree /\ HandDisk /\ HandPage
  BY DEF HandInv
<1>4. man.phase = "idle" => Given
  <2>1. CASE TakePersist(t)
    BY <1>2, <1>3, <2>1 DEF TakePersist, HandFree
  <2>2. CASE PersistDone(t)
    BY <1>1, <1>2, <1>3, <2>2 DEF PersistDone, HandFree, OrderInv
  <2> QED
    BY <2>1, <2>2
<1>5. CASE TakePersist(t)
  <2>1. /\ UNCHANGED <<man, manDisk>> /\ writer' = t /\ page' = Payload(man)
        /\ To(t, "persisting")
    BY <1>1, <1>5, Moved DEF TakePersist
  <2>2. page'.phase = man.phase
    BY <2>1 DEF Payload
  <2>3. HandDuty => HandDuty'
    BY <1>2, <2>1, <2>2 DEF HandDuty
  <2>4. HandOf(t)'
    BY <1>2, <1>3, <1>5, <2>1, <2>2, <2>3
       DEF TakePersist, HandOf, Attempts, Releases, Surrenders, Commanding, Stores, At, Given, To, Now
  <2>5. ASSUME NEW u \in Sessions, u # t
        PROVE  HandOf(u)'
    <3>1. task'[u] = task[u] /\ HandOf(u) /\ ~At(u, "persisting")
      BY <1>1, <1>5, <2>1, <2>5, Names DEF To, Now, HandInv, OrderInv, TakePersist
    <3> QED
      BY <2>1, <2>3, <3>1
         DEF HandOf, Attempts, Releases, Surrenders, Commanding, Stores, At, Given
  <2>6. HandFree' /\ HandPage'
    BY <1>4, <2>1, <2>2 DEF HandFree, HandPage, Given
  <2>7. HandDisk'
    BY <1>2, <1>3, <2>1 DEF HandDisk, Given
  <2> QED
    BY <2>4, <2>5, <2>6, <2>7 DEF HandInv
<1>6. CASE PersistDone(t) /\ page.gen = man.gen
  <2>1. /\ manDisk' = page /\ writer' = "none" /\ To(t, task[t].next) /\ man'.phase = man.phase
        /\ man'.gen = man.gen /\ man'.relinquished = man.relinquished /\ man'.hold = man.hold
    BY <1>1, <1>6, Moved DEF PersistDone, ManualSessions
  <2>2. writer = t /\ task[t].next \in {"mlock", "relinquish", "go", "release", "leave"}
    BY <1>1, <1>6 DEF PersistDone, OrderInv, At, Fits
  <2>3. HandDuty => HandDuty'
    BY <1>1, <1>2, <2>1, <2>2 DEF HandDuty
  <2>4. HandOf(t)'
    <3>1. Given' <=> Given
      BY <2>1 DEF Given
    <3>2. Stores(t, "go") => HandDuty'
      BY <1>2, <1>3, <1>6, <2>1 DEF HandDuty, HandOf, PersistDone, Stores
    <3> QED
      BY <1>2, <1>3, <1>6, <2>1, <2>2, <3>1, <3>2
         DEF PersistDone, HandOf, Attempts, Releases, Surrenders, Commanding, Stores, At, To, Now
  <2>5. ASSUME NEW u \in Sessions, u # t
        PROVE  HandOf(u)'
    <3>1. task'[u] = task[u] /\ HandOf(u) /\ ~At(u, "persisting")
      BY <1>1, <2>1, <2>2, <2>5 DEF To, Now, HandInv, OrderInv
    <3>2. Given' <=> Given
      BY <2>1 DEF Given
    <3> QED
      BY <2>1, <2>3, <3>1, <3>2
         DEF HandOf, Attempts, Releases, Surrenders, Commanding, Stores, At
  <2>6. HandFree' /\ HandPage'
    BY <1>4, <2>1 DEF HandFree, HandPage, Given
  <2>7. HandDisk'
    BY <1>1, <1>3, <1>6, <2>1, <2>2 DEF HandDisk, HandPage, Given
  <2> QED
    BY <2>4, <2>5, <2>6, <2>7 DEF HandInv
<1>7. CASE PersistDone(t) /\ page.gen # man.gen
  <2>1. manDisk' = page /\ UNCHANGED <<man, writer, task>> /\ page' = Payload(man)
    BY <1>7 DEF PersistDone
  <2>2. page'.phase = man.phase /\ writer = t /\ man.durable # man.gen
    BY <1>1, <1>7, <2>1 DEF Payload, PersistDone, OrderInv, Written
  <2>3. HandDuty => HandDuty'
    BY <1>1, <1>2, <2>1, <2>2 DEF HandDuty
  <2>4. ASSUME NEW u \in Sessions
        PROVE  HandOf(u)'
    BY <2>1, <2>2, <2>3
       DEF HandInv, HandOf, Attempts, Releases, Surrenders, Commanding, Stores, At, Given
  <2>5. HandFree' /\ HandPage' /\ HandDisk'
    BY <1>4, <2>1, <2>2 DEF HandFree, HandPage, HandDisk, Given
  <2> QED
    BY <2>4, <2>5 DEF HandInv
<1> QED
  BY <1>5, <1>6, <1>7

LEMMA HandSession ==
    ASSUME TypeOK, OrderInv, LockInv, GenInv, HandInv, NEW t \in Sessions,
           Turn(t) \/ (t = "tick" /\ Tick)
    PROVE  HandInv'
<1>1. /\ t \in Tasks /\ Sessions \subseteq Tasks /\ Fits(t, task[t]) /\ task[t] \in Calls
      /\ man \in ManualSessions /\ page \in Pages
  BY Names DEF TypeOK, CallsFit, StateOK
<1>2. HandOf(t) /\ HandFree /\ HandDisk /\ HandPage /\ GenOf(t)
  BY DEF HandInv, GenInv
<1>3. Open => man.gen # 0
  BY DEF Open, GenInv
<1>4. CASE TakePersist(t) \/ PersistDone(t)
  BY <1>4, HandWrite
<1>5. CASE ~TakePersist(t) /\ ~PersistDone(t)
  <2>1. /\ lock \in {"free", t} /\ life # "down" /\ life' = life
        /\ \A u \in Sessions \ {t} : ~Locked(u) /\ task'[u] = task[u]
    BY <1>5, Alone
  <2>2. \A u \in Sessions \ {t} : HandOf(u)'
    BY <2>1, HandOther
  <2>3. CASE Surrendering(t) \/ Commanded(t) \/ Goes(t) \/ Stored(t) \/ Leave(t) \/ Turns(t)
    <3>1. UNCHANGED <<man, manDisk, writer, page>>
      BY <2>3 DEF Surrendering, Commanded, Goes, Stored, Leave, Turns, SameJournal, manSaving
    <3>2. HandDuty => HandDuty'
      BY <2>1, <3>1 DEF HandDuty
    <3>3. HandOf(t)' /\ ~At(t, "persist")'
      <4>1. CASE Surrendering(t)
        BY <1>2, <3>2, <4>1
           DEF Surrendering, HandOf, Attempts, Releases, Surrenders, Commanding, Stores, At, To, Now
      <4>2. CASE Commanded(t)
        BY <1>2, <3>1, <3>2, <4>2
           DEF Commanded, HandOf, Attempts, Releases, Surrenders, Commanding, Stores, At, Now, Given
      <4>3. CASE Goes(t)
        BY <1>2, <3>1, <3>2, <4>3
           DEF Goes, HandOf, Attempts, Releases, Surrenders, Commanding, Stores, At, To, Now, Given
      <4>4. CASE Stored(t)
        BY <1>2, <4>4
           DEF Stored, HandOf, Attempts, Releases, Surrenders, Commanding, Stores, At, To, Now, GenOf,
               OwnTurn
      <4>5. CASE Leave(t)
        <5>1. Ends(t)
          BY <1>1, <4>5, Moved DEF Leave
        <5> QED
          BY <5>1 DEF HandOf, Attempts, Releases, Surrenders, Commanding, Stores, At, Ends, Now
      <4>6. CASE Turns(t)
        <5>1. task'[t].pc = "store"
          BY <4>6, TurnMoves DEF Turns, To, Now
        <5> QED
          BY <5>1 DEF HandOf, Attempts, Releases, Surrenders, Commanding, Stores, At
      <4> QED
        BY <2>3, <4>1, <4>2, <4>3, <4>4, <4>5, <4>6
    <3> QED
      BY <2>1, <3>1, <3>3, HandStill
  <2>4. CASE Quits(t)
    <3>1. /\ man'.phase = man.phase /\ man'.gen = man.gen /\ man'.durable = man.durable
          /\ man'.hold = man.hold /\ (Given => Given') /\ UNCHANGED <<manDisk, writer, page>>
      BY <2>4 DEF Quits, Leaves, Steady, SameJournal, Given
    <3>2. task'[t].pc = "leave"
      BY <2>4 DEF Quits, Leaves, To, Now
    <3>3. HandOf(t)'
      BY <3>2 DEF HandOf, Attempts, Releases, Surrenders, Commanding, Stores, At
    <3>4. HandFree' /\ HandDisk' /\ HandPage'
      BY <1>2, <2>1, <3>1, <3>2 DEF HandFree, HandDisk, HandPage, At
    <3> QED
      BY <2>2, <3>3, <3>4 DEF HandInv
  <2>5. CASE Asks(t)
    <3>1. /\ UNCHANGED <<man, manDisk, writer, page>> /\ Open
          /\ task'[t].pc = "persist" /\ task'[t].next = "relinquish"
      BY <2>5 DEF Asks, SameJournal, Now
    <3>2. HandOf(t)'
      BY <3>1 DEF HandOf, Attempts, Releases, Surrenders, Commanding, Stores, At
    <3>3. HandFree' /\ HandDisk' /\ HandPage'
      BY <1>2, <2>1, <3>1 DEF HandFree, HandDisk, HandPage, Open, Given
    <3> QED
      BY <2>2, <3>2, <3>3 DEF HandInv
  <2>6. CASE Yields(t)
    <3>1. /\ UNCHANGED <<man, manDisk, writer, page>> /\ Open /\ Writable /\ ~Given
          /\ task'[t].pc = "save"
      BY <2>6 DEF Yields, Gives, SameJournal, Now
    <3>2. HandDuty
      BY <1>2, <3>1 DEF HandDuty, HandFree, HandDisk, HandPage, Open, Writable, OrderInv, Written
    <3>3. HandOf(t)'
      BY <2>1, <3>1, <3>2
         DEF HandDuty, HandOf, Attempts, Releases, Surrenders, Commanding, Stores, At
    <3>4. HandFree' /\ HandDisk' /\ HandPage'
      BY <1>2, <2>1, <3>1 DEF HandFree, HandDisk, HandPage, Open, Given
    <3> QED
      BY <2>2, <3>3, <3>4 DEF HandInv
  <2>7. CASE Judges(t)
    <3>1. Commanding(t) /\ Mine(t) => Given
      BY <1>2 DEF HandOf, Attempts, Mine, Current
    <3>2. task[t].pc \in {"exec", "sent"} /\ Mine(t) /\ Open => Commanding(t)
      BY <1>3 DEF Commanding, Mine, Current
    <3>3. Given'
      BY <2>7, <3>1, <3>2 DEF Judges, Given, Steady
    <3>4. Confirms(t) \/ Attempt(t)
      BY <2>7 DEF Judges
    <3>5. HandOf(t)'
      BY <3>3, <3>4
         DEF Confirms, Attempt, HandOf, Attempts, Releases, Surrenders, Commanding, Stores, At, Now
    <3> QED
      BY <2>2, <3>3, <3>5 DEF HandInv, HandFree, HandDisk, HandPage
  <2>8. CASE Reopens(t)
    <3>1. man'.gen = man.gen /\ man'.relinquished = man.relinquished
      BY <1>1, <2>8 DEF Reopens, ManualSessions
    <3>2. Given'
      BY <1>2, <2>8, <3>1 DEF Reopens, HandOf, Releases, Mine, Current, Given
    <3>3. task'[t].pc = "leave" \/ (task'[t].pc = "persist" /\ task'[t].next = "leave")
      BY <2>8 DEF Reopens, To, Now
    <3>4. HandOf(t)'
      BY <3>2, <3>3 DEF HandOf, Attempts, Releases, Surrenders, Commanding, Stores, At
    <3> QED
      BY <2>2, <3>2, <3>4 DEF HandInv, HandFree, HandDisk, HandPage
  <2> QED
    BY <1>5, <2>3, <2>4, <2>5, <2>6, <2>7, <2>8, SessionCases
<1> QED
  BY <1>4, <1>5

LEMMA HandForget ==
    ASSUME ForgetMemory
    PROVE  HandInv'
<1>1. \A t \in Sessions : task'[t] = NoTask /\ task'[t].pc = "idle"
  BY Names DEF ForgetMemory, NoTask
<1>2. \A t \in Sessions : HandOf(t)'
  BY <1>1 DEF HandOf, Attempts, Releases, Surrenders, Commanding, Stores, At
<1>3. life' = "down" /\ writer' = "none"
  BY DEF ForgetMemory
<1> QED
  BY <1>2, <1>3 DEF HandInv, HandFree, HandDisk, HandPage

LEMMA HandEvent ==
    ASSUME TypeOK, OrderInv, LockInv, GenInv, HandInv, Event
    PROVE  HandInv'
<1>1. /\ Sessions \subseteq Tasks /\ {"req1", "req2", "tick"} = Sessions /\ Diagnostics \subseteq Tasks
      /\ man \in ManualSessions /\ manDisk \in Pages \cup {Malformed} /\ page \in Pages
      /\ Diagnostics \cap Sessions = {} /\ "boot" \in Diagnostics
      /\ \A t \in Tasks : Fits(t, task[t]) /\ task[t] \in Calls
  BY Names DEF TypeOK, StateOK, CallsFit, Sessions, Diagnostics
<1>2. HandFree /\ HandDisk /\ HandPage /\ \A u \in Sessions : HandOf(u) /\ GenOf(u)
  BY DEF HandInv, GenInv
<1>3. ASSUME NEW r \in Requests, NEW t \in {"req1", "req2"}, Admit(t, r)
      PROVE  HandInv'
  <2>1. /\ man'.gen = man.gen + 1 /\ man'.durable = man.durable /\ man'.phase = "pending"
        /\ Now(t, "persist", "mlock", task[t].gen, task[t].plan)
        /\ UNCHANGED <<life, manDisk, writer, page>>
    BY <1>1, <1>3, Moved DEF Admit, ManualSessions, manSaving, entry
  <2>2. man.gen \in Nat /\ man.durable \in Nat \cup {-1} /\ man.durable <= man.gen
    BY <1>1 DEF ManualSessions, OrderInv
  <2>3. HandFree' /\ HandDisk'
    BY <2>1, <2>2 DEF HandFree, HandDisk
  <2>4. HandPage'
    BY <1>1, <2>1, <2>2 DEF HandPage, OrderInv, Written, Pages
  <2>5. HandDuty => HandDuty'
    BY <2>1 DEF HandDuty
  <2>6. ASSUME NEW u \in Sessions
        PROVE  HandOf(u)'
    <3>1. CASE u = t
      BY <2>1, <3>1 DEF Now, HandOf, Attempts, Releases, Surrenders, Commanding, Stores, At
    <3>2. CASE u # t
      <4>1. task'[u] = task[u] /\ task[u].gen # man'.gen
        BY <1>1, <1>2, <2>1, <2>2, <3>2 DEF Now, GenOf, Calls
      <4> QED
        BY <1>2, <2>1, <2>5, <4>1
           DEF HandOf, Attempts, Releases, Surrenders, Commanding, Stores, At
    <3> QED
      BY <3>1, <3>2
  <2> QED
    BY <2>3, <2>4, <2>6 DEF HandInv
<1>4. CASE StartTest("charge") \/ Aside \/ LoadTest \/ TestLoaded \/ LoadSessions \/ Unload
  <2>1. \A u \in Sessions : task'[u] = task[u]
    <3>1. CASE StartTest("charge")
      BY <1>1, <3>1 DEF StartTest, TypeOK, CallsFit, Diagnostics
    <3>2. CASE LoadTest
      BY <1>1, <3>2, Moved DEF LoadTest, Now
    <3>3. CASE Aside \/ TestLoaded \/ LoadSessions \/ Unload
      BY <3>3 DEF Aside, TestLoaded, LoadSessions, Unload
    <3> QED
      BY <1>4, <3>1, <3>2, <3>3
  <2>2. /\ UNCHANGED <<manDisk, writer, page>>
        /\ man'.phase = man.phase /\ man'.gen = man.gen /\ man'.durable = man.durable
        /\ man'.relinquished = man.relinquished
    BY <1>1, <1>4
       DEF StartTest, Aside, SameJournal, LoadTest, TestLoaded, LoadSessions, Unload, manSaving,
           ManualSessions
  <2>3. /\ life' = life \/ life # "down"
        /\ life' = "up" => (life = "up" /\ man' = man) \/ (life = "sessions" /\ man' = man)
    BY <1>4
       DEF StartTest, Aside, SameJournal, LoadTest, TestLoaded, LoadSessions, Unload, entry
  <2>4. life' = "up" => (life = "up" /\ man'.hold = man.hold) \/ (man'.hold => man.phase # "idle")
    BY <2>3 DEF GenInv
  <2> QED
    BY <2>1, <2>2, <2>3, <2>4, HandStill
<1>5. CASE RestoreHandoff
  <2>1. /\ \A t \in Sessions : task'[t] = NoTask /\ task'[t].pc = "idle"
        /\ manDisk' = manDisk /\ writer' = "none" /\ life' = "handoff"
    BY <1>1, <1>5 DEF RestoreHandoff, manSaving, OrderInv, Asleep, NoTask
  <2>2. manDisk.phase = "idle" => man'.phase = "idle"
    BY <1>5 DEF RestoreHandoff
  <2>3. \A t \in Sessions : HandOf(t)'
    BY <2>1 DEF HandOf, Attempts, Releases, Surrenders, Commanding, Stores, At
  <2> QED
    BY <2>1, <2>2, <2>3 DEF HandInv, HandFree, HandDisk, HandPage, At
<1>6. CASE UnloadTest
  <2>1. /\ UNCHANGED <<man, writer, page>> /\ life = "unloading" /\ life' = "unloaded"
        /\ writer = "none" /\ lock = "free"
        /\ manDisk' = manDisk \/ manDisk' = Payload(man)
        /\ UNCHANGED task \/ SaveThen("boot", "restore")
    BY <1>6 DEF UnloadTest
  <2>2. \A u \in Sessions : task'[u] = task[u]
    BY <1>1, <2>1, Moved DEF Now
  <2>3. \A u \in Sessions : HandOf(u)'
    BY <1>1, <2>1, <2>2, HandOther, Names DEF LockInv
  <2>4. HandFree' /\ HandPage'
    BY <1>2, <2>1, <2>2 DEF HandFree, HandPage, Given, At
  <2>5. HandDisk'
    BY <1>2, <2>1 DEF HandDisk, Given, Payload
  <2> QED
    BY <2>3, <2>4, <2>5 DEF HandInv
<1>7. CASE Corrupt
  <2>1. UNCHANGED <<writer, task, life>> /\ life = "down" /\ writer = "none"
        /\ \A u \in Sessions : task'[u].pc = "idle"
    BY <1>1, <1>7 DEF Corrupt, OrderInv, Asleep, NoTask
  <2>2. \A u \in Sessions : HandOf(u)'
    BY <2>1 DEF HandOf, Attempts, Releases, Surrenders, Commanding, Stores, At
  <2> QED
    BY <2>1, <2>2 DEF HandInv, HandFree, HandDisk, HandPage
<1>8. CASE Forgotten
  BY <1>8, HandForget DEF Forgotten
<1>9. ASSUME NEW t \in Sessions, Drops(t)
      PROVE  HandInv'
  <2>1. task'[t].pc = "idle" /\ \A u \in Sessions \ {t} : task'[u] = task[u]
    BY <1>1, <1>9 DEF Drops, Ends, Now
  <2>2. HandOf(t)' /\ ~At(t, "persist")'
    BY <2>1 DEF HandOf, Attempts, Releases, Surrenders, Commanding, Stores, At
  <2>3. UNCHANGED <<man, manDisk, writer, page, life>>
    BY <1>9 DEF Drops, SameJournal
  <2> QED
    BY <2>1, <2>2, <2>3, HandStill
<1>10. ASSUME NEW t \in Sessions, PersistFails(t)
       PROVE  HandInv'
  <2>1. /\ task'[t].pc = "idle" /\ \A u \in Sessions \ {t} : task'[u] = task[u]
        /\ man'.phase = man.phase /\ man'.gen = man.gen /\ man'.durable = man.durable
        /\ man'.relinquished = man.relinquished /\ writer' = "none" /\ UNCHANGED <<manDisk, life>>
    BY <1>1, <1>10, Moved DEF PersistFails, Ends, Now, ManualSessions
  <2>2. writer = t /\ life # "down" /\ \A u \in Sessions \ {t} : ~At(u, "persisting")
    BY <1>1, <1>10 DEF PersistFails, OrderInv, At, LockInv, Awake
  <2>3. (HandDuty => HandDuty') /\ (Given' <=> Given)
    BY <2>1 DEF HandDuty, Given
  <2>4. ASSUME NEW u \in Sessions
        PROVE  HandOf(u)'
    BY <1>2, <2>1, <2>2, <2>3
       DEF HandOf, Attempts, Releases, Surrenders, Commanding, Stores, At
  <2>5. HandFree'
    BY <1>1, <1>2, <2>1, <2>2, <2>3, Names DEF HandFree
  <2>6. HandDisk' /\ HandPage'
    BY <1>2, <2>1, <2>3 DEF HandDisk, HandPage
  <2> QED
    BY <2>4, <2>5, <2>6 DEF HandInv
<1> QED
  BY <1>1, <1>3, <1>4, <1>5, <1>6, <1>7, <1>8, <1>9, <1>10, EventCases, HandSession DEF Event

-------------------------------------------------------------------------------
(* The hold, and what it keeps away. *)

\* What a session's step does to the test, the inverter and the automatic session.
LEMMA Beside ==
    ASSUME TypeOK, OrderInv, LockInv, NEW t \in Sessions, Turn(t) \/ (t = "tick" /\ Tick)
    PROVE  /\ \A u \in Diagnostics : task'[u] = task[u]
           /\ life' = life /\ life # "down"
           /\ \/ Yields(t) /\ UNCHANGED <<diagDisk, saver, snap>>
              \/ /\ UNCHANGED <<diag, retry>>
                 /\ Surrenders(t) \/ UNCHANGED <<diagDisk, saver, snap>>
           /\ UNCHANGED inv \/ (At(t, "sent") /\ lock = t)
           /\ UNCHANGED sess \/ (At(t, "surrender") /\ sess' = "idle") \/ Turns(t)
           /\ UNCHANGED sessDisk \/ (task[t].pc \in {"surrendered", "store"} /\ sessDisk' = sess)
<1>1. /\ t \in Tasks /\ t \notin Diagnostics /\ Diagnostics \subseteq Tasks \ {t}
      /\ Fits(t, task[t]) /\ t # "start"
  BY Names DEF TypeOK, CallsFit, Diagnostics
<1>2. At(t, "sent") => lock = t
  BY <1>1 DEF LockInv, Locked, At
<1>3. \A u \in Diagnostics : task'[u] = task[u]
  <2>1. CASE TakePersist(t) \/ PersistDone(t) \/ Leave(t)
    BY <1>1, <2>1, Moved DEF TakePersist, PersistDone, Leave, To, Ends, Now
  <2>2. CASE Turns(t)
    BY <1>1, <2>2, TurnMoves DEF Turns, To, Now
  <2> QED
    BY <1>1, <2>1, <2>2, SessionCases
       DEF Surrendering, Commanded, Quits, Asks, Yields, Judges, Goes, Reopens, Stored, Leaves,
           Confirms, Attempt, Gives, To, Now
<1>4. life' = life /\ life # "down"
  <2>1. CASE TakePersist(t) \/ PersistDone(t)
    BY <1>1, <2>1 DEF TakePersist, PersistDone, At, LockInv, Awake, entry
  <2>2. CASE ~TakePersist(t) /\ ~PersistDone(t)
    BY <2>2, Alone
  <2> QED
    BY <2>1, <2>2
<1>5. CASE TakeSave(t) \/ SaveDone(t)
  <2>1. Surrenders(t) /\ UNCHANGED <<diag, retry, inv, sess, sessDisk>>
    BY <1>5 DEF TakeSave, SaveDone, Surrenders, At, callbacks, auto
  <2> QED
    BY <1>3, <1>4, <2>1
<1>6. CASE TakePersist(t) \/ PersistDone(t) \/ SendCommand(t) \/ CommandLands(t) \/ Leave(t)
           \/ Go(t) \/ Executed(t) \/ ReleaseHold(t) \/ (t = "tick" /\ StoreSession)
  BY <1>2, <1>3, <1>4, <1>6
     DEF TakePersist, PersistDone, SendCommand, CommandLands, Leave, Go, Executed, ReleaseHold,
         StoreSession, Complete, Raises, callbacks, auto, diagSaving, At
<1>7. CASE Surrender(t)
  BY <1>3, <1>4, <1>7 DEF Surrender, At, callbacks, auto, diagSaving
<1>8. CASE RequestLocks(t) \/ (t = "tick" /\ Tick /\ man.hold)
  <2>1. Fence(t) /\ Entries(t)
    BY <1>8 DEF RequestLocks, Tick, Entries
  <2>2. UNCHANGED <<inv, diagDisk, saver, snap, sess, sessDisk>> /\ SameJournal
    BY <2>1 DEF Fence, diagSaving, auto, entry, manSaving, SameJournal
  <2>3. UNCHANGED <<diag, retry>> \/ Yields(t)
    BY <1>1, <2>1, <2>2, FenceMoves DEF Yields
  <2> QED
    BY <1>3, <1>4, <2>2, <2>3
<1>9. CASE Relinquish(t)
  <2>1. UNCHANGED <<inv, diagDisk, saver, snap, sess, sessDisk>> /\ SameJournal /\ At(t, "relinquish")
    BY <1>9 DEF Relinquish, diagSaving, auto, entry, manSaving, SameJournal
  <2>2. UNCHANGED <<diag, retry>> \/ Yields(t)
    <3>1. CASE Mine(t) /\ RelinquishFrom(t)
      <4>1. Open
        BY <1>1, <2>1, <3>1 DEF Open, Mine, Current, OrderInv, Untrusted, At
      <4> QED
        BY <1>1, <2>1, <3>1, <4>1, RelinquishMoves DEF Yields
    <3> QED
      BY <1>9, <3>1 DEF Relinquish
  <2> QED
    BY <1>3, <1>4, <2>1, <2>2
<1>10. CASE t = "tick" /\ Tick /\ ~man.hold
  <2>1. Turns(t)
    BY <1>10 DEF Tick, Turns, SameJournal, entry, manSaving
  <2>2. UNCHANGED <<inv, diag, retry, diagDisk, saver, snap, sessDisk>>
    BY <1>10 DEF Tick, callbacks, diagSaving
  <2> QED
    BY <1>3, <1>4, <2>1, <2>2
<1> QED
  BY <1>1, <1>5, <1>6, <1>7, <1>8, <1>9, <1>10 DEF Turn

\* One call of the session moves and does not release; the hold and its generation stay.
LEMMA HoldStays ==
    ASSUME HoldInv, NEW t \in Sessions, \A u \in Sessions \ {t} : ~Locked(u) /\ task'[u] = task[u],
           man'.gen = man.gen, life' = life, life # "down",
           ~man'.hold => ~man.hold /\ (task'[t].pc \in {"idle", "leave", "mlock"} \/ (t = "tick" /\ OwnTurn')),
           HoldLast(t)'
    PROVE  HoldInv'
<1>1. \A u \in Sessions \ {t} : HoldLast(u)'
  BY DEF HoldLast, Stores, Locked, At
<1>2. \A u \in Sessions \ {t} : u = "tick" => (OwnTurn' <=> OwnTurn)
  BY DEF OwnTurn
<1>3. HoldFree'
  BY <1>2 DEF HoldInv, HoldFree
<1> QED
  BY <1>1, <1>3 DEF HoldInv

LEMMA HoldWrite ==
    ASSUME TypeOK, OrderInv, LockInv, HoldInv, NEW t \in Sessions, TakePersist(t) \/ PersistDone(t)
    PROVE  HoldInv'
<1>1. /\ t \in Tasks /\ Sessions \subseteq Tasks /\ Fits(t, task[t]) /\ man \in ManualSessions
      /\ t # "none"
  BY Names DEF TypeOK, CallsFit, StateOK
<1>2. /\ man'.gen = man.gen /\ man'.target = man.target /\ man'.hold = man.hold /\ UNCHANGED inv
      /\ life' = life /\ task[t].pc \in {"persist", "persisting"} /\ life # "down"
      /\ UNCHANGED task \/ (At(t, "persist") /\ To(t, "persisting"))
            \/ (At(t, "persisting") /\ To(t, task[t].next))
  BY <1>1, Moved DEF TakePersist, PersistDone, entry, ManualSessions, At, LockInv, Awake
<1>3. /\ \A u \in Tasks \ {t} : task'[u] = task[u]
      /\ task'[t].gen = task[t].gen /\ task'[t].next = task[t].next
  BY <1>2 DEF To, Now
<1>4. man'.hold
  BY <1>2 DEF HoldInv, HoldFree, OwnTurn
<1>5. ASSUME NEW u \in Sessions, u # t
      PROVE  HoldLast(u)'
  <2>1. task'[u] = task[u] /\ HoldLast(u)
    BY <1>1, <1>3, <1>5 DEF HoldInv
  <2>2. (At(u, "persisting") /\ task[u].next = "release") \/ At(u, "release")
          => task[u].gen # man.gen
    BY <1>2, <1>5, <2>1 DEF HoldLast
  <2> QED
    BY <1>2, <2>1, <2>2 DEF HoldLast, Stores, At
<1>6. HoldLast(t)'
  <2>1. HoldLast(t)
    BY DEF HoldInv
  <2>2. /\ Stores(t, "release")' \/ At(t, "release")' => Stores(t, "release")
        /\ At(t, "release")' => At(t, "persisting") /\ task[t].next = "release"
    BY <1>1, <1>2 DEF Stores, At, Fits, To, Now
  <2>3. ASSUME (At(t, "persisting") /\ task[t].next = "release")' \/ At(t, "release")',
               task[t].gen = man.gen, NEW r \in Sessions \ {t}
        PROVE  task[r].pc \notin {"persist", "persisting"}
    <3>1. CASE PersistDone(t)
      BY <2>1, <2>2, <2>3, <3>1 DEF PersistDone, HoldLast, Stores, At
    <3>2. CASE TakePersist(t)
      <4>1. task[t].pc = "persist" /\ task[t].next = "release" /\ writer = "none" /\ ~Precedes(r, t)
        BY <1>1, <1>3, <2>2, <2>3, <3>2 DEF TakePersist, Stores, At
      <4>2. task[r].pc = "persist" /\ task[r].next # "mlock" => Locked(r)
        BY DEF Locked
      <4>3. Locked(t)
        BY <4>1 DEF Locked
      <4> QED
        BY <1>1, <2>3, <4>1, <4>2, <4>3, Names DEF Precedes, At, LockInv, OrderInv
    <3> QED
      BY <3>1, <3>2
  <2> QED
    BY <1>1, <1>2, <1>3, <2>1, <2>2, <2>3 DEF HoldLast, At
<1> QED
  BY <1>4, <1>5, <1>6 DEF HoldInv, HoldFree

LEMMA HoldSession ==
    ASSUME TypeOK, OrderInv, LockInv, GenInv, HoldInv, NEW t \in Sessions,
           Turn(t) \/ (t = "tick" /\ Tick)
    PROVE  HoldInv'
<1>1. /\ t \in Tasks /\ Sessions \subseteq Tasks /\ Fits(t, task[t]) /\ task[t] \in Calls
      /\ man \in ManualSessions
  BY Names DEF TypeOK, CallsFit, StateOK
<1>2. GenOf(t)
  BY DEF GenInv
<1>3. CASE TakePersist(t) \/ PersistDone(t)
  BY <1>3, HoldWrite
<1>4. CASE ~TakePersist(t) /\ ~PersistDone(t)
  <2>1. /\ life # "down" /\ life' = life
        /\ \A u \in Sessions \ {t} : ~Locked(u) /\ task'[u] = task[u]
    BY <1>4, Alone
  <2>2. ~man.hold => task[t].pc \in {"idle", "leave", "mlock"} \/ (t = "tick" /\ OwnTurn)
    BY <2>1 DEF HoldInv, HoldFree
  <2>3. CASE Surrendering(t) \/ Commanded(t) \/ Goes(t) \/ Stored(t) \/ Leave(t) \/ Turns(t)
    <3>1. UNCHANGED man
      BY <2>3 DEF Surrendering, Commanded, Goes, Stored, Leave, Turns
    <3>2. /\ task'[t].pc \notin {"persist", "persisting", "release"}
          /\ ~man.hold => task'[t].pc = "idle" \/ (t = "tick" /\ OwnTurn')
      <4>1. CASE Surrendering(t) \/ Commanded(t) \/ Goes(t)
        BY <2>2, <4>1
           DEF Surrendering, Surrenders, Commanded, Goes, Mine, Current, To, Now, OwnTurn
      <4>2. CASE Stored(t)
        BY <1>2, <4>2 DEF Stored, GenOf, To, Now, OwnTurn
      <4>3. CASE Leave(t)
        <5>1. Ends(t)
          BY <1>1, <4>3, Moved DEF Leave
        <5> QED
          BY <5>1 DEF Ends, Now
      <4>4. CASE Turns(t)
        <5>1. task[t] = NoTask /\ t = "tick"
          BY <1>1, <4>4 DEF Turns, At, Fits
        <5>2. task'[t].pc = "store" /\ task'[t].gen = task[t].gen
          BY <4>4, <5>1, TurnMoves DEF Turns, To, Now
        <5> QED
          BY <5>1, <5>2 DEF OwnTurn, NoTask
      <4> QED
        BY <2>3, <4>1, <4>2, <4>3, <4>4
    <3>3. HoldLast(t)'
      BY <3>2 DEF HoldLast, Stores, At
    <3> QED
      BY <2>1, <3>1, <3>2, <3>3, HoldStays
  <2>4. CASE Quits(t)
    <3>1. man'.gen = man.gen /\ man'.hold = man.hold /\ task'[t].pc = "leave"
      BY <2>4 DEF Quits, Leaves, Steady, To, Now
    <3>2. HoldLast(t)'
      BY <3>1 DEF HoldLast, Stores, At
    <3>3. ~man'.hold => ~man.hold /\ task'[t].pc \in {"idle", "leave", "mlock"}
      BY <3>1
    <3>4. man'.gen = man.gen
      BY <3>1
    <3> QED
      BY <2>1, <3>2, <3>3, <3>4, HoldStays
  <2>5. CASE Asks(t) \/ Yields(t)
    <3>1. /\ man'.gen = man.gen /\ man'.hold
          /\ task'[t].pc = "save" \/ (task'[t].pc = "persist" /\ task'[t].next = "relinquish")
      BY <2>5 DEF Asks, Yields, Gives, Open, Now
    <3>2. HoldLast(t)'
      BY <3>1 DEF HoldLast, Stores, At
    <3> QED
      BY <2>1, <3>1, <3>2, HoldStays
  <2>6. CASE Judges(t)
    <3>1. man'.gen = man.gen /\ man'.hold /\ man'.target = man.target /\ UNCHANGED inv
          /\ (Confirms(t) \/ Attempt(t))
      BY <2>6 DEF Judges, Open, Steady
    <3>2. HoldLast(t)'
      BY <3>1 DEF HoldLast, Stores, At, Confirms, Attempt, Now
    <3> QED
      BY <2>1, <3>1, <3>2, HoldStays
  <2>7. CASE Reopens(t)
    <3>1. /\ man'.gen = man.gen /\ man.hold /\ task[t].gen = man.gen /\ At(t, "release")
          /\ task'[t].pc = "leave" \/ (task'[t].pc = "persist" /\ task'[t].next = "leave" /\ man'.hold)
      BY <1>1, <2>7 DEF Reopens, Mine, Current, To, Now, ManualSessions
    <3>2. HoldLast(t)'
      BY <3>1 DEF HoldLast, Stores, At
    <3>3. ASSUME NEW u \in Sessions \ {t}
          PROVE  HoldLast(u)' /\ task'[u].pc \in {"idle", "leave", "mlock"}
      <4>1. Fits(u, task[u]) /\ task[u].pc \in SessionSteps \cup {"idle"}
        BY <1>1 DEF TypeOK, CallsFit, Fits
      <4>2. task[u].pc \notin {"persist", "persisting"}
        BY <3>1 DEF HoldInv, HoldLast
      <4>3. HoldLast(u)'
        BY <2>1 DEF HoldLast, Stores, Locked, At
      <4> QED
        BY <2>1, <4>1, <4>2, <4>3 DEF Locked, SessionSteps
    <3>4. HoldFree'
      BY <3>1, <3>3 DEF HoldFree
    <3> QED
      BY <3>2, <3>3, <3>4 DEF HoldInv
  <2> QED
    BY <1>4, <2>3, <2>4, <2>5, <2>6, <2>7, SessionCases
<1> QED
  BY <1>3, <1>4

\* No session moves.
LEMMA HoldStill ==
    ASSUME HoldInv, \A u \in Sessions : task'[u] = task[u],
           man'.gen = man.gen, man'.target = man.target,
           UNCHANGED inv \/ \A u \in Sessions : ~Locked(u),
           ~man'.hold => ~man.hold /\ (life' = life \/ life # "down")
    PROVE  HoldInv'
<1>1. "tick" \in Sessions
  BY DEF Sessions
<1>2. HoldFree'
  BY <1>1 DEF HoldInv, HoldFree, OwnTurn
<1>3. \A u \in Sessions : HoldLast(u)'
  BY DEF HoldInv, HoldLast, Stores, Locked, At
<1> QED
  BY <1>2, <1>3 DEF HoldInv

LEMMA HoldIdle ==
    ASSUME \A u \in Sessions : task'[u] = NoTask
    PROVE  HoldInv'
BY DEF HoldInv, HoldFree, HoldLast, Stores, At, NoTask

LEMMA HoldEvent ==
    ASSUME TypeOK, OrderInv, LockInv, GenInv, HoldInv, Event
    PROVE  HoldInv'
<1>1. /\ Sessions \subseteq Tasks /\ {"req1", "req2", "tick"} = Sessions /\ Diagnostics \subseteq Tasks
      /\ man \in ManualSessions /\ Diagnostics \cap Sessions = {} /\ "boot" \in Diagnostics
      /\ \A t \in Tasks : Fits(t, task[t]) /\ task[t] \in Calls
  BY Names DEF TypeOK, StateOK, CallsFit, Sessions, Diagnostics
<1>2. ASSUME NEW r \in Requests, NEW t \in {"req1", "req2"}, Admit(t, r)
      PROVE  HoldInv'
  <2>1. /\ man'.gen = man.gen + 1 /\ man'.hold
        /\ Now(t, "persist", "mlock", task[t].gen, task[t].plan)
    BY <1>1, <1>2, Moved DEF Admit, ManualSessions
  <2>2. ASSUME NEW u \in Sessions
        PROVE  HoldLast(u)'
    <3>1. task'[u].gen = task[u].gen /\ task[u].gen <= man.gen /\ man.gen \in Nat /\ task[u].gen \in Nat
      BY <1>1, <2>1 DEF Now, GenInv, GenOf, ManualSessions, Calls
    <3> QED
      BY <2>1, <3>1 DEF HoldLast
  <2> QED
    BY <2>1, <2>2 DEF HoldInv, HoldFree
<1>3. CASE StartTest("charge") \/ Aside \/ LoadTest \/ TestLoaded \/ LoadSessions \/ Unload
           \/ UnloadTest \/ Corrupt
  <2>1. \A u \in Sessions : task'[u] = task[u]
    <3>1. CASE StartTest("charge")
      BY <1>1, <3>1 DEF StartTest, TypeOK, CallsFit, Diagnostics
    <3>2. CASE LoadTest \/ UnloadTest
      BY <1>1, <3>2, Moved DEF LoadTest, UnloadTest, Now
    <3>3. CASE Aside \/ TestLoaded \/ LoadSessions \/ Unload \/ Corrupt
      BY <3>3 DEF Aside, TestLoaded, LoadSessions, Unload, Corrupt
    <3> QED
      BY <1>3, <3>1, <3>2, <3>3
  <2>2. /\ man'.gen = man.gen /\ man'.target = man.target /\ (~man'.hold => ~man.hold)
        /\ UNCHANGED inv \/ \A u \in Sessions : ~Locked(u)
        /\ life' = life \/ life # "down"
    BY <1>1, <1>3
       DEF StartTest, Aside, SameJournal, LoadTest, TestLoaded, LoadSessions, Unload, UnloadTest,
           Corrupt, entry, ManualSessions
  <2> QED
    BY <2>1, <2>2, HoldStill
<1>4. CASE RestoreHandoff
  <2>1. \A u \in Sessions : task'[u] = NoTask
    BY <1>1, <1>4 DEF RestoreHandoff, OrderInv, Asleep
  <2> QED
    BY <2>1, HoldIdle
<1>5. CASE Forgotten
  BY <1>1, <1>5, HoldIdle DEF Forgotten, ForgetMemory
<1>6. ASSUME NEW t \in Sessions, Drops(t) \/ PersistFails(t)
      PROVE  HoldInv'
  <2>1. /\ task'[t].pc = "idle" /\ \A u \in Sessions \ {t} : task'[u] = task[u]
        /\ man'.gen = man.gen /\ man'.target = man.target /\ (~man'.hold => ~man.hold)
        /\ UNCHANGED <<inv, life>>
    <3>1. CASE Drops(t)
      BY <1>1, <3>1 DEF Drops, Ends, Now, SameJournal
    <3>2. CASE PersistFails(t)
      <4>1. Ends(t) /\ UNCHANGED <<inv, life>>
        BY <1>1, <3>2, Moved DEF PersistFails
      <4>2. man' = [man EXCEPT !.hold = TRUE, !.fault = TRUE]
        BY <3>2 DEF PersistFails
      <4>3. man'.gen = man.gen /\ man'.target = man.target /\ man'.hold
        BY <1>1, <4>2 DEF ManualSessions
      <4> QED
        BY <1>1, <4>1, <4>3 DEF Ends, Now
    <3> QED
      BY <1>6, <3>1, <3>2
  <2>2. HoldFree'
    BY <2>1 DEF HoldInv, HoldFree, OwnTurn
  <2>3. ASSUME NEW u \in Sessions
        PROVE  HoldLast(u)'
    BY <2>1 DEF HoldInv, HoldLast, Stores, At
  <2> QED
    BY <2>2, <2>3 DEF HoldInv
<1> QED
  BY <1>1, <1>2, <1>3, <1>4, <1>5, <1>6, EventCases, HoldSession DEF Event

-------------------------------------------------------------------------------
(* Nothing is tested during a hold; the automatic controller's own turn. *)

LEMMA QuietSession ==
    ASSUME TypeOK, OrderInv, LockInv, GenInv, QuietInv, NEW t \in Sessions,
           Turn(t) \/ (t = "tick" /\ Tick)
    PROVE  QuietInv'
<1>1. /\ t \in Tasks /\ Sessions \subseteq Tasks /\ Fits(t, task[t]) /\ man \in ManualSessions
  BY Names DEF TypeOK, CallsFit, StateOK
<1>2. GenOf(t) /\ QuietOf(t)
  BY DEF GenInv, QuietInv
<1>3. (Testing' => Testing) /\ life' = life
  BY Beside DEF Yields, Gives, Testing
<1>4. ASSUME \A u \in Tasks \ {t} : task'[u] = task[u]
      PROVE  \A u \in Sessions \ {t} : QuietOf(u)'
  BY <1>1, <1>3, <1>4
     DEF QuietInv, QuietOf, Surrenders, Attempts, Stores, Commanding, At
<1>5. CASE TakePersist(t) \/ PersistDone(t)
  <2>1. /\ UNCHANGED task \/ To(t, "persisting") \/ To(t, task[t].next)
        /\ man'.gen = man.gen /\ man'.relinquished = man.relinquished /\ man'.hold = man.hold
        /\ man'.trusted = man.trusted
    BY <1>1, <1>5, Moved DEF TakePersist, PersistDone, ManualSessions
  <2>2. QuietOf(t)'
    BY <1>1, <1>2, <1>3, <1>5, <2>1
       DEF TakePersist, PersistDone, QuietOf, Surrenders, Attempts, Stores, Commanding, At, Fits, To,
           Now
  <2>3. \A u \in Tasks \ {t} : task'[u] = task[u]
    BY <2>1 DEF To, Now
  <2> QED
    BY <1>3, <1>4, <2>1, <2>2, <2>3 DEF QuietInv, Given
<1>6. CASE Leave(t)
  <2>1. Ends(t) /\ UNCHANGED man
    BY <1>1, <1>6, Moved DEF Leave
  <2>2. QuietOf(t)'
    BY <2>1 DEF QuietOf, Surrenders, Attempts, Stores, Commanding, At, Ends, Now
  <2> QED
    BY <1>3, <1>4, <2>1, <2>2 DEF QuietInv, Given, Ends, Now
<1>7. CASE Turns(t)
  <2>1. /\ UNCHANGED man /\ task'[t].pc = "store" /\ \A u \in Tasks \ {t} : task'[u] = task[u]
    BY <1>7, TurnMoves DEF Turns, To, Now
  <2>2. QuietOf(t)'
    BY <2>1 DEF QuietOf, Surrenders, Attempts, Stores, Commanding, At
  <2> QED
    BY <1>3, <1>4, <2>1, <2>2 DEF QuietInv, Given
<1>8. CASE Surrendering(t) \/ Commanded(t) \/ Goes(t) \/ Stored(t)
  <2>1. UNCHANGED man /\ \A u \in Tasks \ {t} : task'[u] = task[u]
    BY <1>8 DEF Surrendering, Commanded, Goes, Stored, To, Now
  <2>2. QuietOf(t)'
    <3>1. CASE Surrendering(t)
      BY <1>2, <1>3, <3>1 DEF Surrendering, QuietOf
    <3>2. CASE Commanded(t)
      BY <1>2, <1>3, <3>2
         DEF Commanded, QuietOf, Surrenders, Attempts, Stores, Commanding, At, Now
    <3>3. CASE Goes(t)
      BY <1>2, <1>3, <3>3 DEF Goes, QuietOf, Attempts
    <3>4. CASE Stored(t)
      BY <1>2, <3>4
         DEF Stored, GenOf, OwnTurn, QuietOf, Surrenders, Attempts, Stores, Commanding, At, To, Now
    <3> QED
      BY <1>8, <3>1, <3>2, <3>3, <3>4
  <2> QED
    BY <1>3, <1>4, <2>1, <2>2 DEF QuietInv, Given
<1>9. CASE Quits(t)
  <2>1. /\ task'[t].pc = "leave" /\ \A u \in Tasks \ {t} : task'[u] = task[u]
        /\ man'.gen = man.gen /\ man'.hold = man.hold /\ man'.trusted = man.trusted
        /\ man'.relinquished = man.relinquished \/ At(t, "surrendered")
    BY <1>9 DEF Quits, Leaves, Steady, To, Now
  <2>2. QuietOf(t)'
    BY <2>1 DEF QuietOf, Surrenders, Attempts, Stores, Commanding, At
  <2>3. At(t, "surrendered") => ~Testing
    BY <1>2 DEF QuietOf, Surrenders, At
  <2> QED
    BY <1>3, <1>4, <2>1, <2>2, <2>3 DEF QuietInv, Given
<1>10. CASE Asks(t) \/ Yields(t)
  <2>1. /\ UNCHANGED man /\ \A u \in Tasks \ {t} : task'[u] = task[u]
        /\ \/ task'[t].pc = "persist" /\ task'[t].next = "relinquish"
           \/ ~Testing'
    BY <1>10 DEF Asks, Yields, Gives, Now, Testing
  <2>2. QuietOf(t)'
    BY <2>1 DEF QuietOf, Surrenders, Attempts, Stores, Commanding, At
  <2> QED
    BY <1>3, <1>4, <2>1, <2>2 DEF QuietInv, Given
<1>11. CASE Judges(t)
  <2>1. /\ \A u \in Tasks \ {t} : task'[u] = task[u]
        /\ Steady /\ (Confirms(t) \/ Attempt(t))
    BY <1>11 DEF Judges, Confirms, Attempt, Now
  <2>2. CASE Given \/ At(t, "surrendered")
    <3>1. ~Testing
      BY <1>2, <1>11, <2>2 DEF Judges, Open, QuietInv, QuietOf, Surrenders, At
    <3> QED
      BY <1>3, <1>4, <2>1, <3>1 DEF QuietInv, QuietOf
  <2>3. CASE ~Given /\ ~At(t, "surrendered")
    <3>1. /\ man'.relinquished = man.relinquished /\ Confirms(t)
      BY <1>11, <2>3 DEF Judges, At
    <3>2. QuietOf(t)'
      BY <3>1 DEF Confirms, QuietOf, Surrenders, Attempts, Stores, Commanding, At, Now
    <3> QED
      BY <1>3, <1>4, <2>1, <2>3, <3>1, <3>2 DEF QuietInv, Given, Steady
  <2> QED
    BY <2>2, <2>3
<1>12. CASE Reopens(t)
  <2>1. /\ \A u \in Tasks \ {t} : task'[u] = task[u]
        /\ task'[t].pc = "leave" \/ (task'[t].pc = "persist" /\ task'[t].next = "leave")
        /\ man.hold /\ man'.gen = man.gen /\ man'.relinquished = man.relinquished
        /\ man'.trusted = man.trusted
    BY <1>1, <1>12 DEF Reopens, Mine, Current, ManualSessions, To, Now
  <2>2. QuietOf(t)'
    BY <2>1 DEF QuietOf, Surrenders, Attempts, Stores, Commanding, At
  <2> QED
    BY <1>3, <1>4, <2>1, <2>2 DEF QuietInv, Given
<1> QED
  BY <1>5, <1>6, <1>7, <1>8, <1>9, <1>10, <1>11, <1>12, SessionCases

LEMMA QuietStill ==
    ASSUME QuietInv, \A u \in Sessions : task'[u] = task[u] \/ task'[u].pc = "idle", Testing' => Testing,
           man'.gen = man.gen, man'.relinquished = man.relinquished, man'.trusted = man.trusted,
           life' = "up" => life = "up" /\ (man'.hold => man.hold)
    PROVE  QuietInv'
<1>1. \A u \in Sessions : QuietOf(u)'
  BY DEF QuietInv, QuietOf, Surrenders, Attempts, Stores, Commanding, At
<1> QED
  BY <1>1 DEF QuietInv, Given

LEMMA QuietIdle ==
    ASSUME \A u \in Sessions : task'[u].pc = "idle", ~Testing' \/ life' # "up"
    PROVE  QuietInv'
BY DEF QuietInv, QuietOf, Surrenders, Attempts, Stores, Commanding, At

LEMMA QuietEvent ==
    ASSUME TypeOK, OrderInv, LockInv, GenInv, HoldInv, QuietInv, Event
    PROVE  QuietInv'
<1>1. /\ Sessions \subseteq Tasks /\ {"req1", "req2", "tick"} = Sessions /\ Diagnostics \subseteq Tasks
      /\ man \in ManualSessions /\ Diagnostics \cap Sessions = {} /\ "boot" \in Diagnostics
      /\ \A t \in Tasks : Fits(t, task[t]) /\ task[t] \in Calls
  BY Names DEF TypeOK, StateOK, CallsFit, Sessions, Diagnostics
<1>2. man.gen \in Nat /\ man.relinquished \in Nat \cup {-1} /\ man.relinquished <= man.gen
  BY <1>1 DEF ManualSessions, GenInv
<1>3. ASSUME NEW r \in Requests, NEW t \in {"req1", "req2"}, Admit(t, r)
      PROVE  QuietInv'
  <2>1. /\ man'.gen = man.gen + 1 /\ man'.relinquished = man.relinquished
        /\ Now(t, "persist", "mlock", task[t].gen, task[t].plan) /\ UNCHANGED diag
    BY <1>1, <1>3, Moved DEF Admit, ManualSessions
  <2>2. ASSUME NEW u \in Sessions
        PROVE  QuietOf(u)'
    BY <1>1, <2>1
       DEF QuietInv, QuietOf, Surrenders, Attempts, Stores, Commanding, At, Now, Testing
  <2>3. ~Given'
    BY <1>2, <2>1 DEF Given
  <2> QED
    BY <2>2, <2>3 DEF QuietInv
<1>4. CASE StartTest("charge")
  <2>1. /\ \A u \in Sessions : task'[u] = task[u]
        /\ UNCHANGED man /\ ~man.hold /\ life = "up"
    BY <1>1, <1>4 DEF StartTest, TypeOK, CallsFit, Diagnostics
  <2>2. ASSUME NEW u \in Sessions
        PROVE  QuietOf(u)'
    <3>1. task[u].pc \in {"idle", "leave", "mlock"} \/ (u = "tick" /\ OwnTurn)
      BY <2>1 DEF HoldInv, HoldFree
    <3> QED
      BY <2>1, <3>1 DEF QuietOf, Surrenders, Attempts, Stores, Commanding, At, OwnTurn
  <2> QED
    BY <2>1, <2>2 DEF QuietInv
<1>5. CASE Aside \/ TestLoaded \/ UnloadTest \/ Unload \/ Corrupt
  <2>1. /\ \A u \in Sessions : task'[u] = task[u]
    <3>1. CASE UnloadTest
      BY <1>1, <3>1, Moved DEF UnloadTest, Now
    <3>2. CASE Aside \/ TestLoaded \/ Unload \/ Corrupt
      BY <3>2 DEF Aside, TestLoaded, Unload, Corrupt
    <3> QED
      BY <1>5, <3>1, <3>2
  <2>2. Testing' => Testing
    BY <1>5 DEF Aside, TestLoaded, UnloadTest, Unload, Corrupt, Testing, TypeOK, StateOK, Tests
  <2>3. /\ man'.gen = man.gen /\ man'.relinquished = man.relinquished /\ man'.trusted = man.trusted
        /\ life' = "up" => life = "up" /\ (man'.hold => man.hold)
    BY <1>1, <1>5
       DEF Aside, SameJournal, TestLoaded, UnloadTest, Unload, Corrupt, ManualSessions
  <2> QED
    BY <2>1, <2>2, <2>3, QuietStill
<1>6. CASE RestoreHandoff
  <2>1. \A u \in Sessions : task'[u].pc = "idle"
    BY <1>1, <1>6 DEF RestoreHandoff, OrderInv, Asleep, NoTask
  <2>2. life' # "up"
    BY <1>6 DEF RestoreHandoff
  <2> QED
    BY <2>1, <2>2, QuietIdle
<1>7. CASE LoadTest
  <2>1. life = "handoff" /\ life' # "up"
    BY <1>7 DEF LoadTest
  <2>2. \A u \in Sessions : task'[u].pc = "idle"
    BY <1>1, <1>7, <2>1, Moved DEF LoadTest, LockInv, Awake, Now
  <2> QED
    BY <2>1, <2>2, QuietIdle
<1>8. CASE LoadSessions
  <2>1. UNCHANGED <<man, task, diag>> /\ man.relinquished = -1
    BY <1>8 DEF LoadSessions, GenInv
  <2>2. ~Given'
    BY <1>2, <2>1 DEF Given
  <2> QED
    BY <2>1, <2>2
       DEF QuietInv, QuietOf, Surrenders, Attempts, Stores, Commanding, At, Testing
<1>9. CASE Forgotten
  <2>1. life' = "down" /\ \A u \in Sessions : task'[u].pc = "idle"
    BY <1>1, <1>9 DEF Forgotten, ForgetMemory, NoTask
  <2> QED
    BY <2>1, QuietIdle
<1>10. ASSUME NEW t \in Sessions, Drops(t)
       PROVE  QuietInv'
  <2>1. /\ task'[t].pc = "idle" /\ \A u \in Sessions \ {t} : task'[u] = task[u]
        /\ UNCHANGED <<man, life, diag>>
    BY <1>1, <1>10 DEF Drops, Ends, Now, SameJournal
  <2> QED
    BY <2>1, QuietStill DEF Testing
<1>11. ASSUME NEW t \in Sessions, PersistFails(t)
       PROVE  QuietInv'
  <2>1. Ends(t) /\ UNCHANGED <<life, diag>> /\ man' = [man EXCEPT !.hold = TRUE, !.fault = TRUE]
    BY <1>1, <1>11, Moved DEF PersistFails
  <2>2. /\ man'.gen = man.gen /\ man'.relinquished = man.relinquished /\ man'.trusted = man.trusted
    BY <1>1, <2>1 DEF ManualSessions
  <2>3. task'[t].pc = "idle" /\ \A u \in Sessions \ {t} : task'[u] = task[u]
    BY <1>1, <2>1 DEF Ends, Now
  <2>4. life = "up" => man.hold
    BY <1>11 DEF PersistFails, At, HoldInv, HoldFree, OwnTurn
  <2> QED
    BY <2>1, <2>2, <2>3, <2>4, QuietStill DEF Testing
<1> QED
  BY <1>1, <1>3, <1>4, <1>5, <1>6, <1>7, <1>8, <1>9, <1>10, <1>11, EventCases, QuietSession
    DEF Event

LEMMA TurnStill ==
    ASSUME TurnInv, task'["tick"] = task["tick"],
           ~OwnTurn \/ (UNCHANGED <<inv, sess, sessDisk>> /\ (Awake' => Awake))
    PROVE  TurnInv'
BY DEF TurnInv, OwnTurn, AutoDuty, Forced, At

LEMMA TurnSession ==
    ASSUME TypeOK, OrderInv, LockInv, GenInv, TurnInv, NEW t \in Sessions,
           Turn(t) \/ (t = "tick" /\ Tick)
    PROVE  TurnInv'
<1>1. t \in Tasks /\ Sessions \subseteq Tasks /\ Fits(t, task[t]) /\ "tick" \in Sessions
  BY Names DEF TypeOK, CallsFit, Sessions
<1>2. GenOf(t) /\ life' = life
  BY Beside DEF GenInv
<1>3. OwnTurn => Locked("tick") /\ Awake
  BY <1>1 DEF OwnTurn, Locked, LockInv
<1>4. CASE t # "tick"
  <2>1. CASE TakePersist(t) \/ PersistDone(t)
    <3>1. task'["tick"] = task["tick"]
      BY <1>1, <1>4, <2>1, Moved DEF TakePersist, PersistDone, To, Now
    <3> QED
      BY <1>2, <2>1, <3>1, TurnStill DEF TakePersist, PersistDone, auto, Awake
  <2>2. CASE ~TakePersist(t) /\ ~PersistDone(t)
    BY <1>1, <1>3, <1>4, <2>2, Alone, TurnStill
  <2> QED
    BY <2>1, <2>2
<1>5. CASE t = "tick" /\ Commanded(t)
  <2>1. /\ task'[t].pc \in {"exec", "sent"} /\ task'[t].gen = task[t].gen
        /\ task[t].pc \in {"exec", "sent"} /\ task[t].plan # <<>>
    BY <1>5 DEF Commanded, Now
  <2>2. UNCHANGED <<sess, sessDisk>>
    BY <1>5, <2>1, Beside DEF At, Turns
  <2> QED
    BY <1>2, <1>5, <2>1, <2>2 DEF TurnInv, OwnTurn, AutoDuty, At, Awake
<1>6. CASE t = "tick" /\ Stored(t)
  <2>1. /\ At(t, "store") /\ To(t, "exec") /\ sessDisk' = sess /\ UNCHANGED sess
    BY <1>6 DEF Stored
  <2>2. task[t].plan # <<>> => sess = "owned"
    BY <1>2, <1>6, <2>1 DEF TurnInv, GenOf
  <2> QED
    BY <1>6, <2>1, <2>2 DEF TurnInv, OwnTurn, AutoDuty, At, To, Now
<1>7. CASE t = "tick" /\ Turns(t)
  <2>1. task[t] = NoTask /\ UNCHANGED inv /\ task[t].plan = <<>>
    BY <1>1, <1>7 DEF Turns, At, Fits, NoTask
  <2>2. /\ task'[t].pc = "store"
        /\ sess' = "owned" \/ (inv = SelfUseObservation /\ task'[t].plan = <<>>)
    BY <1>7, <2>1, TurnMoves DEF Turns, To, Now
  <2>3. inv = SelfUseObservation => ~Forced
    BY DEF SelfUseObservation, Forced, ForcedModes
  <2> QED
    BY <1>7, <2>1, <2>2, <2>3 DEF TurnInv, OwnTurn, At, Forced
<1>8. CASE t = "tick" /\ ~Commanded(t) /\ ~Stored(t) /\ ~Turns(t)
  <2>1. ~OwnTurn'
    <3>1. CASE Leave(t) \/ TakePersist(t) \/ PersistDone(t)
      <4>1. CASE Leave(t)
        BY <1>1, <1>8, <4>1, Moved DEF Leave, Ends, Now, OwnTurn
      <4>2. CASE TakePersist(t)
        BY <1>1, <1>8, <4>2, Moved DEF TakePersist, To, Now, OwnTurn
      <4>3. CASE PersistDone(t)
        BY <1>1, <1>8, <4>3, Moved DEF PersistDone, To, Now, OwnTurn, At, Fits
      <4> QED
        BY <3>1, <4>1, <4>2, <4>3
    <3>2. CASE Goes(t)
      BY <1>2, <1>8, <3>2 DEF Goes, To, Now, OwnTurn, GenOf, Locked, At
    <3>3. CASE Surrendering(t) \/ Quits(t) \/ Asks(t) \/ Yields(t) \/ Judges(t) \/ Reopens(t)
      BY <1>8, <3>3
         DEF Surrendering, Quits, Asks, Yields, Judges, Reopens, Leaves, Confirms, Attempt, Gives,
             To, Now, OwnTurn
    <3> QED
      BY <1>8, <3>1, <3>2, <3>3, SessionCases
  <2> QED
    BY <2>1 DEF TurnInv
<1> QED
  BY <1>4, <1>5, <1>6, <1>7, <1>8

LEMMA TurnEvent ==
    ASSUME TypeOK, OrderInv, LockInv, GenInv, TurnInv, Event
    PROVE  TurnInv'
<1>1. /\ Sessions \subseteq Tasks /\ {"req1", "req2", "tick"} = Sessions /\ Diagnostics \subseteq Tasks
      /\ Diagnostics \cap Sessions = {} /\ "boot" \in Diagnostics
  BY Names DEF Sessions, Diagnostics
<1>2. OwnTurn => Locked("tick") /\ Awake /\ lock # "free"
  BY <1>1, Names DEF OwnTurn, Locked, LockInv
<1>3. ASSUME NEW r \in Requests, NEW t \in {"req1", "req2"}, Admit(t, r)
      PROVE  TurnInv'
  <2>1. task'["tick"] = task["tick"] /\ UNCHANGED <<life, inv, sess, sessDisk>>
    BY <1>1, <1>3, Moved DEF Admit, Now, auto, entry
  <2> QED
    BY <2>1, TurnStill DEF Awake
<1>4. CASE StartTest("charge") \/ Aside \/ LoadTest \/ TestLoaded \/ LoadSessions \/ Unload
           \/ UnloadTest \/ Corrupt
  <2>1. task'["tick"] = task["tick"]
    <3>1. CASE StartTest("charge")
      BY <1>1, <3>1 DEF StartTest, TypeOK, CallsFit, Diagnostics
    <3>2. CASE LoadTest \/ UnloadTest
      BY <1>1, <3>2, Moved DEF LoadTest, UnloadTest, Now
    <3>3. CASE Aside \/ TestLoaded \/ LoadSessions \/ Unload \/ Corrupt
      BY <1>1, <3>3 DEF Aside, TestLoaded, LoadSessions, Unload, Corrupt
    <3> QED
      BY <1>4, <3>1, <3>2, <3>3
  <2>2. ~OwnTurn \/ (UNCHANGED <<inv, sess, sessDisk>> /\ (Awake' => Awake))
    BY <1>1, <1>2, <1>4
       DEF StartTest, Aside, SameJournal, LoadTest, TestLoaded, LoadSessions, Unload, UnloadTest,
           Corrupt, entry, auto, Awake
  <2> QED
    BY <2>1, <2>2, TurnStill
<1>5. CASE RestoreHandoff \/ Forgotten
  <2>1. task'["tick"].pc = "idle"
    BY <1>1, <1>5 DEF RestoreHandoff, OrderInv, Asleep, Forgotten, ForgetMemory, NoTask
  <2> QED
    BY <2>1 DEF TurnInv, OwnTurn
<1>6. ASSUME NEW t \in Sessions, Drops(t) \/ PersistFails(t)
      PROVE  TurnInv'
  <2>1. UNCHANGED <<inv, sess, sessDisk, life>> /\ Ends(t)
    BY <1>1, <1>6, Moved DEF Drops, PersistFails, SameJournal, auto
  <2>2. CASE t = "tick"
    BY <2>1, <2>2 DEF TurnInv, OwnTurn, Ends, Now
  <2>3. CASE t # "tick"
    BY <1>1, <2>1, <2>3, TurnStill DEF Ends, Now, Awake
  <2> QED
    BY <2>2, <2>3
<1> QED
  BY <1>1, <1>3, <1>4, <1>5, <1>6, EventCases, TurnSession DEF Event

-------------------------------------------------------------------------------
(* The commands of a start and of a restoration. *)

LEMMA CommandKinds ==
    /\ ~IsForce(SetDischarge(0)) /\ ~IsForce(SetCharge(Kw)) /\ IsForce(SelectMode("ForceCharge"))
    /\ ~IsForce(SetCharge(0)) /\ ~IsForce(SelectMode("SelfUse"))
    /\ SetCharge(Kw) # SetDischarge(0) /\ SetCharge(Kw) # SelectMode("ForceCharge")
BY DEF IsForce, SetDischarge, SetCharge, SelectMode, ForcedModes, Kw

\* Three sequences of at most one element, joined.
LEMMA Joined ==
    ASSUME NEW p \in Seq(Cmds), NEW q \in Seq(Cmds), NEW r \in Seq(Cmds),
           Len(p) <= 1, Len(q) <= 1, Len(r) <= 1, NEW x, x = p \o q \o r
    PROVE  /\ DOMAIN x = 1 .. Len(p) + Len(q) + Len(r) /\ Len(x) = Len(p) + Len(q) + Len(r)
           /\ Len(p) = 1 => x[1] = p[1]
           /\ Len(q) = 1 => x[Len(p) + 1] = q[1]
           /\ Len(r) = 1 => x[Len(p) + Len(q) + 1] = r[1]
<1>1. /\ p \o q \in Seq(Cmds) /\ Len(p \o q) = Len(p) + Len(q)
      /\ Len(p) \in Nat /\ Len(q) \in Nat /\ Len(r) \in Nat
      /\ \A n \in 1 .. Len(p) : (p \o q)[n] = p[n]
      /\ \A n \in 1 .. Len(q) : (p \o q)[Len(p) + n] = q[n]
  OBVIOUS
<1>2. PICK s \in Seq(Cmds) : s = p \o q
  BY <1>1
<1>3. /\ x \in Seq(Cmds) /\ Len(x) = Len(s) + Len(r) /\ DOMAIN x = 1 .. Len(s) + Len(r)
      /\ \A n \in 1 .. Len(s) : x[n] = s[n]
      /\ \A n \in 1 .. Len(r) : x[Len(s) + n] = r[n]
  BY <1>2
<1>4. Len(s) = Len(p) + Len(q)
  BY <1>1, <1>2
<1>5. Len(p) = 1 => x[1] = p[1]
  <2>1. Len(p) = 1 => 1 \in 1 .. Len(p) /\ 1 \in 1 .. Len(s)
    BY <1>1, <1>4
  <2> QED
    BY <1>1, <1>2, <1>3, <2>1
<1>6. Len(q) = 1 => x[Len(p) + 1] = q[1]
  <2>1. Len(q) = 1 => 1 \in 1 .. Len(q) /\ Len(p) + 1 \in 1 .. Len(s)
    BY <1>1, <1>4
  <2> QED
    BY <1>1, <1>2, <1>3, <2>1
<1>7. Len(r) = 1 => x[Len(p) + Len(q) + 1] = r[1]
  <2>1. Len(r) = 1 => 1 \in 1 .. Len(r)
    BY <1>1
  <2> QED
    BY <1>3, <1>4, <2>1
<1> QED
  BY <1>3, <1>4, <1>5, <1>6, <1>7

LEMMA Short ==
    ASSUME NEW c \in Cmds, NEW s, s = <<>> \/ s = <<c>>
    PROVE  /\ s \in Seq(Cmds) /\ Len(s) \in {0, 1} /\ (Len(s) = 1 => s[1] = c)
           /\ s # <<>> => Len(s) = 1
<1>1. CASE s = <<>>
  BY <1>1
<1>2. CASE s = <<c>>
  BY <1>2
<1> QED
  BY <1>1, <1>2

\* A plan is made of up to three commands, in order.
LEMMA Parts ==
    ASSUME NEW a \in Cmds, NEW b \in Cmds, NEW c \in Cmds,
           NEW p \in {<<>>, <<a>>}, NEW q \in {<<>>, <<b>>}, NEW r \in {<<>>, <<c>>},
           NEW x, x = p \o q \o r
    PROVE  /\ \A n \in DOMAIN x :
                  \/ x[n] \in {a, b}
                  \/ x[n] = c /\ n = Len(x) /\ (q = <<>> \/ \E m \in 1 .. n - 1 : x[m] = b)
           /\ x = <<>> => q = <<>>
<1>1. p \in Seq(Cmds) /\ Len(p) \in {0, 1} /\ (Len(p) = 1 => p[1] = a)
  BY Short
<1>2. /\ q \in Seq(Cmds) /\ Len(q) \in {0, 1} /\ (Len(q) = 1 => q[1] = b)
      /\ q # <<>> => Len(q) = 1
  BY Short
<1>3. r \in Seq(Cmds) /\ Len(r) \in {0, 1} /\ (Len(r) = 1 => r[1] = c)
  BY Short
<1>4. /\ DOMAIN x = 1 .. Len(p) + Len(q) + Len(r) /\ Len(x) = Len(p) + Len(q) + Len(r)
      /\ Len(p) = 1 => x[1] = p[1]
      /\ Len(q) = 1 => x[Len(p) + 1] = q[1]
      /\ Len(r) = 1 => x[Len(p) + Len(q) + 1] = r[1]
  <2>1. Len(p) <= 1 /\ Len(q) <= 1 /\ Len(r) <= 1
    BY <1>1, <1>2, <1>3
  <2> QED
    BY <1>1, <1>2, <1>3, <2>1, Joined
<1>5. PICK i \in {0, 1}, j \in {0, 1}, k \in {0, 1} :
          /\ DOMAIN x = 1 .. i + j + k /\ Len(x) = i + j + k
          /\ i = 1 => x[1] = a
          /\ j = 1 => x[i + 1] = b
          /\ k = 1 => x[i + j + 1] = c
          /\ q # <<>> => j = 1
  BY <1>1, <1>2, <1>3, <1>4
<1>6. ASSUME NEW n \in DOMAIN x
      PROVE  \/ x[n] \in {a, b}
             \/ x[n] = c /\ n = Len(x) /\ (q = <<>> \/ \E m \in 1 .. n - 1 : x[m] = b)
  <2>1. n \in Int /\ 1 <= n /\ n <= i + j + k
    BY <1>5
  <2>2. \/ n = 1 /\ i = 1
        \/ n = i + 1 /\ j = 1
        \/ n = i + j + 1 /\ k = 1
    BY <2>1
  <2>3. CASE n = i + j + 1 /\ k = 1
    <3>1. j = 1 => i + 1 \in 1 .. n - 1
      BY <2>3
    <3> QED
      BY <1>5, <2>3, <3>1
  <2> QED
    BY <1>5, <2>2, <2>3
<1>7. x = <<>> => q = <<>>
  <2>1. x = <<>> => Len(x) = 0
    OBVIOUS
  <2> QED
    BY <1>5, <2>1
<1> QED
  BY <1>6, <1>7

LEMMA Kinds ==
    /\ SetCharge(0) \in Cmds /\ SetCharge(Kw) \in Cmds /\ SetDischarge(0) \in Cmds
    /\ SelectMode("SelfUse") \in Cmds /\ SelectMode("ForceCharge") \in Cmds
BY DEF SetCharge, SetDischarge, SelectMode, Cmds, Commands, ForcedModes

LEMMA ForcePlan ==
    ASSUME NEW o
    PROVE  StartPlan(PlanForceCharge(o, Kw), o.chg)
<1> DEFINE a == SetDischarge(0)  b == SetCharge(Kw)  c == SelectMode("ForceCharge")
           x == PlanForceCharge(o, Kw)
<1>1. ~IsForce(a) /\ ~IsForce(b)
  BY CommandKinds
<1>2. PICK p \in {<<>>, <<a>>}, q \in {<<>>, <<b>>}, r \in {<<>>, <<c>>} :
          x = p \o q \o r /\ (q = <<>> => o.chg = Kw)
  <2>1. /\ Unless(o.dis = 0, a) \in {<<>>, <<a>>} /\ Unless(o.chg = Kw, b) \in {<<>>, <<b>>}
        /\ Unless(o.mode = "ForceCharge", c) \in {<<>>, <<c>>}
        /\ Unless(o.chg = Kw, b) = <<>> => o.chg = Kw
    BY DEF Unless
  <2>2. x = Unless(o.dis = 0, a) \o Unless(o.chg = Kw, b) \o Unless(o.mode = "ForceCharge", c)
    BY DEF PlanForceCharge
  <2> HIDE DEF a, b, c, x
  <2> QED
    BY <2>1, <2>2
<1> HIDE DEF a, b, c, x
<1>3. \A n \in DOMAIN x :
          \/ x[n] \in {a, b}
          \/ x[n] = c /\ n = Len(x) /\ (q = <<>> \/ \E m \in 1 .. n - 1 : x[m] = b)
  <2>1. a \in Cmds /\ b \in Cmds /\ c \in Cmds
    BY Kinds DEF a, b, c
  <2> QED
    BY <1>2, <2>1, Parts
<1>4. StartPlan(x, o.chg)
  BY <1>1, <1>2, <1>3 DEF StartPlan, a, b, c
<1> QED
  BY <1>4 DEF x

LEMMA StartPlanNext ==
    ASSUME NEW plan \in Seq(Cmds), plan # <<>>, NEW o \in Observations({0, Kw}),
           StartPlan(plan, o.chg)
    PROVE  /\ StartPlan(Tail(plan), Apply(Head(plan), o).chg)
           /\ IsForce(Head(plan)) => o.chg = Kw
<1>1. /\ Len(plan) \in Nat /\ Len(plan) >= 1 /\ Head(plan) = plan[1] /\ 1 \in DOMAIN plan
      /\ DOMAIN plan = 1 .. Len(plan) /\ DOMAIN Tail(plan) = 1 .. Len(plan) - 1
      /\ Len(Tail(plan)) = Len(plan) - 1
      /\ \A n \in 1 .. Len(plan) - 1 : Tail(plan)[n] = plan[n + 1] /\ n + 1 \in DOMAIN plan
  OBVIOUS
<1>2. Head(plan) \in {SetDischarge(0), SetCharge(Kw), SelectMode("ForceCharge")}
  BY <1>1 DEF StartPlan
<1>3. /\ Head(plan) = SetCharge(Kw) => Apply(Head(plan), o).chg = Kw
      /\ Head(plan) # SetCharge(Kw) => Apply(Head(plan), o).chg = o.chg
  BY <1>2 DEF Apply, SetCharge, SetDischarge, SelectMode, Observations
<1>4. ASSUME NEW n \in DOMAIN Tail(plan)
      PROVE  /\ Tail(plan)[n] \in {SetDischarge(0), SetCharge(Kw), SelectMode("ForceCharge")}
             /\ IsForce(Tail(plan)[n]) => n = Len(Tail(plan)) /\
                  (Apply(Head(plan), o).chg = Kw \/ \E m \in 1 .. n - 1 : Tail(plan)[m] = SetCharge(Kw))
  <2>1. n \in 1 .. Len(plan) - 1 /\ Tail(plan)[n] = plan[n + 1] /\ n + 1 \in DOMAIN plan
    BY <1>1
  <2>2. plan[n + 1] \in {SetDischarge(0), SetCharge(Kw), SelectMode("ForceCharge")}
    BY <2>1 DEF StartPlan
  <2>3. ASSUME IsForce(plan[n + 1])
        PROVE  n + 1 = Len(plan) /\ (o.chg = Kw \/ \E m \in 1 .. n : plan[m] = SetCharge(Kw))
    BY <1>1, <2>1, <2>3 DEF StartPlan
  <2>4. ASSUME NEW m \in 1 .. n, plan[m] = SetCharge(Kw), m # 1
        PROVE  \E k \in 1 .. n - 1 : Tail(plan)[k] = SetCharge(Kw)
    <3>1. m - 1 \in 1 .. n - 1 /\ Tail(plan)[m - 1] = plan[m]
      BY <1>1, <2>1, <2>4
    <3> QED
      BY <2>4, <3>1
  <2>5. ASSUME IsForce(plan[n + 1])
        PROVE  Apply(Head(plan), o).chg = Kw \/ \E m \in 1 .. n - 1 : Tail(plan)[m] = SetCharge(Kw)
    BY <1>1, <1>3, <2>3, <2>4, <2>5
  <2> QED
    BY <1>1, <2>1, <2>2, <2>3, <2>5
<1>5. StartPlan(Tail(plan), Apply(Head(plan), o).chg)
  BY <1>4 DEF StartPlan
<1>6. IsForce(Head(plan)) => o.chg = Kw
  BY <1>1 DEF StartPlan
<1> QED
  BY <1>5, <1>6

LEMMA StartPlanKeeps ==
    ASSUME NEW plan, NEW c, NEW d, StartPlan(plan, c), c = Kw => d = Kw
    PROVE  StartPlan(plan, d)
BY DEF StartPlan

LEMMA RestorePlans ==
    ASSUME NEW o
    PROVE  /\ RestorePlan(PlanRestoreMode(o)) /\ (PlanRestoreMode(o) = <<>> => o.chg = 0)
           /\ RestorePlan(BlindRestore) /\ BlindRestore # <<>>
<1> DEFINE a == SelectMode("SelfUse")  b == SetCharge(0)  c == SetDischarge(0)
           x == PlanRestoreMode(o)
<1>1. a \in Cmds /\ b \in Cmds /\ c \in Cmds
  BY Kinds
<1>2. PICK p, q, r :
          /\ p \in {<<>>, <<a>>} /\ q \in {<<>>, <<b>>} /\ r \in {<<>>, <<c>>}
          /\ x = p \o q \o r /\ (q = <<>> => o.chg = 0)
  <2>1. /\ Unless(o.mode = "SelfUse", a) \in {<<>>, <<a>>} /\ Unless(o.chg = 0, b) \in {<<>>, <<b>>}
        /\ Unless(o.dis = 0, c) \in {<<>>, <<c>>}
        /\ Unless(o.chg = 0, b) = <<>> => o.chg = 0
    BY <1>1 DEF Unless
  <2>2. x = Unless(o.mode = "SelfUse", a) \o Unless(o.chg = 0, b) \o Unless(o.dis = 0, c)
    BY DEF PlanRestoreMode
  <2> HIDE DEF a, b, c, x
  <2> QED
    BY <2>1, <2>2
<1> HIDE DEF a, b, c, x
<1>3. (\A n \in DOMAIN x : x[n] \in {a, b, c}) /\ (x = <<>> => q = <<>>)
  BY <1>1, <1>2, Parts
<1>4. RestorePlan(x)
  BY <1>3 DEF RestorePlan, a, b, c
<1>5. RestorePlan(BlindRestore) /\ BlindRestore # <<>>
  BY DEF RestorePlan, BlindRestore
<1> QED
  BY <1>2, <1>3, <1>4, <1>5 DEF x

LEMMA RestorePlanNext ==
    ASSUME NEW plan \in Seq(Cmds), plan # <<>>, NEW o \in Observations({0, Kw}), RestorePlan(plan)
    PROVE  RestorePlan(Tail(plan)) /\ Apply(Head(plan), o).chg \in {o.chg, 0}
<1>1. /\ Len(plan) \in Nat /\ Head(plan) = plan[1] /\ 1 \in DOMAIN plan
      /\ DOMAIN plan = 1 .. Len(plan) /\ DOMAIN Tail(plan) = 1 .. Len(plan) - 1
      /\ \A n \in 1 .. Len(plan) - 1 : Tail(plan)[n] = plan[n + 1] /\ n + 1 \in DOMAIN plan
  OBVIOUS
<1>2. RestorePlan(Tail(plan))
  BY <1>1 DEF RestorePlan
<1>3. Head(plan) \in {SelectMode("SelfUse"), SetCharge(0), SetDischarge(0)}
  BY <1>1 DEF RestorePlan
<1> QED
  BY <1>2, <1>3 DEF Apply, SetCharge, SetDischarge, SelectMode, Observations

-------------------------------------------------------------------------------
(* The fences of the test, its start and its restorations. *)

LEMMA FenceMove ==
    ASSUME TypeOK, FenceInv, NEW t \in Diagnostics,
           \A u \in Diagnostics \ {t} : task'[u] = task[u],
           life' = life, man'.hold = man.hold, diag'.gen \in Nat, diag.gen <= diag'.gen,
           task'[t].gen <= diag'.gen, retry' <= diag'.gen, Armed' => Testing',
           retry' \in {retry, Unarmed} \/ life \notin {"down", "handoff"},
           t = "start" => ~Saves("start", {"rlock"})' /\ ~At("start", "rlock")',
           t = "retry" => ~Saves("retry", {"restore"})',
           t = "boot" /\ life = "up" => At("boot", "idle")',
           t \in Restorers /\ (task'[t].pc \in {"exec", "sent", "rlock"} \/ Saves(t, {"rlock"})')
               => RestorePlan(task'[t].plan)
    PROVE  FenceInv'
<1>1. /\ {"start", "stop", "retry", "boot"} = Diagnostics /\ Restorers \subseteq Diagnostics
      /\ diag.gen \in Nat /\ \A u \in Diagnostics : task[u].gen \in Nat
  BY DEF Diagnostics, Tasks, Restorers, TypeOK, StateOK, Tests, CallsFit, Calls
<1>2. ASSUME NEW u \in Diagnostics
      PROVE  task'[u].gen <= diag'.gen
  BY <1>1 DEF FenceInv
<1>3. life \in {"down", "handoff"} => retry' = Unarmed
  BY DEF FenceInv
<1>4. /\ ~Saves("start", {"rlock"})' /\ ~At("start", "rlock")' /\ ~Saves("retry", {"restore"})'
      /\ life = "up" => At("boot", "idle")'
  BY <1>1 DEF FenceInv, Saves, At
<1>5. ASSUME NEW u \in Restorers,
             task'[u].pc \in {"exec", "sent", "rlock"} \/ Saves(u, {"rlock"})'
      PROVE  RestorePlan(task'[u].plan)
  <2>1. CASE u = t
    BY <1>5, <2>1
  <2>2. CASE u # t
    <3>1. task'[u] = task[u]
      BY <1>1, <2>2
    <3> QED
      BY <1>5, <3>1 DEF FenceInv, Saves
  <2> QED
    BY <2>1, <2>2
<1>6. life \in {"unloading", "unloaded"} => man'.hold
  BY DEF FenceInv
<1> QED
  BY <1>2, <1>3, <1>4, <1>5, <1>6 DEF FenceInv

\* What the calls of the test have to do with the shared lock.
LEMMA Holders ==
    ASSUME LockInv
    PROVE  /\ StartActs => lock = "start"
           /\ \A t \in Restorers : task[t].pc \in {"exec", "sent"} => lock = t
           /\ "start" \notin Restorers /\ "free" \notin Restorers
           /\ {"start"} \cup Restorers = Diagnostics /\ Diagnostics \subseteq Tasks
BY DEF LockInv, Locked, StartActs, Restorers, Diagnostics, Tasks

\* A step of a restoration: it may end the test when nothing is left to take back, or
\* leave what it has not done to a retry.
LEMMA RestorerFrame ==
    ASSUME TypeOK, LockInv, TestInv, NEW t \in Restorers,
           \A u \in Diagnostics \ {t} : task'[u] = task[u],
           life' = life, sess' = sess, man'.hold = man.hold, diag'.gen = diag.gen,
           diag'.wgen = diag.wgen \/ lock = "free", Testing' => Testing,
           Testing /\ ~Testing' =>
               inv.chg = 0 /\ inv' = inv /\ retry' = Unarmed /\ Restores(t) /\ ~Restores(t)',
           \/ retry' \in {retry, Unarmed}
           \/ retry' = diag.gen /\ Testing' /\ Restores(t) /\ ~Restores(t)' /\ task[t].pc # "idle",
           Restores(t)' => Restores(t) \/ (Armed /\ retry' = Unarmed),
           inv' = inv \/ (task[t].pc = "sent" /\ inv'.chg \in {inv.chg, 0}),
           TestDuty /\ Testing' => TestDuty', At("start", "saving") => snap' = snap,
           task'[t].pc \in {"exec", "sent", "rlock"} \/ Saves(t, {"rlock"})'
               => RestorePlan(task'[t].plan),
           life = "up" /\ task'[t].pc \in {"exec", "sent"} =>
               (Testing' /\ ~WaitsFresh) \/ inv'.chg = 0,
           task'[t].gen <= diag.gen, t = "retry" => ~Saves("retry", {"restore"})',
           t = "boot" /\ life = "up" => At("boot", "idle")'
    PROVE  TestInv'
<1>1. /\ StartActs => lock = "start"
      /\ \A u \in Restorers : task[u].pc \in {"exec", "sent"} => lock = u
      /\ "start" \notin Restorers /\ {"start"} \cup Restorers = Diagnostics /\ Diagnostics \subseteq Tasks
  BY Holders
<1>2. /\ diag.gen \in Nat /\ retry \in Nat \cup {-1} /\ inv \in Observations({0, Kw})
      /\ \A u \in Diagnostics : task[u] \in Calls /\ Fits(u, task[u])
  BY <1>1 DEF TypeOK, StateOK, Tests, CallsFit, Unarmed
<1>3. task'["start"] = task["start"] /\ \A u \in Restorers \ {t} : task'[u] = task[u]
  BY <1>1
<1>4. FenceInv'
  <2>1. retry' <= diag'.gen
    BY <1>2 DEF TestInv, FenceInv, Unarmed
  <2>2. Armed' => Testing'
    BY <1>2 DEF TestInv, FenceInv, Unarmed, Armed
  <2>3. retry' \in {retry, Unarmed} \/ life \notin {"down", "handoff"}
    BY <1>1 DEF LockInv, Awake
  <2> QED
    BY <1>1, <1>2, <2>1, <2>2, <2>3, FenceMove DEF TestInv
<1>5. /\ StartWaits' <=> StartWaits
      /\ StartActs' <=> StartActs
      /\ Fresh("start")' => Fresh("start")
      /\ WaitsFresh' => WaitsFresh
  BY <1>3 DEF StartWaits, StartActs, WaitsFresh, Fresh, At, Saves
<1>6. life = "up" /\ WaitsFresh => inv'.chg = inv.chg
  BY DEF TestInv, RestoreInv
<1>7. StartActs => inv' = inv /\ diag'.wgen = diag.wgen
  BY <1>1
<1>8. StartWaiting'
  <2> SUFFICES ASSUME life = "up", WaitsFresh'
               PROVE  /\ StartPlan(task["start"].plan, inv'.chg) /\ sess = "idle"
                      /\ At("start", "lock") => TestDuty'
                      /\ At("start", "saving") => snap'.kind # "none"
    BY <1>3 DEF StartWaiting, At
  <2>1. WaitsFresh /\ Testing'
    BY <1>5 DEF WaitsFresh, Fresh
  <2> QED
    BY <1>6, <2>1 DEF TestInv, StartInv, StartWaiting
<1>9. StartActing'
  <2> SUFFICES ASSUME StartActs, life = "up" \/ At("start", "sent")
               PROVE  /\ StartPlan(task["start"].plan, inv'.chg) /\ diag'.wgen = task["start"].gen
                      /\ Fresh("start")' \/ (At("start", "sent") /\ IsForce(Head(task["start"].plan)))
                           => TestDuty'
    BY <1>3, <1>5 DEF StartActing, At
  <2>1. /\ StartPlan(task["start"].plan, inv.chg) /\ diag.wgen = task["start"].gen
        /\ Fresh("start") \/ (At("start", "sent") /\ IsForce(Head(task["start"].plan))) => TestDuty
    BY DEF TestInv, StartInv, StartActing
  <2>2. Fresh("start")' => Testing'
    BY DEF Fresh
  <2>3. ASSUME At("start", "sent"), IsForce(Head(task["start"].plan))
        PROVE  TestDuty /\ Testing'
    <3>1. task["start"].plan \in Seq(Cmds) /\ task["start"].plan # <<>>
      BY <1>1, <1>2, <2>3 DEF Fits, At, Calls
    <3>2. inv.chg = Kw
      BY <1>2, <2>1, <2>3, <3>1, StartPlanNext
    <3>3. TestDuty
      BY <2>1, <2>3
    <3>4. Testing
      BY <1>1, <2>3, <3>3 DEF TestDuty, LockInv, Awake, At
    <3> QED
      BY <3>2, <3>3, <3>4 DEF Kw
  <2> QED
    BY <1>5, <1>7, <2>1, <2>2, <2>3
<1>10. ASSUME NEW u \in Restorers, u # t
       PROVE  Restores(u)' <=> Restores(u)
  BY <1>3, <1>10 DEF Restores, Saves, At
<1>11. NoneRestores /\ (retry' \in {retry, Unarmed}) => NoneRestores'
  BY <1>2, <1>10 DEF NoneRestores, Armed, Unarmed
<1>12. RestoreInv'
  <2> SUFFICES ASSUME life = "up" PROVE RestoreInv'
    BY DEF RestoreInv
  <2>1. ASSUME NEW u \in Restorers, task'[u].pc \in {"exec", "sent"}
        PROVE  (Testing' /\ ~WaitsFresh') \/ inv'.chg = 0
    <3>1. CASE u = t
      BY <1>5, <2>1, <3>1
    <3>2. CASE u # t
      <4>1. (Testing /\ ~WaitsFresh) \/ inv.chg = 0
        BY <1>3, <2>1, <3>2 DEF TestInv, RestoreInv
      <4> QED
        BY <1>5, <4>1
    <3> QED
      BY <3>1, <3>2
  <2>2. ASSUME StartWaits \/ StartActs
        PROVE  OneRestores'
    <3>1. OneRestores
      BY <2>2 DEF TestInv, RestoreInv
    <3>2. Armed' => \A u \in Restorers : ~Restores(u)'
      <4>1. CASE retry' \in {retry, Unarmed}
        BY <1>2, <1>10, <3>1, <4>1 DEF OneRestores, Armed, Unarmed
      <4>2. CASE Restores(t) /\ ~Restores(t)'
        BY <1>10, <3>1, <4>2 DEF OneRestores
      <4> QED
        BY <4>1, <4>2
    <3>3. ASSUME NEW u \in Restorers, NEW v \in Restorers, Restores(u)', Restores(v)'
          PROVE  u = v
      BY <1>10, <3>1, <3>3 DEF OneRestores
    <3> QED
      BY <3>2, <3>3 DEF OneRestores
  <2>3. ASSUME StartActs, ~Testing'
        PROVE  NoneRestores'
    <3>1. CASE Testing
      <4>1. OneRestores /\ Restores(t) /\ ~Restores(t)' /\ retry' = Unarmed
        BY <2>3, <3>1 DEF TestInv, RestoreInv
      <4> QED
        BY <1>2, <1>10, <4>1 DEF NoneRestores, OneRestores, Armed, Unarmed
    <3>2. CASE ~Testing
      BY <1>11, <2>3, <3>2 DEF TestInv, RestoreInv
    <3> QED
      BY <3>1, <3>2
  <2>4. ASSUME ~Testing', inv'.chg # 0, sess = "idle", ~man.hold
        PROVE  NoneRestores'
    <3>1. inv.chg # 0 /\ ~Testing
      BY <2>4
    <3> QED
      BY <1>11, <2>4, <3>1 DEF TestInv, RestoreInv
  <2>5. ASSUME WaitsFresh', inv'.chg # 0
        PROVE  NoneRestores'
    <3>1. NoneRestores
      BY <1>5, <1>6, <2>5 DEF TestInv, RestoreInv
    <3> QED
      BY <1>11, <3>1 DEF NoneRestores
  <2> QED
    BY <1>5, <2>1, <2>2, <2>3, <2>4, <2>5 DEF RestoreInv
<1> QED
  BY <1>4, <1>8, <1>9, <1>12 DEF TestInv, StartInv

\* A step of a start.
LEMMA StartFrame ==
    ASSUME TypeOK, LockInv, TestInv, \A u \in Diagnostics \ {"start"} : task'[u] = task[u],
           life' = life, life \notin {"down", "handoff"}, sess' = sess, man'.hold = man.hold,
           inv' = inv \/ StartActs, Testing' <=> Testing,
           diag'.gen \in Nat, diag.gen <= diag'.gen, diag'.gen = diag.gen \/ Testing',
           task'["start"].gen <= diag'.gen,
           retry' \in {retry, Unarmed} \/ (Testing' /\ retry' = diag'.gen),
           WaitsFresh' => WaitsFresh /\ inv' = inv /\ retry' = retry /\ diag'.gen = diag.gen,
           StartWaits' \/ StartActs' =>
               (StartWaits \/ StartActs) /\ retry' = retry /\ diag'.gen = diag.gen,
           StartActs' => StartActs \/ Testing,
           ~Saves("start", {"rlock"})', ~At("start", "rlock")', StartInv'
    PROVE  TestInv'
<1>1. /\ StartActs => lock = "start"
      /\ \A u \in Restorers : task[u].pc \in {"exec", "sent"} => lock = u
      /\ "start" \notin Restorers /\ {"start"} \cup Restorers = Diagnostics /\ Diagnostics \subseteq Tasks
  BY Holders
<1>2. diag.gen \in Nat /\ retry \in Nat \cup {-1}
  BY DEF TypeOK, StateOK, Tests, Unarmed
<1>3. \A u \in Restorers : task'[u] = task[u]
  BY <1>1
<1>4. FenceInv'
  <2>1. retry' <= diag'.gen
    BY <1>2 DEF TestInv, FenceInv, Unarmed
  <2>2. Armed' => Testing'
    BY <1>2 DEF TestInv, FenceInv, Unarmed, Armed
  <2> QED
    BY <1>1, <2>1, <2>2, FenceMove DEF TestInv
<1>5. ASSUME NEW u \in Restorers, diag'.gen = diag.gen
      PROVE  Restores(u)' <=> Restores(u)
  BY <1>3, <1>5 DEF Restores, Saves, At
<1>6. NoneRestores /\ retry' \in {retry, Unarmed} /\ diag'.gen = diag.gen => NoneRestores'
  BY <1>2, <1>5 DEF NoneRestores, Armed, Unarmed
<1>7. RestoreInv'
  <2> SUFFICES ASSUME life = "up" PROVE RestoreInv'
    BY DEF RestoreInv
  <2>1. ASSUME NEW u \in Restorers, task'[u].pc \in {"exec", "sent"}
        PROVE  (Testing' /\ ~WaitsFresh') \/ inv'.chg = 0
    <3>1. task[u].pc \in {"exec", "sent"} /\ ~StartActs
      BY <1>1, <1>3, <2>1
    <3> QED
      BY <3>1 DEF TestInv, RestoreInv
  <2>2. ASSUME StartWaits' \/ StartActs'
        PROVE  OneRestores'
    BY <1>5, <2>2 DEF TestInv, RestoreInv, OneRestores, Armed
  <2>3. ASSUME StartActs', ~Testing'
        PROVE  NoneRestores'
    BY <1>6, <2>3 DEF TestInv, RestoreInv
  <2>4. ASSUME ~Testing', inv'.chg # 0, sess = "idle", ~man.hold
        PROVE  NoneRestores'
    <3>1. NoneRestores
      BY <2>4 DEF TestInv, RestoreInv
    <3> QED
      BY <1>6, <2>4, <3>1
  <2>5. ASSUME WaitsFresh', inv'.chg # 0
        PROVE  NoneRestores'
    BY <1>6, <2>5 DEF TestInv, RestoreInv
  <2> QED
    BY <2>1, <2>2, <2>3, <2>4, <2>5 DEF RestoreInv
<1> QED
  BY <1>4, <1>7 DEF TestInv

\* No call of the test moves, and the test stays as it is.
LEMMA TestStill ==
    ASSUME TypeOK, LockInv, TestInv, \A u \in Diagnostics : task'[u] = task[u],
           diag' = diag, retry' \in {retry, Unarmed},
           life' = life \/ (life = "up" /\ life' = "unloading"),
           life' \in {"unloading", "unloaded"} => man'.hold,
           Testing => UNCHANGED <<diagDisk, saver, snap>>,
           (\E u \in Diagnostics : task[u].pc \in {"exec", "sent"}) => inv' = inv,
           life = "up" /\ WaitsFresh => inv'.chg = inv.chg /\ sess' = "idle",
           life' = "up" /\ ~Testing /\ inv'.chg # 0 /\ sess' = "idle" /\ ~man'.hold
               => inv.chg # 0 /\ sess = "idle" /\ ~man.hold
    PROVE  TestInv'
<1>1. /\ "start" \notin Restorers /\ {"start"} \cup Restorers = Diagnostics /\ Diagnostics \subseteq Tasks
      /\ "boot" \in Diagnostics /\ "retry" \in Diagnostics
  BY Holders DEF Diagnostics
<1>2. diag.gen \in Nat /\ retry \in Nat \cup {-1}
  BY DEF TypeOK, StateOK, Tests, Unarmed
<1>3. task'["start"] = task["start"] /\ \A u \in Restorers : task'[u] = task[u]
  BY <1>1
<1>4. /\ Testing' <=> Testing
      /\ Fresh("start")' <=> Fresh("start")
      /\ StartWaits' <=> StartWaits
      /\ StartActs' <=> StartActs
      /\ WaitsFresh' <=> WaitsFresh
      /\ \A u \in Restorers : Restores(u)' <=> Restores(u)
      /\ Armed' => Armed
  BY <1>2, <1>3 DEF StartWaits, StartActs, WaitsFresh, Fresh, At, Saves, Testing, Restores, Armed,
       Unarmed
<1>5. FenceInv'
  BY <1>1, <1>2, <1>3, <1>4 DEF TestInv, FenceInv, Saves, At, Unarmed
<1>6. Testing /\ TestDuty => TestDuty'
  BY <1>4 DEF TestDuty
<1>7. StartWaiting'
  <2> SUFFICES ASSUME life' = "up", WaitsFresh'
               PROVE  /\ StartPlan(task["start"].plan, inv'.chg) /\ sess' = "idle"
                      /\ At("start", "lock") => TestDuty'
                      /\ At("start", "saving") => snap'.kind # "none"
    BY <1>3 DEF StartWaiting, At
  <2>1. WaitsFresh /\ Testing /\ life = "up"
    BY <1>4 DEF WaitsFresh, Fresh
  <2> QED
    BY <1>6, <2>1 DEF TestInv, StartInv, StartWaiting
<1>8. StartActing'
  <2> SUFFICES ASSUME StartActs, life' = "up" \/ At("start", "sent")
               PROVE  /\ StartPlan(task["start"].plan, inv'.chg) /\ diag'.wgen = task["start"].gen
                      /\ Fresh("start") \/ (At("start", "sent") /\ IsForce(Head(task["start"].plan)))
                           => TestDuty'
    BY <1>3, <1>4 DEF StartActing, At
  <2>1. inv' = inv /\ (life = "up" \/ At("start", "sent"))
    BY <1>1 DEF StartActs
  <2>2. /\ StartPlan(task["start"].plan, inv.chg) /\ diag.wgen = task["start"].gen
        /\ Fresh("start") \/ (At("start", "sent") /\ IsForce(Head(task["start"].plan))) => TestDuty
    BY <2>1 DEF TestInv, StartInv, StartActing
  <2>3. TestDuty => Testing
    <3>1. task["start"].pc # "idle"
      BY DEF StartActs
    <3>2. life \notin {"down", "handoff"}
      BY <1>1, <3>1 DEF LockInv, Awake
    <3> QED
      BY <3>2 DEF TestDuty
  <2> QED
    BY <1>6, <2>1, <2>2, <2>3
<1>9. RestoreInv'
  <2> SUFFICES ASSUME life' = "up" PROVE RestoreInv'
    BY DEF RestoreInv
  <2>1. life = "up" /\ (NoneRestores => NoneRestores') /\ (OneRestores => OneRestores')
    BY <1>4 DEF NoneRestores, OneRestores
  <2>2. ASSUME NEW u \in Restorers, task'[u].pc \in {"exec", "sent"}
        PROVE  (Testing' /\ ~WaitsFresh') \/ inv'.chg = 0
    BY <1>1, <1>3, <1>4, <2>1, <2>2 DEF TestInv, RestoreInv
  <2>3. WaitsFresh' /\ inv'.chg # 0 => NoneRestores'
    BY <1>4, <2>1 DEF TestInv, RestoreInv
  <2>4. ~Testing' /\ inv'.chg # 0 /\ sess' = "idle" /\ ~man'.hold => NoneRestores'
    BY <1>4, <2>1 DEF TestInv, RestoreInv
  <2> QED
    BY <1>4, <2>1, <2>2, <2>3, <2>4 DEF TestInv, RestoreInv
<1> QED
  BY <1>5, <1>7, <1>8, <1>9 DEF TestInv, StartInv

\* No call is in progress.
LEMMA TestIdle ==
    ASSUME \A u \in Diagnostics : task'[u] = NoTask, diag'.gen \in Nat, retry' <= diag'.gen,
           Armed' => Testing', life' \in {"down", "handoff"} => retry' = Unarmed,
           life' \notin {"unloading", "unloaded"}
    PROVE  TestInv'
<1>1. /\ {"start", "stop", "retry", "boot"} = Diagnostics /\ Restorers \subseteq Diagnostics
      /\ \A u \in Diagnostics : task'[u].pc = "idle" /\ task'[u].gen = 0
  BY DEF Diagnostics, Restorers, NoTask
<1>2. /\ ~StartWaits' /\ ~StartActs' /\ ~WaitsFresh'
      /\ \A u \in Restorers : ~Restores(u)'
  BY <1>1 DEF StartWaits, StartActs, WaitsFresh, Restores, Saves, At
<1>3. FenceInv'
  BY <1>1 DEF FenceInv, Saves, At
<1>4. StartInv'
  BY <1>2 DEF StartInv, StartWaiting, StartActing
<1>5. RestoreInv'
  BY <1>1, <1>2 DEF RestoreInv, NoneRestores
<1> QED
  BY <1>3, <1>4, <1>5 DEF TestInv

\* A write of the test's store.
LEMMA TestSaves ==
    ASSUME TypeOK, LockInv, TestInv, NEW t \in Diagnostics, TakeSave(t) \/ SaveDone(t)
    PROVE  TestInv'
<1>1. /\ "start" \notin Restorers /\ {"start"} \cup Restorers = Diagnostics /\ Diagnostics \subseteq Tasks
      /\ t \in Tasks /\ task[t] \in Calls /\ Fits(t, task[t]) /\ t # "none"
  BY Holders, Names DEF TypeOK, CallsFit
<1>2. /\ UNCHANGED <<inv, diag, retry, man, sess, life, lock>>
      /\ task[t].pc \in {"save", "saving"} /\ diag.gen \in Nat
  BY DEF TakeSave, SaveDone, callbacks, auto, entry, At, TypeOK, StateOK, Tests
<1>3. /\ task'[t].next = task[t].next /\ task'[t].gen = task[t].gen /\ task'[t].plan = task[t].plan
      /\ task'[t].pc = (IF TakeSave(t) THEN "saving" ELSE task[t].next)
      /\ \A u \in Diagnostics \ {t} : task'[u] = task[u]
      /\ TakeSave(t) => At(t, "save")
      /\ ~TakeSave(t) => At(t, "saving")
  <2>1. /\ TakeSave(t) => To(t, "saving") /\ At(t, "save")
        /\ ~TakeSave(t) => To(t, task[t].next) /\ At(t, "saving")
    BY <1>1, Moved DEF TakeSave, SaveDone
  <2> QED
    BY <1>1, <2>1 DEF To, Now
<1>4. /\ task[t].next \in {"lock", "arm", "cleanup", "restore", "rlock", "blocked", "failed",
                           "finish", "surrender"}
      /\ task[t].gen <= diag.gen
  BY <1>1, <1>2 DEF Fits, TestInv, FenceInv
<1>5. life \notin {"down", "handoff"} /\ (life = "up" => t # "boot")
  BY <1>1, <1>2 DEF LockInv, Awake, TestInv, FenceInv, At
<1>6. TestDuty => TestDuty'
  <2>1. CASE TakeSave(t)
    BY <1>2, <1>5, <2>1 DEF TakeSave, TestDuty, Journal, Testing
  <2>2. CASE SaveDone(t)
    <3>1. saver = t
      BY <1>1, <2>2 DEF SaveDone, LockInv
    <3> QED
      BY <1>1, <1>2, <2>2, <3>1 DEF SaveDone, TestDuty, Testing
  <2> QED
    BY <2>1, <2>2
<1>7. t # "start" /\ At("start", "saving") => snap' = snap
  BY <1>1, Names DEF LockInv, TakeSave, SaveDone, At
<1>8. CASE t \in Restorers
  <2>1. Restores(t)' => Restores(t)
    BY <1>2, <1>3, <1>4 DEF Restores, Saves, At
  <2>2. task'[t].pc \notin {"exec", "sent"}
    BY <1>3, <1>4
  <2>3. task'[t].pc = "rlock" \/ Saves(t, {"rlock"})' => RestorePlan(task'[t].plan)
    <3>1. task'[t].pc = "rlock" \/ Saves(t, {"rlock"})' => Saves(t, {"rlock"})
      BY <1>2, <1>3 DEF Saves
    <3> QED
      BY <1>3, <1>8, <3>1 DEF TestInv, FenceInv
  <2>4. t = "retry" => ~Saves("retry", {"restore"})'
    BY <1>2, <1>3 DEF TestInv, FenceInv, Saves
  <2> QED
    BY <1>1, <1>2, <1>3, <1>4, <1>5, <1>6, <1>7, <1>8, <2>1, <2>2, <2>3, <2>4, RestorerFrame
       DEF Testing
<1>9. CASE t = "start"
  <2>1. /\ WaitsFresh' => WaitsFresh
        /\ StartWaits' => StartWaits
        /\ ~StartActs' /\ ~Saves("start", {"rlock"})' /\ ~At("start", "rlock")'
        /\ (Testing' <=> Testing)
    BY <1>2, <1>3, <1>4, <1>9
       DEF WaitsFresh, StartWaits, StartActs, Saves, At, Fresh, Testing, TestInv, FenceInv
  <2>2. StartInv'
    <3> SUFFICES ASSUME life = "up", WaitsFresh'
                 PROVE  /\ StartPlan(task'["start"].plan, inv.chg) /\ sess = "idle"
                        /\ At("start", "lock")' => TestDuty'
                        /\ At("start", "saving")' => snap'.kind # "none"
      BY <1>2, <2>1 DEF StartInv, StartWaiting, StartActing
    <3>1. /\ StartPlan(task["start"].plan, inv.chg) /\ sess = "idle"
          /\ At("start", "saving") => snap.kind # "none"
      BY <2>1 DEF TestInv, StartInv, StartWaiting
    <3>2. Testing'
      BY <2>1 DEF WaitsFresh, Fresh
    <3>3. At("start", "saving")' => snap'.kind # "none"
      BY <1>2, <1>3, <1>4, <1>9, <2>1, <3>2 DEF TakeSave, At, Journal, Testing
    <3>4. At("start", "lock")' => TestDuty'
      BY <1>2, <1>3, <1>9, <3>1, <3>2 DEF SaveDone, TakeSave, At, TestDuty
    <3> QED
      BY <1>3, <1>9, <3>1, <3>3, <3>4
  <2>3. \A u \in Diagnostics \ {"start"} : task'[u] = task[u]
    BY <1>3, <1>9
  <2> QED
    BY <1>2, <1>3, <1>4, <1>5, <1>9, <2>1, <2>2, <2>3, StartFrame
<1> QED
  BY <1>1, <1>8, <1>9

LEMMA TestCommands ==
    ASSUME TypeOK, LockInv, TestInv, NEW t \in Diagnostics, SendCommand(t) \/ CommandLands(t)
    PROVE  TestInv'
<1>1. /\ "start" \notin Restorers /\ {"start"} \cup Restorers = Diagnostics /\ Diagnostics \subseteq Tasks
      /\ t \in Tasks /\ task[t] \in Calls /\ Fits(t, task[t]) /\ task[t].plan # <<>>
      /\ task[t].plan \in Seq(Cmds) /\ inv \in Observations({0, Kw}) /\ diag.gen \in Nat
      /\ task \in [Tasks -> Calls]
  BY Holders DEF TypeOK, CallsFit, StateOK, Tests, SendCommand, CommandLands, Calls, At, Fits
<1>2. /\ UNCHANGED <<diag, retry, man, sess, life, lock, diagDisk, saver, snap>>
      /\ task[t].pc \in {"exec", "sent"}
  BY DEF SendCommand, CommandLands, callbacks, auto, entry, At, diagSaving
<1>3. /\ task'[t].next = task[t].next /\ task'[t].gen = task[t].gen
      /\ \A u \in Diagnostics \ {t} : task'[u] = task[u]
      /\ SendCommand(t) => task'[t].pc = "sent" /\ task'[t].plan = task[t].plan
      /\ CommandLands(t) => task'[t].pc = "exec" /\ task'[t].plan = Tail(task[t].plan)
  <2>1. CASE SendCommand(t)
    BY <1>1, <2>1, Moved DEF SendCommand, To, Now, CommandLands, At
  <2>2. CASE CommandLands(t)
    BY <1>1, <2>2 DEF SendCommand, CommandLands, At, Calls
  <2> QED
    BY <2>1, <2>2
<1>4. /\ life \notin {"down", "handoff"} /\ (life = "up" => t # "boot")
      /\ t = "start" => Awake
  BY <1>1, <1>2 DEF LockInv, Awake, TestInv, FenceInv, At
<1>5. task[t].gen <= diag.gen
  BY DEF TestInv, FenceInv
<1>6. SendCommand(t) => inv' = inv
  BY DEF SendCommand
<1>7. CommandLands(t) => inv' = Apply(Head(task[t].plan), inv) /\ task[t].pc = "sent"
  BY DEF CommandLands, Land, At
<1>8. Testing' <=> Testing
  BY <1>2 DEF Testing
<1>9. TestDuty => TestDuty'
  BY <1>2, <1>8 DEF TestDuty
<1>10. CASE t \in Restorers
  <2>1. Restores(t)' => Restores(t)
    BY <1>2, <1>3 DEF Restores, Saves, At
  <2>2. RestorePlan(task[t].plan)
    BY <1>2, <1>10 DEF TestInv, FenceInv
  <2>3. RestorePlan(task'[t].plan) /\ (inv' = inv \/ (task[t].pc = "sent" /\ inv'.chg \in {inv.chg, 0}))
    BY <1>1, <1>3, <1>6, <1>7, <2>2, RestorePlanNext
  <2>4. life = "up" => (Testing /\ ~WaitsFresh) \/ inv.chg = 0
    BY <1>2, <1>10 DEF TestInv, RestoreInv
  <2>5. t = "retry" => ~Saves("retry", {"restore"})'
    BY <1>3 DEF Saves
  <2>6. task'[t].pc \notin {"save", "saving"}
    BY <1>3
  <2> QED
    BY <1>1, <1>2, <1>3, <1>4, <1>5, <1>8, <1>9, <1>10, <2>1, <2>3, <2>4, <2>5, RestorerFrame
<1>11. CASE t = "start"
  <2>1. StartActs /\ ~StartWaits' /\ ~WaitsFresh'
    BY <1>2, <1>3, <1>11 DEF StartActs, StartWaits, WaitsFresh, Saves, At
  <2>2. ~Saves("start", {"rlock"})' /\ ~At("start", "rlock")'
    BY <1>3, <1>11 DEF Saves, At
  <2>3. StartInv'
    <3>1. StartWaiting'
      BY <2>1 DEF StartWaiting
    <3>2. CASE SendCommand(t)
      <4>1. Authorized("start")
        BY <1>11, <3>2 DEF SendCommand
      <4>2. Testing /\ diag.wgen = diag.gen /\ ~man.hold
        <5>1. "start" \in Diagnostics /\ "start" \notin Sessions
          BY <1>1, <1>11, Names
        <5> QED
          BY <4>1, <5>1 DEF Authorized, Permitted
      <4>3. life = "up"
        BY <1>4, <1>11, <4>2 DEF Awake, TestInv, FenceInv
      <4>4. /\ StartPlan(task["start"].plan, inv.chg) /\ diag.wgen = task["start"].gen
            /\ Fresh("start") => TestDuty
        BY <2>1, <4>3 DEF TestInv, StartInv, StartActing
      <4>5. Fresh("start")
        BY <4>2, <4>4 DEF Fresh
      <4> QED
        BY <1>2, <1>3, <1>6, <1>9, <1>11, <3>1, <3>2, <4>4, <4>5 DEF StartInv, StartActing
    <3>3. CASE CommandLands(t)
      <4>1. /\ StartPlan(task["start"].plan, inv.chg) /\ diag.wgen = task["start"].gen
            /\ Fresh("start") => TestDuty
        BY <1>7, <1>11, <2>1, <3>3 DEF TestInv, StartInv, StartActing, At
      <4>2. StartPlan(task'["start"].plan, inv'.chg)
        BY <1>1, <1>3, <1>7, <1>11, <3>3, <4>1, StartPlanNext
      <4>3. task'["start"].pc = "exec" /\ diag'.wgen = task'["start"].gen
        BY <1>2, <1>3, <1>11, <3>3, <4>1
      <4>4. Fresh("start")' => Fresh("start")
        BY <1>2, <1>3, <1>8, <1>11 DEF Fresh
      <4> QED
        BY <1>9, <3>1, <4>1, <4>2, <4>3, <4>4 DEF StartInv, StartActing, At
    <3> QED
      BY <3>2, <3>3
  <2>4. \A u \in Diagnostics \ {"start"} : task'[u] = task[u]
    BY <1>3, <1>11
  <2>5. /\ life' = life /\ sess' = sess /\ man'.hold = man.hold /\ diag'.gen = diag.gen
        /\ retry' = retry /\ task'["start"].gen <= diag'.gen /\ diag.gen <= diag'.gen
    BY <1>1, <1>2, <1>3, <1>5, <1>11
  <2> QED
    BY <1>1, <1>4, <1>8, <2>1, <2>2, <2>3, <2>4, <2>5, StartFrame
<1> QED
  BY <1>1, <1>10, <1>11

\* The steps of a restoration.
LEMMA TestRestore ==
    ASSUME TypeOK, LockInv, TestInv, NEW t \in Restorers, Restore(t)
    PROVE  TestInv'
<1>1. /\ t \in Tasks /\ t \in Diagnostics /\ task[t].gen <= diag.gen /\ task[t].pc = "restore"
      /\ Restores(t) /\ diag.gen \in Nat
  BY Holders DEF Restore, At, Restores, TestInv, FenceInv, TypeOK, StateOK, Tests
<1>2. PICK plan : RestoreWith(t, plan) /\ RestorePlan(plan) /\ (plan = <<>> => inv.chg = 0)
  BY RestorePlans DEF Restore
<1>3. UNCHANGED <<inv, lock, diagDisk, saver, snap, man, sess, life>>
  BY DEF Restore, diagSaving, auto
<1>4. /\ diag'.gen = diag.gen /\ diag'.wgen = diag.wgen
      /\ \/ ~Testing /\ Ends(t) /\ SameTest /\ UNCHANGED retry
         \/ /\ Testing /\ ~Permitted /\ SameTest /\ UNCHANGED retry
            /\ Now(t, "save", "blocked", diag.gen, <<>>)
         \/ /\ Testing /\ Permitted /\ plan = <<>> /\ diag'.kind = "none" /\ retry' = Unarmed
            /\ Now(t, "save", "finish", task[t].gen, task[t].plan)
         \/ /\ Testing /\ Permitted /\ SameTest /\ UNCHANGED retry
            /\ \/ Now(t, "save", "finish", task[t].gen, task[t].plan)
               \/ Now(t, "save", "rlock", diag.gen, plan)
  BY <1>1, <1>2, RestoreMoves
<1>5. /\ Testing' => Testing
      /\ \A u \in Diagnostics \ {t} : task'[u] = task[u]
      /\ task'[t].gen <= diag.gen
      /\ task'[t].pc \in {"idle", "save"}
      /\ task'[t].pc = "save" => task'[t].next \in {"blocked", "finish", "rlock"}
      /\ Saves(t, {"rlock"})' => task'[t].plan = plan
  BY <1>1, <1>4, Holders DEF SameTest, Testing, Ends, Now, Saves
<1>6. Testing /\ ~Testing' => /\ inv.chg = 0 /\ retry' = Unarmed /\ Restores(t)
                              /\ task'[t].pc = "save" /\ task'[t].next = "finish"
  BY <1>1, <1>2, <1>4 DEF SameTest, Testing, Now
<1>7. Testing /\ ~Testing' => ~Restores(t)'
  BY <1>6 DEF Restores, At, Saves
<1>8. retry' \in {retry, Unarmed}
  BY <1>4
<1>9. TestDuty /\ Testing' => TestDuty'
  BY <1>3 DEF TestDuty
<1>10. task'[t].pc \in {"exec", "sent", "rlock"} \/ Saves(t, {"rlock"})' => RestorePlan(task'[t].plan)
  BY <1>2, <1>5
<1>11. t = "retry" => ~Saves("retry", {"restore"})'
  BY <1>5 DEF Saves
<1>12. t = "boot" /\ life = "up" => At("boot", "idle")'
  BY <1>1 DEF TestInv, FenceInv, At
<1> QED
  BY <1>1, <1>3, <1>4, <1>5, <1>6, <1>7, <1>8, <1>9, <1>10, <1>11, <1>12, RestorerFrame

LEMMA TestRestoreLocks ==
    ASSUME TypeOK, LockInv, TestInv, NEW t \in Restorers, RestoreLocks(t)
    PROVE  TestInv'
<1>1. /\ t \in Tasks /\ t \in Diagnostics /\ task[t].gen <= diag.gen /\ task[t].pc = "rlock"
      /\ diag.gen \in Nat /\ lock = "free" /\ diag \in Tests
      /\ RestorePlan(task[t].plan)
  BY Holders DEF RestoreLocks, At, TestInv, FenceInv, TypeOK, StateOK, Tests
<1>2. UNCHANGED <<inv, diagDisk, saver, snap, man, sess, life, retry>>
  BY DEF RestoreLocks, diagSaving, auto, callbacks, entry
<1>3. /\ diag'.gen = diag.gen /\ diag'.kind = diag.kind
      /\ \/ Fresh(t) /\ To(t, "exec")
         \/ Ends(t)
  BY <1>1, Moved DEF RestoreLocks, Tests
<1>4. /\ Testing' <=> Testing
      /\ \A u \in Diagnostics \ {t} : task'[u] = task[u]
      /\ task'[t].gen <= diag.gen
      /\ task'[t].pc \in {"idle", "exec"}
      /\ task'[t].pc = "exec" => Fresh(t) /\ task'[t].plan = task[t].plan
  BY <1>1, <1>3, Holders DEF Testing, Ends, To, Now
<1>5. Fresh(t) => Restores(t)
  BY <1>1 DEF Fresh, Restores
<1>6. Restores(t)' => Restores(t)
  BY <1>4, <1>5 DEF Restores, At, Saves
<1>7. life = "up" /\ task'[t].pc \in {"exec", "sent"} => (Testing' /\ ~WaitsFresh) \/ inv'.chg = 0
  <2>1. Fresh(t) /\ life = "up" /\ WaitsFresh => inv.chg = 0
    BY <1>5 DEF TestInv, RestoreInv, NoneRestores
  <2> QED
    BY <1>2, <1>4, <2>1 DEF Fresh
<1>8. TestDuty /\ Testing' => TestDuty'
  BY <1>2 DEF TestDuty
<1>9. task'[t].pc \in {"exec", "sent", "rlock"} \/ Saves(t, {"rlock"})' => RestorePlan(task'[t].plan)
  BY <1>1, <1>4 DEF Saves
<1>10. t = "retry" => ~Saves("retry", {"restore"})'
  BY <1>4 DEF Saves
<1>11. t = "boot" /\ life = "up" => At("boot", "idle")'
  BY <1>1 DEF TestInv, FenceInv, At
<1> QED
  BY <1>1, <1>2, <1>3, <1>4, <1>6, <1>7, <1>8, <1>9, <1>10, <1>11, RestorerFrame

LEMMA TestRestoreContinues ==
    ASSUME TypeOK, LockInv, TestInv, NEW t \in Restorers, RestoreContinues(t)
    PROVE  TestInv'
<1>1. /\ t \in Tasks /\ t \in Diagnostics /\ task[t].gen <= diag.gen
      /\ task[t].pc \in {"exec", "sent"} /\ diag.gen \in Nat
      /\ inv \in Observations({0, Kw}) /\ task[t] \in Calls /\ Fits(t, task[t])
  BY Holders DEF RestoreContinues, Complete, Raises, At, TestInv, FenceInv, TypeOK, StateOK, Tests,
                 CallsFit
<1>2. UNCHANGED <<diag, diagDisk, saver, snap, man, sess, life>>
  BY DEF RestoreContinues, diagSaving, auto
<1>3. RestorePlan(task[t].plan)
  BY <1>1 DEF TestInv, FenceInv
<1>4. inv' = inv \/ (task[t].pc = "sent" /\ inv'.chg \in {inv.chg, 0})
  <2>1. CASE At(t, "sent") /\ Land(t)
    <3>1. task[t].plan \in Seq(Cmds) /\ task[t].plan # <<>>
      BY <1>1, <2>1 DEF At, Fits, Calls
    <3> QED
      BY <1>1, <1>3, <2>1, <3>1, RestorePlanNext DEF Land, At
  <2> QED
    BY <2>1 DEF RestoreContinues, Complete, Raises
<1>5. /\ Ends(t) \/ (task[t].gen = diag.gen /\ Now(t, "save", "failed", task[t].gen, task[t].plan))
      /\ retry' = retry \/ (Fresh(t) /\ retry' = diag.gen /\ Ends(t))
  BY <1>1, Moved DEF RestoreContinues, Schedule
<1>6. /\ \A u \in Diagnostics \ {t} : task'[u] = task[u]
      /\ task'[t].gen <= diag.gen
      /\ task'[t].pc \in {"idle", "save"}
      /\ task'[t].pc = "save" => task[t].gen = diag.gen /\ task'[t].next = "failed"
      /\ retry' = retry \/ (Fresh(t) /\ retry' = diag.gen /\ task'[t].pc = "idle")
  BY <1>1, <1>5, Holders DEF Ends, Now
<1>7. task[t].gen = diag.gen => Restores(t)
  BY <1>1 DEF Restores
<1>8. Restores(t)' => Restores(t)
  BY <1>6, <1>7 DEF Restores, At, Saves
<1>9. \/ retry' \in {retry, Unarmed}
      \/ retry' = diag.gen /\ Testing' /\ Restores(t) /\ ~Restores(t)' /\ task[t].pc # "idle"
  <2>1. task'[t].pc = "idle" => ~Restores(t)'
    BY DEF Restores, At, Saves
  <2> QED
    BY <1>1, <1>2, <1>6, <1>7, <2>1 DEF Fresh, Testing
<1>10. /\ Testing' <=> Testing
       /\ TestDuty /\ Testing' => TestDuty'
  BY <1>2 DEF TestDuty, Testing
<1>11. /\ t = "retry" => ~Saves("retry", {"restore"})'
       /\ ~Saves(t, {"rlock"})'
  BY <1>6 DEF Saves
<1>12. t = "boot" /\ life = "up" => At("boot", "idle")'
  BY <1>1 DEF TestInv, FenceInv, At
<1> QED
  BY <1>1, <1>2, <1>4, <1>6, <1>8, <1>9, <1>10, <1>11, <1>12, RestorerFrame

LEMMA TestRestoreEnds ==
    ASSUME TypeOK, LockInv, TestInv, NEW t \in Restorers, RestoreEnds(t)
    PROVE  TestInv'
<1>1. /\ t \in Tasks /\ t \in Diagnostics /\ diag.gen \in Nat
      /\ task[t].pc \in {"blocked", "failed", "finish"}
  BY Holders DEF RestoreEnds, At, TypeOK, StateOK, Tests
<1>2. UNCHANGED <<inv, diag, diagDisk, saver, snap, man, sess, life>> /\ Ends(t)
  BY <1>1, Moved DEF RestoreEnds, diagSaving, auto, entry
<1>3. /\ \A u \in Diagnostics \ {t} : task'[u] = task[u]
      /\ task'[t].pc = "idle" /\ task'[t].gen = 0
  BY <1>2, Holders DEF Ends, Now
<1>4. ~Restores(t)' /\ ~Saves(t, {"rlock"})' /\ ~Saves(t, {"restore"})' /\ At(t, "idle")'
  BY <1>3 DEF Restores, Saves, At
<1>5. \/ retry' \in {retry, Unarmed}
      \/ retry' = diag.gen /\ Testing' /\ Restores(t) /\ ~Restores(t)' /\ task[t].pc # "idle"
  <2>1. CASE ~Fresh(t) \/ At(t, "finish")
    BY <2>1 DEF RestoreEnds, Schedule, At
  <2>2. CASE Fresh(t) /\ task[t].pc \in {"blocked", "failed"}
    <3>1. Restores(t) /\ Testing'
      BY <1>2, <2>2 DEF Fresh, Restores, Testing
    <3>2. retry' \in {retry, diag.gen}
      BY <2>2 DEF RestoreEnds, Schedule, At
    <3> QED
      BY <1>1, <1>4, <3>1, <3>2
  <2> QED
    BY <1>1, <2>1, <2>2 DEF At
<1>6. /\ Testing' <=> Testing
      /\ TestDuty /\ Testing' => TestDuty'
  BY <1>2 DEF TestDuty, Testing
<1> QED
  BY <1>1, <1>2, <1>3, <1>4, <1>5, <1>6, RestorerFrame

\* The steps of a start.
LEMMA TestStartLocks ==
    ASSUME TypeOK, LockInv, TestInv, StartLocks
    PROVE  TestInv'
<1>1. /\ "start" \in Tasks /\ "start" \in Diagnostics /\ task["start"].gen <= diag.gen
      /\ task["start"].pc = "lock" /\ diag.gen \in Nat /\ diag \in Tests /\ Awake
      /\ life \notin {"down", "handoff"}
  BY DEF StartLocks, At, TestInv, FenceInv, TypeOK, StateOK, Tests, Diagnostics, Tasks, LockInv,
       Awake
<1>2. UNCHANGED <<inv, diagDisk, saver, snap, man, sess, life, retry>>
  BY DEF StartLocks, diagSaving, auto, callbacks, entry
<1>3. /\ diag'.gen = diag.gen /\ diag'.kind = diag.kind
      /\ \/ Fresh("start") /\ To("start", "exec") /\ diag'.wgen = diag.gen
         \/ Ends("start")
  BY <1>1, Moved DEF StartLocks, Tests
<1>4. /\ Testing' <=> Testing
      /\ \A u \in Diagnostics \ {"start"} : task'[u] = task[u]
      /\ task'["start"].gen <= diag.gen
      /\ task'["start"].pc \in {"idle", "exec"}
      /\ task'["start"].pc = "exec" =>
            /\ Fresh("start") /\ diag'.wgen = diag.gen
            /\ task'["start"].plan = task["start"].plan /\ task'["start"].gen = task["start"].gen
  BY <1>1, <1>3, Holders DEF Testing, Ends, To, Now
<1>5. /\ StartWaits /\ ~StartWaits' /\ ~WaitsFresh' /\ ~Saves("start", {"rlock"})'
      /\ ~At("start", "rlock")' /\ (StartActs' => Testing)
  BY <1>1, <1>4 DEF StartWaits, WaitsFresh, StartActs, Saves, At, Fresh
<1>6. StartInv'
  <2> SUFFICES ASSUME StartActs', life = "up"
               PROVE  /\ StartPlan(task'["start"].plan, inv.chg) /\ diag'.wgen = task'["start"].gen
                      /\ TestDuty'
    BY <1>2, <1>4, <1>5 DEF StartInv, StartWaiting, StartActing, StartActs, At
  <2>1. Fresh("start") /\ task'["start"].pc = "exec"
    BY <1>4 DEF StartActs
  <2>2. WaitsFresh
    BY <1>5, <2>1 DEF WaitsFresh
  <2>3. StartPlan(task["start"].plan, inv.chg) /\ TestDuty
    BY <1>1, <2>2 DEF TestInv, StartInv, StartWaiting, At
  <2>4. TestDuty'
    BY <1>2, <1>4, <2>3 DEF TestDuty
  <2> QED
    BY <1>4, <2>1, <2>3, <2>4 DEF Fresh
<1> QED
  BY <1>1, <1>2, <1>3, <1>4, <1>5, <1>6, StartFrame

LEMMA TestStartEnds ==
    ASSUME TypeOK, LockInv, TestInv,
           StartContinues \/ Arm \/ Cleanup \/ RestoreEnds("start")
    PROVE  TestInv'
<1>1. /\ "start" \in Tasks /\ "start" \in Diagnostics /\ task["start"].gen <= diag.gen
      /\ diag.gen \in Nat /\ diag \in Tests
  BY DEF TestInv, FenceInv, TypeOK, StateOK, Tests, Diagnostics, Tasks
<1>2. task["start"].pc \in {"exec", "sent", "arm", "cleanup", "blocked", "failed", "finish"}
  BY DEF StartContinues, Complete, Raises, Arm, Cleanup, RestoreEnds, At
<1>3. life \notin {"down", "handoff"}
  BY <1>1, <1>2 DEF LockInv, Awake
<1>4. /\ UNCHANGED <<man, sess, life>> /\ diag'.gen = diag.gen /\ diag'.kind = diag.kind
      /\ inv' = inv \/ StartActs
  BY <1>1 DEF StartContinues, Arm, Cleanup, RestoreEnds, Complete, Raises, StartActs, auto, entry,
       At, Tests
<1>5. retry' \in {retry, Unarmed} \/ (Testing /\ retry' = diag.gen)
  BY DEF StartContinues, Arm, Cleanup, RestoreEnds, Schedule, Fresh, callbacks
<1>6. Ends("start") \/ Now("start", "save", "arm", task["start"].gen, task["start"].plan)
  BY <1>1, Moved DEF StartContinues, Arm, Cleanup, RestoreEnds
<1>7. /\ Testing' <=> Testing
      /\ \A u \in Diagnostics \ {"start"} : task'[u] = task[u]
      /\ task'["start"].gen <= diag.gen
      /\ task'["start"].pc = "idle" \/ (task'["start"].pc = "save" /\ task'["start"].next = "arm")
  BY <1>1, <1>4, <1>6, Holders DEF Testing, Ends, Now
<1>8. /\ ~StartWaits' /\ ~WaitsFresh' /\ ~StartActs' /\ ~Saves("start", {"rlock"})'
      /\ ~At("start", "rlock")'
  BY <1>7 DEF StartWaits, WaitsFresh, StartActs, Saves, At
<1>9. StartInv'
  BY <1>8 DEF StartInv, StartWaiting, StartActing
<1> QED
  BY <1>1, <1>3, <1>4, <1>5, <1>7, <1>8, <1>9, StartFrame

\* A step of the test's own calls.
LEMMA TestTurn ==
    ASSUME TypeOK, LockInv, TestInv, NEW t \in Diagnostics, Turn(t)
    PROVE  TestInv'
<1>1. /\ t \in Tasks /\ t \notin Sessions /\ Fits(t, task[t]) /\ {"start"} \cup Restorers = Diagnostics
      /\ "start" \notin Restorers
  BY Names, Holders DEF TypeOK, CallsFit
<1>2. ~(TakePersist(t) \/ PersistDone(t) \/ RequestLocks(t) \/ Leave(t) \/ Relinquish(t)
         \/ Surrender(t) \/ Go(t) \/ Executed(t) \/ ReleaseHold(t) \/ t = "tick")
  BY <1>1 DEF TakePersist, PersistDone, RequestLocks, Leave, Relinquish, Surrender, Go, Executed,
              ReleaseHold, At, Fits, DiagnosticSteps, Sessions
<1>3. /\ t = "start" => ~Restore(t) /\ ~RestoreLocks(t) /\ ~RestoreContinues(t)
      /\ t # "start" => t \in Restorers
  BY <1>1 DEF Restore, RestoreLocks, RestoreContinues, TestInv, FenceInv, At
<1>4. CASE TakeSave(t) \/ SaveDone(t)
  BY <1>4, TestSaves
<1>5. CASE SendCommand(t) \/ CommandLands(t)
  BY <1>5, TestCommands
<1>6. CASE t \in Restorers /\ (Restore(t) \/ RestoreLocks(t) \/ RestoreContinues(t) \/ RestoreEnds(t))
  BY <1>6, TestRestore, TestRestoreLocks, TestRestoreContinues, TestRestoreEnds
<1>7. CASE t = "start" /\ (StartLocks \/ StartContinues \/ Arm \/ Cleanup \/ RestoreEnds(t))
  BY <1>7, TestStartLocks, TestStartEnds
<1> QED
  BY <1>2, <1>3, <1>4, <1>5, <1>6, <1>7 DEF Turn

\* Only the last step of a request for the automatic mode lifts the hold, and it finds the
\* inverter in Self Use.
LEMMA HoldDrops ==
    ASSUME TypeOK, OrderInv, LockInv, HoldInv, NEW t \in Sessions, Turn(t) \/ (t = "tick" /\ Tick),
           man.hold, ~man'.hold
    PROVE  At(t, "release") /\ inv = SelfUseObservation /\ life = "up" /\ UNCHANGED inv
<1>1. t \in Tasks /\ man \in ManualSessions
  BY Names DEF TypeOK, StateOK
<1>2. CASE Reopens(t)
  <2>1. At(t, "release") /\ life = "up" /\ UNCHANGED inv /\ task[t].gen = man.gen
    BY <1>2 DEF Reopens, Mine, Current
  <2>2. man.target = "automatic"
    BY <1>1, <1>2 DEF Reopens, ManualSessions
  <2> QED
    BY <2>1, <2>2 DEF HoldInv, HoldLast
<1>3. CASE TakePersist(t) \/ PersistDone(t) \/ Leave(t)
  BY <1>1, <1>3 DEF TakePersist, PersistDone, Leave, ManualSessions
<1> QED
  BY <1>2, <1>3, SessionCases
     DEF Surrendering, Commanded, Quits, Asks, Yields, Judges, Goes, Stored, Turns, Gives, Steady

\* A step of a session: the test yields to it, or goes on beside it.
LEMMA TestYields ==
    ASSUME TypeOK, OrderInv, LockInv, TestInv, NEW t \in Sessions, Yields(t),
           Turn(t) \/ (t = "tick" /\ Tick)
    PROVE  TestInv'
<1>1. /\ "start" \notin Restorers /\ {"start"} \cup Restorers = Diagnostics /\ Diagnostics \subseteq Tasks
      /\ t \notin Diagnostics
  BY Holders, Names
<1>2. /\ life' = life /\ life = "up" /\ man' = man /\ man.hold /\ diag'.kind = "none"
      /\ diag'.gen = diag.gen + 1 /\ retry' = Unarmed /\ diag.gen \in Nat
  BY DEF Yields, Open, Gives, SameJournal, TypeOK, StateOK, Tests
<1>3. \A u \in Diagnostics : task'[u] = task[u] /\ task[u].gen <= diag.gen /\ task[u].gen \in Nat
  BY <1>1, Beside DEF TestInv, FenceInv, TypeOK, CallsFit, Calls
<1>4. \A u \in Diagnostics : task[u].pc \notin {"exec", "sent"}
  <2>1. ~TakePersist(t) /\ ~PersistDone(t)
    BY DEF Yields, Entries, TakePersist, PersistDone, At
  <2>2. lock \in {"free", t}
    BY <2>1, Alone
  <2> QED
    BY <1>1, <2>2, Names DEF LockInv, Locked
<1>5. /\ ~WaitsFresh' /\ ~StartActs' /\ ~Armed'
      /\ StartWaits' => StartWaits
      /\ \A u \in Restorers : Restores(u)' => Restores(u)
  BY <1>1, <1>2, <1>3, <1>4
     DEF WaitsFresh, StartWaits, StartActs, Armed, Restores, Fresh, Testing, At, Saves, Unarmed
<1>6. FenceInv'
  <2>1. "start" \in Diagnostics /\ "retry" \in Diagnostics /\ "boot" \in Diagnostics
    BY DEF Diagnostics
  <2>2. \A u \in Diagnostics : task'[u].gen <= diag'.gen
    BY <1>2, <1>3
  <2>3. retry' <= diag'.gen /\ (Armed' => Testing') /\ life' = "up" /\ man'.hold
    BY <1>2, <1>5 DEF Unarmed
  <2>4. /\ ~Saves("start", {"rlock"})' /\ ~At("start", "rlock")' /\ ~Saves("retry", {"restore"})'
        /\ At("boot", "idle")'
    BY <1>2, <1>3, <2>1 DEF TestInv, FenceInv, At, Saves
  <2>5. \A u \in Restorers : task'[u].pc \in {"exec", "sent", "rlock"} \/ Saves(u, {"rlock"})'
            => RestorePlan(task'[u].plan)
    BY <1>1, <1>3 DEF TestInv, FenceInv, Saves
  <2> QED
    BY <2>2, <2>3, <2>4, <2>5 DEF FenceInv
<1>7. StartInv'
  BY <1>5 DEF StartInv, StartWaiting, StartActing
<1>8. RestoreInv'
  BY <1>1, <1>2, <1>3, <1>4, <1>5 DEF TestInv, RestoreInv, OneRestores
<1> QED
  BY <1>6, <1>7, <1>8 DEF TestInv

LEMMA TestSession ==
    ASSUME TypeOK, OrderInv, LockInv, GenInv, HoldInv, QuietInv, TurnInv, TestInv,
           NEW t \in Sessions, Turn(t) \/ (t = "tick" /\ Tick)
    PROVE  TestInv'
<1>1. CASE Yields(t)
  BY <1>1, TestYields
<1>2. CASE ~Yields(t)
  <2>1. /\ \A u \in Diagnostics : task'[u] = task[u]
        /\ life' = life /\ life # "down" /\ UNCHANGED <<diag, retry>>
        /\ Surrenders(t) \/ UNCHANGED <<diagDisk, saver, snap>>
        /\ UNCHANGED inv \/ (At(t, "sent") /\ lock = t)
        /\ UNCHANGED sess \/ (At(t, "surrender") /\ sess' = "idle") \/ Turns(t)
    BY <1>2, Beside
  <2>2. t \in Tasks /\ t \notin Diagnostics /\ Diagnostics \subseteq Tasks /\ Fits(t, task[t])
        /\ "start" \in Diagnostics
    BY Names DEF TypeOK, CallsFit, Diagnostics
  <2>3. GenOf(t) /\ QuietOf(t)
    BY DEF GenInv, QuietInv
  <2>4. Testing => UNCHANGED <<diagDisk, saver, snap>>
    BY <2>1, <2>3 DEF QuietOf
  <2>5. (\E u \in Diagnostics : task[u].pc \in {"exec", "sent"}) => inv' = inv
    BY <2>1, <2>2 DEF LockInv, Locked
  <2>6. inv' # inv => ~Testing \/ (t = "tick" /\ AutoDuty)
    <3> SUFFICES ASSUME inv' # inv, Testing
                 PROVE  t = "tick" /\ AutoDuty
      OBVIOUS
    <3>1. At(t, "sent") /\ task[t].plan # <<>>
      BY <2>1, <2>2 DEF Fits, At
    <3>2. task[t].gen = 0
      BY <2>3, <3>1 DEF QuietOf, Attempts, Commanding, At
    <3>3. t = "tick" /\ OwnTurn
      BY <2>3, <3>1, <3>2 DEF GenOf, Locked, At
    <3> QED
      BY <3>1, <3>3 DEF TurnInv, At
  <2>7. Turns(t) => ~Testing /\ (sess' = "idle" => inv = SelfUseObservation) /\ UNCHANGED inv
    BY TurnMoves DEF Turns
  <2>8. life = "up" /\ WaitsFresh => inv'.chg = inv.chg /\ sess' = "idle"
    <3> SUFFICES ASSUME life = "up", WaitsFresh
                 PROVE  inv' = inv /\ sess' = "idle"
      OBVIOUS
    <3>1. Testing /\ sess = "idle"
      BY DEF WaitsFresh, Fresh, TestInv, StartInv, StartWaiting
    <3> QED
      BY <2>1, <2>6, <2>7, <3>1 DEF AutoDuty, Awake
  <2>9. ASSUME life' = "up", ~Testing, inv'.chg # 0, sess' = "idle", ~man'.hold
        PROVE  inv.chg # 0 /\ sess = "idle" /\ ~man.hold
    <3>1. ~man.hold
      BY <2>9, HoldDrops DEF SelfUseObservation
    <3>2. task[t].pc \in {"idle", "leave", "mlock"} \/ (t = "tick" /\ OwnTurn)
      BY <2>1, <3>1 DEF HoldInv, HoldFree
    <3>3. sess = "idle"
      BY <2>1, <2>7, <2>9, <3>2 DEF OwnTurn, At, SelfUseObservation
    <3>4. inv' = inv
      <4> SUFFICES ASSUME inv' # inv PROVE FALSE
        OBVIOUS
      <4>1. At(t, "sent") /\ task[t].plan # <<>>
        BY <2>1, <2>2 DEF Fits, At
      <4>2. t = "tick" /\ OwnTurn
        BY <3>2, <4>1 DEF At
      <4>3. sess = "owned"
        BY <2>1, <2>9, <4>1, <4>2 DEF TurnInv, AutoDuty, Awake, At
      <4> QED
        BY <3>3, <4>3
    <3> QED
      BY <2>9, <3>1, <3>3, <3>4
  <2>10. life' \in {"unloading", "unloaded"} => man'.hold
    BY <2>1, HoldDrops DEF TestInv, FenceInv
  <2> QED
    BY <2>1, <2>4, <2>5, <2>8, <2>9, <2>10, TestStill
<1> QED
  BY <1>1, <1>2

\* A test that starts, or is stopped, when every call waits: at most the stop before has
\* still to restore.
LEMMA OneStop ==
    ASSUME TypeOK, LockInv, TestInv, AllWait, life = "up", NEW t \in Restorers,
           At(t, "restore") \/ Saves(t, {"restore"})
    PROVE  t = "stop" /\ Saves("stop", {"restore"})
<1>1. t \in Tasks /\ Waits(t)
  BY Holders DEF AllWait
<1>2. ~At(t, "restore")
  BY <1>1 DEF Waits, At
<1> QED
  BY <1>2 DEF TestInv, FenceInv, Restorers, Saves, At

LEMMA TestStarts ==
    ASSUME TypeOK, LockInv, TestInv, AllWait, StartTest("charge")
    PROVE  TestInv'
<1>1. /\ "start" \notin Restorers /\ {"start"} \cup Restorers = Diagnostics /\ Diagnostics \subseteq Tasks
      /\ "start" \in Diagnostics /\ "boot" \in Restorers /\ "retry" \in Restorers
  BY Holders DEF Diagnostics, Restorers
<1>2. diag.gen \in Nat /\ diag \in Tests /\ retry \in Nat \cup {-1} /\ task \in [Tasks -> Calls]
  BY DEF TypeOK, StateOK, Tests, Unarmed, CallsFit
<1>3. /\ life = "up" /\ ~Testing /\ sess = "idle" /\ ~man.hold
      /\ UNCHANGED <<inv, lock, diagDisk, saver, snap, retry, man, sess, life>>
      /\ task' = [task EXCEPT !["start"] = [pc |-> "save", next |-> "lock", gen |-> diag.gen + 1,
                                            plan |-> PlanForceCharge(inv, Kw)]]
  BY DEF StartTest, diagSaving, callbacks, auto, PlanTest
<1>4. diag'.gen = diag.gen + 1 /\ diag'.kind = "charge" /\ Testing'
  <2>1. diag' = [diag EXCEPT !.kind = "charge", !.phase = "starting", !.attempts = 0,
                             !.gen = diag.gen + 1]
    BY DEF StartTest
  <2> QED
    BY <1>2, <2>1 DEF Tests, Testing
<1>5. /\ \A u \in Restorers : task'[u] = task[u] /\ task[u].gen <= diag.gen /\ task[u].gen \in Nat
      /\ task'["start"].pc = "save" /\ task'["start"].next = "lock"
      /\ task'["start"].gen = diag.gen + 1 /\ task'["start"].plan = PlanForceCharge(inv, Kw)
  <2>1. task'["start"] = [pc |-> "save", next |-> "lock", gen |-> diag.gen + 1,
                          plan |-> PlanForceCharge(inv, Kw)]
    BY <1>1, <1>2, <1>3
  <2>2. \A u \in Restorers : task'[u] = task[u] /\ task[u].gen <= diag.gen /\ task[u].gen \in Nat
    BY <1>1, <1>2, <1>3 DEF TestInv, FenceInv, Calls
  <2> QED
    BY <2>1, <2>2
<1>6. /\ ~Armed' /\ ~StartActs' /\ ~At("start", "lock")' /\ ~At("start", "saving")'
      /\ retry' <= diag'.gen
  BY <1>2, <1>3, <1>4, <1>5 DEF Armed, StartActs, At, TestInv, FenceInv
<1>7. \A u \in Restorers : Restores(u)' => At(u, "restore") \/ Saves(u, {"restore"})
  BY <1>2, <1>4, <1>5 DEF Restores, At, Saves
<1>8. FenceInv'
  <2>1. \A u \in Diagnostics : task'[u].gen <= diag'.gen
    BY <1>1, <1>2, <1>4, <1>5
  <2>2. /\ ~Saves("start", {"rlock"})' /\ ~At("start", "rlock")' /\ ~Saves("retry", {"restore"})'
        /\ At("boot", "idle")'
    BY <1>1, <1>3, <1>5 DEF TestInv, FenceInv, At, Saves
  <2>3. \A u \in Restorers : task'[u].pc \in {"exec", "sent", "rlock"} \/ Saves(u, {"rlock"})'
            => RestorePlan(task'[u].plan)
    BY <1>5 DEF TestInv, FenceInv, Saves
  <2> QED
    BY <1>3, <1>6, <2>1, <2>2, <2>3 DEF FenceInv
<1>9. StartInv'
  <2>1. StartPlan(task'["start"].plan, inv'.chg)
    BY <1>3, <1>5, ForcePlan
  <2> QED
    BY <1>3, <1>6, <2>1 DEF StartInv, StartWaiting, StartActing
<1>10. RestoreInv'
  <2>1. \A u \in Restorers : task'[u].pc \in {"exec", "sent"} => inv'.chg = 0
    BY <1>3, <1>5 DEF TestInv, RestoreInv
  <2>2. OneRestores'
    BY <1>3, <1>6, <1>7, OneStop DEF OneRestores
  <2>3. inv'.chg # 0 => NoneRestores'
    <3>1. inv.chg # 0 => NoneRestores
      BY <1>3 DEF TestInv, RestoreInv
    <3> QED
      BY <1>3, <1>6, <1>7, <3>1 DEF NoneRestores, Restores
  <2> QED
    BY <1>4, <1>6, <2>1, <2>2, <2>3 DEF RestoreInv
<1> QED
  BY <1>8, <1>9, <1>10 DEF TestInv

LEMMA TestStops ==
    ASSUME TypeOK, LockInv, TestInv, AllWait, BeginStop, life = "up",
           UNCHANGED <<inv, lock, diagDisk, saver, snap, retry, man, sess, life>>
    PROVE  TestInv'
<1>1. /\ "start" \notin Restorers /\ {"start"} \cup Restorers = Diagnostics /\ Diagnostics \subseteq Tasks
      /\ "stop" \in Diagnostics /\ "boot" \in Restorers /\ "retry" \in Restorers /\ "stop" \in Restorers
  BY Holders DEF Diagnostics, Restorers
<1>2. diag.gen \in Nat /\ diag \in Tests /\ retry \in Nat \cup {-1}
      /\ \A u \in Diagnostics : task[u].gen \in Nat
  BY <1>1 DEF TypeOK, StateOK, Tests, Unarmed, CallsFit, Calls
<1>3. /\ diag'.gen = diag.gen + 1 /\ diag'.kind = diag.kind /\ diag'.wgen = diag.wgen
      /\ Testing /\ Testing'
  BY <1>2 DEF BeginStop, Tests, Testing
<1>4. Now("stop", "save", "restore", task["stop"].gen, task["stop"].plan)
  BY <1>1, Moved DEF BeginStop
<1>5. /\ task'["start"] = task["start"]
      /\ \A u \in Restorers \ {"stop"} : task'[u] = task[u]
      /\ \A u \in Diagnostics : task'[u].gen = task[u].gen /\ task[u].gen <= diag.gen
      /\ task'["stop"].pc = "save" /\ task'["stop"].next = "restore"
  BY <1>1, <1>4 DEF Now, TestInv, FenceInv
<1>6. /\ ~Armed' /\ ~WaitsFresh' /\ retry' <= diag'.gen /\ ~Fresh("start")'
      /\ (StartActs' => StartActs) /\ (At("start", "sent")' => At("start", "sent"))
  BY <1>1, <1>2, <1>3, <1>5 DEF Armed, WaitsFresh, Fresh, StartActs, At, TestInv, FenceInv
<1>7. \A u \in Restorers : Restores(u)' => u = "stop" \/ At(u, "restore") \/ Saves(u, {"restore"})
  BY <1>1, <1>2, <1>3, <1>5 DEF Restores, At, Saves
<1>8. FenceInv'
  <2>1. \A u \in Diagnostics : task'[u].gen <= diag'.gen
    BY <1>2, <1>3, <1>5
  <2>2. /\ ~Saves("start", {"rlock"})' /\ ~At("start", "rlock")' /\ ~Saves("retry", {"restore"})'
        /\ At("boot", "idle")'
    BY <1>1, <1>5 DEF TestInv, FenceInv, At, Saves
  <2>3. \A u \in Restorers : task'[u].pc \in {"exec", "sent", "rlock"} \/ Saves(u, {"rlock"})'
            => RestorePlan(task'[u].plan)
    BY <1>5 DEF TestInv, FenceInv, Saves
  <2> QED
    BY <1>6, <2>1, <2>2, <2>3 DEF FenceInv
<1>9. StartInv'
  <2>1. StartActs => /\ StartPlan(task["start"].plan, inv.chg) /\ diag.wgen = task["start"].gen
                     /\ At("start", "sent") /\ IsForce(Head(task["start"].plan)) => TestDuty
    BY DEF TestInv, StartInv, StartActing
  <2>2. TestDuty => TestDuty'
    BY <1>3 DEF TestDuty
  <2> QED
    BY <1>3, <1>5, <1>6, <2>1, <2>2 DEF StartInv, StartWaiting, StartActing
<1>10. RestoreInv'
  <2>1. OneRestores'
    BY <1>6, <1>7, OneStop DEF OneRestores
  <2> QED
    BY <1>3, <1>6, <2>1 DEF RestoreInv
<1> QED
  BY <1>8, <1>9, <1>10 DEF TestInv

LEMMA TestRetries ==
    ASSUME TypeOK, LockInv, TestInv, RetryFires
    PROVE  TestInv'
<1>1. /\ "retry" \in Restorers /\ "retry" \in Diagnostics /\ "retry" \in Tasks /\ "retry" # "start"
      /\ Restorers \subseteq Diagnostics /\ Diagnostics \subseteq Tasks
  BY Holders DEF Restorers
<1>2. /\ life = "up" /\ retry # Unarmed /\ retry' = Unarmed /\ At("retry", "idle")
      /\ UNCHANGED <<inv, lock, diag, diagDisk, saver, snap, man, sess, life>>
      /\ task["retry"] = NoTask /\ diag.gen \in Nat
  BY <1>1 DEF RetryFires, diagSaving, auto, entry, TypeOK, CallsFit, Fits, At, StateOK, Tests
<1>3. /\ Testing' <=> Testing
      /\ TestDuty /\ Testing' => TestDuty'
  BY <1>2 DEF TestDuty, Testing
<1>4. CASE retry = diag.gen /\ Goto("retry", "restore")
  <2>1. To("retry", "restore") /\ Armed
    BY <1>1, <1>4, Moved DEF Armed
  <2>2. /\ task'["retry"].pc = "restore" /\ task'["retry"].gen = 0
        /\ \A u \in Diagnostics \ {"retry"} : task'[u] = task[u]
    BY <1>1, <1>2, <2>1 DEF To, Now, NoTask
  <2>3. ~Saves("retry", {"rlock"})' /\ ~Saves("retry", {"restore"})'
    BY <2>2 DEF Saves
  <2> QED
    BY <1>1, <1>2, <1>3, <2>1, <2>2, <2>3, RestorerFrame
<1>5. CASE UNCHANGED task
  BY <1>1, <1>2, <1>3, <1>5, TestStill DEF TestInv, StartInv, StartWaiting
<1> QED
  BY <1>4, <1>5 DEF RetryFires

LEMMA TestCancels ==
    ASSUME TypeOK, LockInv, TestInv, CancelStart
    PROVE  TestInv'
<1>1. /\ "start" \in Tasks /\ "start" \in Diagnostics /\ Diagnostics \subseteq Tasks
      /\ diag.gen \in Nat /\ diag \in Tests /\ task \in [Tasks -> Calls]
      /\ task["start"].gen <= diag.gen
  BY DEF TestInv, FenceInv, TypeOK, StateOK, Tests, Diagnostics, Tasks, CallsFit
<1>2. /\ UNCHANGED <<diagDisk, saver, snap, man, sess, life>>
      /\ task["start"].pc \in {"lock", "exec", "sent"}
      /\ inv' = inv \/ StartActs
  BY DEF CancelStart, diagSaving, auto, StartActs, At
<1>3. life \notin {"down", "handoff"}
  BY <1>1, <1>2 DEF LockInv, Awake
<1>4. /\ \A u \in Diagnostics \ {"start"} : task'[u] = task[u]
      /\ \/ /\ Fresh("start") /\ diag'.gen = diag.gen + 1 /\ diag'.kind = diag.kind /\ retry' = Unarmed
            /\ task'["start"].pc = "save" /\ task'["start"].next = "cleanup"
            /\ task'["start"].gen = diag'.gen
         \/ /\ UNCHANGED <<diag, retry>> /\ task'["start"].pc = "idle" /\ task'["start"].gen = 0
  <2>1. CASE Fresh("start")
    <3>1. /\ diag' = [diag EXCEPT !.gen = diag.gen + 1, !.phase = "stopping"] /\ retry' = Unarmed
          /\ task' = [task EXCEPT !["start"] = [pc |-> "save", next |-> "cleanup",
                                                gen |-> diag.gen + 1, plan |-> <<>>]]
      BY <2>1 DEF CancelStart
    <3>2. task'["start"] = [pc |-> "save", next |-> "cleanup", gen |-> diag.gen + 1, plan |-> <<>>]
          /\ \A u \in Diagnostics \ {"start"} : task'[u] = task[u]
      BY <1>1, <3>1
    <3> QED
      BY <1>1, <2>1, <3>1, <3>2 DEF Tests
  <2>2. CASE ~Fresh("start")
    <3>1. Ends("start") /\ UNCHANGED <<diag, retry>>
      BY <1>1, <2>2, Moved DEF CancelStart
    <3> QED
      BY <1>1, <3>1 DEF Ends, Now
  <2> QED
    BY <2>1, <2>2
<1>5. /\ Testing' <=> Testing
      /\ diag'.gen = diag.gen \/ Testing'
      /\ diag'.gen \in Nat /\ diag.gen <= diag'.gen /\ task'["start"].gen <= diag'.gen
      /\ retry' \in {retry, Unarmed}
  BY <1>1, <1>4 DEF Testing, Fresh
<1>6. /\ ~StartWaits' /\ ~WaitsFresh' /\ ~StartActs' /\ ~Saves("start", {"rlock"})'
      /\ ~At("start", "rlock")'
  BY <1>4 DEF StartWaits, WaitsFresh, StartActs, Saves, At
<1>7. StartInv'
  BY <1>6 DEF StartInv, StartWaiting, StartActing
<1> QED
  BY <1>2, <1>3, <1>4, <1>5, <1>6, <1>7, StartFrame

LEMMA TestForgets ==
    ASSUME ForgetMemory
    PROVE  TestInv'
<1>1. \A u \in Diagnostics : task'[u] = NoTask
  BY DEF ForgetMemory, Tasks
<1>2. diag'.gen = 0 /\ retry' = Unarmed /\ life' = "down"
  BY DEF ForgetMemory, NoTest
<1> QED
  BY <1>1, <1>2, TestIdle DEF Armed, Unarmed

\* The setup of the entry.
LEMMA TestSetup ==
    ASSUME TypeOK, OrderInv, LockInv, TestInv, RestoreHandoff \/ LoadTest \/ TestLoaded \/ LoadSessions
    PROVE  TestInv'
<1>1. /\ {"start", "stop", "retry", "boot"} = Diagnostics /\ Diagnostics \subseteq Tasks
      /\ "boot" \in Tasks /\ diag.gen \in Nat
  BY Names DEF Diagnostics, TypeOK, StateOK, Tests
<1>2. \A u \in Diagnostics : task[u] = NoTask
  <2>1. \A u \in Tasks : task[u].pc = "idle"
    <3>1. life \in {"down", "handoff", "sessions"} \/ (life = "starting" /\ At("boot", "idle"))
      BY DEF RestoreHandoff, LoadTest, TestLoaded, LoadSessions
    <3> QED
      BY <1>1, <3>1 DEF LockInv, Awake, At
  <2> QED
    BY <1>1, <2>1 DEF TypeOK, CallsFit, Fits
<1>3. life \in {"down", "handoff"} => retry = Unarmed
  BY DEF TestInv, FenceInv
<1>4. UNCHANGED retry
  BY DEF RestoreHandoff, LoadTest, TestLoaded, LoadSessions, callbacks
<1>5. CASE RestoreHandoff \/ TestLoaded \/ LoadSessions
  <2>1. UNCHANGED <<task, diag>> /\ life' \in {"handoff", "sessions", "up"}
        /\ (life' = "handoff" => life = "down")
    BY <1>5 DEF RestoreHandoff, TestLoaded, LoadSessions
  <2>2. retry' <= diag'.gen /\ (Armed' => Testing')
    BY <1>4, <2>1 DEF TestInv, FenceInv, Armed, Testing
  <2> QED
    BY <1>1, <1>2, <1>3, <1>4, <2>1, <2>2, TestIdle
<1>6. CASE LoadTest
  <2>1. diag'.gen = 0 /\ retry' = Unarmed /\ life' \in {"sessions", "starting"}
    BY <1>3, <1>4, <1>6 DEF LoadTest, NoTest
  <2>2. CASE UNCHANGED task
    BY <1>1, <1>2, <2>1, <2>2, TestIdle DEF Armed, Unarmed
  <2>3. CASE life' = "starting" /\ SaveThen("boot", "restore")
    <3>1. Now("boot", "save", "restore", task["boot"].gen, task["boot"].plan)
      BY <1>1, <2>3, Moved
    <3>2. /\ task'["boot"].pc = "save" /\ task'["boot"].next = "restore" /\ task'["boot"].gen = 0
          /\ \A u \in {"start", "stop", "retry"} : task'[u].pc = "idle" /\ task'[u].gen = 0
      BY <1>1, <1>2, <3>1 DEF Now, NoTask
    <3>3. FenceInv'
      <4>1. \A u \in Diagnostics : task'[u].gen <= diag'.gen
        BY <1>1, <2>1, <3>2
      <4>2. \A u \in Restorers : ~(task'[u].pc \in {"exec", "sent", "rlock"} \/ Saves(u, {"rlock"})')
        BY <3>2 DEF Restorers, Saves
      <4>3. /\ ~Saves("start", {"rlock"})' /\ ~At("start", "rlock")' /\ ~Saves("retry", {"restore"})'
        BY <3>2 DEF Saves, At
      <4> QED
        BY <2>1, <2>3, <4>1, <4>2, <4>3 DEF FenceInv, Armed, Unarmed
    <3>4. StartInv' /\ RestoreInv'
      BY <2>3, <3>2 DEF StartInv, StartWaiting, StartActing, StartActs, RestoreInv
    <3> QED
      BY <3>3, <3>4 DEF TestInv
  <2> QED
    BY <1>6, <2>2, <2>3 DEF LoadTest
<1> QED
  BY <1>5, <1>6

\* The unload of the entry leaves the rest of the test to a last restoration.
LEMMA TestUnloads ==
    ASSUME TypeOK, LockInv, TestInv, UnloadTest
    PROVE  TestInv'
<1>1. /\ {"start", "stop", "retry", "boot"} = Diagnostics /\ Diagnostics \subseteq Tasks
      /\ Restorers \subseteq Diagnostics /\ "boot" \in Tasks /\ diag.gen \in Nat
      /\ diag \in Tests
  BY Holders DEF Diagnostics, TypeOK, StateOK, Tests
<1>2. /\ life = "unloading" /\ life' = "unloaded" /\ lock = "free" /\ retry' = Unarmed
      /\ UNCHANGED <<inv, diagDisk, saver, snap, man, sess>>
  BY DEF UnloadTest, diagSaving, auto
<1>3. /\ diag'.gen = diag.gen /\ diag'.kind = diag.kind
      /\ UNCHANGED task \/ Now("boot", "save", "restore", task["boot"].gen, task["boot"].plan)
  BY <1>1, Moved DEF UnloadTest, Tests
<1>4. /\ \A u \in Diagnostics : task'[u].gen = task[u].gen
      /\ \A u \in Diagnostics \ {"boot"} : task'[u] = task[u]
      /\ task'["boot"] = task["boot"] \/ (task'["boot"].pc = "save" /\ task'["boot"].next = "restore")
  BY <1>1, <1>3 DEF Now
<1>5. ~StartActs'
  <2>1. ~StartActs
    BY <1>2, Holders, Names DEF Diagnostics, Tasks
  <2> QED
    BY <1>1, <1>4, <2>1 DEF StartActs
<1>6. FenceInv'
  <2>1. \A u \in Diagnostics : task'[u].gen <= diag'.gen
    BY <1>3, <1>4 DEF TestInv, FenceInv
  <2>2. man'.hold /\ retry' <= diag'.gen /\ ~Armed'
    BY <1>1, <1>2, <1>3 DEF TestInv, FenceInv, Armed, Unarmed
  <2>3. ~Saves("start", {"rlock"})' /\ ~At("start", "rlock")' /\ ~Saves("retry", {"restore"})'
    BY <1>1, <1>4 DEF TestInv, FenceInv, Saves, At
  <2>4. ASSUME NEW u \in Restorers, task'[u].pc \in {"exec", "sent", "rlock"} \/ Saves(u, {"rlock"})'
        PROVE  RestorePlan(task'[u].plan)
    <3>1. task'[u] = task[u]
      BY <1>1, <1>4, <2>4 DEF Saves
    <3> QED
      BY <2>4, <3>1 DEF TestInv, FenceInv, Saves
  <2> QED
    BY <1>2, <2>1, <2>2, <2>3, <2>4 DEF FenceInv
<1>7. StartInv' /\ RestoreInv'
  BY <1>2, <1>5 DEF StartInv, StartWaiting, StartActing, RestoreInv
<1> QED
  BY <1>6, <1>7 DEF TestInv

\* The test's store refuses a write.
LEMMA TestSaveFails ==
    ASSUME TypeOK, LockInv, TestInv, NEW t \in Diagnostics, SaveFails(t), ~ForgetMemory
    PROVE  TestInv'
<1>1. /\ "start" \notin Restorers /\ {"start"} \cup Restorers = Diagnostics /\ Diagnostics \subseteq Tasks
      /\ t \in Tasks /\ diag.gen \in Nat /\ task[t].gen <= diag.gen
  BY Holders DEF TypeOK, StateOK, Tests, TestInv, FenceInv
<1>2. /\ UNCHANGED <<inv, diag, diagDisk, retry, man, sess, life>> /\ saver' = "none"
      /\ task[t].pc = "saving" /\ saver = t
  BY <1>1 DEF SaveFails, callbacks, auto, At, LockInv
<1>3. Ends(t) \/ To(t, "cleanup")
  BY <1>1, Moved DEF SaveFails
<1>4. /\ \A u \in Diagnostics \ {t} : task'[u] = task[u]
      /\ task'[t].pc \in {"idle", "cleanup"} /\ task'[t].gen <= diag.gen
  BY <1>1, <1>3 DEF Ends, To, Now
<1>5. /\ ~Saves(t, {"rlock"})' /\ ~Saves(t, {"restore"})' /\ ~Restores(t)'
  BY <1>4 DEF Saves, Restores, At
<1>6. /\ Testing' <=> Testing
      /\ TestDuty => TestDuty'
  BY <1>2 DEF TestDuty, Testing
<1>7. life \notin {"down", "handoff"} /\ ~(t = "boot" /\ life = "up")
  BY <1>1, <1>2 DEF LockInv, Awake, TestInv, FenceInv, At
<1>8. CASE t = "start"
  <2>1. /\ ~StartWaits' /\ ~WaitsFresh' /\ ~StartActs' /\ ~At("start", "rlock")'
    BY <1>4, <1>8 DEF StartWaits, WaitsFresh, StartActs, Saves, At
  <2>2. StartInv'
    BY <2>1 DEF StartInv, StartWaiting, StartActing
  <2>3. \A u \in Diagnostics \ {"start"} : task'[u] = task[u]
    BY <1>4, <1>8
  <2>4. task'["start"].gen <= diag'.gen /\ diag'.gen = diag.gen /\ ~Saves("start", {"rlock"})'
    BY <1>2, <1>4, <1>5, <1>8
  <2> QED
    BY <1>1, <1>2, <1>6, <1>7, <2>1, <2>2, <2>3, <2>4, StartFrame
<1>9. CASE t \in Restorers
  <2>1. At("start", "saving") => snap' = snap
    BY <1>1, <1>2, <1>9 DEF LockInv
  <2> QED
    BY <1>1, <1>2, <1>4, <1>5, <1>6, <1>7, <1>9, <2>1, RestorerFrame
<1> QED
  BY <1>1, <1>8, <1>9

\* Nothing of the test moves in the other events.
LEMMA TestEvent ==
    ASSUME TypeOK, OrderInv, LockInv, GenInv, HoldInv, QuietInv, TurnInv, TestInv, AllWait, Event
    PROVE  TestInv'
<1>1. /\ {"req1", "req2", "tick"} = Sessions /\ Diagnostics \subseteq Tasks /\ Sessions \subseteq Tasks
      /\ Diagnostics \cap Sessions = {} /\ Diagnostics \cup Sessions = Tasks
  BY Names DEF Sessions
<1>2. life = "up" /\ WaitsFresh => sess = "idle"
  BY DEF TestInv, StartInv, StartWaiting
<1>3. life \in {"unloading", "unloaded"} => man.hold
  BY DEF TestInv, FenceInv
<1>4. ASSUME NEW r \in Requests, NEW t \in {"req1", "req2"}, Admit(t, r)
      PROVE  TestInv'
  <2>1. Now(t, "persist", "mlock", task[t].gen, task[t].plan)
    BY <1>1, <1>4, Moved DEF Admit
  <2>2. /\ \A u \in Diagnostics : task'[u] = task[u]
        /\ UNCHANGED <<inv, diag, retry, diagDisk, saver, snap, sess, life>>
        /\ man'.hold
    <3>1. \A u \in Diagnostics : task'[u] = task[u]
      BY <1>1, <2>1 DEF Now
    <3>2. UNCHANGED <<inv, diag, retry, diagDisk, saver, snap, sess, life>>
      BY <1>4 DEF Admit, callbacks, diagSaving, auto, entry
    <3>3. man'.hold
      BY <1>4 DEF Admit, TypeOK, StateOK, ManualSessions
    <3> QED
      BY <3>1, <3>2, <3>3
  <2> QED
    BY <1>2, <1>3, <2>2, TestStill
<1>5. CASE Tick
  BY <1>1, <1>5, TestSession
<1>6. CASE StartTest("charge")
  BY <1>6, TestStarts
<1>7. CASE UserStop \/ TimerExpires
  <2>1. /\ life = "up" /\ UNCHANGED <<inv, lock, diagDisk, saver, snap, retry, man, sess, life>>
        /\ BeginStop \/ UNCHANGED <<diag, task>>
    BY <1>7 DEF UserStop, TimerExpires, diagSaving, auto, entry
  <2>2. CASE BeginStop
    BY <2>1, <2>2, TestStops
  <2>3. CASE UNCHANGED <<diag, task>>
    BY <1>2, <2>1, <2>3, TestStill
  <2> QED
    BY <2>1, <2>2, <2>3
<1>8. CASE RetryFires
  BY <1>8, TestRetries
<1>9. CASE RestoreHandoff \/ LoadTest \/ TestLoaded \/ LoadSessions
  BY <1>9, TestSetup
<1>10. CASE UnloadTest
  BY <1>10, TestUnloads
<1>11. CASE Unloaded \/ Crash
  BY <1>11, TestForgets DEF Unloaded, Crash
<1>12. CASE CancelStart
  BY <1>12, TestCancels
<1>13. CASE Unload \/ ChangeGate \/ Corrupt
  <2>1. UNCHANGED <<task, inv, diag, retry, diagDisk, saver, snap, sess>>
    BY <1>13 DEF Unload, ChangeGate, Corrupt, callbacks, diagSaving, auto
  <2>2. \/ life = "up" /\ life' = "unloading" /\ man'.hold
        \/ life' = life /\ man'.hold = man.hold
    BY <1>13 DEF Unload, ChangeGate, Corrupt, TypeOK, StateOK, ManualSessions
  <2>3. /\ life' \in {"unloading", "unloaded"} => man'.hold
        /\ life' = "up" => life = "up" /\ man'.hold = man.hold
        /\ life' = life \/ (life = "up" /\ life' = "unloading")
    BY <1>3, <2>2
  <2> QED
    BY <1>2, <2>1, <2>3, TestStill
<1>14. ASSUME NEW t \in Tasks, SaveFails(t)
       PROVE  TestInv'
  <2>1. CASE ForgetMemory
    BY <2>1, TestForgets
  <2>2. CASE ~ForgetMemory /\ t \in Diagnostics
    BY <1>14, <2>2, TestSaveFails
  <2>3. CASE ~ForgetMemory /\ t \in Sessions
    <3>1. /\ UNCHANGED <<inv, diag, diagDisk, retry, man, sess, life>> /\ At(t, "saving")
      BY <1>14, <2>3 DEF SaveFails, callbacks, auto
    <3>2. ~Testing
      BY <2>3, <3>1 DEF QuietInv, QuietOf, Surrenders, At
    <3>3. \A u \in Diagnostics : task'[u] = task[u]
      <4>1. Ends(t) \/ To(t, "cleanup")
        BY <1>14, <2>3, Moved DEF SaveFails
      <4> QED
        BY <1>1, <2>3, <4>1 DEF Ends, To, Now
    <3> QED
      BY <1>2, <1>3, <3>1, <3>2, <3>3, TestStill
  <2> QED
    BY <1>1, <2>1, <2>2, <2>3
<1>15. ASSUME NEW t \in Tasks, PersistFails(t)
       PROVE  TestInv'
  <2>1. t \notin Diagnostics
    BY <1>15, Names DEF PersistFails, At, TypeOK, CallsFit, Fits, DiagnosticSteps
  <2>2. Ends(t)
    BY <1>15, Moved DEF PersistFails
  <2>3. /\ \A u \in Diagnostics : task'[u] = task[u]
        /\ UNCHANGED <<inv, diag, retry, diagDisk, saver, snap, sess, life>>
        /\ man'.hold
    <3>1. \A u \in Diagnostics : task'[u] = task[u]
      BY <1>1, <2>1, <2>2 DEF Ends, Now
    <3>2. UNCHANGED <<inv, diag, retry, diagDisk, saver, snap, sess, life>>
      BY <1>15 DEF PersistFails, callbacks, diagSaving, auto
    <3>3. man'.hold
      BY <1>15 DEF PersistFails, TypeOK, StateOK, ManualSessions
    <3> QED
      BY <3>1, <3>2, <3>3
  <2> QED
    BY <1>2, <1>3, <2>3, TestStill
<1> QED
  BY <1>4, <1>5, <1>6, <1>7, <1>8, <1>9, <1>10, <1>11, <1>12, <1>13, <1>14, <1>15 DEF Event

LEMMA TestInit == Init => TestInv
<1> SUFFICES ASSUME Init PROVE TestInv
  OBVIOUS
<1>1. /\ \A t \in Tasks : task[t].pc = "idle" /\ task[t].gen = 0
      /\ {"start", "stop", "retry", "boot"} = Diagnostics /\ Diagnostics \subseteq Tasks
      /\ Restorers \subseteq Tasks
  BY Names DEF Init, NoTask, Diagnostics, Restorers
<1>2. diag.gen = 0 /\ retry = -1 /\ life = "down"
  BY DEF Init, NoTest, Unarmed
<1>3. FenceInv
  BY <1>1, <1>2 DEF FenceInv, Armed, Unarmed, Saves, At
<1>4. StartInv /\ RestoreInv
  BY <1>1, <1>2 DEF StartInv, StartWaiting, StartActing, StartActs, RestoreInv
<1> QED
  BY <1>3, <1>4 DEF TestInv

-------------------------------------------------------------------------------
(* The duty through every step. *)

DutyOf == AutoDuty \/ TestDuty \/ HandDuty
Owners == /\ LockInv /\ GenInv /\ HandInv /\ HoldInv /\ QuietInv /\ TurnInv /\ TestInv
          /\ DutyInv

\* A restoration has nothing to do only in Self Use, and forces no mode.
LEMMA RestoreForcesNothing ==
    /\ \A o : PlanRestoreMode(o) = <<>> => o.mode = "SelfUse"
    /\ \A plan \in Seq(Cmds), o \in Observations({0, Kw}) :
          RestorePlan(plan) /\ plan # <<>> /\ Apply(Head(plan), o).mode \in ForcedModes
              => o.mode \in ForcedModes
<1>1. ASSUME NEW o, PlanRestoreMode(o) = <<>>
      PROVE  o.mode = "SelfUse"
  <2> DEFINE a == SelectMode("SelfUse")  b == SetCharge(0)  c == SetDischarge(0)
             x == PlanRestoreMode(o)
  <2>1. a \in Cmds /\ b \in Cmds /\ c \in Cmds
    BY Kinds
  <2>2. PICK p, q, r :
            /\ p \in {<<>>, <<a>>} /\ q \in {<<>>, <<b>>} /\ r \in {<<>>, <<c>>}
            /\ x = p \o q \o r /\ (p = <<>> => o.mode = "SelfUse")
    <3>1. /\ Unless(o.mode = "SelfUse", a) \in {<<>>, <<a>>}
          /\ Unless(o.chg = 0, b) \in {<<>>, <<b>>} /\ Unless(o.dis = 0, c) \in {<<>>, <<c>>}
      BY DEF Unless
    <3>2. Unless(o.mode = "SelfUse", a) = <<>> => o.mode = "SelfUse"
      BY DEF Unless
    <3> QED
      BY <3>1, <3>2 DEF PlanRestoreMode
  <2> HIDE DEF a, b, c, x
  <2>3. /\ p \in Seq(Cmds) /\ Len(p) \in {0, 1} /\ (p # <<>> => Len(p) = 1)
        /\ q \in Seq(Cmds) /\ Len(q) \in {0, 1} /\ r \in Seq(Cmds) /\ Len(r) \in {0, 1}
    BY <2>1, <2>2, Short
  <2>4. Len(x) = Len(p) + Len(q) + Len(r)
    BY <2>2, <2>3, Joined
  <2>5. Len(x) = 0
    BY <1>1 DEF x
  <2>6. Len(p) = 0
    <3>1. \A m, n, k \in {0, 1} : m + n + k = 0 => m = 0
      OBVIOUS
    <3> HIDE DEF a, b, c, x
    <3> QED
      BY <2>3, <2>4, <2>5, <3>1
  <2> QED
    BY <2>2, <2>3, <2>6
<1>2. ASSUME NEW plan \in Seq(Cmds), NEW o \in Observations({0, Kw}), RestorePlan(plan), plan # <<>>,
             Apply(Head(plan), o).mode \in ForcedModes
      PROVE  o.mode \in ForcedModes
  <2>1. Head(plan) = plan[1] /\ 1 \in DOMAIN plan
    BY <1>2
  <2>2. Head(plan) \in {SelectMode("SelfUse"), SetCharge(0), SetDischarge(0)}
    BY <1>2, <2>1 DEF RestorePlan
  <2> QED
    BY <1>2, <2>2
       DEF Apply, SelectMode, SetCharge, SetDischarge, Observations, ForcedModes
<1> QED
  BY <1>1, <1>2

\* Whoever has sent a command has its duty.
LEMMA SessionSent ==
    ASSUME TypeOK, GenInv, HandInv, TurnInv, NEW t \in Sessions, At(t, "sent")
    PROVE  AutoDuty \/ HandDuty
<1>1. t \in Tasks /\ Fits(t, task[t])
  BY Names DEF TypeOK, CallsFit
<1>2. task[t].plan # <<>>
  BY <1>1 DEF Fits, At
<1>3. CASE task[t].gen # 0
  BY <1>3 DEF HandInv, HandOf, Commanding, At
<1>4. CASE task[t].gen = 0
  <2>1. t = "tick" /\ OwnTurn
    BY <1>4 DEF GenInv, GenOf, Locked, At
  <2> QED
    BY <1>2, <2>1 DEF TurnInv, At
<1> QED
  BY <1>3, <1>4

LEMMA LandsUnderDuty ==
    ASSUME TypeOK, LockInv, GenInv, HandInv, TurnInv, TestInv, DutyInv, NEW t \in Tasks,
           At(t, "sent"), Land(t), Forced'
    PROVE  DutyOf
<1>1. /\ task[t].plan \in Seq(Cmds) /\ task[t].plan # <<>> /\ inv \in Observations({0, Kw})
  BY DEF TypeOK, CallsFit, StateOK, Calls, Fits, At
<1>2. CASE t \in Sessions
  BY <1>2, SessionSent DEF DutyOf
<1>3. CASE t \in Restorers
  <2>1. RestorePlan(task[t].plan)
    BY <1>3 DEF TestInv, FenceInv, At
  <2>2. Apply(Head(task[t].plan), inv).mode \in ForcedModes
    BY DEF Land, Forced
  <2> QED
    BY <1>1, <2>1, <2>2, RestoreForcesNothing DEF DutyInv, DutyOf, Forced
<1>4. CASE t = "start"
  <2>1. /\ StartPlan(task[t].plan, inv.chg)
        /\ IsForce(Head(task[t].plan)) => TestDuty
    BY <1>4 DEF TestInv, StartInv, StartActing, StartActs, At
  <2>2. CASE IsForce(Head(task[t].plan))
    BY <2>1, <2>2 DEF DutyOf
  <2>3. CASE ~IsForce(Head(task[t].plan))
    <3>1. Head(task[t].plan) = task[t].plan[1] /\ 1 \in DOMAIN task[t].plan
      BY <1>1
    <3>2. Head(task[t].plan) \in {SetDischarge(0), SetCharge(Kw)}
      BY <2>1, <2>3, <3>1, CommandKinds DEF StartPlan
    <3>3. inv'.mode = inv.mode
      BY <1>1, <3>2 DEF Land, Apply, SetDischarge, SetCharge, Observations
    <3> QED
      BY <3>3 DEF DutyInv, DutyOf, Forced
  <2> QED
    BY <2>2, <2>3
<1> QED
  BY <1>2, <1>3, <1>4, Names, Holders

\* A step of a session.
LEMMA DutySession ==
    ASSUME TypeOK, OrderInv, Owners, NEW t \in Sessions, Turn(t) \/ (t = "tick" /\ Tick)
    PROVE  DutyInv'
<1> SUFFICES ASSUME Forced' PROVE DutyOf'
  BY DEF DutyInv, DutyOf
<1> USE DEF Owners
<1>1. /\ t \in Tasks /\ t # "boot" /\ t # "none" /\ man \in ManualSessions
  BY Names DEF TypeOK, StateOK, Diagnostics
<1>2. /\ \A u \in Diagnostics : task'[u] = task[u]
      /\ life' = life /\ life # "down"
      /\ \/ Yields(t) /\ UNCHANGED <<diagDisk, saver, snap>>
         \/ /\ UNCHANGED <<diag, retry>>
            /\ Surrenders(t) \/ UNCHANGED <<diagDisk, saver, snap>>
      /\ UNCHANGED inv \/ (At(t, "sent") /\ lock = t)
      /\ UNCHANGED sess \/ (At(t, "surrender") /\ sess' = "idle") \/ Turns(t)
      /\ UNCHANGED sessDisk \/ (task[t].pc \in {"surrendered", "store"} /\ sessDisk' = sess)
  BY Beside
<1>3. DutyOf
  BY <1>2, SessionSent DEF DutyInv, DutyOf, Forced
<1>4. HandOf(t)
  BY DEF HandInv
<1>5. CASE Yields(t)
  <2>1. Surrenders(t)'
    BY <1>5 DEF Yields, Gives, Now, Surrenders
  <2> QED
    BY <2>1, HandSession DEF HandInv, HandOf, DutyOf
<1>6. CASE TakePersist(t) \/ PersistDone(t)
  <2>1. UNCHANGED <<diag, diagDisk, saver, snap, sess, sessDisk>> /\ man'.phase = man.phase
    BY <1>1, <1>6 DEF TakePersist, PersistDone, diagSaving, auto, ManualSessions
  <2>2. HandDuty => HandDuty'
    <3>1. CASE TakePersist(t)
      BY <1>2, <3>1 DEF TakePersist, HandDuty, Payload
    <3>2. CASE PersistDone(t)
      <4>1. writer = t /\ man.phase = Payload(man).phase
        BY <1>1, <3>2 DEF PersistDone, OrderInv, Payload
      <4> QED
        BY <1>1, <1>2, <2>1, <3>2, <4>1 DEF PersistDone, HandDuty
    <3> QED
      BY <1>6, <3>1, <3>2
  <2> QED
    BY <1>2, <1>3, <2>1, <2>2 DEF DutyOf, AutoDuty, TestDuty, Awake, Testing
<1>7. CASE ~Yields(t) /\ SameJournal
  <2>1. (Surrenders(t) => HandDuty) /\ (~Surrenders(t) => UNCHANGED <<diag, diagDisk, saver, snap>>)
    BY <1>2, <1>4, <1>7 DEF HandOf
  <2>2. TestDuty /\ ~Surrenders(t) => TestDuty'
    BY <1>2, <2>1 DEF TestDuty, Testing
  <2>3. Awake \/ At(t, "idle")
    BY <1>1 DEF LockInv, At
  <2>4. AutoDuty /\ ~Surrenders(t) => AutoDuty'
    <3> SUFFICES ASSUME AutoDuty, ~Surrenders(t) PROVE AutoDuty'
      OBVIOUS
    <3>1. Turns(t) => UNCHANGED sess
      <4>1. Turns(t) => inv' = inv /\ Awake
        BY DEF Turns, Awake
      <4>2. inv' = inv => inv # SelfUseObservation
        BY DEF Forced, SelfUseObservation, ForcedModes
      <4> QED
        BY <4>1, <4>2, TurnMoves DEF Turns, AutoDuty
    <3>2. UNCHANGED sess
      BY <1>2, <3>1 DEF Surrenders, At
    <3>3. UNCHANGED sessDisk \/ sessDisk' = "owned"
      <4>1. CASE UNCHANGED sessDisk
        BY <4>1
      <4>2. CASE task[t].pc = "store" /\ sessDisk' = sess
        BY <2>3, <4>2 DEF AutoDuty, At
      <4> QED
        BY <1>2, <4>1, <4>2 DEF Surrenders
    <3> QED
      BY <1>2, <3>2, <3>3 DEF AutoDuty, Awake
  <2>5. HandDuty /\ man'.phase # "idle" => HandDuty'
    BY <1>7 DEF HandDuty, SameJournal
  <2>6. HandDuty => man'.phase # "idle"
    <3> SUFFICES ASSUME man.phase # "idle" PROVE man'.phase # "idle"
      BY <1>2 DEF HandDuty
    <3>1. CASE Judges(t)
      <4>1. inv # SelfUseObservation
        BY <3>1 DEF Judges, Forced, SelfUseObservation, ForcedModes
      <4> QED
        BY <3>1, <4>1 DEF Judges, Confirms, Attempt
    <3>2. CASE Reopens(t)
      BY <1>1, <3>2 DEF Reopens, ManualSessions
    <3>3. CASE Leave(t)
      BY <3>3 DEF Leave
    <3>4. CASE TakePersist(t) \/ PersistDone(t)
      BY <1>1, <3>4 DEF TakePersist, PersistDone, ManualSessions
    <3> QED
      BY <1>7, <3>1, <3>2, <3>3, <3>4, SessionCases
         DEF Surrendering, Commanded, Quits, Asks, Goes, Stored, Turns, Leaves
  <2> QED
    BY <1>3, <2>1, <2>2, <2>4, <2>5, <2>6 DEF DutyOf
<1>8. TakePersist(t) \/ PersistDone(t) \/ SameJournal
  BY SessionCases
     DEF Surrendering, Commanded, Quits, Asks, Yields, Judges, Leave, Goes, Reopens, Stored, Turns,
         SameJournal, manSaving
<1> QED
  BY <1>5, <1>6, <1>7, <1>8

\* A step of the test's own calls keeps the test's duty, or has nothing to restore.
LEMMA DutyOfTest ==
    ASSUME TypeOK, LockInv, TestInv, NEW t \in Diagnostics, Turn(t), TestDuty, Forced'
    PROVE  TestDuty'
<1>1. /\ t \in Tasks /\ t \notin Sessions /\ Fits(t, task[t]) /\ diag \in Tests /\ t # "none"
      /\ task[t].pc # "idle" => life \notin {"down", "handoff"}
  BY Names DEF TypeOK, CallsFit, StateOK, LockInv, Awake
<1>2. CASE TakeSave(t)
  BY <1>1, <1>2 DEF TakeSave, At, TestDuty, Testing, Journal, entry
<1>3. CASE SaveDone(t)
  <2>1. saver = t
    BY <1>1, <1>3 DEF SaveDone, LockInv
  <2> QED
    BY <1>1, <1>3, <2>1 DEF SaveDone, TestDuty, Testing, entry
<1>4. CASE SendCommand(t) \/ CommandLands(t)
  BY <1>4 DEF SendCommand, CommandLands, TestDuty, Testing, diagSaving, entry
<1>5. CASE Restore(t)
  <2>1. UNCHANGED <<inv, diagDisk, saver, snap, life>>
    BY <1>5 DEF Restore, diagSaving
  <2>2. Testing => Testing'
    <3>1. CASE RestoreWith(t, PlanRestoreMode(inv))
      <4>1. PlanRestoreMode(inv) # <<>>
        BY <2>1, RestoreForcesNothing DEF Forced, ForcedModes
      <4> QED
        BY <1>1, <3>1, <4>1, RestoreMoves DEF SameTest, Testing
    <3>2. CASE RestoreWith(t, BlindRestore)
      <4>1. BlindRestore # <<>>
        BY RestorePlans
      <4> QED
        BY <1>1, <3>2, <4>1, RestoreMoves DEF SameTest, Testing
    <3> QED
      BY <1>5, <3>1, <3>2 DEF Restore
  <2> QED
    BY <2>1, <2>2 DEF TestDuty
<1>6. CASE RestoreLocks(t) \/ RestoreContinues(t) \/ RestoreEnds(t)
           \/ (t = "start" /\ (StartLocks \/ StartContinues \/ Arm \/ Cleanup))
  <2>1. UNCHANGED <<diagDisk, saver, snap, life>> /\ diag'.kind = diag.kind
    BY <1>1, <1>6
       DEF RestoreLocks, RestoreContinues, RestoreEnds, StartLocks, StartContinues, Arm, Cleanup,
           diagSaving, entry, Tests
  <2> QED
    BY <2>1 DEF TestDuty, Testing
<1>7. ~(TakePersist(t) \/ PersistDone(t) \/ RequestLocks(t) \/ Leave(t) \/ Relinquish(t)
         \/ Surrender(t) \/ Go(t) \/ Executed(t) \/ ReleaseHold(t) \/ t = "tick")
  BY <1>1 DEF TakePersist, PersistDone, RequestLocks, Leave, Relinquish, Surrender, Go, Executed,
              ReleaseHold, At, Fits, DiagnosticSteps, Sessions
<1> QED
  BY <1>2, <1>3, <1>4, <1>5, <1>6, <1>7 DEF Turn

\* Outside a session the inverter changes only by a command that was sent.
LEMMA TurnLands ==
    ASSUME NEW t \in Diagnostics, Turn(t)
    PROVE  UNCHANGED inv \/ (At(t, "sent") /\ Land(t))
<1>1. t \in Tasks /\ t \notin Sessions /\ t # "tick"
  BY Names DEF Sessions
<1> QED
  BY <1>1
     DEF Turn, TakeSave, SaveDone, TakePersist, PersistDone, SendCommand, CommandLands, RequestLocks,
         Fence, Leave, Relinquish, Surrender, Go, Executed, ReleaseHold, Restore, RestoreLocks,
         RestoreContinues, RestoreEnds, StartLocks, StartContinues, Arm, Cleanup, Complete, Raises

LEMMA EventLands ==
    ASSUME Event, ~Tick
    PROVE  UNCHANGED inv \/ \E t \in Tasks : At(t, "sent") /\ Land(t)
<1>1. "start" \in Tasks
  BY DEF Tasks, Diagnostics
<1> QED
  BY <1>1
     DEF Event, Admit, StartTest, UserStop, TimerExpires, RetryFires, RestoreHandoff, LoadTest,
         TestLoaded, LoadSessions, UnloadTest, Unloaded, CancelStart, Crash, Unload, ChangeGate,
         Corrupt, SaveFails, PersistFails

LEMMA DutyTurn ==
    ASSUME TypeOK, OrderInv, Owners, NEW t \in Diagnostics, Turn(t)
    PROVE  DutyInv'
<1> SUFFICES ASSUME Forced' PROVE DutyOf'
  BY DEF DutyInv, DutyOf
<1> USE DEF Owners
<1>1. DutyOf
  <2>1. CASE UNCHANGED inv
    BY <2>1 DEF DutyInv, DutyOf, Forced
  <2>2. CASE \E u \in Tasks : At(u, "sent") /\ Land(u)
    BY <2>2, LandsUnderDuty
  <2> QED
    BY <2>1, <2>2, TurnLands, Names
<1>2. Aside
  BY AsideTurn
<1>3. TestDuty => TestDuty'
  BY DutyOfTest
<1>4. (AutoDuty => AutoDuty') /\ (HandDuty => HandDuty')
  BY <1>2 DEF Aside, SameJournal, AutoDuty, HandDuty, Awake
<1> QED
  BY <1>1, <1>3, <1>4 DEF DutyOf

\* A step that no call of the session makes.
LEMMA DutyEvent ==
    ASSUME TypeOK, OrderInv, Owners, Event
    PROVE  DutyInv'
<1> SUFFICES ASSUME Forced' PROVE DutyOf'
  BY DEF DutyInv, DutyOf
<1> USE DEF Owners
<1>1. /\ {"req1", "req2", "tick"} = Sessions /\ Diagnostics \subseteq Tasks /\ Sessions \subseteq Tasks
      /\ man \in ManualSessions /\ diag \in Tests /\ manDisk \in Pages \cup {Malformed}
      /\ \A t \in Tasks : task[t] \in Calls
  BY Names DEF Sessions, TypeOK, StateOK, CallsFit
<1>2. CASE Tick
  BY <1>1, <1>2, DutySession DEF DutyInv, DutyOf
<1>3. ~Tick => DutyOf
  <2>1. CASE UNCHANGED inv
    BY <2>1 DEF DutyInv, DutyOf, Forced
  <2>2. CASE \E u \in Tasks : At(u, "sent") /\ Land(u)
    BY <2>2, LandsUnderDuty
  <2> QED
    BY <2>1, <2>2, EventLands
<1> DEFINE Same == UNCHANGED <<diagDisk, sessDisk>> /\ SameJournal
           Quiet == UNCHANGED sess /\ diag'.kind = diag.kind /\ man'.phase = man.phase
           Saver == UNCHANGED <<saver, snap>> \/ saver' = "none"
<1>4. Same /\ Quiet /\ Saver /\ DutyOf => DutyOf'
  BY DEF DutyOf, AutoDuty, TestDuty, HandDuty, Testing, Awake, SameJournal
<1>5. CASE UserStop \/ TimerExpires \/ RetryFires \/ ChangeGate \/ CancelStart
  <2>1. Same /\ UNCHANGED <<sess, man, saver, snap>>
    BY <1>5
       DEF UserStop, TimerExpires, RetryFires, ChangeGate, CancelStart, diagSaving, manSaving, auto,
           entry, SameJournal
  <2>2. diag'.kind = diag.kind
    BY <1>1, <1>5 DEF UserStop, TimerExpires, RetryFires, ChangeGate, CancelStart, BeginStop, Tests
  <2> QED
    BY <1>2, <1>3, <1>4, <2>1, <2>2
<1>6. CASE StartTest("charge")
  <2>1. Same /\ UNCHANGED <<sess, man, saver, snap>>
    BY <1>6 DEF StartTest, diagSaving, manSaving, auto, SameJournal
  <2>2. Testing'
    BY <1>1, <1>6 DEF StartTest, Tests, Testing
  <2> QED
    BY <1>2, <1>3, <2>1, <2>2 DEF DutyOf, AutoDuty, TestDuty, HandDuty, Awake, SameJournal
<1>7. ASSUME NEW r \in Requests, NEW t \in {"req1", "req2"}, Admit(t, r)
      PROVE  DutyOf'
  <2>1. Same /\ UNCHANGED <<sess, diag, saver, snap>>
    BY <1>7 DEF Admit, diagSaving, manSaving, auto, entry, SameJournal
  <2>2. man'.phase = "pending"
    BY <1>1, <1>7 DEF Admit, ManualSessions
  <2> QED
    BY <1>2, <1>3, <2>1, <2>2 DEF DutyOf, AutoDuty, TestDuty, HandDuty, Awake, SameJournal, Testing
<1>8. CASE ForgetMemory
  <2>1. UNCHANGED <<diagDisk, manDisk, sessDisk>> /\ life' = "down" /\ saver' = "none"
        /\ writer' = "none"
    BY <1>8 DEF ForgetMemory
  <2> QED
    BY <1>2, <1>3, <2>1 DEF DutyOf, AutoDuty, TestDuty, HandDuty, Awake
<1>9. CASE RestoreHandoff
  <2>1. /\ UNCHANGED <<diagDisk, sessDisk, saver, snap, manDisk, writer, page>>
        /\ life = "down" /\ life' = "handoff"
    BY <1>9 DEF RestoreHandoff, diagSaving, manSaving, auto
  <2>2. manDisk.phase # "idle" => man'.phase # "idle"
    BY <1>9 DEF RestoreHandoff, NoSession
  <2> QED
    BY <1>2, <1>3, <2>1, <2>2 DEF DutyOf, AutoDuty, TestDuty, HandDuty, Awake
<1>10. CASE LoadTest \/ TestLoaded \/ LoadSessions
  <2>1. /\ UNCHANGED <<diagDisk, sessDisk, saver, snap, manDisk, writer, page, man>>
        /\ life # "down" /\ life' # "down"
    BY <1>10 DEF LoadTest, TestLoaded, LoadSessions, diagSaving, manSaving, auto
  <2>2. life # "handoff" \/ diag'.kind = diagDisk.kind
    BY <1>10 DEF LoadTest, TestLoaded, LoadSessions, NoTest
  <2>3. life # "handoff" => UNCHANGED diag
    BY <1>10 DEF LoadTest, TestLoaded, LoadSessions
  <2>4. Awake' => sess' = sessDisk
    BY <1>10 DEF LoadTest, TestLoaded, LoadSessions, Awake
  <2> QED
    BY <1>2, <1>3, <2>1, <2>2, <2>3, <2>4 DEF DutyOf, AutoDuty, TestDuty, HandDuty, Testing
<1>11. CASE UnloadTest
  <2>1. /\ UNCHANGED <<diagDisk, sessDisk, saver, snap, sess, man>> /\ writer' = "none"
        /\ life = "unloading" /\ life' = "unloaded"
    BY <1>11 DEF UnloadTest, diagSaving, auto
  <2>2. manDisk' = manDisk \/ manDisk'.phase = man.phase
    BY <1>11 DEF UnloadTest, Payload
  <2>3. diag'.kind = diag.kind
    BY <1>1, <1>11 DEF UnloadTest, Tests
  <2> QED
    BY <1>2, <1>3, <2>1, <2>2, <2>3 DEF DutyOf, AutoDuty, TestDuty, HandDuty, Awake, Testing
<1>12. CASE Unload
  <2>1. /\ UNCHANGED <<diagDisk, sessDisk, saver, snap, sess, diag, manDisk, writer, page>>
        /\ life = "up" /\ life' = "unloading" /\ man'.phase = man.phase
    BY <1>1, <1>12 DEF Unload, diagSaving, manSaving, auto, ManualSessions
  <2> QED
    BY <1>2, <1>3, <2>1 DEF DutyOf, AutoDuty, TestDuty, HandDuty, Awake, Testing
<1>13. CASE Corrupt
  <2>1. /\ UNCHANGED <<diagDisk, sessDisk, saver, snap, sess, diag, writer>>
        /\ life = "down" /\ life' = "down" /\ manDisk'.phase = "malformed" /\ writer = "none"
    BY <1>13 DEF Corrupt, diagSaving, auto, Malformed, NoPage, OrderInv, Asleep
  <2> QED
    BY <1>2, <1>3, <2>1 DEF DutyOf, AutoDuty, TestDuty, HandDuty, Awake, Testing
<1>14. ASSUME NEW t \in Tasks, SaveFails(t), ~ForgetMemory
       PROVE  DutyOf'
  <2>1. Same /\ UNCHANGED <<sess, man, diag>> /\ saver' = "none"
    BY <1>14 DEF SaveFails, manSaving, auto, SameJournal
  <2> QED
    BY <1>2, <1>3, <1>4, <2>1 DEF DutyInv, DutyOf
<1>15. ASSUME NEW t \in Tasks, PersistFails(t)
       PROVE  DutyOf'
  <2>1. /\ UNCHANGED <<diagDisk, sessDisk, sess, diag, saver, snap, manDisk, life>> /\ writer' = "none"
        /\ man'.phase = man.phase
    BY <1>1, <1>15 DEF PersistFails, diagSaving, auto, ManualSessions
  <2> QED
    BY <1>2, <1>3, <2>1 DEF DutyOf, AutoDuty, TestDuty, HandDuty, Awake, Testing
<1> QED
  BY <1>2, <1>5, <1>6, <1>7, <1>8, <1>9, <1>10, <1>11, <1>12, <1>13, <1>14, <1>15
     DEF Event, DutyInv, DutyOf, Unloaded, Crash

-------------------------------------------------------------------------------
(* The invariant as a whole, and the ledger of the forced mode. *)

LEMMA OwnersInit == Init => Owners
<1> SUFFICES ASSUME Init PROVE Owners
  OBVIOUS
<1>1. /\ \A t \in Tasks : task[t].pc = "idle" /\ task[t].gen = 0
      /\ Sessions \subseteq Tasks /\ "tick" \in Tasks
  BY Names DEF Init, NoTask, Tasks, Sessions
<1>2. /\ life = "down" /\ writer = "none" /\ man.gen = 0 /\ ~man.trusted /\ man.relinquished = -1
      /\ manDisk.phase = "idle" /\ inv.mode = "SelfUse"
  BY DEF Init, NoSession, NoPage, SelfUseObservation
<1>3. LockInv
  BY <1>1 DEF LockInv, Locked, At
<1>4. GenInv
  BY <1>1, <1>2 DEF GenInv, GenOf, Locked, At
<1>5. HandInv
  BY <1>1, <1>2
     DEF HandInv, HandFree, HandDisk, HandPage, HandOf, Attempts, Releases, Surrenders, Commanding,
         Stores, At
<1>6. HoldInv /\ QuietInv
  BY <1>1, <1>2
     DEF HoldInv, HoldFree, HoldLast, QuietInv, QuietOf, Surrenders, Attempts, Commanding, Stores, At
<1>7. TurnInv
  BY <1>1 DEF TurnInv, OwnTurn
<1>8. DutyInv
  BY <1>2 DEF DutyInv, Forced, ForcedModes
<1> QED
  BY <1>3, <1>4, <1>5, <1>6, <1>7, <1>8, TestInit DEF Owners

\* A step of the test's own calls moves nothing of the sessions.
LEMMA OwnersAside ==
    ASSUME TypeOK, OrderInv, Owners, NEW t \in Diagnostics, Turn(t)
    PROVE  Owners'
<1> USE DEF Owners
<1>1. Aside /\ t \in Tasks /\ "tick" \in Sessions
  BY AsideTurn, Names DEF Sessions
<1>2. /\ UNCHANGED <<man, sess, sessDisk, life, manDisk, writer, page>>
      /\ \A u \in Sessions : task'[u] = task[u]
      /\ UNCHANGED inv \/ \A s \in Sessions : ~Locked(s)
      /\ Testing' => Testing
  BY <1>1 DEF Aside, SameJournal
<1>3. LockInv'
  BY <1>1, LockTurn
<1>4. GenInv'
  BY <1>2, GenStill DEF GenInv
<1>5. HandInv'
  BY <1>2, HandStill
<1>6. HoldInv'
  BY <1>2, HoldStill
<1>7. QuietInv'
  BY <1>2, QuietStill
<1>8. TurnInv'
  <2>1. OwnTurn => Locked("tick")
    BY <1>1 DEF OwnTurn, Locked
  <2> QED
    BY <1>1, <1>2, <2>1, TurnStill DEF Awake
<1> QED
  BY <1>3, <1>4, <1>5, <1>6, <1>7, <1>8, TestTurn, DutyTurn

LEMMA OwnersSession ==
    ASSUME TypeOK, OrderInv, Owners, NEW t \in Sessions, Turn(t) \/ (t = "tick" /\ Tick)
    PROVE  Owners'
<1> USE DEF Owners
<1>1. t \in Tasks
  BY Names
<1>2. LockInv' /\ GenInv' /\ HandInv'
  BY <1>1, LockTurn, GenSession, HandSession
<1>3. HoldInv' /\ QuietInv' /\ TurnInv'
  BY HoldSession, QuietSession, TurnSession
<1>4. TestInv' /\ DutyInv'
  BY TestSession, DutySession
<1> QED
  BY <1>2, <1>3, <1>4

LEMMA OwnersEvent ==
    ASSUME TypeOK, OrderInv, Owners, AllWait, Event
    PROVE  Owners'
<1> USE DEF Owners
<1>1. LockInv' /\ GenInv' /\ HandInv'
  BY LockEvent, GenEvent, HandEvent
<1>2. HoldInv' /\ QuietInv' /\ TurnInv'
  BY HoldEvent, QuietEvent, TurnEvent
<1>3. TestInv' /\ DutyInv'
  BY TestEvent, DutyEvent
<1> QED
  BY <1>1, <1>2, <1>3

LEMMA OwnersStutter ==
    ASSUME Owners, UNCHANGED vars
    PROVE  Owners'
<1> USE DEF Owners
<1>1. /\ UNCHANGED <<inv, gate, life, lock, diag, diagDisk, saver, snap, retry, man, manDisk>>
      /\ UNCHANGED <<writer, page, sess, sessDisk, task>>
  BY DEF vars
<1>2. \A t \in Sessions : /\ Locked(t)' <=> Locked(t)
                          /\ HandOf(t)' <=> HandOf(t)
                          /\ GenOf(t)' <=> GenOf(t)
                          /\ HoldLast(t)' <=> HoldLast(t)
                          /\ QuietOf(t)' <=> QuietOf(t)
  BY <1>1
     DEF Locked, HandOf, GenOf, HoldLast, QuietOf, Attempts, Releases, Surrenders, Commanding, Stores,
         At, OwnTurn, Given, HandDuty, Testing
<1>3. LockInv'
  BY <1>1 DEF LockInv, Locked, At, Awake
<1>4. GenInv' /\ HandInv'
  BY <1>1, <1>2 DEF GenInv, HandInv, HandFree, HandDisk, HandPage, Given, At
<1>5. HoldInv' /\ QuietInv'
  BY <1>1, <1>2 DEF HoldInv, HoldFree, QuietInv, OwnTurn, Given, Testing
<1>6. TurnInv'
  BY <1>1 DEF TurnInv, OwnTurn, AutoDuty, Awake, At, Forced
<1>7. FenceInv'
  BY <1>1 DEF TestInv, FenceInv, Armed, Testing, Saves, At
<1>8. StartInv'
  BY <1>1
     DEF TestInv, StartInv, StartWaiting, StartActing, WaitsFresh, StartWaits, StartActs, Fresh, Testing,
         Saves, At, TestDuty
<1>9. RestoreInv'
  BY <1>1
     DEF TestInv, RestoreInv, WaitsFresh, StartWaits, StartActs, Fresh, Testing, Saves, At, OneRestores,
         NoneRestores, Restores, Armed
<1>10. DutyInv'
  BY <1>1 DEF DutyInv, Forced, AutoDuty, TestDuty, HandDuty, Testing, Awake
<1> QED
  BY <1>3, <1>4, <1>5, <1>6, <1>7, <1>8, <1>9, <1>10 DEF TestInv

LEMMA OwnersStep == TypeOK /\ OrderInv /\ Owners /\ [Next]_vars => Owners'
<1> SUFFICES ASSUME TypeOK, OrderInv, Owners, [Next]_vars PROVE Owners'
  OBVIOUS
<1>1. ASSUME NEW t \in Tasks, Turn(t)
      PROVE  Owners'
  BY <1>1, Names, OwnersAside, OwnersSession
<1>2. CASE AllWait /\ Event
  BY <1>2, OwnersEvent
<1>3. CASE UNCHANGED vars
  BY <1>3, OwnersStutter
<1> QED
  BY <1>1, <1>2, <1>3, Cases

\* No step changes the inverter and a journal at once.
LEMMA OneSide ==
    ASSUME Next
    PROVE  UNCHANGED inv \/ UNCHANGED <<sessDisk, diagDisk, manDisk>>
<1>1. ASSUME NEW t \in Tasks, Turn(t)
      PROVE  UNCHANGED inv \/ UNCHANGED <<sessDisk, diagDisk, manDisk>>
  BY <1>1
     DEF Turn, TakeSave, SaveDone, TakePersist, PersistDone, SendCommand, CommandLands, RequestLocks,
         Fence, Leave, Relinquish, Surrender, Go, Executed, ReleaseHold, Restore, RestoreLocks,
         RestoreContinues, RestoreEnds, StartLocks, StartContinues, Arm, Cleanup, StoreSession,
         diagSaving, manSaving, auto
<1>2. CASE Event
  BY <1>2
     DEF Event, Admit, StartTest, UserStop, TimerExpires, RetryFires, Tick, Fence, RestoreHandoff,
         LoadTest, TestLoaded, LoadSessions, UnloadTest, Unloaded, CancelStart, Crash, ForgetMemory,
         Unload, ChangeGate, Corrupt, SaveFails, PersistFails, diagSaving, manSaving, auto
<1> QED
  BY <1>1, <1>2, Cases

\* A forced mode is entered only under a durable journal, and the last journal is given up
\* only when the inverter has left it: through the test, the operator's session, the
\* automatic turn and the handover between them.
THEOREM ForcedModeIsJournaled == Spec => ImplementsObligation
<1>1. DutyInv => (Forced => Journaled)
  BY DEF DutyInv, AutoDuty, TestDuty, HandDuty, Journaled
<1>2. Init => Ledger!Init
  BY DEF Init, Ledger!Init, Forced, Journaled, SelfUseObservation, ForcedModes, NoTest, NoPage,
         Journal
<1>3. ASSUME Owners, Owners', [Next]_vars
      PROVE  [Ledger!Next]_<<Forced, Journaled>>
  <2>1. (Forced => Journaled) /\ (Forced' => Journaled')
    BY <1>1, <1>3 DEF Owners, DutyInv, AutoDuty, TestDuty, HandDuty, Journaled
  <2>2. (Forced' = Forced) \/ (Journaled' = Journaled)
    <3>1. CASE UNCHANGED inv
      BY <3>1 DEF Forced
    <3>2. CASE UNCHANGED <<sessDisk, diagDisk, manDisk>>
      BY <3>2 DEF Journaled
    <3> QED
      BY <1>3, <3>1, <3>2, OneSide DEF vars
  <2>3. Forced \in BOOLEAN /\ Journaled \in BOOLEAN /\ Forced' \in BOOLEAN /\ Journaled' \in BOOLEAN
    BY DEF Forced, Journaled
  <2> QED
    BY <2>1, <2>2, <2>3
       DEF Ledger!Next, Ledger!Record, Ledger!Act, Ledger!End, Ledger!Forget
<1> QED
  BY <1>2, <1>3, TypeInit, TypeStep, OrderInit, OrderStep, OwnersInit, OwnersStep, PTL
     DEF Spec, ImplementsObligation, Ledger!Spec

===============================================================================
