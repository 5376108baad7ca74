----------------------------- MODULE ManualControl -----------------------------
(***************************************************************************)
(* The two explicit ways to command the inverter, beside the automatic     *)
(* controller: the bounded diagnostic test (manual_test.py) and the        *)
(* operator's manual session (manual_inverter.py).                         *)
(*                                                                         *)
(* Each call is a task of the event loop.  A task suspends at its store    *)
(* writes, at the shared reconcile lock and at every service call; what    *)
(* it decided before may then be outdated.  Generations are the fences:    *)
(* every admission and every stop raises one, and a task goes on only      *)
(* while the generation it started with is current.                        *)
(*                                                                         *)
(* The automatic controller is reduced to one session that owns a forced   *)
(* charge or nothing; BatteryController has its details.  Entity states    *)
(* follow the inverter at once here.                                       *)
(***************************************************************************)
EXTENDS FoxessPlanner, Integers, FiniteSets

CONSTANTS
    Requests,       \* operator messages [stamp, target], delivered at any time
    MaxRestores,    \* MAX_RESTORE_ATTEMPTS
    Budget,         \* how many tests and other events a behaviour may have
    Faults          \* of FaultKinds

FaultKinds == {"stop", "crash", "unload", "save", "service", "offline", "cancel", "corrupt", "gate"}
Targets == {"export_max", "self_use", "automatic"}
BudgetType == [tests : Nat, faults : Nat]

ASSUME ManualAssumption ==
    /\ Requests \subseteq [stamp : Nat \ {0}, target : Targets]
    /\ MaxRestores \in Nat \ {0} /\ Faults \subseteq FaultKinds /\ Budget \in BudgetType

VARIABLES
    inv,            \* the inverter as its entities show it
    gate,           \* "open", "no_export" or "closed": what the write gates allow
    life,           \* setup and unload of the config entry
    lock,           \* holder of the automatic controller's _reconcile_lock
    diag, diagDisk, \* the diagnostic test and its store
    saver, snap,    \* holder of its _save_lock and the snapshot being written
    timer, retry,   \* generations of the armed expiry and restore callbacks
    man, manDisk,   \* the manual session and its journal
    writer, page,   \* holder of the journal's _save_lock and the payload written
    sess, sessDisk, \* the automatic session and its store
    task,           \* the calls in progress
    acked,          \* history: newest stamp answered as durable by this journal
    left            \* what remains of Budget; smooth: no write or command was refused

vars == <<inv, gate, life, lock, diag, diagDisk, saver, snap, timer, retry,
          man, manDisk, writer, page, sess, sessDisk, task, acked, left>>
diagSaving == <<diagDisk, saver, snap>>
callbacks == <<timer, retry>>
manSaving == <<manDisk, writer, page>>
auto == <<sess, sessDisk>>
entry == <<gate, life, acked, left>>

Diagnostics == {"start", "stop", "retry", "boot"}
Sessions == {"req1", "req2", "tick"}
Tasks == Diagnostics \cup Sessions
Kw == 1
NoTask == [pc |-> "idle", next |-> "idle", gen |-> 0, plan |-> <<>>]

NoTest == [kind |-> "none", phase |-> "idle", attempts |-> 0, gen |-> 0, wgen |-> 0]
Journal(d) == [kind |-> d.kind, phase |-> d.phase, attempts |-> d.attempts]
Unarmed == -1
Testing == diag.kind # "none"

NoPage == [target |-> "automatic", phase |-> "idle", gen |-> 0, stamp |-> 0]
Malformed == [NoPage EXCEPT !.phase = "malformed"]
NoSession == [hold |-> TRUE, target |-> "automatic", phase |-> "pending", gen |-> 0,
              stamp |-> 0, durable |-> -1, relinquished |-> -1, fault |-> FALSE,
              trusted |-> FALSE]
Payload(m) == [target |-> m.target, phase |-> m.phase, gen |-> m.gen, stamp |-> m.stamp]

Goto(t, step) == task' = [task EXCEPT ![t].pc = step]
End(t) == task' = [task EXCEPT ![t] = NoTask]
SaveThen(t, step) == task' = [task EXCEPT ![t].pc = "save", ![t].next = step]
At(t, step) == task[t].pc = step
Spend(kind) ==
    /\ kind \in Faults /\ left.faults > 0
    /\ left' = [left EXCEPT !.faults = @ - 1,
                            !.smooth = @ /\ kind \notin {"save", "service", "gate"}]

ForgetMemory ==
    /\ life' = "down" /\ lock' = "free" /\ diag' = NoTest /\ man' = NoSession
    /\ saver' = "none" /\ snap' = Journal(NoTest) /\ writer' = "none" /\ page' = NoPage
    /\ timer' = Unarmed /\ retry' = Unarmed /\ sess' = "idle" /\ task' = [t \in Tasks |-> NoTask]
    /\ UNCHANGED <<diagDisk, manDisk, sessDisk, gate, acked>>

Init ==
    /\ inv = SelfUseObservation /\ gate = "open" /\ life = "down"
    /\ lock = "free" /\ diag = NoTest /\ diagDisk = Journal(NoTest)
    /\ saver = "none" /\ snap = diagDisk /\ timer = Unarmed /\ retry = Unarmed
    /\ man = NoSession /\ manDisk = NoPage /\ writer = "none" /\ page = NoPage
    /\ sess = "idle" /\ sessDisk = "idle" /\ task = [t \in Tasks |-> NoTask]
    /\ acked = 0
    /\ left = [tests |-> Budget.tests, faults |-> Budget.faults, smooth |-> TRUE]

-----------------------------------------------------------------------------
(* Store writes.  Both journals are written one at a time; what is written  *)
(* is the state when the writer's turn comes, not when it asked.            *)

TakeSave(t) ==
    /\ At(t, "save") /\ saver = "none"
    /\ saver' = t /\ snap' = Journal(diag) /\ Goto(t, "saving")
    /\ UNCHANGED <<inv, lock, diag, diagDisk, callbacks, man, manSaving, auto, entry>>

SaveDone(t) ==
    /\ At(t, "saving") /\ diagDisk' = snap /\ Goto(t, task[t].next)
    /\ saver' = "none" /\ snap' = Journal(NoTest)
    /\ UNCHANGED <<inv, lock, diag, callbacks, man, manSaving, auto, entry>>

\* A cleanup swallows the error of its save; any other call ends with it, the setup
\* of the entry too when the unfinished test cannot be stored as stopping.
SaveFails(t) ==
    /\ At(t, "saving") /\ Spend("save")
    /\ IF t = "boot" /\ task[t].next = "restore" /\ life = "starting" THEN ForgetMemory
       ELSE /\ saver' = "none" /\ snap' = Journal(NoTest)
            /\ lock' = IF lock = t THEN "free" ELSE lock
            /\ IF task[t].next = "cleanup" THEN Goto(t, "cleanup") ELSE End(t)
            /\ UNCHANGED <<diag, diagDisk, callbacks, man, manSaving, auto,
                           gate, life, acked>>
    /\ UNCHANGED inv

PersistThen(t, step) == task' = [task EXCEPT ![t].pc = "persist", ![t].next = step]

\* First in, first out: a reconciliation asks after every request whose generation it
\* has read.
Precedes(r, t) == At(r, "persist") /\ task[r].next = "mlock" /\ task[t].next # "mlock"
                     /\ task[t].gen = man.gen

TakePersist(t) ==
    /\ At(t, "persist") /\ writer = "none" /\ \A r \in Tasks : ~Precedes(r, t)
    /\ writer' = t /\ page' = Payload(man) /\ Goto(t, "persisting")
    /\ UNCHANGED <<inv, lock, diag, diagSaving, callbacks, man, manDisk, auto, entry>>

\* A request admitted during the write is written before the call goes on.
PersistDone(t) ==
    /\ At(t, "persisting") /\ manDisk' = page
    /\ IF page.gen = man.gen
         THEN /\ man' = [man EXCEPT !.durable = page.gen, !.fault = FALSE]
              /\ writer' = "none" /\ page' = NoPage /\ Goto(t, task[t].next)
         ELSE page' = Payload(man) /\ UNCHANGED <<man, writer, task>>
    /\ UNCHANGED <<inv, lock, diag, diagSaving, callbacks, auto, entry>>

PersistFails(t) ==
    /\ At(t, "persisting") /\ Spend("save") /\ writer' = "none" /\ page' = NoPage
    /\ man' = [man EXCEPT !.hold = TRUE, !.fault = TRUE]
    /\ End(t) /\ lock' = IF lock = t THEN "free" ELSE lock
    /\ UNCHANGED <<inv, diag, diagSaving, callbacks, manDisk, auto, gate, life, acked>>

Store(t) == \/ TakeSave(t) \/ SaveDone(t) \/ TakePersist(t) \/ PersistDone(t)
StoreFails(t) == SaveFails(t) \/ PersistFails(t)

-----------------------------------------------------------------------------
(* Plans under the shared lock: the guard is asked before every command, and *)
(* a command that was sent takes effect whatever happens meanwhile.          *)

\* _restore_gate_reason: a hold of the operator blocks every diagnostic write.
Permitted == gate # "closed" /\ ~man.hold
Current(gen) == man.hold /\ life = "up" /\ man.gen = gen

\* _gate_reason of the manual session: its journal has to be written as well.
Writable == gate # "closed" /\ ~man.fault /\ man.durable = man.gen

\* Fault for the runs: the test's guard looks neither at the test nor at its generation.
AuthorizedUnfenced(t) ==
    CASE t \in Diagnostics -> Permitted
      [] t \in Sessions /\ task[t].gen # 0 ->
            /\ Current(task[t].gen) /\ Writable
            /\ man.target = "export_max" => gate = "open"
      [] OTHER -> gate # "closed" /\ ~man.hold /\ ~Testing /\ life = "up"

\* The three write guards, of the test, the manual session and the automatic
\* controller (plan and task tell which of the last two a tick runs for).
Authorized(t) ==
    CASE t \in Diagnostics -> Testing /\ diag.wgen = diag.gen /\ Permitted
      [] t \in Sessions /\ task[t].gen # 0 ->
            /\ Current(task[t].gen) /\ Writable
            /\ man.target = "export_max" => gate = "open"
      [] OTHER -> gate # "closed" /\ ~man.hold /\ ~Testing /\ life = "up"

SendCommand(t) ==
    /\ At(t, "exec") /\ lock = t /\ task[t].plan # <<>> /\ Authorized(t) /\ Goto(t, "sent")
    /\ UNCHANGED <<inv, lock, diag, diagSaving, callbacks, man, manSaving, auto, entry>>

Land(t) == inv' = Apply(Head(task[t].plan), inv)

CommandLands(t) ==
    /\ At(t, "sent") /\ Land(t)
    /\ task' = [task EXCEPT ![t].pc = "exec", ![t].plan = Tail(@)]
    /\ UNCHANGED <<lock, diag, diagSaving, callbacks, man, manSaving, auto, entry>>

\* The plan is complete, or raised: a guard closed or a service call failed.
Complete(t) == At(t, "exec") /\ task[t].plan = <<>> /\ UNCHANGED <<inv, left>>
Raises(t) ==
    \/ At(t, "exec") /\ task[t].plan # <<>> /\ ~Authorized(t) /\ UNCHANGED <<inv, left>>
    \/ At(t, "sent") /\ Spend("service") /\ (Land(t) \/ UNCHANGED inv)

-----------------------------------------------------------------------------
(* manual_test.py: starting a test. *)

PlanTest(kind) ==
    IF kind = "charge" THEN PlanForceCharge(inv, Kw) ELSE PlanForceDischarge(inv, Kw)

\* _require_gate and the checks of async_start, up to its first suspension.
StartTest(kind) ==
    /\ life = "up" /\ At("start", "idle") /\ left.tests > 0
    /\ gate # "closed" /\ ~man.hold /\ ~Testing /\ sess = "idle"
    /\ left' = [left EXCEPT !.tests = @ - 1]
    /\ diag' = [diag EXCEPT !.kind = kind, !.phase = "starting", !.attempts = 0, !.gen = @ + 1]
    /\ task' = [task EXCEPT !["start"] = [pc |-> "save", next |-> "lock", gen |-> diag.gen + 1,
                                          plan |-> PlanTest(kind)]]
    /\ UNCHANGED <<inv, lock, diagSaving, callbacks, man, manSaving, auto, gate, life, acked>>

Fresh(t) == task[t].gen = diag.gen /\ Testing

StartLocks ==
    /\ At("start", "lock") /\ lock = "free"
    /\ IF Fresh("start")
         THEN lock' = "start" /\ diag' = [diag EXCEPT !.wgen = diag.gen] /\ Goto("start", "exec")
         ELSE End("start") /\ UNCHANGED <<lock, diag>>
    /\ UNCHANGED <<inv, diagSaving, callbacks, man, manSaving, auto, entry>>

\* The test runs from here: stored once more, then its expiry is armed.  A start
\* that raised stays latched in "starting", which keeps the automatic controller
\* out and leaves the stop to the user.
StartContinues ==
    /\ lock = "start" /\ lock' = "free"
    /\ \/ /\ Complete("start") /\ Fresh("start")
          /\ diag' = [diag EXCEPT !.phase = "running"] /\ SaveThen("start", "arm")
       \/ /\ (Complete("start") /\ ~Fresh("start")) \/ Raises("start")
          /\ End("start") /\ UNCHANGED diag
    /\ UNCHANGED <<diagSaving, callbacks, man, manSaving, auto, gate, life, acked>>

Arm ==
    /\ At("start", "arm") /\ timer' = (IF Fresh("start") THEN diag.gen ELSE timer) /\ End("start")
    /\ UNCHANGED <<inv, lock, diag, diagSaving, retry, man, manSaving, auto, entry>>

\* The caller of the start is cancelled (_async_cancel_start).  A store write is
\* finished first.
CancelStart ==
    /\ task["start"].pc \in {"lock", "exec", "sent"} /\ Spend("cancel")
    /\ (At("start", "sent") /\ Land("start")) \/ UNCHANGED inv
    /\ lock' = IF lock = "start" THEN "free" ELSE lock
    /\ IF Fresh("start")
         THEN /\ diag' = [diag EXCEPT !.gen = @ + 1, !.phase = "stopping"]
              /\ timer' = Unarmed /\ retry' = Unarmed
              /\ task' = [task EXCEPT !["start"] = [pc |-> "save", next |-> "cleanup",
                                                    gen |-> diag.gen + 1, plan |-> <<>>]]
         ELSE End("start") /\ UNCHANGED <<diag, timer, retry>>
    /\ UNCHANGED <<diagSaving, man, manSaving, auto, gate, life, acked>>

Schedule(t) == retry' = IF Fresh(t) /\ life # "unloading" THEN diag.gen ELSE retry

Cleanup ==
    /\ At("start", "cleanup") /\ Schedule("start") /\ End("start")
    /\ UNCHANGED <<inv, lock, diag, diagSaving, timer, man, manSaving, auto, entry>>

-----------------------------------------------------------------------------
(* manual_test.py: stopping a test. *)

\* async_stop, up to its first suspension.
BeginStop ==
    /\ Testing /\ At("stop", "idle")
    /\ diag' = [diag EXCEPT !.gen = @ + 1, !.phase = "stopping",
                            !.attempts = IF diag.phase = "restore_failed" THEN 0 ELSE @]
    /\ SaveThen("stop", "restore")

UserStop ==
    /\ life = "up" /\ Spend("stop") /\ BeginStop /\ timer' = Unarmed
    /\ UNCHANGED <<inv, lock, diagSaving, retry, man, manSaving, auto, gate, life, acked>>

TimerExpires ==
    /\ life = "up" /\ timer # Unarmed /\ timer' = Unarmed
    /\ IF timer = diag.gen /\ Testing THEN BeginStop ELSE UNCHANGED <<diag, task>>
    /\ UNCHANGED <<inv, lock, diagSaving, retry, man, manSaving, auto, entry>>

RetryFires ==
    /\ life = "up" /\ retry # Unarmed /\ retry' = Unarmed /\ At("retry", "idle")
    /\ IF retry = diag.gen THEN Goto("retry", "restore") ELSE UNCHANGED task
    /\ UNCHANGED <<inv, lock, diag, diagSaving, timer, man, manSaving, auto, entry>>

\* Missing feedback is answered by the complete fixed plan.
BlindRestore == <<SelectMode("SelfUse"), SetCharge(0), SetDischarge(0)>>

Reconciles(t, plan) ==
    task' = [task EXCEPT ![t] = [pc |-> "save", next |-> "rlock", gen |-> diag.gen, plan |-> plan]]

\* _async_reconcile_restore up to its first suspension, with feedback or without.
RestoreWith(t, plan) ==
    \/ ~Testing /\ End(t) /\ UNCHANGED <<diag, timer, retry>>
    \/ /\ Testing /\ ~Permitted /\ diag' = [diag EXCEPT !.phase = "stopping"]
       /\ task' = [task EXCEPT ![t] = [NoTask EXCEPT !.pc = "save", !.next = "blocked",
                                                     !.gen = diag.gen]]
       /\ UNCHANGED <<timer, retry>>
    \/ /\ Testing /\ Permitted /\ plan = <<>>
       /\ diag' = [NoTest EXCEPT !.gen = diag.gen, !.wgen = diag.wgen]
       /\ timer' = Unarmed /\ retry' = Unarmed /\ SaveThen(t, "finish")
    \/ /\ Testing /\ Permitted /\ plan # <<>> /\ diag.attempts >= MaxRestores
       /\ diag' = [diag EXCEPT !.phase = "restore_failed"] /\ SaveThen(t, "finish")
       /\ UNCHANGED <<timer, retry>>
    \/ /\ Testing /\ Permitted /\ plan # <<>> /\ diag.attempts < MaxRestores
       /\ diag' = [diag EXCEPT !.phase = "stopping", !.attempts = @ + 1] /\ Reconciles(t, plan)
       /\ UNCHANGED <<timer, retry>>

Restore(t) ==
    /\ t \in {"stop", "retry", "boot"} /\ At(t, "restore")
    /\ \/ RestoreWith(t, PlanRestoreMode(inv)) /\ UNCHANGED left
       \/ Spend("offline") /\ RestoreWith(t, BlindRestore)
    /\ UNCHANGED <<inv, lock, diagSaving, man, manSaving, auto, gate, life, acked>>

\* An outdated restore returns without a command and without a retry.
RestoreLocks(t) ==
    /\ At(t, "rlock") /\ lock = "free"
    /\ IF Fresh(t)
         THEN lock' = t /\ diag' = [diag EXCEPT !.wgen = diag.gen] /\ Goto(t, "exec")
         ELSE End(t) /\ UNCHANGED <<lock, diag>>
    /\ UNCHANGED <<inv, diagSaving, callbacks, man, manSaving, auto, entry>>

\* Fault for the runs: a restoration that was sent is taken for confirmed.
RestoreTrusted(t) ==
    /\ t # "start" /\ lock = t /\ lock' = "free"
    /\ (Complete(t) \/ Raises(t)) /\ End(t) /\ UNCHANGED retry
    /\ UNCHANGED <<diag, diagSaving, timer, man, manSaving, auto, gate, life, acked>>

\* Confirmation is left to the scheduled retry; a failure is stored first.
RestoreContinues(t) ==
    /\ t # "start" /\ lock = t /\ lock' = "free"
    /\ \/ Complete(t) /\ Schedule(t) /\ End(t)
       \/ /\ Raises(t) /\ UNCHANGED retry
          /\ IF task[t].gen = diag.gen THEN SaveThen(t, "failed") ELSE End(t)
    /\ UNCHANGED <<diag, diagSaving, timer, man, manSaving, auto, gate, life, acked>>

RestoreEnds(t) ==
    /\ \/ (At(t, "blocked") \/ At(t, "failed")) /\ Schedule(t)
       \/ At(t, "finish") /\ UNCHANGED retry
    /\ End(t)
    /\ UNCHANGED <<inv, lock, diag, diagSaving, timer, man, manSaving, auto, entry>>

Diagnostic(t) ==
    \/ Restore(t) \/ RestoreLocks(t) \/ RestoreContinues(t) \/ RestoreEnds(t)
    \/ t = "start" /\ (StartLocks \/ StartContinues \/ Arm \/ Cleanup)

-----------------------------------------------------------------------------
(* manual_inverter.py: admission of an operator's request. *)

\* Fault for the runs: the order of the requests is not looked at.
AcceptableAnyOrder(r) == ~man.trusted => r.target # "export_max"

\* An older request, an equal stamp that does not stop, and the repetition of the
\* last request change nothing.  A damaged journal needs a reducing request first.
Acceptable(r) ==
    /\ \/ r.stamp > man.stamp
       \/ r.stamp = man.stamp /\ r.target = "self_use" /\ man.target # "self_use"
    /\ ~man.trusted => r.target # "export_max"

\* Admission has no suspension point: the fence is closed before the journal is
\* written and before the lock is asked for.
Admit(t, r) ==
    /\ life = "up" /\ At(t, "idle") /\ Acceptable(r)
    /\ man' = [man EXCEPT !.hold = TRUE, !.target = r.target, !.phase = "pending",
                          !.gen = @ + 1, !.stamp = r.stamp, !.trusted = TRUE]
    /\ PersistThen(t, "mlock")
    /\ UNCHANGED <<inv, lock, diag, diagSaving, callbacks, manSaving, auto, entry>>

\* The reconciliation is over; a request is answered.
Leave(t) ==
    /\ At(t, "leave") /\ lock' = "free" /\ End(t)
    /\ acked' = IF t # "tick" /\ man.durable = man.gen /\ man.stamp > acked
                  THEN man.stamp ELSE acked
    /\ UNCHANGED <<inv, diag, diagSaving, callbacks, man, manSaving, auto, gate, life, left>>

-----------------------------------------------------------------------------
(* manual_inverter.py: async_reconcile_locked. *)

Decision ==
    IF man.target = "export_max" THEN ForceDischarge(Kw) ELSE RestoreSelfUse
Mine(t) == Current(task[t].gen)
LeaveNext(t) == task' = [task EXCEPT ![t].pc = "leave"]

ConfirmFrom(t, m) ==
    /\ man' = [m EXCEPT !.phase = IF m.target = "automatic" THEN "idle" ELSE "held"]
    /\ task' = [task EXCEPT ![t].pc = "persist", ![t].next = "release", ![t].gen = m.gen]

\* Fault for the runs: a request is tried once.
CompareOnce(t, m) ==
    IF ~Writable \/ (m.target = "export_max" /\ gate = "no_export")
      THEN LeaveNext(t) /\ man' = m
    ELSE IF ResponseMatches(Decision, inv) THEN ConfirmFrom(t, m)
    ELSE IF m.phase = "confirming" THEN LeaveNext(t) /\ man' = m
    ELSE /\ man' = [m EXCEPT !.phase = "confirming"]
         /\ task' = [task EXCEPT ![t].pc = "persist", ![t].next = "go", ![t].gen = m.gen,
                                 ![t].plan = PlanFoxessCommands(Decision, inv, Kw)]

\* Matching feedback confirms; otherwise the attempt is stored before it is made.
\* The retry interval between two attempts is not measured.
CompareFrom(t, m) ==
    IF ~Writable \/ (m.target = "export_max" /\ gate = "no_export")
      THEN LeaveNext(t) /\ man' = m
    ELSE IF ResponseMatches(Decision, inv) THEN ConfirmFrom(t, m)
    ELSE /\ man' = [m EXCEPT !.phase = "confirming"]
         /\ task' = [task EXCEPT ![t].pc = "persist", ![t].next = "go", ![t].gen = m.gen,
                                 ![t].plan = PlanFoxessCommands(Decision, inv, Kw)]

\* The automatic sessions and the test give up their obligations, once for each
\* generation, without a command: the journal of the session stands for them.
RelinquishFrom(t) ==
    IF Writable /\ man.relinquished # man.gen
      THEN /\ diag' = [NoTest EXCEPT !.gen = diag.gen + 1, !.wgen = diag.wgen]
           /\ timer' = Unarmed /\ retry' = Unarmed /\ UNCHANGED man
           /\ task' = [task EXCEPT ![t].pc = "save", ![t].next = "surrender", ![t].gen = man.gen]
      ELSE CompareFrom(t, man) /\ UNCHANGED <<diag, timer, retry>>

\* The generation is read here, once; a journal that is behind is written first.
Fence(t) ==
    /\ lock = "free" /\ lock' = t
    /\ IF ~man.hold \/ life # "up" \/ ~man.trusted
         THEN LeaveNext(t) /\ UNCHANGED <<man, diag, timer, retry>>
       ELSE IF man.durable # man.gen \/ man.fault
         THEN /\ task' = [task EXCEPT ![t].pc = "persist", ![t].next = "relinquish",
                                      ![t].gen = man.gen]
              /\ UNCHANGED <<man, diag, timer, retry>>
       ELSE RelinquishFrom(t)
    /\ UNCHANGED <<inv, diagSaving, manSaving, auto, entry>>

RequestLocks(t) == At(t, "mlock") /\ Fence(t)

Relinquish(t) ==
    /\ At(t, "relinquish")
    /\ IF Mine(t) THEN RelinquishFrom(t)
                  ELSE LeaveNext(t) /\ UNCHANGED <<man, diag, timer, retry>>
    /\ UNCHANGED <<inv, lock, diagSaving, manSaving, auto, entry>>

\* The test's store is written, then both stores of the automatic sessions.
Surrender(t) ==
    /\ \/ /\ At(t, "surrender") /\ sess' = "idle" /\ Goto(t, "surrendered")
          /\ UNCHANGED <<man, sessDisk>>
       \/ /\ At(t, "surrendered") /\ sessDisk' = sess /\ UNCHANGED sess
          /\ IF Mine(t) THEN CompareFrom(t, [man EXCEPT !.relinquished = man.gen])
                        ELSE LeaveNext(t) /\ UNCHANGED man
    /\ UNCHANGED <<inv, lock, diag, diagSaving, callbacks, manSaving, entry>>

Go(t) ==
    /\ At(t, "go") /\ IF Mine(t) THEN Goto(t, "exec") ELSE LeaveNext(t)
    /\ UNCHANGED <<inv, lock, diag, diagSaving, callbacks, man, manSaving, auto, entry>>

Executed(t) ==
    /\ t \in Sessions
    /\ \/ /\ Complete(t)
          /\ IF Mine(t) /\ Writable /\ ResponseMatches(Decision, inv)
               THEN ConfirmFrom(t, man) ELSE LeaveNext(t) /\ UNCHANGED man
       \/ Raises(t) /\ LeaveNext(t) /\ UNCHANGED man
    /\ UNCHANGED <<lock, diag, diagSaving, callbacks, manSaving, auto, gate, life, acked>>

\* After the last write everything is looked at again.
ReleaseHold(t) ==
    /\ At(t, "release")
    /\ IF ~Mine(t) THEN LeaveNext(t) /\ UNCHANGED man
       ELSE IF ~Writable THEN man' = [man EXCEPT !.phase = "pending"] /\ PersistThen(t, "leave")
       ELSE man' = [man EXCEPT !.hold = man.target # "automatic"] /\ LeaveNext(t)
    /\ UNCHANGED <<inv, lock, diag, diagSaving, callbacks, manSaving, auto, entry>>

Handoff(t) ==
    \/ RequestLocks(t) \/ Leave(t) \/ Relinquish(t) \/ Surrender(t)
    \/ Go(t) \/ Executed(t) \/ ReleaseHold(t)

-----------------------------------------------------------------------------
(* active.py: the automatic controller's turn, every 30 seconds. *)

\* One automatic session: it starts from Self Use, is stored before its commands
\* and stays owned until Self Use is confirmed.
AutomaticTurn ==
    /\ lock = "free" /\ lock' = "tick" /\ ~Testing /\ gate # "closed"
    /\ \/ /\ sess = "idle" /\ inv.mode = "SelfUse" /\ sess' = "owned"
          /\ task' = [task EXCEPT !["tick"].pc = "store", !["tick"].plan = PlanForceCharge(inv, Kw)]
       \/ /\ sess = "owned" /\ inv # SelfUseObservation /\ UNCHANGED sess
          /\ task' = [task EXCEPT !["tick"].pc = "store", !["tick"].plan = PlanRestoreMode(inv)]
       \/ /\ sess = "owned" /\ inv = SelfUseObservation /\ sess' = "idle"
          /\ Goto("tick", "store")

Tick ==
    /\ life = "up" /\ At("tick", "idle")
    /\ \/ man.hold /\ Fence("tick")
       \/ /\ ~man.hold /\ AutomaticTurn
          /\ UNCHANGED <<inv, diag, diagSaving, callbacks, man, manSaving, sessDisk, entry>>

StoreSession ==
    /\ At("tick", "store") /\ sessDisk' = sess /\ Goto("tick", "exec")
    /\ UNCHANGED <<inv, lock, diag, diagSaving, callbacks, man, manSaving, sess, entry>>

-----------------------------------------------------------------------------
(* __init__.py: setup and unload. *)

\* Before the platforms the manual journal restores its fence.
RestoreHandoff ==
    /\ life = "down" /\ life' = "handoff"
    /\ man' = IF manDisk.phase = "malformed" THEN NoSession
              ELSE [target |-> manDisk.target, phase |-> manDisk.phase, gen |-> manDisk.gen,
                    stamp |-> manDisk.stamp, hold |-> manDisk.phase # "idle",
                    durable |-> manDisk.gen, relinquished |-> -1, fault |-> FALSE,
                    trusted |-> TRUE]
    /\ UNCHANGED <<inv, gate, lock, diag, diagSaving, callbacks, manSaving, auto, task,
                   acked, left>>

\* Then the test's store: an unfinished test is stored as stopping and restored.
LoadTest ==
    /\ life = "handoff"
    /\ diag' = [NoTest EXCEPT !.kind = diagDisk.kind, !.attempts = diagDisk.attempts,
                  !.phase = IF diagDisk.kind = "none" THEN "idle" ELSE "stopping"]
    /\ IF diagDisk.kind = "none" THEN life' = "sessions" /\ UNCHANGED task
       ELSE life' = "starting" /\ SaveThen("boot", "restore")
    /\ UNCHANGED <<inv, gate, lock, diagSaving, callbacks, man, manSaving, auto, acked, left>>

\* The setup goes on when the restoration has returned, whatever its outcome.
TestLoaded ==
    /\ life = "starting" /\ At("boot", "idle") /\ life' = "sessions"
    /\ UNCHANGED <<inv, gate, lock, diag, diagSaving, callbacks, man, manSaving, auto, task,
                   acked, left>>

LoadSessions ==
    /\ life = "sessions" /\ life' = "up" /\ sess' = sessDisk
    /\ UNCHANGED <<inv, gate, lock, diag, diagSaving, callbacks, man, manSaving, sessDisk, task,
                   acked, left>>

Setup == RestoreHandoff \/ LoadTest \/ TestLoaded \/ LoadSessions

\* Home Assistant stops at any point; a command that was sent may still land.
Crash ==
    /\ life # "down" /\ Spend("crash") /\ ForgetMemory
    /\ UNCHANGED inv \/ \E t \in Tasks : At(t, "sent") /\ Land(t)

\* The automatic controller stops first and fences the manual session for good.
Unload ==
    /\ Spend("unload") /\ life = "up" /\ life' = "unloading"
    /\ man' = [man EXCEPT !.hold = TRUE]
    /\ UNCHANGED <<inv, gate, lock, diag, diagSaving, callbacks, manSaving, auto, task, acked>>

\* When the lock has been free once, the journal is written and the test makes
\* durable what it has left to do.
UnloadTest ==
    /\ life = "unloading" /\ lock = "free" /\ writer = "none" /\ life' = "unloaded"
    /\ manDisk' = IF man.trusted THEN Payload(man) ELSE manDisk
    /\ timer' = Unarmed /\ retry' = Unarmed
    /\ IF Testing
         THEN diag' = [diag EXCEPT !.phase = "stopping"] /\ SaveThen("boot", "restore")
         ELSE UNCHANGED <<diag, task>>
    /\ UNCHANGED <<inv, gate, lock, diagSaving, man, writer, page, auto, acked, left>>

\* Calls that are still suspended can write nothing any more and are forgotten.
Unloaded ==
    /\ life = "unloaded" /\ At("boot", "idle") /\ ForgetMemory /\ UNCHANGED <<inv, left>>

-----------------------------------------------------------------------------
ChangeGate ==
    /\ \/ gate # "open" /\ gate' = "open" /\ UNCHANGED left
       \/ gate' \in {"no_export", "closed"} \ {gate} /\ Spend("gate")
    /\ UNCHANGED <<inv, life, lock, diag, diagSaving, callbacks, man, manSaving, auto, task,
                   acked>>

\* What had been answered is lost with the journal: the newest stamp is nowhere else.
Corrupt ==
    /\ life = "down" /\ manDisk.phase # "malformed" /\ Spend("corrupt") /\ manDisk' = Malformed
    /\ acked' = 0
    /\ UNCHANGED <<inv, gate, life, lock, diag, diagSaving, callbacks, man, writer, page, auto,
                   task>>

\* At most two calls of the operator are in progress.
NextCall == IF At("req1", "idle") THEN "req1" ELSE "req2"
Operator == \E r \in Requests : Admit(NextCall, r)
User == (\E kind \in {"charge"} : StartTest(kind)) \/ UserStop
Resume(t) == Store(t) \/ SendCommand(t) \/ CommandLands(t) \/ Handoff(t)
                \/ (t \in Diagnostics /\ Diagnostic(t)) \/ (t = "tick" /\ StoreSession)
Clock == TimerExpires \/ RetryFires \/ Tick
Fault == CancelStart \/ Crash \/ Unload \/ ChangeGate \/ Corrupt \/ \E t \in Tasks : StoreFails(t)

\* Calls go on, and nothing new begins while one can: they wait only for a write, a
\* service, or a lock that another call holds (asyncio.Lock is first in, first out).
Waits(t) ==
    \/ task[t].pc \in {"idle", "saving", "persisting", "sent", "surrender", "surrendered", "store"}
    \/ At(t, "save") /\ saver # "none"
    \/ At(t, "persist") /\ writer # "none"
    \/ task[t].pc \in {"lock", "rlock", "mlock"} /\ lock # "free"
AllWait == \A t \in Tasks : Waits(t)

Next == \/ \E t \in Tasks : Resume(t)
        \/ AllWait /\ (Operator \/ User \/ Clock \/ Setup \/ UnloadTest \/ Unloaded \/ Fault)

Spec == Init /\ [][Next]_vars

\* Calls go on, the timers fire and the tick comes again and again.
Fairness ==
    /\ \A t \in Tasks : WF_vars(Resume(t))
    /\ WF_vars(AllWait /\ (TimerExpires \/ RetryFires \/ Setup \/ UnloadTest \/ Unloaded))
    /\ SF_vars(AllWait /\ Tick)
FairSpec == Spec /\ Fairness

-----------------------------------------------------------------------------
(* Properties. *)

\* A forced mode always has a journal a restart will find, of the automatic session, of
\* the test or of the operator's session; the last of them is given up only when the
\* inverter has left the forced mode.
Forced == inv.mode \in ForcedModes
Journaled == sessDisk = "owned" \/ diagDisk.kind # "none" \/ manDisk.phase # "idle"
Ledger == INSTANCE Obligation WITH acting <- Forced, recorded <- Journaled
ImplementsObligation == Ledger!Spec

\* A request that was answered as durable is never displaced by an older one,
\* however the messages are reordered or repeated and whatever restarts.  (Only a
\* damaged journal forgets the order: then any reducing request is the first.)
NewestRequestWins ==
    life = "up" => man.stamp >= acked

\* Whatever was in flight when the operator took over, while the gates stay open the
\* inverter ends in the state asked for and stays there.
OperatorPrevails ==
    <>[](life = "up" /\ gate = "open" /\ man.hold /\ man.trusted)
        => <>[](ResponseMatches(Decision, inv))

\* A test ends by itself or has used up its restorations, through restarts, a cancelled
\* caller, missing feedback, an unload or a stop in any order, as long as no write and no
\* command is refused: it is never left without somebody to end it.
TestEnds ==
    <>[](life = "up" /\ left.smooth /\ ~man.hold)
        => <>[](~Testing \/ diag.phase = "restore_failed")

=============================================================================
