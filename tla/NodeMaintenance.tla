---------------------------- MODULE NodeMaintenance ----------------------------
(***************************************************************************)
(* Host maintenance of one site (maintenance.py, maintenance_safety.py,    *)
(* maintenance_adapter.py): a request is recorded, waits until the site is *)
(* idle, takes the locks of the battery and the EV controller, raises the  *)
(* fence that stops their commands, and then backs up, checks, installs    *)
(* and restarts.  Every call may fail, or be cut by the overall timeout,   *)
(* and Home Assistant may stop at any of them.                             *)
(*                                                                         *)
(* "todo" is the rest of _run: its head is the call that is awaited.  What *)
(* the code does between two calls happens in the step that ends the first.*)
(***************************************************************************)
EXTENDS Integers, Sequences, FiniteSets

CONSTANTS
    Requests,   \* the requests that may be issued, numbered in order of issue
    Versions,   \* the published releases, in order
    MaxEvents   \* bound: disturbances, foreign installs and unasked stops

ASSUME RequestsAssumption == Requests \subseteq Nat \ {0} /\ IsFiniteSet(Requests)
ASSUME EventsAssumption == MaxEvents \in Nat
ASSUME VersionsAssumption == Versions \subseteq Nat \ {0} /\ Versions # {}

VARIABLES
    node,     \* memory of NodeMaintenance and the fence: record, task, trust
    file,     \* the stored record
    host,     \* installed files and running version; history: whether somebody else
              \* replaced the files
    lock,     \* the controllers' locks: "free", "controller" or "node"
    ctl,      \* the controllers: their plan, and whether they block maintenance
    asked,    \* the requests sent so far, and whether they are younger than a minute
    calls,    \* history: how often a request called for an install and for a restart
    events    \* disturbances, foreign installs and unasked stops so far

vars == <<node, file, host, lock, ctl, asked, calls, events>>

Controllers == {"battery", "ev"}
InProgress == {"waiting", "backing_up", "installing", "checking", "restart_requested"}
Phases == InProgress \cup {"idle", "restart_pending", "verified", "failed", "interrupted", "unknown"}
Actions == {"update_and_restart", "restart"}

NoBackup == 0
NoRecord == [id |-> 0, action |-> "restart", version |-> 0, phase |-> "idle",
             backup |-> NoBackup, own |-> FALSE, lapsed |-> FALSE]
Down == [up |-> FALSE, rec |-> NoRecord, trusted |-> FALSE, todo |-> <<>>,
         installed |-> FALSE, fence |-> FALSE, watched |-> FALSE]
Unasked == [action |-> "none", version |-> 0, fresh |-> FALSE]

Init ==
    /\ node = Down /\ file = NoRecord
    /\ \E v \in Versions :
           host = [files |-> v, running |-> v, foreign |-> FALSE]
    /\ lock = [c \in Controllers |-> "free"]
    /\ ctl = [c \in Controllers |-> [pc |-> "idle", busy |-> FALSE]]
    /\ asked = [r \in Requests |-> Unasked]
    /\ calls = [r \in Requests |-> [install |-> 0, restart |-> 0]]
    /\ events = 0

-----------------------------------------------------------------------------
(* maintenance_safety.py: any session, mode, target or missing evidence blocks. *)

Blocked == \E c \in Controllers : ctl[c].busy
Pending == host.files # host.running

\* _check_current; a request has lapsed when its time is over or the settings changed.
Current(rec) == ~rec.lapsed /\ ~Blocked

-----------------------------------------------------------------------------
(* The calls of _run.  After "rechecked" ones the request must still be current. *)

Call(name, arg, rechecked) == [name |-> name, arg |-> arg, rechecked |-> rechecked]
Save(phase, rechecked) == Call("save", phase, rechecked)

Admission == <<Call("admit", "none", FALSE)>>
Waiting == <<Call("wait", "none", FALSE)>>
Closing == <<Call("close", "none", FALSE)>>

\* maintenance_locks
Locks == <<Call("lock", "battery", FALSE), Call("lock", "ev", TRUE)>>
Preparation ==
    <<Call("admin", "none", FALSE), Save("backing_up", TRUE), Call("backup", "none", TRUE),
      Save("checking", FALSE), Call("check", "none", TRUE)>>

Installation ==
    <<Call("admin", "none", FALSE), Save("installing", TRUE), Call("install", "none", TRUE),
      Save("checking", FALSE), Call("check", "none", TRUE)>>
Restart ==
    <<Save("restart_requested", TRUE), Call("admin", "none", TRUE), Call("restart", "none", FALSE)>>

\* Fault for the runs: the controllers are not drained before the fence is raised.
RunUndrained(action) ==
    Preparation \o (IF action = "restart" THEN <<>> ELSE Installation) \o Restart
Run(action) ==
    Locks \o Preparation \o (IF action = "restart" THEN <<>> ELSE Installation) \o Restart

\* What the code does before it awaits the first call of "rest", after "last".
Begin(n, last, rest) ==
    LET next == Head(rest) IN
    [n EXCEPT !.todo = rest,
              !.rec.phase = IF next.name = "save" THEN next.arg ELSE @,
              !.rec.backup = IF last.name = "backup" /\ @ = NoBackup THEN host.files ELSE @,
              !.fence = @ \/ next = Save("backing_up", TRUE),
              !.installed = @ \/ next.name = "install"]

\* The handler of an exception: the outcome is recorded, the locks are free again.
Failed(n) ==
    [n EXCEPT !.rec.phase = IF n.installed THEN "restart_pending" ELSE "failed",
              !.todo = Closing]
Freed == [c \in Controllers |-> IF lock[c] = "node" THEN "free" ELSE lock[c]]

\* Any call ends the operation when it raises or the half hour is over.
Fails(n) == node' = Failed(n) /\ lock' = Freed /\ UNCHANGED calls

\* A call has returned: the next one begins, unless the request is no longer current.
Returns(n, held) ==
    LET last == Head(n.todo)  rest == Tail(n.todo) IN
    IF last.rechecked /\ ~Current(n.rec) THEN Fails(n)
    ELSE /\ node' = Begin(n, last, rest)
         /\ lock' = IF Head(rest).name = "restart"
                      THEN [c \in Controllers |-> IF held[c] = "node" THEN "free" ELSE held[c]]
                      ELSE held
         /\ calls' = IF Head(rest).name \notin {"install", "restart"} THEN calls
                     ELSE [calls EXCEPT ![n.rec.id][Head(rest).name] = @ + 1]

Awaits(name) == node.up /\ node.todo # <<>> /\ Head(node.todo).name = name
Calm == UNCHANGED <<ctl, asked, events>>
Event == events < MaxEvents /\ events' = events + 1

-----------------------------------------------------------------------------
(* Admission. *)

\* Fault for the runs: only the age of a request is looked at, not its order.
AcceptableAnyOrder(r) == asked[r].fresh
\* A request is new when it is young and was issued after the recorded one.
Acceptable(r) == asked[r].fresh /\ r > node.rec.id

Admissible(r) ==
    /\ node.trusted /\ node.todo = <<>>
    /\ node.rec.phase # "restart_requested"
    /\ asked[r].action = "update_and_restart" =>
          /\ node.rec.phase # "restart_pending" /\ ~Pending
          /\ asked[r].version > host.files

\* Fault for the runs: every request starts without a backup.
KeptBackupNone == NoBackup
\* The backup a pending restart may have to be rolled back to.
KeptBackup ==
    IF Pending \/ node.rec.phase = "restart_pending" THEN node.rec.backup ELSE NoBackup

\* The hub, or an administrator on the site, sends a request once; it may be lost, late
\* or delivered again (fleet_maintenance.py, async_request).
Issue ==
    /\ \E r \in Requests : \E action \in Actions, v \in Versions :
          /\ asked[r] = Unasked /\ \A earlier \in Requests : earlier < r => asked[earlier] # Unasked
          /\ IF action = "restart" THEN v = host.files ELSE v > host.files
          /\ asked' = [asked EXCEPT ![r] = [action |-> action, version |-> v, fresh |-> TRUE]]
    /\ UNCHANGED <<node, file, host, lock, ctl, calls, events>>

\* async_submit: a request whose id is recorded is only reported on.
Accepts(r) == r # node.rec.id /\ Acceptable(r) /\ Admissible(r)
Accept(r) ==
    node' = [node EXCEPT
        !.rec = [id |-> r, action |-> asked[r].action,
                 version |-> IF asked[r].action = "restart" THEN host.files ELSE asked[r].version,
                 phase |-> "waiting", backup |-> KeptBackup, own |-> TRUE, lapsed |-> FALSE],
        !.todo = Admission]
Submit(r) ==
    /\ node.up /\ asked[r] # Unasked /\ Accepts(r) /\ Accept(r)
    /\ UNCHANGED <<file, host, lock, calls>> /\ Calm

\* What the audit record keeps for the next start.
Stored(rec) == [rec EXCEPT !.own = FALSE, !.lapsed = FALSE]

\* The record is stored, or the request is refused and nothing runs for it.
Admit ==
    /\ Awaits("admit")
    /\ \/ /\ file' = Stored(node.rec)
          /\ node' = [node EXCEPT !.todo = Waiting,
                 !.installed = node.rec.action = "restart" /\ node.rec.version # host.running]
       \/ node' = [node EXCEPT !.trusted = FALSE, !.todo = <<>>] /\ UNCHANGED file
    /\ UNCHANGED <<host, lock, calls>> /\ Calm

-----------------------------------------------------------------------------
(* _run *)

\* Every half minute, until the site is idle or the request no longer holds.
Wait ==
    /\ Awaits("wait")
    /\ \/ /\ Blocked /\ node.rec.lapsed
          /\ Fails(node)
       \/ /\ ~Blocked /\ node' = Begin(node, Head(node.todo), Run(node.rec.action))
          /\ UNCHANGED <<lock, calls>>
    /\ UNCHANGED <<file, host>> /\ Calm

TakeLock ==
    /\ Awaits("lock")
    /\ \/ /\ lock[Head(node.todo).arg] = "free"
          /\ Returns(node, [lock EXCEPT ![Head(node.todo).arg] = "node"])
       \/ Fails(node)
    /\ UNCHANGED <<file, host>> /\ Calm

\* async_require_admin, the backup and the check of the configuration.
Prepare ==
    /\ \E name \in {"admin", "backup", "check"} :
          /\ Awaits(name)
          /\ \/ Returns(node, lock)
             \/ Fails(node)
    /\ UNCHANGED <<file, host>> /\ Calm

\* _phase: a record that is not stored is no longer trusted.
SavePhase ==
    /\ Awaits("save")
    /\ \/ file' = Stored(node.rec) /\ Returns(node, lock)
       \/ Fails([node EXCEPT !.trusted = FALSE]) /\ UNCHANGED file
    /\ UNCHANGED host /\ Calm

\* async_install; a call that raises may have replaced the files before.
Install ==
    /\ Awaits("install")
    /\ LET replaced == [host EXCEPT !.files = node.rec.version] IN
       \/ node.rec.version > host.files /\ host' = replaced /\ Returns(node, lock)
       \/ node.rec.version > host.files /\ host' = replaced /\ Fails(node)
       \/ Fails(node) /\ UNCHANGED host
    /\ UNCHANGED file /\ Calm

\* async_request_restart: accepted means scheduled.
RequestRestart ==
    /\ Awaits("restart")
    /\ \/ /\ node' = [node EXCEPT !.todo = <<>>, !.watched = TRUE]
          /\ UNCHANGED <<lock, calls>>
       \/ Fails(node)
    /\ UNCHANGED <<file, host>> /\ Calm

\* The outcome is stored or not; the fence falls in either case.
Close ==
    /\ Awaits("close")
    /\ \/ file' = Stored(node.rec) /\ node' = [node EXCEPT !.todo = <<>>, !.fence = FALSE]
       \/ /\ node' = [node EXCEPT !.todo = <<>>, !.fence = FALSE, !.trusted = FALSE]
          /\ UNCHANGED file
    /\ UNCHANGED <<host, lock, calls>> /\ Calm

\* A phase recorded outside _run.
Record(n) ==
    \/ node' = n /\ file' = Stored(n.rec)
    \/ node' = [n EXCEPT !.trusted = FALSE] /\ UNCHANGED file

\* Fault for the runs: the fence is left to a restart that does not come.
UnobservedFenced == [node EXCEPT !.rec.phase = "unknown", !.watched = FALSE]
Unobserved == [node EXCEPT !.rec.phase = "unknown", !.watched = FALSE, !.fence = FALSE]
\* Two minutes later Home Assistant still runs.
RestartNotObserved ==
    /\ node.up /\ node.watched /\ node.rec.phase = "restart_requested"
    /\ Record(Unobserved)
    /\ UNCHANGED <<host, lock, calls>> /\ Calm

NodeStep == \/ Admit \/ Wait \/ TakeLock \/ Prepare \/ SavePhase \/ Install
            \/ RequestRestart \/ Close

-----------------------------------------------------------------------------
(* Stop and start of Home Assistant. *)

\* The scheduled restart, a crash or somebody else's restart.
Stop ==
    /\ node.up /\ node' = Down
    /\ IF node.watched THEN UNCHANGED events ELSE Event
    /\ lock' = [c \in Controllers |-> "free"]
    /\ ctl' = [c \in Controllers |-> [ctl[c] EXCEPT !.pc = "idle"]]
    /\ UNCHANGED <<file, host, asked, calls>>

\* async_restore: an operation is never resumed; a requested restart awaits its proof.
Restored ==
    [file EXCEPT !.phase = IF @ \in InProgress \ {"restart_requested"} THEN "interrupted" ELSE @]
Boot ==
    /\ ~node.up
    /\ LET n == [Down EXCEPT !.up = TRUE, !.trusted = TRUE, !.rec = Restored] IN
       IF Restored.phase = file.phase THEN node' = n /\ UNCHANGED file ELSE Record(n)
    /\ host' = [host EXCEPT !.running = host.files, !.foreign = FALSE]
    /\ UNCHANGED <<lock, calls>> /\ Calm

\* async_status after the boot: healthy with the same settings, or given up.
Verify ==
    /\ node.up /\ node.rec.phase = "restart_requested" /\ ~node.rec.own
    /\ \E healthy \in BOOLEAN :
          Record([node EXCEPT !.rec.phase =
                      IF healthy /\ host.running = node.rec.version THEN "verified" ELSE "failed"])
    /\ UNCHANGED <<host, lock, calls>> /\ Calm

-----------------------------------------------------------------------------
(* The controllers and the world. *)

\* Both controllers look at the fence before they decide anything, and the adapters
\* before every command.
Reconcile(c) ==
    /\ node.up /\ ctl[c].pc = "idle" /\ lock[c] = "free" /\ ~node.fence /\ Event
    /\ lock' = [lock EXCEPT ![c] = "controller"]
    /\ ctl' = [ctl EXCEPT ![c] = [pc |-> "plan", busy |-> TRUE]]
    /\ UNCHANGED <<node, file, host, asked, calls>>

Command(c) ==
    /\ ctl[c].pc = "plan"
    /\ IF node.fence
         THEN ctl' = [ctl EXCEPT ![c].pc = "idle"] /\ lock' = [lock EXCEPT ![c] = "free"]
         ELSE ctl' = [ctl EXCEPT ![c].pc = "sent"] /\ UNCHANGED lock
    /\ UNCHANGED <<node, file, host, asked, calls, events>>

\* The command has come through: another follows, or the plan ends.
Effect(c) ==
    /\ ctl[c].pc = "sent"
    /\ \/ ctl' = [ctl EXCEPT ![c].pc = "plan"] /\ UNCHANGED lock
       \/ /\ \E busy \in BOOLEAN : ctl' = [ctl EXCEPT ![c] = [pc |-> "idle", busy |-> busy]]
          /\ lock' = [lock EXCEPT ![c] = "free"]
    /\ UNCHANGED <<node, file, host, asked, calls, events>>

Still == UNCHANGED <<file, lock, calls>>
\* The driver, the inverter itself or lost telemetry.
Disturb(c) ==
    /\ ctl[c].pc = "idle" /\ ctl' = [ctl EXCEPT ![c].busy = ~@] /\ Event
    /\ UNCHANGED <<node, host, asked>> /\ Still
\* Somebody installs a release with HACS itself.
InstallElsewhere ==
    /\ \E v \in Versions \ {host.files} :
           host' = [host EXCEPT !.files = v, !.foreign = TRUE]
    /\ Event
    /\ UNCHANGED <<node, ctl, asked>> /\ Still
Lapse ==
    /\ node.todo # <<>> /\ ~node.rec.lapsed /\ node' = [node EXCEPT !.rec.lapsed = TRUE]
    /\ UNCHANGED <<host, ctl, asked, events>> /\ Still
Age ==
    /\ \E r \in Requests : asked[r].fresh /\ asked' = [asked EXCEPT ![r].fresh = FALSE]
    /\ UNCHANGED <<node, host, ctl, events>> /\ Still

Controller == \E c \in Controllers : Reconcile(c) \/ Command(c) \/ Effect(c)
World == \/ \E c \in Controllers : Disturb(c)
         \/ InstallElsewhere \/ Lapse \/ Age \/ Stop
Timers == Boot \/ Verify \/ RestartNotObserved

Next == \/ Issue
        \/ \E r \in Requests : Submit(r)
        \/ NodeStep \/ Controller \/ World \/ Timers
Spec == Init /\ [][Next]_vars

\* Every call of _run returns or is cut, an hour ends and the timers fire.
FairSpec == Spec /\ WF_vars(NodeStep) /\ WF_vars(Lapse) /\ WF_vars(Timers)
-----------------------------------------------------------------------------
(* Properties. *)

\* However often a request is delivered, and whatever it meets, it installs and
\* restarts at most once (maintenance.py: never replays an interrupted operation).
OneShot == \A r \in Requests : calls[r].install <= 1 /\ calls[r].restart <= 1

\* While HEO's own download waits for its restart, the record names a backup of the
\* version that still runs, through failed attempts and further requests.
RecoverableBackup ==
    node.up /\ Pending /\ ~host.foreign => node.rec.backup = host.running

\* No command of either controller is on its way while the fence is up.
Fenced == node.fence => \A c \in Controllers : ctl[c].pc # "sent"

\* Maintenance is over in the end, whatever fails: the fence and the locks are given
\* back, and no record of a running node stays in progress, unless its store has failed.
MaintenanceEnds ==
    []<>(/\ ~node.fence /\ node.todo = <<>> /\ \A c \in Controllers : lock[c] # "node"
         /\ node.up /\ node.trusted => node.rec.phase \notin InProgress)
===============================================================================
