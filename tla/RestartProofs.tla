----------------------------- MODULE RestartProofs -----------------------------
(***************************************************************************)
(* Proofs about the two parts that restart a device, and must not do it    *)
(* twice.                                                                  *)
(*                                                                         *)
(* The host maintenance of a site (NodeMaintenance): for any set of        *)
(* requests and releases, a request is installed and restarted at most     *)
(* once, no controller command crosses the raised fence, and a download    *)
(* that waits for its restart has a backup of what still runs.  All three  *)
(* are about what is still to come, so the inductive invariants speak of   *)
(* the calls left in node.todo: in which order they may stand (Paired),    *)
(* what has not been counted, locked or backed up before they are made.    *)
(*                                                                         *)
(* The car's smart socket (SmartSocket): at most one power cycle, for      *)
(* every duration of the phases, of the sustained evidence and of the      *)
(* retry, and every number of changes.                                     *)
(***************************************************************************)
EXTENDS NodeMaintenance, SmartSocket, TLAPS

CallNames ==
    {"admit", "wait", "close", "lock", "admin", "save", "backup", "check", "install", "restart"}
AllCalls ==
    {c \in [name : CallNames, arg : Controllers \cup Phases \cup {"none"}, rechecked : BOOLEAN] :
        c.name = "save" => c.arg \in Phases}
Records == [id : Nat, action : Actions, version : Nat, phase : Phases, backup : Nat,
            own : BOOLEAN, lapsed : BOOLEAN]
Nodes == [up : BOOLEAN, rec : Records, trusted : BOOLEAN, todo : Seq(AllCalls),
          installed : BOOLEAN, fence : BOOLEAN, watched : BOOLEAN]
Hosts == [files : Nat \ {0}, running : Nat \ {0}, foreign : BOOLEAN]

TypeOK ==
    /\ node \in Nodes /\ file \in Records
    /\ host \in Hosts
    /\ lock \in [Controllers -> {"free", "controller", "node"}]
    /\ ctl \in [Controllers -> [pc : {"idle", "plan", "sent"}, busy : BOOLEAN]]
    /\ asked \in [Requests -> [action : Actions, version : Versions, fresh : BOOLEAN]
                                 \cup {Unasked}]
    /\ calls \in [Requests -> [install : Nat, restart : Nat]]
    /\ events \in Nat

-----------------------------------------------------------------------------
(* The order of the calls that are left. *)

\* The call before which the fence goes up.
Raises(c) == c.name = "save" /\ c.arg = "backing_up"

\* y may come after x.
Allowed(x, y) ==
    /\ x.name # "restart"
    /\ x.name = "install" => y.name \notin {"install", "backup"}
    /\ x.name = "backup" => y.name # "backup"
    /\ Raises(x) => y.name # "lock"
Paired(s) == \A i, j \in DOMAIN s : i < j => Allowed(s[i], s[j])

\* A run ends with the restart, everything else is one call.
Closes(s) == s # <<>> => s[Len(s)].name \in {"admit", "wait", "close", "restart"}

Names(s) == {s[i].name : i \in DOMAIN s}
Before == {Admission, Waiting}
Later(k) == \E i \in DOMAIN node.todo : i > 1 /\ node.todo[i].name = k

QueueInv ==
    /\ Paired(node.todo) /\ Closes(node.todo)
    /\ node.todo # <<>> /\ node.todo[1].name # "close" => node.rec.id \in Requests
    /\ {"admit", "wait"} \cap Names(node.todo) # {} => node.todo \in Before
    /\ "install" \in Names(node.todo) => node.rec.action = "update_and_restart"

-----------------------------------------------------------------------------
(* What the three invariants rest on. *)

Counted ==
    /\ \A r \in Requests : r > file.id => calls[r].install = 0 /\ calls[r].restart = 0
    /\ node.up => node.rec.id >= file.id
    /\ node.todo # <<>> /\ node.todo # Admission => node.rec.id = file.id
    /\ node.todo \in Before \/ Later("install") => calls[node.rec.id].install = 0
    /\ node.todo \in Before \/ Later("restart") => calls[node.rec.id].restart = 0

Guarded ==
    /\ \A c \in Controllers : ctl[c].pc # "idle" => lock[c] = "controller"
    /\ (\E i \in DOMAIN node.todo : i > 1 /\ Raises(node.todo[i])) =>
          \A c \in Controllers :
             \/ lock[c] = "node"
             \/ \E i \in DOMAIN node.todo : node.todo[i].name = "lock" /\ node.todo[i].arg = c

Unbacked ==
    /\ node.rec.action = "update_and_restart"
    /\ node.todo \in Before \/ "backup" \in Names(node.todo)
Backed ==
    /\ ~host.foreign /\ Unbacked => ~Pending /\ node.rec.backup = NoBackup
    /\ ~host.foreign /\ "install" \in Names(node.todo) =>
          ~Pending /\ ("backup" \in Names(node.todo) \/ node.rec.backup = host.running)

-----------------------------------------------------------------------------
(* The order of a run. *)

\* Every call of the four parts of a run, and the sets they are drawn from.
LockCalls == {c \in AllCalls : c.name = "lock"}
SafeCalls == {c \in AllCalls : c.name \in {"admin", "save", "backup", "check"}}
WriteCalls == {c \in AllCalls : /\ c.name \in {"admin", "save", "install", "check"}
                                /\ ~Raises(c)}
LastCalls == {c \in AllCalls : c.name \in {"save", "admin", "restart"} /\ ~Raises(c)}

\* What a concatenation holds.
LEMMA Concatenated ==
    ASSUME NEW A, NEW B, NEW s \in Seq(A), NEW t \in Seq(B)
    PROVE  /\ s \o t \in Seq(A \cup B) /\ Len(s \o t) = Len(s) + Len(t)
           /\ \A i \in 1 .. Len(s) : (s \o t)[i] = s[i]
           /\ \A i \in 1 .. Len(t) : (s \o t)[Len(s) + i] = t[i]
<1>1. s \o t \in Seq(A \cup B) /\ Len(s \o t) = Len(s) + Len(t)
  OBVIOUS
<1>2. \A i \in 1 .. Len(s) + Len(t) : (s \o t)[i] = IF i <= Len(s) THEN s[i] ELSE t[i - Len(s)]
  OBVIOUS
<1>3. /\ \A i \in 1 .. Len(s) : (s \o t)[i] = s[i]
      /\ \A i \in 1 .. Len(t) : (s \o t)[Len(s) + i] = t[i]
  <2>1. \A i \in 1 .. Len(s) : i \in 1 .. Len(s) + Len(t) /\ i <= Len(s)
    OBVIOUS
  <2>2. \A i \in 1 .. Len(t) : /\ Len(s) + i \in 1 .. Len(s) + Len(t)
                                /\ ~(Len(s) + i <= Len(s)) /\ (Len(s) + i) - Len(s) = i
    OBVIOUS
  <2> QED
    BY <1>2, <2>1, <2>2
<1> QED
  BY <1>1, <1>3

\* A concatenation is in order when its two parts are and every call of the second may
\* follow every call of the first.
LEMMA Chained ==
    ASSUME NEW A, NEW B, NEW s \in Seq(A), NEW t \in Seq(B),
           Paired(s), Paired(t), \A x \in A, y \in B : Allowed(x, y)
    PROVE  Paired(s \o t)
<1>1. s \o t \in Seq(A \cup B) /\ Len(s \o t) = Len(s) + Len(t)
  OBVIOUS
<1>2. \A i \in 1 .. Len(s) + Len(t) : (s \o t)[i] = IF i <= Len(s) THEN s[i] ELSE t[i - Len(s)]
  OBVIOUS
<1>3. \A i \in 1 .. Len(s) : (s \o t)[i] = s[i]
  BY Concatenated
<1>4. ASSUME NEW i \in 1 .. Len(s) + Len(t), NEW j \in 1 .. Len(s) + Len(t), i < j
      PROVE  Allowed((s \o t)[i], (s \o t)[j])
  <2>1. CASE j <= Len(s)
    <3>1. /\ (s \o t)[i] = s[i] /\ (s \o t)[j] = s[j]
          /\ i \in DOMAIN s /\ j \in DOMAIN s
      BY <1>3, <1>4, <2>1
    <3> QED
      BY <1>4, <3>1 DEF Paired
  <2>2. CASE i <= Len(s) /\ ~(j <= Len(s))
    <3>1. /\ (s \o t)[i] = s[i] /\ (s \o t)[j] = t[j - Len(s)]
          /\ s[i] \in A /\ t[j - Len(s)] \in B
      BY <1>2, <1>4, <2>2
    <3> QED
      BY <3>1
  <2>3. CASE ~(i <= Len(s))
    <3>1. /\ (s \o t)[i] = t[i - Len(s)] /\ (s \o t)[j] = t[j - Len(s)]
          /\ i - Len(s) \in DOMAIN t /\ j - Len(s) \in DOMAIN t /\ i - Len(s) < j - Len(s)
      BY <1>2, <1>4, <2>3
    <3> QED
      BY <3>1 DEF Paired
  <2> QED
    BY <2>1, <2>2, <2>3
<1>5. DOMAIN (s \o t) = 1 .. Len(s) + Len(t)
  BY <1>1
<1> QED
  BY <1>4, <1>5 DEF Paired

\* The single calls outside a run.
LEMMA SingleCalls ==
    ASSUME NEW s \in {Admission, Waiting, Closing}
    PROVE  /\ s \in Seq(AllCalls) /\ Len(s) = 1 /\ s # <<>> /\ DOMAIN s = {1}
           /\ s[1].name \in {"admit", "wait", "close"}
           /\ Paired(s) /\ Closes(s)
<1>1. PICK c \in AllCalls : s = <<c>> /\ c.name \in {"admit", "wait", "close"}
  <2>1. /\ Call("admit", "none", FALSE) \in AllCalls /\ Call("wait", "none", FALSE) \in AllCalls
        /\ Call("close", "none", FALSE) \in AllCalls
    BY DEF Call, AllCalls, CallNames
  <2>2. /\ Call("admit", "none", FALSE).name = "admit" /\ Call("wait", "none", FALSE).name = "wait"
        /\ Call("close", "none", FALSE).name = "close"
    BY DEF Call
  <2> QED
    BY <2>1, <2>2 DEF Admission, Waiting, Closing
<1>2. /\ s \in Seq(AllCalls) /\ Len(s) = 1 /\ s # <<>> /\ DOMAIN s = {1}
      /\ s[1].name \in {"admit", "wait", "close"}
  BY <1>1
<1> QED
  BY <1>2 DEF Paired, Closes

\* The four parts are in order.
LEMMA PartsOrdered ==
    /\ Locks \in Seq(LockCalls) /\ Paired(Locks) /\ Len(Locks) = 2
    /\ Locks[1].name = "lock" /\ Locks[1].arg = "battery"
    /\ Locks[2].name = "lock" /\ Locks[2].arg = "ev"
    /\ Preparation \in Seq(SafeCalls) /\ Paired(Preparation)
    /\ Len(Preparation) = 5 /\ Preparation[3].name = "backup"
    /\ Installation \in Seq(WriteCalls) /\ Paired(Installation)
    /\ Restart \in Seq(LastCalls) /\ Paired(Restart) /\ Len(Restart) = 3
    /\ Restart[3].name = "restart"
<1>1. /\ Locks \in Seq(LockCalls) /\ Paired(Locks) /\ Len(Locks) = 2
      /\ Locks[1].name = "lock" /\ Locks[1].arg = "battery"
      /\ Locks[2].name = "lock" /\ Locks[2].arg = "ev"
  BY DEF Locks, LockCalls, Call, AllCalls, CallNames, Controllers, Paired, Allowed, Raises
<1>2. Preparation \in Seq(SafeCalls)
  BY DEF Preparation, SafeCalls, Call, Save, AllCalls, CallNames, Phases, InProgress
<1>3. Paired(Preparation) /\ Len(Preparation) = 5 /\ Preparation[3].name = "backup"
  BY DEF Preparation, Call, Save, Paired, Allowed, Raises
<1>4. Installation \in Seq(WriteCalls)
  BY DEF Installation, WriteCalls, Call, Save, AllCalls, CallNames, Phases, InProgress, Raises
<1>5. Paired(Installation)
  BY DEF Installation, Call, Save, Paired, Allowed, Raises
<1>6. /\ Restart \in Seq(LastCalls) /\ Paired(Restart) /\ Len(Restart) = 3
      /\ Restart[3].name = "restart"
  BY DEF Restart, LastCalls, Call, Save, AllCalls, CallNames, Phases, InProgress, Paired,
         Allowed, Raises
<1> QED
  BY <1>1, <1>2, <1>3, <1>4, <1>5, <1>6

\* A run is in order, takes both locks first and ends with the restart; a mere
\* restart installs nothing.
LEMMA RunOrdered ==
    ASSUME NEW action \in Actions
    PROVE  /\ Run(action) \in Seq(AllCalls) /\ Paired(Run(action)) /\ Closes(Run(action))
           /\ Len(Run(action)) > 2 /\ Run(action) # <<>>
           /\ Run(action)[1].name = "lock" /\ Run(action)[1].arg = "battery"
           /\ Run(action)[2].name = "lock" /\ Run(action)[2].arg = "ev"
           /\ {"admit", "wait", "close"} \cap Names(Run(action)) = {}
           /\ "install" \in Names(Run(action)) => action = "update_and_restart"
           /\ "backup" \in Names(Run(action))
<1> DEFINE P == Locks \o Preparation
           Middle == IF action = "restart" THEN <<>> ELSE Installation
           C == IF action = "restart" THEN {} ELSE WriteCalls
           A == LockCalls \cup SafeCalls
           D == A \cup C
<1>1. /\ LockCalls \subseteq AllCalls /\ SafeCalls \subseteq AllCalls
      /\ WriteCalls \subseteq AllCalls /\ LastCalls \subseteq AllCalls
      /\ A \subseteq AllCalls /\ C \subseteq AllCalls /\ D \subseteq AllCalls
      /\ D \cup LastCalls \subseteq AllCalls
  BY DEF LockCalls, SafeCalls, WriteCalls, LastCalls
<1>2. /\ \A x \in LockCalls, y \in SafeCalls : Allowed(x, y)
      /\ \A x \in A, y \in C : Allowed(x, y)
      /\ \A x \in D, y \in LastCalls : Allowed(x, y)
  BY DEF LockCalls, SafeCalls, WriteCalls, LastCalls, Allowed, Raises
<1>3. Middle \in Seq(C) /\ Paired(Middle)
  <2>1. CASE action = "restart"
    <3>1. Middle = <<>> /\ C = {}
      BY <2>1
    <3>2. <<>> \in Seq({}) /\ Paired(<<>>)
      BY DEF Paired
    <3> QED
      BY <3>1, <3>2
  <2>2. CASE action # "restart"
    BY <2>2, PartsOrdered
  <2> QED
    BY <2>1, <2>2
<1>4. /\ \A x \in D \cup LastCalls : x.name \notin {"admit", "wait", "close"}
      /\ action = "restart" => \A x \in D \cup LastCalls : x.name # "install"
  BY DEF LockCalls, SafeCalls, WriteCalls, LastCalls
<1> HIDE DEF Middle, C
<1>5. /\ P \in Seq(A) /\ Paired(P) /\ Len(P) = 7 /\ P[1] = Locks[1] /\ P[2] = Locks[2]
      /\ P[5] = Preparation[3]
  <2>1. /\ Locks \in Seq(LockCalls) /\ Paired(Locks) /\ Len(Locks) = 2
        /\ Preparation \in Seq(SafeCalls) /\ Paired(Preparation)
    BY PartsOrdered
  <2>2. Paired(P)
    BY <1>2, <2>1, Chained
  <2>3. /\ P \in Seq(A) /\ Len(P) = Len(Locks) + Len(Preparation)
        /\ \A i \in 1 .. Len(Locks) : P[i] = Locks[i]
        /\ \A i \in 1 .. Len(Preparation) : P[Len(Locks) + i] = Preparation[i]
    <3>1. Locks \in Seq(LockCalls) /\ Preparation \in Seq(SafeCalls)
      BY <2>1
    <3> QED
      BY <3>1, Concatenated
  <2>4. Len(Preparation) = 5 /\ 1 \in 1 .. Len(Locks) /\ 2 \in 1 .. Len(Locks)
        /\ 3 \in 1 .. Len(Preparation)
    BY <2>1, PartsOrdered
  <2>5. P[5] = Preparation[3]
    <3>1. P[Len(Locks) + 3] = Preparation[3]
      BY <2>4, <2>3
    <3> HIDE DEF P
    <3> QED
      BY <2>1, <3>1
  <2> QED
    BY <2>1, <2>2, <2>4, <2>3, <2>5
<1> HIDE DEF P, A
<1>6. LET Q == P \o Middle IN
      Q \in Seq(D) /\ Paired(Q) /\ Len(Q) >= 7 /\ Q[1] = P[1] /\ Q[2] = P[2] /\ Q[5] = P[5]
  <2> DEFINE Q == P \o Middle
  <2>1. Paired(Q)
    BY <1>2, <1>3, <1>5, Chained
  <2>2. /\ Q \in Seq(D) /\ Len(Q) = Len(P) + Len(Middle)
        /\ \A i \in 1 .. Len(P) : Q[i] = P[i]
    <3>1. P \in Seq(A) /\ Middle \in Seq(C)
      BY <1>3, <1>5
    <3> QED
      BY <3>1, Concatenated
  <2>3. Len(Middle) \in Nat /\ {1, 2, 5} \subseteq 1 .. Len(P) /\ Len(P) = 7
    BY <1>3, <1>5
  <2> HIDE DEF Q
  <2>4. Q \in Seq(D) /\ Paired(Q) /\ Len(Q) >= 7 /\ Q[1] = P[1] /\ Q[2] = P[2] /\ Q[5] = P[5]
    BY <1>5, <2>1, <2>3, <2>2
  <2> QED
    BY <2>4 DEF Q
<1> DEFINE Q == P \o Middle
<1> HIDE DEF Q, D
<1>7. LET R == Q \o Restart IN
      /\ R \in Seq(D \cup LastCalls) /\ Paired(R) /\ Len(R) >= 7 /\ R[1] = Q[1] /\ R[2] = Q[2]
      /\ R[5] = Q[5] /\ R[Len(R)] = Restart[3]
  <2>1. Q \in Seq(D) /\ Paired(Q) /\ Len(Q) >= 7
    BY <1>6 DEF Q
  <2>2. Restart # <<>>
    BY DEF Restart
  <2>3. Restart \in Seq(LastCalls) /\ Paired(Restart) /\ Len(Restart) = 3
    BY PartsOrdered
  <2> DEFINE R == Q \o Restart
  <2>4. Paired(R)
    BY <1>2, <2>1, <2>3, Chained
  <2>5. /\ R \in Seq(D \cup LastCalls) /\ Len(R) = Len(Q) + Len(Restart)
        /\ \A i \in 1 .. Len(Q) : R[i] = Q[i]
        /\ \A i \in 1 .. Len(Restart) : R[Len(Q) + i] = Restart[i]
    <3>1. Q \in Seq(D) /\ Restart \in Seq(LastCalls)
      BY <2>1, <2>3
    <3> QED
      BY <2>2, <3>1, Concatenated
  <2>6. {1, 2, 5} \subseteq 1 .. Len(Q) /\ Len(Q) \in Nat /\ 3 \in 1 .. Len(Restart)
    BY <2>1, <2>3
  <2> HIDE DEF R
  <2>7. R[Len(R)] = Restart[3]
    BY <2>3, <2>5, <2>6
  <2>8. /\ R \in Seq(D \cup LastCalls) /\ Paired(R) /\ Len(R) >= 7 /\ R[1] = Q[1] /\ R[2] = Q[2]
        /\ R[5] = Q[5] /\ R[Len(R)] = Restart[3]
    BY <2>1, <2>3, <2>5, <2>6, <2>4, <2>7
  <2> QED
    BY <2>8 DEF R
<1>8. Run(action) = Q \o Restart
  BY DEF Run, Q, P, Middle
<1> DEFINE R == Run(action)
<1>9. /\ R \in Seq(D \cup LastCalls) /\ Paired(R) /\ Len(R) >= 7 /\ R[1] = Locks[1] /\ R[2] = Locks[2]
      /\ R[5] = Preparation[3] /\ R[Len(R)] = Restart[3]
  BY <1>5, <1>6, <1>7, <1>8 DEF Q
<1> HIDE DEF R
<1>10. R \in Seq(AllCalls) /\ R # <<>> /\ Closes(R)
  BY <1>1, <1>9, PartsOrdered DEF Closes
<1>11. \A i \in DOMAIN R : R[i] \in D \cup LastCalls
  BY <1>9
<1>12. /\ {"admit", "wait", "close"} \cap Names(R) = {}
       /\ "install" \in Names(R) => action # "restart"
  BY <1>4, <1>11 DEF Names
<1>13. "backup" \in Names(R)
  <2>1. 5 \in DOMAIN R
    BY <1>9
  <2> QED
    BY <1>9, <2>1, PartsOrdered DEF Names
<1> QED
  BY <1>9, <1>10, <1>12, <1>13, PartsOrdered DEF R, Actions

\* The rest of a run when its first call has returned.
LEMMA RestOrdered ==
    ASSUME NEW s \in Seq(AllCalls), s # <<>>, Paired(s), Closes(s),
           s[1].name \notin {"admit", "wait", "close", "restart"}
    PROVE  /\ Tail(s) \in Seq(AllCalls) /\ Tail(s) # <<>> /\ Paired(Tail(s)) /\ Closes(Tail(s))
           /\ Head(Tail(s)) = s[2] /\ 2 \in DOMAIN s
           /\ DOMAIN Tail(s) = 1 .. Len(s) - 1
           /\ \A i \in 1 .. Len(s) - 1 : Tail(s)[i] = s[i + 1] /\ i + 1 \in DOMAIN s
           /\ Names(Tail(s)) \subseteq Names(s)
<1>1. Len(s) > 1
  BY DEF Closes
<1>2. /\ Tail(s) \in Seq(AllCalls) /\ Len(Tail(s)) = Len(s) - 1 /\ DOMAIN Tail(s) = 1 .. Len(s) - 1
      /\ \A i \in 1 .. Len(s) - 1 : Tail(s)[i] = s[i + 1] /\ i + 1 \in DOMAIN s
  BY <1>1
<1>3. Tail(s) # <<>> /\ Head(Tail(s)) = s[2] /\ 2 \in DOMAIN s
  BY <1>1, <1>2
<1>4. Paired(Tail(s))
  BY <1>2 DEF Paired
<1>5. Closes(Tail(s))
  <2>1. Tail(s)[Len(s) - 1] = s[Len(s)]
    BY <1>1, <1>2
  <2> QED
    BY <1>2, <2>1 DEF Closes
<1>6. Names(Tail(s)) \subseteq Names(s)
  BY <1>2 DEF Names
<1> QED
  BY <1>2, <1>3, <1>4, <1>5, <1>6

-----------------------------------------------------------------------------
(* What a step comes to. *)

SameRequest ==
    /\ node'.up = node.up /\ node'.rec.id = node.rec.id
    /\ node'.rec.action = node.rec.action /\ node'.rec.version = node.rec.version
SameTask ==
    /\ SameRequest /\ node'.rec.backup = node.rec.backup /\ node'.todo = node.todo
    /\ node'.fence = node.fence

\* The files change only by the call that installs the recorded, newer version.
Installed ==
    \/ UNCHANGED host
    \/ /\ node.todo[1].name = "install" /\ node.rec.version > host.files
       /\ host' = [host EXCEPT !.files = node.rec.version]

\* A call of a run is awaited, and not its last.
InRun == node.todo # <<>> /\ node.todo[1].name \notin {"admit", "wait", "close", "restart"}

\* A record is stored under the identity it has in memory.
FileKept == file'.id = file.id \/ (node.up /\ file'.id = node.rec.id)

\* The next call of the run begins.
Advanced ==
    /\ InRun /\ SameRequest /\ FileKept /\ Installed /\ UNCHANGED ctl
    /\ node'.todo = Tail(node.todo)
    /\ node'.rec.backup = IF node.todo[1].name = "backup" /\ node.rec.backup = NoBackup
                            THEN host.files ELSE node.rec.backup
    /\ node'.fence => node.fence \/ Raises(node'.todo[1])
    /\ \A c \in Controllers : lock[c] = "controller" => lock'[c] = "controller"
    /\ node'.todo[1].name # "restart" =>
          \A c \in Controllers :
             lock[c] = "node" \/ (node.todo[1].name = "lock" /\ node.todo[1].arg = c)
                => lock'[c] = "node"
    /\ calls' = IF node'.todo[1].name \notin {"install", "restart"} THEN calls
                ELSE [calls EXCEPT ![node.rec.id][node'.todo[1].name] = @ + 1]

\* The operation ends early.
EndedEarly ==
    /\ node.todo # <<>> /\ node.todo[1].name \notin {"admit", "close"}
    /\ SameRequest /\ node'.rec.backup = node.rec.backup /\ FileKept /\ Installed
    /\ node'.todo = Closing /\ node'.fence = node.fence
    /\ \A c \in Controllers : lock[c] = "controller" => lock'[c] = "controller"
    /\ UNCHANGED <<ctl, calls>>

\* A request is accepted, stored, and its run begins.
Accepted ==
    \E r \in Requests :
        /\ node.up /\ node.todo = <<>> /\ Accepts(r) /\ node'.up /\ node'.fence = node.fence
        /\ node'.rec.id = r /\ node'.rec.action = asked[r].action
        /\ node'.rec.backup = KeptBackup /\ node'.todo = Admission
        /\ UNCHANGED <<file, host, lock, ctl, calls>>
Admitted ==
    /\ node.up /\ node.todo = Admission /\ node'.todo = Waiting /\ file'.id = node.rec.id
    /\ SameRequest /\ node'.rec.backup = node.rec.backup /\ node'.fence = node.fence
    /\ UNCHANGED <<host, lock, ctl, calls>>
Started ==
    /\ node.todo = Waiting /\ node'.todo = Run(node.rec.action)
    /\ SameRequest /\ node'.rec.backup = node.rec.backup /\ node'.fence = node.fence
    /\ UNCHANGED <<file, host, lock, ctl, calls>>

\* Nothing is left to do: the request was refused, the restart scheduled, the record closed.
Over ==
    /\ node'.todo = <<>> /\ SameRequest /\ node'.rec.backup = node.rec.backup
    /\ node'.fence => node.fence
    /\ FileKept
    /\ UNCHANGED <<host, lock, ctl, calls>>

\* An outcome is recorded outside a run.
Noted ==
    /\ SameRequest /\ node'.rec.backup = node.rec.backup /\ node'.todo = node.todo
    /\ node'.fence => node.fence
    /\ FileKept /\ UNCHANGED <<host, lock, ctl, calls>>

Stopped ==
    /\ node' = Down /\ \A c \in Controllers : ctl'[c].pc = "idle"
    /\ UNCHANGED <<file, host, calls>>
Booted ==
    /\ ~node.up /\ node'.up /\ node'.todo = <<>> /\ ~node'.fence
    /\ node'.rec.id = file.id /\ node'.rec.action = file.action /\ file'.id = file.id
    /\ host'.files = host'.running /\ UNCHANGED <<lock, ctl, calls>>

\* The controllers move while the node does not.
Controlled ==
    /\ UNCHANGED <<node, file, host, calls>>
    /\ \A c \in Controllers :
         \/ lock'[c] = lock[c] /\ ctl'[c].pc = ctl[c].pc
         \/ lock[c] = "free" /\ lock'[c] = "controller" /\ ctl'[c].pc = "plan"
         \/ lock[c] = "controller" /\ lock'[c] = "free" /\ ctl'[c].pc = "idle"
         \/ /\ lock[c] = "controller" /\ lock'[c] = "controller" /\ ctl'[c].pc \in {"plan", "sent"}
            /\ ctl'[c].pc = "sent" => ~node.fence

\* The world, as far as the node is not in it.
Outside ==
    /\ SameTask /\ UNCHANGED <<file, lock, calls>>
    /\ UNCHANGED host \/ host'.foreign
    /\ \A c \in Controllers : ctl'[c].pc = ctl[c].pc

Outcome ==
    \/ Accepted \/ Admitted \/ Started \/ Advanced \/ EndedEarly \/ Over \/ Noted
    \/ Stopped \/ Booted \/ Controlled \/ Outside

\* The part of the invariants that the cases of a step need.
Holding == \A c \in Controllers : ctl[c].pc # "idle" => lock[c] = "controller"

-----------------------------------------------------------------------------
(* The steps of a run. *)

\* A call of a run fails: the operation ends early.
LEMMA FailsOutcome ==
    ASSUME TypeOK, NEW n \in Nodes, Fails(n), node.todo # <<>>,
           node.todo[1].name \notin {"admit", "close"},
           n.up = node.up, n.rec = node.rec, n.fence = node.fence,
           UNCHANGED ctl, FileKept, Installed
    PROVE  EndedEarly /\ node' \in Nodes /\ lock' \in [Controllers -> {"free", "controller", "node"}]
<1>1. /\ node' = [n EXCEPT !.rec.phase = IF n.installed THEN "restart_pending" ELSE "failed",
                           !.todo = Closing]
      /\ lock' = Freed /\ UNCHANGED calls
  BY DEF Fails, Failed
<1>2. Closing \in Seq(AllCalls)
  BY SingleCalls
<1>3. /\ node' \in Nodes /\ node'.todo = Closing /\ node'.up = n.up /\ node'.fence = n.fence
      /\ node'.rec.id = n.rec.id /\ node'.rec.action = n.rec.action
      /\ node'.rec.version = n.rec.version /\ node'.rec.backup = n.rec.backup
  BY <1>1, <1>2 DEF Nodes, Records, Phases
<1>4. /\ lock' \in [Controllers -> {"free", "controller", "node"}]
      /\ \A c \in Controllers : lock[c] = "controller" => lock'[c] = "controller"
  BY <1>1 DEF Freed, TypeOK
<1> QED
  BY <1>1, <1>3, <1>4 DEF EndedEarly, SameRequest

\* A call of a run has returned: the next begins or the operation ends early.
LEMMA ReturnsOutcome ==
    ASSUME TypeOK, QueueInv, InRun,
           NEW held \in [Controllers -> {"free", "controller", "node"}], Returns(node, held),
           \A c \in Controllers : lock[c] = "controller" => held[c] = "controller",
           \A c \in Controllers :
              lock[c] = "node" \/ (node.todo[1].name = "lock" /\ node.todo[1].arg = c)
                 => held[c] = "node",
           UNCHANGED ctl, FileKept, Installed
    PROVE  /\ Advanced \/ EndedEarly
           /\ node' \in Nodes /\ lock' \in [Controllers -> {"free", "controller", "node"}]
           /\ calls' \in [Requests -> [install : Nat, restart : Nat]]
<1> DEFINE rest == Tail(node.todo)
           next == Head(rest)
<1>1. /\ rest \in Seq(AllCalls) /\ rest # <<>> /\ next = rest[1] /\ next \in AllCalls
      /\ Head(node.todo) = node.todo[1]
  <2>1. node.todo \in Seq(AllCalls) /\ node.todo # <<>>
    BY DEF TypeOK, Nodes, InRun
  <2>2. rest \in Seq(AllCalls) /\ rest # <<>>
    BY <2>1, RestOrdered DEF InRun, QueueInv
  <2> HIDE DEF rest
  <2> QED
    BY <2>1, <2>2
<1>2. CASE Fails(node)
  BY <1>2, FailsOutcome DEF InRun, Fails, TypeOK
<1>3. CASE ~Fails(node)
  <2>1. /\ node' = Begin(node, Head(node.todo), rest)
        /\ lock' = IF next.name = "restart"
                     THEN [c \in Controllers |-> IF held[c] = "node" THEN "free" ELSE held[c]]
                     ELSE held
        /\ calls' = IF next.name \notin {"install", "restart"} THEN calls
                    ELSE [calls EXCEPT ![node.rec.id][next.name] = @ + 1]
    BY <1>3 DEF Returns
  <2> HIDE DEF rest
  <2>2. /\ node' \in Nodes /\ node'.todo = rest /\ SameRequest
        /\ node'.rec.backup = IF node.todo[1].name = "backup" /\ node.rec.backup = NoBackup
                                THEN host.files ELSE node.rec.backup
        /\ node'.fence => node.fence \/ next = Save("backing_up", TRUE)
    <3> DEFINE phase == IF next.name = "save" THEN next.arg ELSE node.rec.phase
               backup == IF node.todo[1].name = "backup" /\ node.rec.backup = NoBackup
                           THEN host.files ELSE node.rec.backup
               fence == node.fence \/ next = Save("backing_up", TRUE)
               installed == node.installed \/ next.name = "install"
    <3>1. node' = [node EXCEPT !.todo = rest, !.rec.phase = phase, !.rec.backup = backup,
                               !.fence = fence, !.installed = installed]
      BY <1>1, <2>1 DEF Begin, TypeOK, Nodes, Records
    <3>2. phase \in Phases /\ backup \in Nat
      BY <1>1 DEF AllCalls, TypeOK, Nodes, Records, Hosts
    <3>3. fence \in BOOLEAN /\ installed \in BOOLEAN
      OBVIOUS
    <3>4. fence => node.fence \/ next = Save("backing_up", TRUE)
      OBVIOUS
    <3> HIDE DEF phase, fence, installed
    <3>5. /\ node' \in Nodes /\ node'.todo = rest /\ SameRequest /\ node'.rec.backup = backup
          /\ node'.fence = fence
      <4> HIDE DEF backup
      <4> QED
        BY <1>1, <3>1, <3>2, <3>3 DEF TypeOK, Nodes, Records, SameRequest
    <3> QED
      BY <3>4, <3>5
  <2>3. node'.fence => node.fence \/ Raises(node'.todo[1])
    <3>1. next = Save("backing_up", TRUE) => Raises(next)
      BY DEF Raises, Save, Call
    <3> QED
      BY <1>1, <2>2, <3>1
  <2>4. /\ lock' \in [Controllers -> {"free", "controller", "node"}]
        /\ \A c \in Controllers : lock[c] = "controller" => lock'[c] = "controller"
        /\ node'.todo[1].name # "restart" =>
             \A c \in Controllers :
               lock[c] = "node" \/ (node.todo[1].name = "lock" /\ node.todo[1].arg = c)
                  => lock'[c] = "node"
    BY <1>1, <2>1, <2>2
  <2>5. calls' = IF node'.todo[1].name \notin {"install", "restart"} THEN calls
                 ELSE [calls EXCEPT ![node.rec.id][node'.todo[1].name] = @ + 1]
    BY <1>1, <2>1, <2>2
  <2>6. calls' \in [Requests -> [install : Nat, restart : Nat]]
    <3> DEFINE k == node'.todo[1].name
    <3>1. node.rec.id \in Requests
      BY DEF QueueInv, InRun
    <3>2. calls \in [Requests -> [install : Nat, restart : Nat]]
      BY DEF TypeOK
    <3>3. \/ calls' = calls
          \/ /\ k \in {"install", "restart"}
             /\ calls' = [calls EXCEPT ![node.rec.id][k] = @ + 1]
      BY <2>5
    <3> HIDE DEF k
    <3> QED
      BY <3>1, <3>2, <3>3
  <2> QED
    BY <2>2, <2>3, <2>4, <2>5, <2>6 DEF Advanced, rest
<1> QED
  BY <1>2, <1>3

-----------------------------------------------------------------------------
(* Every step. *)

Typed == TypeOK' /\ Outcome

\* A request that is accepted.
LEMMA SubmitOutcome ==
    ASSUME TypeOK, NEW r \in Requests, Submit(r)
    PROVE  Typed
<1>1. /\ asked[r] \in [action : Actions, version : Versions, fresh : BOOLEAN]
      /\ node.todo = <<>> /\ node.up
  BY DEF Submit, Accepts, Admissible, TypeOK, Unasked
<1>2. KeptBackup \in Nat
  BY DEF KeptBackup, NoBackup, TypeOK, Nodes, Records
<1>3. asked[r].version \in Nat /\ host.files \in Nat /\ r \in Nat
  BY <1>1, VersionsAssumption, RequestsAssumption DEF TypeOK, Hosts
<1>4. Admission \in Seq(AllCalls)
  BY SingleCalls
<1> DEFINE version == IF asked[r].action = "restart" THEN host.files ELSE asked[r].version
           rec == [id |-> r, action |-> asked[r].action, version |-> version,
                   phase |-> "waiting", backup |-> KeptBackup, own |-> TRUE, lapsed |-> FALSE]
<1>5. rec \in Records
  BY <1>1, <1>2, <1>3 DEF Records, Phases, InProgress
<1>6. /\ node' = [node EXCEPT !.rec = rec, !.todo = Admission] /\ Accepts(r)
      /\ UNCHANGED <<file, host, lock, calls, ctl, asked, events>>
  BY DEF Submit, Accept, Calm
<1>7. rec.id = r /\ rec.action = asked[r].action /\ rec.backup = KeptBackup
  OBVIOUS
<1> HIDE DEF rec
<1>8. node' \in Nodes /\ node'.rec = rec /\ node'.todo = Admission /\ node'.fence = node.fence
      /\ node'.up
  BY <1>1, <1>4, <1>5, <1>6 DEF TypeOK, Nodes
<1>9. TypeOK'
  BY <1>6, <1>8 DEF TypeOK
<1>10. Accepted
  BY <1>1, <1>6, <1>7, <1>8 DEF Accepted
<1> QED
  BY <1>9, <1>10 DEF Typed, Outcome

\* What of the node's memory and of its record a store keeps.
LEMMA StoredTyped ==
    ASSUME NEW rec \in Records
    PROVE  Stored(rec) \in Records /\ Stored(rec).id = rec.id
  BY DEF Stored, Records

\* The store of a new request.
LEMMA AdmitOutcome ==
    ASSUME TypeOK, QueueInv, Admit
    PROVE  Typed
<1>1. /\ node.todo # <<>> /\ node.todo[1].name = "admit" /\ node.todo \in Seq(AllCalls)
      /\ UNCHANGED <<host, lock, calls, ctl, asked, events>> /\ node.rec \in Records
      /\ node.up
  BY DEF Admit, Awaits, Calm, TypeOK, Nodes
<1>2. node.todo \in Before
  <2>1. "admit" \in Names(node.todo)
    BY <1>1 DEF Names
  <2> QED
    BY <2>1 DEF QueueInv
<1>3. node.todo = Admission
  BY <1>1, <1>2 DEF Before, Waiting, Call
<1>4. Waiting \in Seq(AllCalls)
  BY SingleCalls
<1>5. CASE file' = Stored(node.rec) /\ node' = [node EXCEPT !.todo = Waiting,
              !.installed = node.rec.action = "restart" /\ node.rec.version # host.running]
  <2> DEFINE installed == node.rec.action = "restart" /\ node.rec.version # host.running
  <2>1. installed \in BOOLEAN /\ node' = [node EXCEPT !.todo = Waiting, !.installed = installed]
    BY <1>5
  <2> HIDE DEF installed
  <2>2. /\ node' \in Nodes /\ node'.todo = Waiting /\ node'.rec = node.rec
        /\ node'.up = node.up /\ node'.fence = node.fence
    BY <1>4, <2>1 DEF TypeOK, Nodes
  <2>3. TypeOK'
    BY <1>1, <1>5, <2>2, StoredTyped DEF TypeOK
  <2>4. Admitted
    BY <1>1, <1>3, <1>5, <2>2, StoredTyped DEF Admitted, SameRequest
  <2> QED
    BY <2>3, <2>4 DEF Typed, Outcome
<1>6. CASE node' = [node EXCEPT !.trusted = FALSE, !.todo = <<>>] /\ UNCHANGED file
  <2>1. /\ node' \in Nodes /\ node'.todo = <<>> /\ node'.rec = node.rec
        /\ node'.up = node.up /\ node'.fence = node.fence
    <3>1. <<>> \in Seq(AllCalls)
      OBVIOUS
    <3> QED
      BY <1>6, <3>1 DEF TypeOK, Nodes
  <2>2. TypeOK'
    BY <1>1, <1>6, <2>1 DEF TypeOK
  <2>3. Over
    BY <1>1, <1>6, <2>1 DEF Over, SameRequest, FileKept
  <2> QED
    BY <2>2, <2>3 DEF Typed, Outcome
<1> QED
  BY <1>5, <1>6 DEF Admit

\* The site is idle and the run begins, or the request lapses.
LEMMA WaitOutcome ==
    ASSUME TypeOK, QueueInv, Wait
    PROVE  Typed
<1>1. /\ node.todo # <<>> /\ node.todo[1].name = "wait" /\ node.todo \in Seq(AllCalls)
      /\ Head(node.todo).name = "wait"
      /\ UNCHANGED <<file, host, ctl, asked, events>> /\ node.rec \in Records
  BY DEF Wait, Awaits, Calm, TypeOK, Nodes
<1>2. node.todo = Waiting
  <2>1. "wait" \in Names(node.todo)
    BY <1>1 DEF Names
  <2>2. node.todo \in Before
    BY <2>1 DEF QueueInv
  <2> QED
    BY <1>1, <2>2 DEF Before, Admission, Call
<1>3. CASE Fails(node)
  <2>1. FileKept /\ Installed
    BY <1>1 DEF FileKept, Installed
  <2>2. EndedEarly /\ node' \in Nodes /\ lock' \in [Controllers -> {"free", "controller", "node"}]
    BY <1>1, <1>3, <2>1, FailsOutcome DEF TypeOK
  <2>3. TypeOK'
    BY <1>1, <1>3, <2>2 DEF TypeOK, Fails
  <2> QED
    BY <2>2, <2>3 DEF Typed, Outcome
<1>4. CASE node' = Begin(node, Head(node.todo), Run(node.rec.action)) /\ UNCHANGED <<lock, calls>>
  <2> DEFINE run == Run(node.rec.action)
  <2>1. /\ run \in Seq(AllCalls) /\ run # <<>> /\ Head(run).name = "lock"
    BY <1>1, RunOrdered DEF Records
  <2>2. node' = [node EXCEPT !.todo = run]
    <3> HIDE DEF run
    <3>1. Head(run) # Save("backing_up", TRUE)
      BY <2>1 DEF Save, Call
    <3>2. node' = [node EXCEPT !.todo = run, !.rec.phase = @, !.rec.backup = @,
                               !.fence = @ \/ FALSE, !.installed = @ \/ FALSE]
      BY <1>1, <1>4, <2>1, <3>1 DEF Begin, run
    <3> QED
      BY <3>2 DEF TypeOK, Nodes, Records
  <2> HIDE DEF run
  <2>3. /\ node' \in Nodes /\ node'.todo = run /\ node'.rec = node.rec
        /\ node'.up = node.up /\ node'.fence = node.fence
    BY <2>1, <2>2 DEF TypeOK, Nodes
  <2>4. TypeOK'
    BY <1>1, <1>4, <2>3 DEF TypeOK
  <2>5. Started
    BY <1>1, <1>2, <1>4, <2>3 DEF Started, SameRequest, run
  <2> QED
    BY <2>4, <2>5 DEF Typed, Outcome
<1> QED
  BY <1>3, <1>4 DEF Wait

\* A call of the run, apart from the locks, returns or fails; the lock stays as it is.
LEMMA CallOutcome ==
    ASSUME TypeOK, QueueInv, Awaits("admin") \/ Awaits("backup") \/ Awaits("check")
                             \/ Awaits("save") \/ Awaits("install"),
           Returns(node, lock) \/ \E n \in Nodes : /\ Fails(n) /\ n.up = node.up
                                                   /\ n.rec = node.rec /\ n.fence = node.fence,
           FileKept, Installed, UNCHANGED <<ctl, asked, events>>,
           file' \in Records, host' \in Hosts
    PROVE  Typed
<1>1. InRun /\ node.todo[1].name # "lock"
  BY DEF InRun, Awaits, TypeOK, Nodes
<1>2. CASE Returns(node, lock)
  <2>1. /\ lock \in [Controllers -> {"free", "controller", "node"}]
        /\ \A c \in Controllers : lock[c] = "controller" => lock[c] = "controller"
        /\ \A c \in Controllers :
             lock[c] = "node" \/ (node.todo[1].name = "lock" /\ node.todo[1].arg = c)
                => lock[c] = "node"
    BY <1>1 DEF TypeOK
  <2>2. /\ Advanced \/ EndedEarly
        /\ node' \in Nodes /\ lock' \in [Controllers -> {"free", "controller", "node"}]
        /\ calls' \in [Requests -> [install : Nat, restart : Nat]]
    BY <1>1, <1>2, <2>1, ReturnsOutcome
  <2> QED
    BY <2>2 DEF Typed, Outcome, TypeOK
<1>3. ASSUME NEW n \in Nodes, Fails(n), n.up = node.up, n.rec = node.rec, n.fence = node.fence
      PROVE  Typed
  <2>1. EndedEarly /\ node' \in Nodes /\ lock' \in [Controllers -> {"free", "controller", "node"}]
    BY <1>1, <1>3, FailsOutcome DEF InRun
  <2>2. calls' = calls
    BY <1>3 DEF Fails
  <2> QED
    BY <2>1, <2>2 DEF Typed, Outcome, TypeOK
<1> QED
  BY <1>2, <1>3

\* A lock is taken, or the run fails.
LEMMA TakeLockOutcome ==
    ASSUME TypeOK, QueueInv, TakeLock
    PROVE  Typed
<1>1. /\ InRun /\ node.todo[1].name = "lock" /\ Head(node.todo) = node.todo[1]
      /\ UNCHANGED <<file, host, ctl, asked, events>> /\ FileKept /\ Installed
      /\ node.todo # <<>> /\ node.todo[1].name \notin {"admit", "close"}
  BY DEF TakeLock, InRun, Awaits, Calm, FileKept, Installed, TypeOK, Nodes
<1>2. CASE Fails(node)
  <2>1. EndedEarly /\ node' \in Nodes /\ lock' \in [Controllers -> {"free", "controller", "node"}]
    BY <1>1, <1>2, FailsOutcome DEF TypeOK
  <2>2. calls' = calls
    BY <1>2 DEF Fails
  <2> QED
    BY <1>1, <2>1, <2>2 DEF Typed, Outcome, TypeOK
<1>3. ASSUME lock[node.todo[1].arg] = "free",
             Returns(node, [lock EXCEPT ![node.todo[1].arg] = "node"])
      PROVE  Typed
  <2> DEFINE held == [lock EXCEPT ![node.todo[1].arg] = "node"]
  <2>1. /\ held \in [Controllers -> {"free", "controller", "node"}]
        /\ \A c \in Controllers : lock[c] = "controller" => held[c] = "controller"
        /\ \A c \in Controllers :
             lock[c] = "node" \/ (node.todo[1].name = "lock" /\ node.todo[1].arg = c)
                => held[c] = "node"
    BY <1>3 DEF TypeOK
  <2> HIDE DEF held
  <2>2. /\ Advanced \/ EndedEarly
        /\ node' \in Nodes /\ lock' \in [Controllers -> {"free", "controller", "node"}]
        /\ calls' \in [Requests -> [install : Nat, restart : Nat]]
    <3>1. Returns(node, held)
      BY <1>3 DEF held
    <3> QED
      BY <1>1, <2>1, <3>1, ReturnsOutcome
  <2> QED
    BY <1>1, <2>2 DEF Typed, Outcome, TypeOK
<1> QED
  BY <1>1, <1>2, <1>3 DEF TakeLock

\* The calls of a run.
LEMMA RunOutcome ==
    ASSUME TypeOK, QueueInv, Prepare \/ SavePhase \/ Install
    PROVE  Typed
<1>1. /\ node \in Nodes /\ node.rec \in Records /\ UNCHANGED <<ctl, asked, events>>
      /\ Stored(node.rec) \in Records /\ Stored(node.rec).id = node.rec.id
  <2>1. node \in Nodes /\ node.rec \in Records
    BY DEF TypeOK, Nodes
  <2>2. UNCHANGED <<ctl, asked, events>>
    BY DEF Prepare, SavePhase, Install, Calm
  <2> QED
    BY <2>1, <2>2, StoredTyped
<1>2. CASE Prepare
  <2>1. UNCHANGED <<file, host>> /\ FileKept /\ Installed
    BY <1>2 DEF Prepare, FileKept, Installed
  <2>2. /\ Awaits("admin") \/ Awaits("backup") \/ Awaits("check")
        /\ Returns(node, lock) \/ Fails(node)
    BY <1>2 DEF Prepare
  <2> QED
    BY <1>1, <2>1, <2>2, CallOutcome DEF TypeOK
<1>3. CASE SavePhase
  <2>1. Awaits("save") /\ UNCHANGED host /\ Installed /\ node.up
    BY <1>3 DEF SavePhase, Installed, Awaits
  <2>2. CASE file' = Stored(node.rec) /\ Returns(node, lock)
    <3>1. FileKept /\ file' \in Records
      BY <1>1, <2>1, <2>2 DEF FileKept
    <3> QED
      BY <1>1, <2>1, <2>2, <3>1, CallOutcome DEF TypeOK
  <2>3. CASE Fails([node EXCEPT !.trusted = FALSE]) /\ UNCHANGED file
    <3> DEFINE n == [node EXCEPT !.trusted = FALSE]
    <3>1. n \in Nodes /\ n.up = node.up /\ n.rec = node.rec /\ n.fence = node.fence
      BY DEF TypeOK, Nodes
    <3>2. Fails(n) /\ FileKept
      BY <2>3 DEF FileKept
    <3> HIDE DEF n
    <3> QED
      BY <1>1, <2>1, <2>3, <3>1, <3>2, CallOutcome DEF TypeOK
  <2> QED
    BY <1>3, <2>2, <2>3 DEF SavePhase
<1>4. CASE Install
  <2>1. Awaits("install") /\ UNCHANGED file /\ FileKept /\ node.todo[1].name = "install"
    BY <1>4 DEF Install, FileKept, Awaits, TypeOK, Nodes
  <2>2. Returns(node, lock) \/ Fails(node)
    BY <1>4 DEF Install
  <2>3. Installed
    BY <1>4, <2>1 DEF Install, Installed
  <2>4. host' \in Hosts
    BY <1>1, <2>1, <2>3 DEF Installed, TypeOK, Hosts, Records
  <2> QED
    BY <1>1, <2>1, <2>2, <2>3, <2>4, CallOutcome DEF TypeOK
<1> QED
  BY <1>2, <1>3, <1>4

\* The restart is scheduled, or the run fails.
LEMMA RequestRestartOutcome ==
    ASSUME TypeOK, RequestRestart
    PROVE  Typed
<1>1. /\ node.todo # <<>> /\ node.todo[1].name = "restart"
      /\ UNCHANGED <<file, host, ctl, asked, events>> /\ FileKept /\ Installed
  BY DEF RequestRestart, Awaits, Calm, FileKept, Installed, TypeOK, Nodes
<1>2. CASE Fails(node)
  <2>1. EndedEarly /\ node' \in Nodes /\ lock' \in [Controllers -> {"free", "controller", "node"}]
    BY <1>1, <1>2, FailsOutcome DEF TypeOK
  <2>2. calls' = calls
    BY <1>2 DEF Fails
  <2> QED
    BY <1>1, <2>1, <2>2 DEF Typed, Outcome, TypeOK
<1>3. CASE node' = [node EXCEPT !.todo = <<>>, !.watched = TRUE] /\ UNCHANGED <<lock, calls>>
  <2>1. <<>> \in Seq(AllCalls)
    OBVIOUS
  <2>2. /\ node' \in Nodes /\ node'.todo = <<>> /\ node'.rec = node.rec
        /\ node'.up = node.up /\ node'.fence = node.fence
    BY <1>3, <2>1 DEF TypeOK, Nodes
  <2>3. TypeOK'
    BY <1>1, <1>3, <2>2 DEF TypeOK
  <2>4. Over
    BY <1>1, <1>3, <2>2 DEF Over, SameRequest
  <2> QED
    BY <2>3, <2>4 DEF Typed, Outcome
<1> QED
  BY <1>2, <1>3 DEF RequestRestart

\* The record is closed.
LEMMA CloseOutcome ==
    ASSUME TypeOK, Close
    PROVE  Typed
<1>1. UNCHANGED <<host, lock, calls, ctl, asked, events>> /\ node.rec \in Records
  BY DEF Close, Calm, TypeOK, Nodes
<1>2. <<>> \in Seq(AllCalls)
  OBVIOUS
<1>3. /\ node' \in Nodes /\ node'.todo = <<>> /\ node'.rec = node.rec
      /\ node'.up = node.up /\ ~node'.fence
  <2>1. \/ node' = [node EXCEPT !.todo = <<>>, !.fence = FALSE]
        \/ node' = [node EXCEPT !.todo = <<>>, !.fence = FALSE, !.trusted = FALSE]
    BY DEF Close
  <2>2. CASE node' = [node EXCEPT !.todo = <<>>, !.fence = FALSE]
    BY <1>2, <2>2 DEF TypeOK, Nodes
  <2>3. CASE node' = [node EXCEPT !.todo = <<>>, !.fence = FALSE, !.trusted = FALSE]
    BY <1>2, <2>3 DEF TypeOK, Nodes
  <2> QED
    BY <2>1, <2>2, <2>3
<1>4. FileKept /\ file' \in Records
  <2>1. node.up /\ (file' = Stored(node.rec) \/ file' = file)
    BY DEF Close, Awaits
  <2> QED
    BY <1>1, <2>1, StoredTyped DEF FileKept, TypeOK
<1>5. TypeOK'
  BY <1>1, <1>3, <1>4 DEF TypeOK
<1>6. Over
  BY <1>1, <1>3, <1>4 DEF Over, SameRequest
<1> QED
  BY <1>5, <1>6 DEF Typed, Outcome

\* An outcome is recorded outside a run.
LEMMA RecordOutcome ==
    ASSUME TypeOK, node.up, NEW n \in Nodes, Record(n), n.up = node.up, n.rec.id = node.rec.id,
           n.rec.action = node.rec.action, n.rec.version = node.rec.version,
           n.rec.backup = node.rec.backup, n.todo = node.todo, n.fence => node.fence,
           UNCHANGED <<host, lock, calls, ctl, asked, events>>
    PROVE  Typed
<1>1. /\ node' \in Nodes /\ node'.rec = n.rec /\ node'.up = n.up /\ node'.todo = n.todo
      /\ node'.fence = n.fence
  BY DEF Record, Nodes
<1>2. file' \in Records /\ FileKept
  <2>1. n.rec \in Records
    BY DEF Nodes
  <2>2. file' = Stored(n.rec) \/ file' = file
    BY DEF Record
  <2> QED
    BY <2>1, <2>2, StoredTyped DEF FileKept, TypeOK
<1>3. TypeOK'
  BY <1>1, <1>2 DEF TypeOK
<1>4. Noted
  BY <1>1, <1>2 DEF Noted, SameRequest
<1> QED
  BY <1>3, <1>4 DEF Typed, Outcome

\* The timers of a running node.
LEMMA TimerOutcome ==
    ASSUME TypeOK, Verify \/ RestartNotObserved
    PROVE  Typed
<1>1. UNCHANGED <<host, lock, calls, ctl, asked, events>> /\ node.up
  BY DEF Verify, RestartNotObserved, Calm
<1>2. CASE Verify
  <2>1. PICK phase \in {"verified", "failed"} : Record([node EXCEPT !.rec.phase = phase])
    BY <1>2 DEF Verify
  <2> DEFINE n == [node EXCEPT !.rec.phase = phase]
  <2>2. /\ n \in Nodes /\ n.up = node.up /\ n.rec.id = node.rec.id
        /\ n.rec.action = node.rec.action /\ n.rec.version = node.rec.version
        /\ n.rec.backup = node.rec.backup /\ n.todo = node.todo /\ n.fence = node.fence
    BY DEF TypeOK, Nodes, Records, Phases
  <2> HIDE DEF n
  <2> QED
    BY <1>1, <2>1, <2>2, RecordOutcome DEF n
<1>3. CASE RestartNotObserved
  <2>1. /\ Unobserved \in Nodes /\ Unobserved.up = node.up /\ Unobserved.rec.id = node.rec.id
        /\ Unobserved.rec.action = node.rec.action /\ Unobserved.rec.version = node.rec.version
        /\ Unobserved.rec.backup = node.rec.backup /\ Unobserved.todo = node.todo
        /\ ~Unobserved.fence
    BY DEF TypeOK, Nodes, Records, Phases, Unobserved
  <2> QED
    BY <1>1, <1>3, <2>1, RecordOutcome DEF RestartNotObserved
<1> QED
  BY <1>2, <1>3

\* An empty memory.
LEMMA DownTyped ==
    /\ Down \in Nodes /\ Down.rec = NoRecord /\ Down.todo = <<>> /\ ~Down.fence /\ ~Down.up
    /\ NoRecord \in Records /\ NoRecord.id = 0 /\ NoRecord.action = "restart"
    /\ NoRecord.backup = NoBackup
<1>1. NoRecord \in Records
  BY DEF NoRecord, NoBackup, Records, Actions, Phases, InProgress
<1>2. <<>> \in Seq(AllCalls)
  OBVIOUS
<1> QED
  BY <1>1, <1>2 DEF Down, Nodes, NoRecord

\* Home Assistant stops and starts.
LEMMA LifeOutcome ==
    ASSUME TypeOK, QueueInv, Stop \/ Boot
    PROVE  Typed
<1>1. CASE Stop
  <2>1. /\ node' = Down /\ lock' = [c \in Controllers |-> "free"]
        /\ ctl' = [c \in Controllers |-> [ctl[c] EXCEPT !.pc = "idle"]]
        /\ UNCHANGED <<file, host, asked, calls>>
        /\ events' = events \/ events' = events + 1
    BY <1>1 DEF Stop, Event
  <2>2. TypeOK'
    <3>1. /\ lock' \in [Controllers -> {"free", "controller", "node"}]
          /\ ctl' \in [Controllers -> [pc : {"idle", "plan", "sent"}, busy : BOOLEAN]]
          /\ events' \in Nat
      BY <2>1 DEF TypeOK
    <3> QED
      BY <2>1, <3>1, DownTyped DEF TypeOK
  <2>3. Stopped
    BY <2>1 DEF Stopped, TypeOK
  <2> QED
    BY <2>2, <2>3 DEF Typed, Outcome
<1>2. CASE Boot
  <2> DEFINE n == [Down EXCEPT !.up = TRUE, !.trusted = TRUE, !.rec = Restored]
  <2>1. /\ ~node.up
        /\ (node' = n /\ UNCHANGED file) \/ Record(n)
        /\ host' = [host EXCEPT !.running = host.files, !.foreign = FALSE]
        /\ UNCHANGED <<lock, calls, ctl, asked, events>>
    BY <1>2 DEF Boot, Calm
  <2>2. /\ Restored \in Records /\ Restored.id = file.id /\ Restored.action = file.action
    BY DEF Restored, TypeOK, Records, Phases
  <2>3. /\ n \in Nodes /\ n.up /\ n.todo = <<>> /\ ~n.fence /\ n.rec = Restored
    BY <2>2, DownTyped DEF Nodes
  <2> HIDE DEF n
  <2>4. /\ node' \in Nodes /\ node'.up /\ node'.todo = <<>> /\ ~node'.fence
        /\ node'.rec = Restored
    BY <2>1, <2>3 DEF Record, Nodes
  <2>5. file' \in Records /\ file'.id = file.id
    <3>1. file' = Stored(Restored) \/ file' = file
      BY <2>1, <2>3 DEF Record
    <3> QED
      BY <2>2, <3>1, StoredTyped DEF TypeOK
  <2>6. host' \in Hosts /\ host'.files = host'.running
    BY <2>1 DEF TypeOK, Hosts
  <2>7. TypeOK'
    BY <2>1, <2>4, <2>5, <2>6 DEF TypeOK
  <2>8. Booted
    BY <2>1, <2>2, <2>4, <2>5, <2>6 DEF Booted
  <2> QED
    BY <2>7, <2>8 DEF Typed, Outcome
<1> QED
  BY <1>1, <1>2

\* A controller goes on.
LEMMA ControllerOutcome ==
    ASSUME TypeOK, Holding, NEW c \in Controllers, Reconcile(c) \/ Command(c) \/ Effect(c)
    PROVE  Typed
<1>1. UNCHANGED <<node, file, host, asked, calls>> /\ events' \in Nat
  BY DEF Reconcile, Command, Effect, Event, TypeOK
<1>2. /\ lock' \in [Controllers -> {"free", "controller", "node"}]
      /\ ctl' \in [Controllers -> [pc : {"idle", "plan", "sent"}, busy : BOOLEAN]]
      /\ \A d \in Controllers \ {c} : lock'[d] = lock[d] /\ ctl'[d].pc = ctl[d].pc
  <2>1. CASE Reconcile(c)
    BY <2>1 DEF Reconcile, TypeOK
  <2>2. CASE Command(c)
    <3>1. /\ lock' = lock \/ lock' = [lock EXCEPT ![c] = "free"]
          /\ \E p \in {"idle", "sent"} : ctl' = [ctl EXCEPT ![c].pc = p]
      BY <2>2 DEF Command
    <3>2. lock \in [Controllers -> {"free", "controller", "node"}]
          /\ ctl \in [Controllers -> [pc : {"idle", "plan", "sent"}, busy : BOOLEAN]]
      BY DEF TypeOK
    <3>3. PICK p \in {"idle", "sent"} : ctl' = [ctl EXCEPT ![c].pc = p]
      BY <3>1
    <3>4. ctl' = [ctl EXCEPT ![c] = [ctl[c] EXCEPT !.pc = p]]
      BY <3>2, <3>3
    <3>5. ctl[c] \in [pc : {"idle", "plan", "sent"}, busy : BOOLEAN]
      BY <3>2
    <3>6. [ctl[c] EXCEPT !.pc = p] \in [pc : {"idle", "plan", "sent"}, busy : BOOLEAN]
      BY ONLY <3>5, p \in {"idle", "sent"}
    <3> QED
      BY ONLY <3>1, <3>2, <3>4, <3>6
  <2>3. CASE Effect(c)
    <3>1. lock' = lock \/ lock' = [lock EXCEPT ![c] = "free"]
      BY <2>3 DEF Effect
    <3>2. PICK s \in [pc : {"idle", "plan", "sent"}, busy : BOOLEAN] : ctl' = [ctl EXCEPT ![c] = s]
      <4>1. ctl[c] \in [pc : {"idle", "plan", "sent"}, busy : BOOLEAN]
        BY DEF TypeOK
      <4>2. CASE ctl' = [ctl EXCEPT ![c].pc = "plan"]
        <5>1. ctl' = [ctl EXCEPT ![c] = [ctl[c] EXCEPT !.pc = "plan"]]
          BY <4>2 DEF TypeOK
        <5> QED
          BY <4>1, <5>1
      <4>3. CASE \E busy \in BOOLEAN : ctl' = [ctl EXCEPT ![c] = [pc |-> "idle", busy |-> busy]]
        BY <4>3
      <4> QED
        BY <2>3, <4>2, <4>3 DEF Effect
    <3> QED
      BY <3>1, <3>2 DEF TypeOK
  <2> QED
    BY <2>1, <2>2, <2>3
<1>3. \/ lock[c] = "free" /\ lock'[c] = "controller" /\ ctl'[c].pc = "plan"
      \/ lock[c] = "controller" /\ lock'[c] = "free" /\ ctl'[c].pc = "idle"
      \/ /\ lock[c] = "controller" /\ lock'[c] = "controller" /\ ctl'[c].pc \in {"plan", "sent"}
         /\ ctl'[c].pc = "sent" => ~node.fence
  <2>1. CASE Reconcile(c)
    BY <2>1 DEF Reconcile, TypeOK
  <2>2. CASE Command(c)
    BY <2>2 DEF Command, TypeOK, Holding
  <2>3. CASE Effect(c)
    BY <2>3 DEF Effect, TypeOK, Holding
  <2> QED
    BY <2>1, <2>2, <2>3
<1>4. TypeOK'
  BY <1>1, <1>2 DEF TypeOK
<1>5. Controlled
  BY <1>1, <1>2, <1>3 DEF Controlled
<1> QED
  BY <1>4, <1>5 DEF Typed, Outcome

\* The world goes on.
LEMMA OutsideOutcome ==
    ASSUME TypeOK, Issue \/ (\E c \in Controllers : Disturb(c)) \/ InstallElsewhere \/ Lapse \/ Age
    PROVE  Typed
<1>1. UNCHANGED <<file, lock, calls>> /\ events' \in Nat
  <2>1. UNCHANGED <<file, lock, calls>> /\ (events' = events \/ Event)
    BY DEF Issue, Disturb, InstallElsewhere, Lapse, Age, Still
  <2> QED
    BY <2>1 DEF Event, TypeOK
<1>2. node' \in Nodes /\ SameTask
  <2>1. CASE node' = node
    BY <2>1 DEF TypeOK, SameTask, SameRequest
  <2>2. CASE node' = [node EXCEPT !.rec.lapsed = TRUE]
    BY <2>2 DEF TypeOK, SameTask, SameRequest, Nodes, Records
  <2> QED
    BY <2>1, <2>2 DEF Issue, Disturb, InstallElsewhere, Lapse, Age
<1>3. host' \in Hosts /\ (UNCHANGED host \/ host'.foreign)
  BY VersionsAssumption DEF Issue, Disturb, InstallElsewhere, Lapse, Age, TypeOK, Hosts
<1>4. /\ ctl' \in [Controllers -> [pc : {"idle", "plan", "sent"}, busy : BOOLEAN]]
      /\ \A c \in Controllers : ctl'[c].pc = ctl[c].pc
  <2>1. CASE UNCHANGED ctl
    BY <2>1 DEF TypeOK
  <2>2. ASSUME NEW c \in Controllers, Disturb(c)
        PROVE  /\ ctl' \in [Controllers -> [pc : {"idle", "plan", "sent"}, busy : BOOLEAN]]
               /\ \A d \in Controllers : ctl'[d].pc = ctl[d].pc
    BY <2>2 DEF Disturb, TypeOK
  <2> QED
    BY <2>1, <2>2 DEF Issue, InstallElsewhere, Lapse, Age
<1>5. asked' \in [Requests -> [action : Actions, version : Versions, fresh : BOOLEAN]
                                \cup {Unasked}]
  <2> DEFINE Asked == [action : Actions, version : Versions, fresh : BOOLEAN]
  <2>1. CASE Issue
    <3>1. PICK r \in Requests, action \in Actions, v \in Versions :
             asked' = [asked EXCEPT ![r] = [action |-> action, version |-> v, fresh |-> TRUE]]
      BY <2>1 DEF Issue
    <3>2. [action |-> action, version |-> v, fresh |-> TRUE] \in Asked
      OBVIOUS
    <3> HIDE DEF Asked
    <3> QED
      BY <3>1, <3>2 DEF TypeOK, Asked
  <2>2. CASE Age
    <3>1. PICK r \in Requests : /\ asked[r].fresh
                               /\ asked' = [asked EXCEPT ![r] = [asked[r] EXCEPT !.fresh = FALSE]]
      BY <2>2 DEF Age, TypeOK
    <3>2. asked[r] \in Asked
      BY <3>1 DEF TypeOK, Unasked
    <3>3. [asked[r] EXCEPT !.fresh = FALSE] \in Asked
      BY <3>2
    <3> HIDE DEF Asked
    <3> QED
      BY <3>1, <3>3 DEF TypeOK, Asked
  <2>3. CASE UNCHANGED asked
    BY <2>3 DEF TypeOK
  <2> QED
    BY <2>1, <2>2, <2>3 DEF Disturb, InstallElsewhere, Lapse
<1>6. TypeOK'
  BY <1>1, <1>2, <1>3, <1>4, <1>5 DEF TypeOK
<1>7. Outside
  BY <1>1, <1>2, <1>3, <1>4 DEF Outside
<1> QED
  BY <1>6, <1>7 DEF Typed, Outcome

\* Every step has one of these outcomes.
LEMMA NextOutcome ==
    ASSUME TypeOK, QueueInv, Holding, Next
    PROVE  Typed
  BY SubmitOutcome, AdmitOutcome, WaitOutcome, TakeLockOutcome, RunOutcome,
     RequestRestartOutcome, CloseOutcome, TimerOutcome, LifeOutcome, ControllerOutcome,
     OutsideOutcome DEF Next, NodeStep, Controller, World, Timers

-----------------------------------------------------------------------------
(* The invariants hold at the start and are preserved by every outcome. *)

\* The calls that are left stay in order.
LEMMA QueueStep ==
    ASSUME TypeOK, QueueInv, Outcome
    PROVE  QueueInv'
<1>1. CASE node'.todo \in {<<>>, Admission, Waiting, Closing}
  <2>1. Paired(<<>>) /\ Closes(<<>>) /\ Names(<<>>) = {}
    BY DEF Paired, Closes, Names
  <2>2. Paired(node'.todo) /\ Closes(node'.todo)
    BY <1>1, <2>1, SingleCalls
  <2>3. /\ Admission[1].name = "admit" /\ Waiting[1].name = "wait" /\ Closing[1].name = "close"
        /\ Names(Admission) = {"admit"} /\ Names(Waiting) = {"wait"}
        /\ Names(Closing) = {"close"}
    BY DEF Admission, Waiting, Closing, Call, Names
  <2>4. node'.todo \in Before => node'.rec.id \in Requests
    <3>1. CASE Accepted
      BY <3>1 DEF Accepted
    <3>2. CASE Admitted
      BY <2>3, <3>2, SingleCalls DEF Admitted, SameRequest, QueueInv
    <3>3. CASE SameRequest /\ node'.todo = node.todo
      BY <2>3, <3>3, SingleCalls DEF SameRequest, QueueInv, Before
    <3>4. CASE Started
      <4>1. node.todo = Waiting /\ node'.rec.id = node.rec.id
        BY <3>4 DEF Started, SameRequest
      <4> QED
        BY <2>3, <4>1, SingleCalls DEF QueueInv
    <3>5. CASE Advanced
      <4>1. InRun /\ node'.rec.id = node.rec.id
        BY <3>5 DEF Advanced, SameRequest
      <4> QED
        BY <4>1 DEF QueueInv, InRun
    <3>6. CASE EndedEarly \/ Over \/ Stopped \/ Booted
      <4>1. node'.todo = <<>> \/ node'.todo = Closing
        BY <3>6, DownTyped DEF EndedEarly, Over, Stopped, Booted
      <4> QED
        BY <2>3, <4>1, SingleCalls DEF Before
    <3>7. CASE Noted \/ Controlled \/ Outside
      BY <3>3, <3>7 DEF Noted, Controlled, Outside, SameTask, SameRequest
    <3> QED
      BY <3>1, <3>2, <3>4, <3>5, <3>6, <3>7 DEF Outcome
  <2> QED
    BY <1>1, <2>1, <2>2, <2>3, <2>4 DEF QueueInv, Before
<1>2. CASE SameRequest /\ node'.todo = node.todo
  BY <1>2 DEF QueueInv, SameRequest
<1>3. CASE Started
  <2>1. /\ node.todo = Waiting /\ node'.todo = Run(node.rec.action) /\ node.rec.action \in Actions
        /\ SameRequest
    BY <1>3 DEF Started, TypeOK, Nodes, Records
  <2>2. node.rec.id \in Requests
    BY <2>1 DEF QueueInv, Waiting, Call
  <2> DEFINE run == Run(node.rec.action)
  <2>3. /\ Paired(run) /\ Closes(run) /\ {"admit", "wait"} \cap Names(run) = {}
        /\ "install" \in Names(run) => node.rec.action = "update_and_restart"
    BY <2>1, RunOrdered
  <2> HIDE DEF run
  <2> QED
    BY <2>1, <2>2, <2>3 DEF QueueInv, SameRequest, run
<1>4. CASE Advanced
  <2>1. /\ InRun /\ node'.todo = Tail(node.todo) /\ SameRequest /\ node.todo \in Seq(AllCalls)
    BY <1>4 DEF Advanced, TypeOK, Nodes
  <2> DEFINE rest == Tail(node.todo)
  <2>2. Paired(rest) /\ Closes(rest) /\ Names(rest) \subseteq Names(node.todo)
    BY <2>1, RestOrdered DEF InRun, QueueInv
  <2>3. node.rec.id \in Requests
    BY <2>1 DEF InRun, QueueInv
  <2>4. node.todo \notin Before
    BY <2>1 DEF InRun, Before, Admission, Waiting, Call
  <2> HIDE DEF rest
  <2> QED
    BY <2>1, <2>2, <2>3, <2>4 DEF QueueInv, SameRequest, rest
<1> QED
  BY <1>1, <1>2, <1>3, <1>4, SingleCalls DEF Outcome, Accepted, Admitted, EndedEarly, Over, Noted, Stopped,
       Down, Booted, Controlled, Outside, SameTask, SameRequest

\* How the calls that are left stand after a step of the run.
LEMMA RestShifted ==
    ASSUME TypeOK, QueueInv, InRun, node'.todo = Tail(node.todo)
    PROVE  /\ DOMAIN node'.todo \subseteq Nat \ {0} /\ DOMAIN node.todo \subseteq Nat \ {0}
           /\ 1 \in DOMAIN node'.todo /\ 2 \in DOMAIN node.todo /\ node'.todo[1] = node.todo[2]
           /\ \A i \in DOMAIN node'.todo :
                 i + 1 \in DOMAIN node.todo /\ node'.todo[i] = node.todo[i + 1]
           /\ \A i \in DOMAIN node.todo :
                 i = 1 \/ (i - 1 \in DOMAIN node'.todo /\ node'.todo[i - 1] = node.todo[i])
           /\ Names(node'.todo) \subseteq Names(node.todo)
<1>1. node.todo \in Seq(AllCalls) /\ node.todo # <<>>
  BY DEF TypeOK, Nodes, InRun
<1>2. /\ node'.todo \in Seq(AllCalls) /\ node'.todo # <<>> /\ Head(node'.todo) = node.todo[2]
      /\ 2 \in DOMAIN node.todo /\ DOMAIN node'.todo = 1 .. Len(node.todo) - 1
      /\ \A i \in 1 .. Len(node.todo) - 1 :
            node'.todo[i] = node.todo[i + 1] /\ i + 1 \in DOMAIN node.todo
      /\ Names(node'.todo) \subseteq Names(node.todo)
  BY <1>1, RestOrdered DEF InRun, QueueInv
<1>3. /\ Head(node'.todo) = node'.todo[1] /\ 1 \in DOMAIN node'.todo
      /\ DOMAIN node.todo = 1 .. Len(node.todo) /\ Len(node.todo) \in Nat
  BY <1>1, <1>2
<1>4. DOMAIN node'.todo \subseteq Nat \ {0} /\ DOMAIN node.todo \subseteq Nat \ {0}
  BY <1>2, <1>3
<1>5. ASSUME NEW i \in DOMAIN node.todo, i # 1
      PROVE  i - 1 \in DOMAIN node'.todo /\ node'.todo[i - 1] = node.todo[i]
  <2>1. i - 1 \in 1 .. Len(node.todo) - 1 /\ (i - 1) + 1 = i
    BY <1>3, <1>5
  <2> QED
    BY <1>2, <2>1
<1> QED
  BY <1>2, <1>3, <1>4, <1>5

\* A request acts at most once.
LEMMA CountStep ==
    ASSUME TypeOK, QueueInv, Counted, OneShot, Outcome, TypeOK'
    PROVE  Counted' /\ OneShot'
<1> USE DEF Counted, OneShot
<1>1. /\ node.rec.id \in Nat /\ file.id \in Nat /\ Requests \subseteq Nat
      /\ calls \in [Requests -> [install : Nat, restart : Nat]]
  BY RequestsAssumption DEF TypeOK, Nodes, Records
<1>2. ASSUME UNCHANGED calls, file'.id >= file.id, node'.up => node'.rec.id >= file'.id,
             node'.todo # <<>> /\ node'.todo # Admission => node'.rec.id = file'.id,
             node'.todo \in Before \/ Later("install")' => calls[node'.rec.id].install = 0,
             node'.todo \in Before \/ Later("restart")' => calls[node'.rec.id].restart = 0
      PROVE  Counted' /\ OneShot'
  <2>1. file'.id \in Nat
    BY <1>1 DEF TypeOK, Records
  <2>2. \A r \in Requests : r > file'.id => r > file.id
    BY <1>1, <1>2, <2>1
  <2> QED
    BY <1>2, <2>2
<1>3. ASSUME UNCHANGED calls, file'.id >= file.id, node'.up => node'.rec.id >= file'.id,
             node'.todo \in {<<>>, Closing}, node'.todo = Closing => node'.rec.id = file'.id
      PROVE  Counted' /\ OneShot'
  <2>1. /\ DOMAIN Closing = {1} /\ Closing[1].name = "close" /\ Closing # <<>>
        /\ Closing \notin Before /\ <<>> \notin Before
    BY SingleCalls DEF Before, Closing, Admission, Waiting, Call
  <2>2. ~Later("install")' /\ ~Later("restart")' /\ node'.todo \notin Before
    BY <1>3, <2>1 DEF Later
  <2> QED
    BY <1>2, <1>3, <2>2
<1>4. CASE Accepted
  <2>1. PICK r \in Requests :
            /\ node.up /\ r > node.rec.id /\ node'.rec.id = r /\ node'.up
            /\ node'.todo = Admission /\ UNCHANGED <<file, calls>>
    BY <1>4 DEF Accepted, Accepts, Acceptable
  <2>2. calls[r].install = 0 /\ calls[r].restart = 0 /\ r >= file.id
    BY <1>1, <2>1
  <2> QED
    BY <1>1, <1>2, <2>1, <2>2
<1>5. CASE Stopped \/ Booted
  <2>1. /\ UNCHANGED calls /\ file'.id = file.id /\ node'.todo = <<>>
        /\ node'.up => node'.rec.id = file.id
    BY <1>5, DownTyped DEF Stopped, Booted
  <2> QED
    BY <1>1, <1>3, <2>1, SingleCalls
<1>6. CASE EndedEarly
  <2>1. node.todo # <<>> /\ node.todo # Admission
    BY <1>6 DEF EndedEarly, Admission, Call
  <2>2. /\ UNCHANGED calls /\ file'.id = file.id /\ node'.rec.id = file.id
        /\ node'.todo = Closing
    BY <1>6, <2>1 DEF EndedEarly, SameRequest, FileKept
  <2> QED
    BY <1>1, <1>3, <2>2
<1>7. ASSUME SameRequest, UNCHANGED calls, FileKept, node'.todo \in {node.todo, <<>>}
      PROVE  Counted' /\ OneShot'
  <2>1. /\ node'.up => node'.rec.id >= file'.id
        /\ file'.id >= file.id
    BY <1>1, <1>7 DEF SameRequest, FileKept
  <2>2. CASE node'.todo = <<>>
    BY <1>3, <1>7, <2>1, <2>2, SingleCalls
  <2>3. CASE node'.todo = node.todo
    <3>1. node.todo # <<>> /\ node.todo # Admission => file'.id = node.rec.id
      BY <1>7 DEF FileKept
    <3>2. /\ Later("install")' <=> Later("install")
          /\ Later("restart")' <=> Later("restart")
      BY <2>3 DEF Later
    <3>3. node'.rec.id = node.rec.id /\ node'.up = node.up
      BY <1>7 DEF SameRequest
    <3> QED
      BY <1>2, <1>7, <2>1, <2>3, <3>1, <3>2, <3>3
  <2> QED
    BY <1>7, <2>2, <2>3
<1>8. CASE Over \/ Noted \/ Controlled \/ Outside
  BY <1>7, <1>8 DEF Over, Noted, Controlled, Outside, SameTask, SameRequest, FileKept
<1>9. CASE Admitted \/ Started
  <2>1. /\ node.todo \in Before /\ SameRequest /\ UNCHANGED calls
        /\ file'.id = node.rec.id
    BY <1>9, SingleCalls DEF Admitted, Started, Before, Admission, Waiting, Call
  <2>2. /\ calls[node.rec.id].install = 0 /\ calls[node.rec.id].restart = 0
        /\ node'.rec.id = node.rec.id /\ node'.up = node.up
    BY <2>1 DEF SameRequest
  <2>3. file'.id >= file.id
    <3>1. CASE Admitted
      BY <1>1, <2>1, <3>1 DEF Admitted, FileKept
    <3>2. CASE Started
      BY <1>1, <3>2 DEF Started
    <3> QED
      BY <1>9, <3>1, <3>2
  <2> QED
    BY <1>1, <1>2, <2>1, <2>2, <2>3
<1>10. CASE Advanced
  <2>1. /\ InRun /\ SameRequest /\ FileKept /\ node'.todo = Tail(node.todo)
        /\ calls' = IF node'.todo[1].name \notin {"install", "restart"} THEN calls
                    ELSE [calls EXCEPT ![node.rec.id][node'.todo[1].name] = @ + 1]
    BY <1>10 DEF Advanced
  <2>2. /\ node.rec.id \in Requests /\ node.todo # Admission /\ node.todo # <<>>
        /\ file.id = node.rec.id /\ file'.id = node.rec.id /\ node'.rec.id = node.rec.id
        /\ node'.todo \notin Before
    <3>1. node.rec.id \in Requests /\ node.todo # Admission /\ node.todo # <<>>
      BY <2>1 DEF InRun, QueueInv, Admission, Call
    <3>2. {"admit", "wait"} \cap Names(node'.todo) = {}
      <4>1. node.todo \notin Before
        BY <2>1 DEF InRun, Before, Admission, Waiting, Call
      <4>2. Names(node'.todo) \subseteq Names(node.todo)
        BY <2>1, RestOrdered DEF InRun, QueueInv, TypeOK, Nodes
      <4> QED
        BY <4>1, <4>2 DEF QueueInv
    <3>3. node'.todo \notin Before
      <4>1. "admit" \in Names(Admission) /\ "wait" \in Names(Waiting)
        BY DEF Names, Admission, Waiting, Call
      <4> QED
        BY <3>2, <4>1 DEF Before
    <3> QED
      BY <2>1, <3>1, <3>3 DEF FileKept, SameRequest
  <2>3. /\ node'.todo[1] = node.todo[2] /\ 2 \in DOMAIN node.todo
        /\ \A i \in DOMAIN node'.todo : node'.todo[i] = node.todo[i + 1] /\ i + 1 \in DOMAIN node.todo
        /\ DOMAIN node'.todo \subseteq Nat
    BY <2>1, RestShifted
  <2>4. ASSUME NEW k \in {"install", "restart"}, Later(k)'
        PROVE  Later(k) /\ node'.todo[1].name # k
    <3>1. PICK i \in DOMAIN node'.todo : i > 1 /\ node'.todo[i].name = k
      BY <2>4 DEF Later
    <3>2. node.todo[i + 1].name = k /\ i + 1 \in DOMAIN node.todo /\ i + 1 > 2
      BY <2>3, <3>1
    <3>3. Allowed(node.todo[2], node.todo[i + 1])
      BY <2>3, <3>2 DEF QueueInv, Paired
    <3> QED
      BY <2>3, <3>2, <3>3 DEF Later, Allowed
  <2>5. ASSUME NEW k \in {"install", "restart"}, node'.todo[1].name = k
        PROVE  Later(k)
    BY <2>3, <2>5 DEF Later
  <2>6. CASE node'.todo[1].name \notin {"install", "restart"}
    <3>1. calls' = calls
      BY <2>1, <2>6
    <3>2. file'.id >= file.id /\ (node'.up => node'.rec.id >= file'.id)
      BY <1>1, <2>2
    <3> QED
      BY <1>2, <2>2, <2>4, <3>1, <3>2
  <2>7. ASSUME NEW k \in {"install", "restart"}, node'.todo[1].name = k
        PROVE  Counted' /\ OneShot'
    <3>1. calls' = [calls EXCEPT ![node.rec.id][k] = @ + 1] /\ calls[node.rec.id][k] = 0
      BY <2>1, <2>5, <2>7
    <3>2. ~Later(k)'
      BY <2>4, <2>7
    <3>3. \A r \in Requests : r # node.rec.id => calls'[r] = calls[r]
      BY <1>1, <3>1
    <3>4. /\ calls'[node.rec.id][k] = 1
          /\ \A j \in {"install", "restart"} \ {k} : calls'[node.rec.id][j] = calls[node.rec.id][j]
      BY <1>1, <2>2, <3>1
    <3>5. OneShot'
      BY <2>2, <3>3, <3>4
    <3>6. \A r \in Requests : r > file'.id => r # node.rec.id /\ r > file.id
      BY <1>1, <2>2
    <3>7. \A j \in {"install", "restart"} : Later(j)' => calls'[node.rec.id][j] = 0
      BY <2>4, <3>2, <3>4
    <3>8. node'.up => node'.rec.id >= file'.id
      BY <1>1, <2>2
    <3> QED
      BY <2>2, <3>3, <3>5, <3>6, <3>7, <3>8
  <2> QED
    BY <2>6, <2>7
<1> QED
  BY <1>4, <1>5, <1>8, <1>9, <1>10, <1>6 DEF Outcome

\* No command crosses the raised fence.
LEMMA GuardStep ==
    ASSUME TypeOK, QueueInv, Guarded, Fenced, Outcome
    PROVE  Guarded' /\ Fenced'
<1> DEFINE Rising == \E i \in DOMAIN node.todo : i > 1 /\ Raises(node.todo[i])
           Waited(c) == \E i \in DOMAIN node.todo :
                           node.todo[i].name = "lock" /\ node.todo[i].arg = c
<1>1. /\ Guarded <=> /\ \A c \in Controllers : ctl[c].pc # "idle" => lock[c] = "controller"
                     /\ Rising => \A c \in Controllers : lock[c] = "node" \/ Waited(c)
      /\ Guarded' <=> /\ \A c \in Controllers : ctl'[c].pc # "idle" => lock'[c] = "controller"
                      /\ Rising' => \A c \in Controllers : lock'[c] = "node" \/ Waited(c)'
  BY DEF Guarded
<1> HIDE DEF Rising, Waited
\* The calls left raise nothing any more, or are those of before.
<1>2. ASSUME \A c \in Controllers : ctl'[c].pc # "idle" => lock'[c] = "controller",
             \A c \in Controllers : ctl'[c].pc = "sent" => ctl[c].pc = "sent",
             node'.fence => node.fence, ~Rising'
      PROVE  Guarded' /\ Fenced'
  BY <1>1, <1>2 DEF Fenced
<1>3. ASSUME node'.todo \in {<<>>, Admission, Waiting, Closing}
      PROVE  ~Rising'
  BY <1>3, SingleCalls DEF Rising
<1>4. CASE Accepted \/ Admitted \/ EndedEarly \/ Over \/ Stopped \/ Booted
  <2>1. ~Rising'
    BY <1>3, <1>4, DownTyped DEF Accepted, Admitted, EndedEarly, Over, Stopped, Booted
  <2>2. node'.fence => node.fence
    BY <1>4, DownTyped DEF Accepted, Admitted, EndedEarly, Over, Stopped, Booted
  <2>3. /\ \A c \in Controllers : ctl'[c].pc # "idle" => lock'[c] = "controller"
        /\ \A c \in Controllers : ctl'[c].pc = "sent" => ctl[c].pc = "sent"
    BY <1>1, <1>4 DEF Accepted, Admitted, EndedEarly, Over, Stopped, Booted
  <2> QED
    BY <1>2, <2>1, <2>2, <2>3
<1>5. CASE Noted \/ Outside \/ Controlled
  <2>1. Rising' <=> Rising
    BY <1>5 DEF Noted, Outside, Controlled, SameTask, Rising
  <2>2. \A c \in Controllers : Waited(c)' <=> Waited(c)
    BY <1>5 DEF Noted, Outside, Controlled, SameTask, Waited
  <2>3. \A c \in Controllers :
           /\ ctl'[c].pc # "idle" => lock'[c] = "controller"
           /\ lock[c] = "node" => lock'[c] = "node"
    BY <1>1, <1>5 DEF Noted, Outside, Controlled
  <2>4. \A c \in Controllers : node'.fence => node.fence /\ ctl'[c].pc # "sent"
    BY <1>5 DEF Noted, Outside, Controlled, SameTask, Fenced
  <2> QED
    BY <1>1, <2>1, <2>2, <2>3, <2>4 DEF Fenced
<1>6. CASE Started
  <2>1. \A c \in Controllers : Waited(c)'
    <3>1. /\ node'.todo = Run(node.rec.action) /\ node.rec.action \in Actions
      BY <1>6 DEF Started, TypeOK, Nodes, Records
    <3>2. /\ node'.todo[1].name = "lock" /\ node'.todo[1].arg = "battery"
          /\ node'.todo[2].name = "lock" /\ node'.todo[2].arg = "ev"
          /\ node'.todo \in Seq(AllCalls) /\ Len(node'.todo) > 2
      BY <3>1, RunOrdered
    <3>3. 1 \in DOMAIN node'.todo /\ 2 \in DOMAIN node'.todo
      BY <3>2
    <3> QED
      BY <3>2, <3>3 DEF Waited, Controllers
  <2> QED
    BY <1>1, <1>6, <2>1 DEF Started, Fenced
<1>7. CASE Advanced
  <2>1. /\ InRun /\ UNCHANGED ctl /\ node'.todo = Tail(node.todo)
        /\ node'.fence => node.fence \/ Raises(node'.todo[1])
        /\ \A c \in Controllers : lock[c] = "controller" => lock'[c] = "controller"
        /\ node'.todo[1].name # "restart" =>
             \A c \in Controllers :
               lock[c] = "node" \/ (node.todo[1].name = "lock" /\ node.todo[1].arg = c)
                  => lock'[c] = "node"
    BY <1>7 DEF Advanced
  <2>2. /\ node'.todo[1] = node.todo[2] /\ 1 \in DOMAIN node'.todo /\ 2 \in DOMAIN node.todo
        /\ \A i \in DOMAIN node'.todo : i + 1 \in DOMAIN node.todo /\ node'.todo[i] = node.todo[i + 1]
        /\ \A i \in DOMAIN node.todo :
              i = 1 \/ (i - 1 \in DOMAIN node'.todo /\ node'.todo[i - 1] = node.todo[i])
        /\ DOMAIN node'.todo \subseteq Nat \ {0} /\ DOMAIN node.todo \subseteq Nat \ {0}
    BY <2>1, RestShifted
  <2>3. Rising' \/ Raises(node'.todo[1]) => Rising /\ node'.todo[1].name # "restart"
    <3>1. ASSUME NEW i \in DOMAIN node'.todo, Raises(node'.todo[i])
          PROVE  Rising /\ node'.todo[1].name # "restart"
      <4>1. i + 1 \in DOMAIN node.todo /\ Raises(node.todo[i + 1]) /\ i + 1 > 1 /\ i \in Nat
        BY <2>2, <3>1
      <4>2. CASE i = 1
        BY <2>2, <3>1, <4>1, <4>2 DEF Rising, Raises
      <4>3. CASE i # 1
        <5>1. 2 < i + 1
          BY <2>2, <3>1, <4>1, <4>3
        <5>2. Allowed(node.todo[2], node.todo[i + 1])
          BY <2>2, <4>1, <5>1 DEF QueueInv, Paired
        <5> QED
          BY <2>2, <4>1, <5>2 DEF Rising, Allowed
      <4> QED
        BY <4>2, <4>3
    <3> QED
      BY <2>2, <3>1 DEF Rising
  <2>4. ASSUME Rising, node'.todo[1].name # "restart", NEW c \in Controllers
        PROVE  lock'[c] = "node" \/ Waited(c)'
    <3>1. CASE lock[c] = "node"
      BY <2>1, <2>4, <3>1
    <3>2. CASE Waited(c)
      <4>1. PICK i \in DOMAIN node.todo : node.todo[i].name = "lock" /\ node.todo[i].arg = c
        BY <3>2 DEF Waited
      <4>2. CASE i = 1
        BY <2>1, <2>4, <4>1, <4>2
      <4>3. CASE i # 1
        BY <2>2, <4>1, <4>3 DEF Waited
      <4> QED
        BY <4>2, <4>3
    <3> QED
      BY <1>1, <2>4, <3>1, <3>2
  <2>5. ASSUME Raises(node'.todo[1]), NEW c \in Controllers
        PROVE  lock'[c] = "node"
    <3>1. ~Waited(c)'
      <4>1. ASSUME NEW i \in DOMAIN node'.todo, node'.todo[i].name = "lock"
            PROVE  FALSE
        <5>1. i # 1 /\ i \in Nat /\ i \in DOMAIN node'.todo
          BY <2>2, <2>5, <4>1 DEF Raises
        <5>2. /\ i + 1 \in DOMAIN node.todo /\ node.todo[i + 1].name = "lock" /\ 2 < i + 1
              /\ Raises(node.todo[2])
          BY <2>2, <2>5, <4>1, <5>1
        <5>3. Allowed(node.todo[2], node.todo[i + 1])
          BY <2>2, <5>2 DEF QueueInv, Paired
        <5> QED
          BY <5>2, <5>3 DEF Allowed
      <4> QED
        BY <4>1 DEF Waited
    <3> QED
      BY <2>3, <2>4, <2>5, <3>1
  <2>6. \A c \in Controllers : ctl'[c].pc # "idle" => lock'[c] = "controller"
    BY <1>1, <2>1
  <2>7. Fenced'
    BY <2>1, <2>5, <2>6 DEF Fenced
  <2> QED
    BY <1>1, <2>3, <2>4, <2>6, <2>7
<1> QED
  BY <1>4, <1>5, <1>6, <1>7 DEF Outcome

\* A download that waits for its restart has its backup.
LEMMA BackStep ==
    ASSUME TypeOK, QueueInv, Backed, RecoverableBackup, Outcome
    PROVE  Backed' /\ RecoverableBackup'
<1>1. host.files \in Nat \ {0} /\ host.running \in Nat \ {0} /\ NoBackup = 0
  BY DEF TypeOK, Hosts, NoBackup
<1>2. /\ Names(<<>>) = {} /\ Names(Admission) = {"admit"} /\ Names(Waiting) = {"wait"}
      /\ Names(Closing) = {"close"} /\ <<>> \notin Before /\ Closing \notin Before
  BY SingleCalls DEF Names, Admission, Waiting, Closing, Call, Before
\* The step leaves nothing to back up or to install.
<1>3. ASSUME node'.todo \in {<<>>, Closing}, RecoverableBackup'
      PROVE  Backed' /\ RecoverableBackup'
  BY <1>2, <1>3 DEF Backed, Unbacked
<1>4. CASE Accepted
  <2>1. PICK r \in Requests :
            /\ node.up /\ Admissible(r) /\ node'.rec.action = asked[r].action
            /\ node'.rec.backup = KeptBackup /\ node'.todo = Admission /\ UNCHANGED host
    BY <1>4 DEF Accepted, Accepts
  <2>2. Pending' <=> Pending
    BY <2>1 DEF Pending
  <2>3. RecoverableBackup'
    BY <2>1, <2>2 DEF RecoverableBackup, KeptBackup
  <2>4. node'.rec.action = "update_and_restart" => ~Pending /\ node'.rec.backup = NoBackup
    BY <2>1 DEF Admissible, KeptBackup
  <2> QED
    BY <1>2, <2>1, <2>2, <2>3, <2>4 DEF Backed, Unbacked
<1>5. CASE Admitted \/ Started
  <2>1. /\ node.todo \in Before /\ SameRequest /\ node'.rec.backup = node.rec.backup
        /\ UNCHANGED host
    BY <1>5 DEF Admitted, Started, Before
  <2>2. Pending' <=> Pending
    BY <2>1 DEF Pending
  <2>3. "install" \in Names(node'.todo) =>
           "backup" \in Names(node'.todo) /\ node.rec.action = "update_and_restart"
    BY <1>2, <1>5, RunOrdered DEF Admitted, Started, TypeOK, Nodes, Records
  <2> QED
    BY <2>1, <2>2, <2>3 DEF Backed, Unbacked, RecoverableBackup, SameRequest
<1>6. ASSUME node.todo # <<>>, SameRequest, Installed, node.todo[1].name # "backup",
             node'.rec.backup = node.rec.backup
      PROVE  RecoverableBackup'
  <2>1. CASE UNCHANGED host
    BY <1>6, <2>1 DEF RecoverableBackup, SameRequest, Pending
  <2>2. CASE node.todo[1].name = "install" /\ host' = [host EXCEPT !.files = node.rec.version]
    <3>1. host'.running = host.running /\ host'.foreign = host.foreign
      BY <2>2 DEF TypeOK, Hosts
    <3>2. 1 \in DOMAIN node.todo /\ DOMAIN node.todo \subseteq Nat \ {0}
      BY <1>6 DEF TypeOK, Nodes
    <3>3. "install" \in Names(node.todo)
      BY <2>2, <3>2 DEF Names
    <3>4. "backup" \notin Names(node.todo)
      <4>1. ASSUME NEW i \in DOMAIN node.todo, node.todo[i].name = "backup"
            PROVE  FALSE
        <5>1. 1 < i
          BY <2>2, <3>2, <4>1
        <5> QED
          BY <2>2, <3>2, <4>1, <5>1 DEF QueueInv, Paired, Allowed
      <4> QED
        BY <4>1 DEF Names
    <3> QED
      BY <1>6, <3>1, <3>3, <3>4 DEF RecoverableBackup, Backed, SameRequest
  <2> QED
    BY <1>6, <2>1, <2>2 DEF Installed
<1>7. CASE EndedEarly
  <2>1. /\ node.todo # <<>> /\ SameRequest /\ node'.rec.backup = node.rec.backup /\ Installed
        /\ node'.todo = Closing
    BY <1>7 DEF EndedEarly
  <2>2. RecoverableBackup'
    <3>1. CASE UNCHANGED host
      BY <2>1, <3>1 DEF RecoverableBackup, SameRequest, Pending
    <3>2. CASE node.todo[1].name # "backup"
      BY <1>6, <2>1, <3>2
    <3> QED
      BY <2>1, <3>1, <3>2 DEF Installed
  <2> QED
    BY <1>3, <2>1, <2>2
<1>8. CASE Over
  <2>1. RecoverableBackup' /\ node'.todo = <<>>
    BY <1>8 DEF Over, RecoverableBackup, SameRequest, Pending
  <2> QED
    BY <1>3, <2>1
<1>9. CASE Noted \/ Controlled \/ Outside
  <2>1. /\ node'.todo = node.todo /\ node'.rec.action = node.rec.action
        /\ node'.rec.backup = node.rec.backup /\ node'.up = node.up
        /\ UNCHANGED host \/ host'.foreign
    BY <1>9 DEF Noted, Controlled, Outside, SameTask, SameRequest
  <2> QED
    BY <2>1 DEF Backed, Unbacked, RecoverableBackup, Pending
<1>10. CASE Stopped
  <2>1. node'.todo = <<>> /\ ~node'.up
    BY <1>10, DownTyped DEF Stopped
  <2> QED
    BY <1>3, <2>1 DEF RecoverableBackup
<1>11. CASE Booted
  <2>1. node'.todo = <<>> /\ ~Pending'
    BY <1>11 DEF Booted, Pending
  <2> QED
    BY <1>3, <2>1 DEF RecoverableBackup
<1>12. CASE Advanced
  <2>1. /\ InRun /\ SameRequest /\ Installed /\ node'.todo = Tail(node.todo) /\ node.todo # <<>>
        /\ node'.rec.backup = IF node.todo[1].name = "backup" /\ node.rec.backup = NoBackup
                                THEN host.files ELSE node.rec.backup
    BY <1>12 DEF Advanced, InRun
  <2>2. /\ 1 \in DOMAIN node.todo
        /\ \A i \in DOMAIN node'.todo : /\ i + 1 \in DOMAIN node.todo /\ 1 < i + 1
                                        /\ node'.todo[i] = node.todo[i + 1]
        /\ \A i \in DOMAIN node.todo :
              i = 1 \/ (i - 1 \in DOMAIN node'.todo /\ node'.todo[i - 1] = node.todo[i])
        /\ Names(node'.todo) \subseteq Names(node.todo)
    <3>1. /\ DOMAIN node'.todo \subseteq Nat \ {0} /\ 1 \in DOMAIN node'.todo
          /\ \A i \in DOMAIN node'.todo :
                i + 1 \in DOMAIN node.todo /\ node'.todo[i] = node.todo[i + 1]
          /\ \A i \in DOMAIN node.todo :
                i = 1 \/ (i - 1 \in DOMAIN node'.todo /\ node'.todo[i - 1] = node.todo[i])
          /\ Names(node'.todo) \subseteq Names(node.todo)
      BY <2>1, RestShifted
    <3>2. \A i \in DOMAIN node'.todo : 1 < i + 1
      BY <3>1
    <3>3. 1 \in DOMAIN node.todo
      BY <2>1 DEF TypeOK, Nodes
    <3> QED
      BY <3>1, <3>2, <3>3
  <2>3. node'.todo \notin Before
    <3>1. node.todo \notin Before
      BY <2>1 DEF InRun, Before, Admission, Waiting, Call
    <3>2. {"admit", "wait"} \cap Names(node'.todo) = {}
      BY <2>2, <3>1 DEF QueueInv
    <3> QED
      BY <1>2, <3>2 DEF Before
  <2>4. CASE node.todo[1].name = "backup"
    <3>1. UNCHANGED host
      BY <2>1, <2>4 DEF Installed
    <3>2. "backup" \in Names(node.todo) /\ "backup" \notin Names(node'.todo)
      <4>1. ASSUME NEW i \in DOMAIN node'.todo
            PROVE  node'.todo[i].name # "backup"
        BY <2>2, <2>4 DEF QueueInv, Paired, Allowed
      <4> QED
        BY <2>2, <2>4, <4>1 DEF Names
    <3>3. Pending' <=> Pending
      BY <3>1 DEF Pending
    <3>4. RecoverableBackup'
      BY <1>1, <2>1, <3>1, <3>3 DEF RecoverableBackup, SameRequest
    <3>5. ~host.foreign /\ "install" \in Names(node'.todo) =>
             ~Pending /\ node'.rec.backup = host.running
      BY <2>1, <2>2, <2>4, <3>2 DEF Backed, Unbacked, QueueInv, Pending
    <3> QED
      BY <2>3, <3>1, <3>2, <3>3, <3>4, <3>5 DEF Backed, Unbacked
  <2>5. CASE node.todo[1].name = "install"
    <3>1. "backup" \notin Names(node'.todo) /\ "install" \notin Names(node'.todo)
      <4>1. ASSUME NEW i \in DOMAIN node'.todo
            PROVE  node'.todo[i].name \notin {"backup", "install"}
        BY <2>2, <2>5 DEF QueueInv, Paired, Allowed
      <4> QED
        BY <4>1 DEF Names
    <3>2. RecoverableBackup'
      BY <1>6, <2>1, <2>5
    <3> QED
      BY <2>3, <3>1, <3>2 DEF Backed, Unbacked
  <2>6. CASE node.todo[1].name \notin {"backup", "install"}
    <3>1. UNCHANGED host /\ node'.rec.backup = node.rec.backup
      BY <2>1, <2>6 DEF Installed
    <3>2. "backup" \in Names(node.todo) => "backup" \in Names(node'.todo)
      BY <2>2, <2>6 DEF Names
    <3> QED
      BY <2>1, <2>2, <2>3, <3>1, <3>2 DEF Backed, Unbacked, RecoverableBackup, SameRequest, Pending
  <2> QED
    BY <2>4, <2>5, <2>6
<1> QED
  BY <1>4, <1>5, <1>7, <1>8, <1>9, <1>10, <1>11, <1>12 DEF Outcome

-----------------------------------------------------------------------------
(* The theorems. *)

NodeInv ==
    /\ TypeOK /\ QueueInv
    /\ Counted /\ OneShot
    /\ Guarded /\ Fenced
    /\ Backed /\ RecoverableBackup

\* A node that never ran satisfies the invariant.
LEMMA InitNode == Init => NodeInv
<1> SUFFICES ASSUME Init PROVE NodeInv
  OBVIOUS
<1>1. TypeOK
  <2>1. PICK v \in Versions : host = [files |-> v, running |-> v, foreign |-> FALSE]
    BY DEF Init
  <2>2. host \in Hosts
    BY <2>1, VersionsAssumption DEF Hosts
  <2> QED
    BY <2>2, DownTyped DEF Init, TypeOK
<1>2. node.todo = <<>> /\ ~node.up /\ ~node.fence /\ node.rec.action = "restart" /\ file.id = 0
  BY DownTyped DEF Init
<1>3. <<>> \notin Before /\ Names(<<>>) = {} /\ Paired(<<>>) /\ Closes(<<>>)
  BY SingleCalls DEF Before, Names, Paired, Closes
<1>4. QueueInv
  BY <1>2, <1>3 DEF QueueInv
<1>5. Counted /\ OneShot
  BY <1>2, <1>3 DEF Init, Counted, OneShot, Later
<1>6. Guarded /\ Fenced
  BY <1>2 DEF Init, Guarded, Fenced
<1>7. Backed /\ RecoverableBackup
  BY <1>2, <1>3 DEF Backed, Unbacked, RecoverableBackup
<1> QED
  BY <1>1, <1>4, <1>5, <1>6, <1>7 DEF NodeInv

\* Every step preserves the invariant.
LEMMA NextNode == NodeInv /\ [Next]_vars => NodeInv'
<1> SUFFICES ASSUME NodeInv, [Next]_vars PROVE NodeInv'
  OBVIOUS
<1>1. CASE Next
  <2>1. TypeOK /\ QueueInv /\ Holding
    BY DEF NodeInv, Guarded, Holding
  <2>2. TypeOK' /\ Outcome
    BY <1>1, <2>1, NextOutcome DEF Typed
  <2> QED
    BY <2>1, <2>2, QueueStep, CountStep, GuardStep, BackStep DEF NodeInv
<1>2. CASE UNCHANGED vars
  BY <1>2 DEF vars, NodeInv, TypeOK, QueueInv, Counted, OneShot, Guarded, Fenced, Backed,
      Unbacked, RecoverableBackup, Later, Pending
<1> QED
  BY <1>1, <1>2

\* Every run of the host's maintenance satisfies the inductive invariant.
THEOREM Maintained == Spec => []NodeInv
  BY InitNode, NextNode, PTL DEF Spec

\* A request installs and restarts at most once, however often it is delivered and
\* wherever Home Assistant stops.
THEOREM ActsOnce == Spec => []OneShot
<1>1. NodeInv => OneShot
  BY DEF NodeInv
<1> QED
  BY <1>1, Maintained, PTL

\* No command of a controller is on its way while the fence is up.
THEOREM CommandsFenced == Spec => []Fenced
<1>1. NodeInv => Fenced
  BY DEF NodeInv
<1> QED
  BY <1>1, Maintained, PTL

\* A download of its own that waits for its restart has a backup of what still runs.
THEOREM BackupKept == Spec => []RecoverableBackup
<1>1. NodeInv => RecoverableBackup
  BY DEF NodeInv
<1> QED
  BY <1>1, Maintained, PTL
-------------------------------------------------------------------------------
(* The smart socket. *)

RecoveryPhases == Active \cup Ended \cup {"idle"}
CarStates == [plugged : BOOLEAN, state : {"disconnected", "no_power", "stopped", "charging"},
              age : Nat, amps : {"under", "staged", "over"}, switch : BOOLEAN, faulty : BOOLEAN]
Views == [plugged : BOOLEAN, state : {"disconnected", "no_power", "stopped", "charging"},
          age : Nat, amps : {"under", "staged", "over"}, switch : BOOLEAN, range : BOOLEAN,
          on : BOOLEAN, fresh : BOOLEAN, visible : BOOLEAN]
Recoveries == [attempted : BOOLEAN, phase : RecoveryPhases, age : Nat]
Memories == [rec : Recoveries, stage : Nat \cup {Unset}]
Commands == {"amps", "start", "on", "off"}
Jobs == [obs : Views, kind : {"none", "plan", "recovery"}, cmds : Seq(Commands)]

SocketTypeOK ==
    /\ car \in CarStates /\ socket \in [on : BOOLEAN, fresh : BOOLEAN]
    /\ link \in BOOLEAN /\ range \in BOOLEAN /\ window \in BOOLEAN
    /\ target \in {"charge", "none", "reject"} /\ gate \in {"ready", "locked", "closed"}
    /\ setup \in [smart : BOOLEAN, switching : BOOLEAN]
    /\ mem \in Memories /\ disk \in Recoveries
    /\ pc \in {"idle", "decide", "plan", "send", "log"} /\ job \in Jobs
    /\ cuts \in Nat /\ changes \in Nat
    /\ pc = "send" => job.cmds # << >>

\* The evidence of sustained charging, in the car or in a view of it.
Charged(o) == o.state = "charging" /\ o.age >= Rearm

\* A recovery that has not yet asked for the power to be cut.
Uncut(rec) == rec.phase \in {"idle", "confirming_current"}

\* The commands of a recovery: the power is cut by a command of its own.
CutsOrNot(cmds) == cmds = <<"off">> \/ \A i \in DOMAIN cmds : cmds[i] # "off"

\* The inductive invariant behind OnePowerCycle.  A power-off is counted only while
\* the recovery, in memory and in the store, has gone beyond the phases that can ask
\* for one, and it returns to them only when the count has been closed: by sustained
\* charging or by the choice of the direct path.
Cutting == pc = "send" /\ job.kind = "recovery" /\ Head(job.cmds) = "off"
CycleInv ==
    /\ cuts <= 1
    /\ Uncut(mem.rec) \/ Uncut(disk) \/ Charged(car) \/ ~setup.smart => cuts = 0
    /\ pc = "send" /\ job.kind = "recovery" => CutsOrNot(job.cmds)
    /\ Cutting => /\ cuts = 0 /\ ~Charged(car) /\ setup.smart
                  /\ ~Uncut(mem.rec) /\ ~Uncut(disk)

-----------------------------------------------------------------------------
(* The reducers. *)

\* No command of a list of other commands cuts the power.
LEMMA ListsOfCommands ==
    /\ << >> \in Seq(Commands) /\ CutsOrNot(<< >>) /\ << >> # <<"off">>
    /\ <<"off">> \in Seq(Commands) /\ CutsOrNot(<<"off">>)
    /\ \A c \in Commands \ {"off"} :
          <<c>> \in Seq(Commands) /\ CutsOrNot(<<c>>) /\ <<c>> # <<"off">>
<1>1. /\ << >> \in Seq(Commands) /\ CutsOrNot(<< >>)
      /\ <<"off">> \in Seq(Commands) /\ CutsOrNot(<<"off">>)
  BY DEF Commands, CutsOrNot
<1>2. ASSUME NEW c \in Commands \ {"off"}
      PROVE  <<c>> \in Seq(Commands) /\ CutsOrNot(<<c>>) /\ <<c>> # <<"off">>
  <2>1. <<c>> \in Seq(Commands) /\ DOMAIN <<c>> = {1} /\ <<c>>[1] = c
    BY <1>2
  <2> QED
    BY <1>2, <2>1 DEF CutsOrNot
<1>3. << >> # <<"off">>
  <2>1. Len(<< >>) = 0 /\ Len(<<"off">>) = 1
    OBVIOUS
  <2> QED
    BY <2>1
<1> QED
  BY <1>1, <1>2, <1>3

\* The commands after a power cycle cut nothing.
LEMMA RestartStep ==
    ASSUME NEW o \in Views
    PROVE  /\ RecoveryRestart(o).rec = To("confirming_charging")
           /\ RecoveryRestart(o).cmds \in Seq(Commands) /\ CutsOrNot(RecoveryRestart(o).cmds)
           /\ RecoveryRestart(o).cmds # <<"off">>
<1> DEFINE a == IF o.amps = "staged" THEN << >> ELSE <<"amps">>
           b == IF o.switch THEN << >> ELSE <<"start">>
           S == {"amps", "start"}
<1>1. a \in Seq(S) /\ b \in Seq(S)
  OBVIOUS
<1>2. RecoveryRestart(o).rec = To("confirming_charging") /\ RecoveryRestart(o).cmds = a \o b
  BY DEF RecoveryRestart, Step
<1> HIDE DEF a, b
<1>3. a \o b \in Seq(S)
  BY <1>1
<1>4. \A i \in DOMAIN (a \o b) : (a \o b)[i] \in S
  BY <1>3
<1>5. a \o b \in Seq(Commands) /\ CutsOrNot(a \o b)
  BY <1>3, <1>4 DEF Commands, CutsOrNot
<1>6. a \o b # <<"off">>
  <2>1. 1 \in DOMAIN <<"off">> /\ <<"off">>[1] = "off"
    OBVIOUS
  <2> QED
    BY <1>4, <2>1
<1> QED
  BY <1>2, <1>5, <1>6

\* One step of the recovery: it asks for the power to be cut only from a phase that
\* has not, without sustained charging, and on the way to the phase that confirms it;
\* it returns to such a phase only on sustained charging.
Recovered(rec, o, r) ==
    /\ r.rec \in Recoveries /\ r.cmds \in Seq(Commands) /\ CutsOrNot(r.cmds)
    /\ r.cmds = <<"off">> => Uncut(rec) /\ ~Uncut(r.rec) /\ ~Charged(o)
    /\ Uncut(r.rec) => Uncut(rec) \/ Charged(o)

\* reconcile_smart_socket_recovery takes such steps.
LEMMA RecoverStep ==
    ASSUME NEW rec \in Recoveries, NEW o \in Views, NEW wanted \in BOOLEAN, NEW stable \in BOOLEAN
    PROVE  Recovered(rec, o, Recover(rec, o, wanted, stable))
<1> DEFINE Good(r) == Recovered(rec, o, r)
           off == Step(To("confirming_socket_off"), <<"off">>)
<1> SUFFICES Good(Recover(rec, o, wanted, stable))
  OBVIOUS
<1>1. /\ Idle \in Recoveries /\ Fault(rec) \in Recoveries /\ ~Uncut(Fault(rec))
      /\ \A p \in RecoveryPhases : To(p) \in Recoveries /\ To(p).phase = p
  BY DEF Idle, Fault, To, Recoveries, RecoveryPhases, Ended, Uncut
<1>2. Good(Step(rec, << >>)) /\ Good(Step(Fault(rec), << >>))
  BY <1>1, ListsOfCommands DEF Recovered, Step
<1>3. Charged(o) => Good(Step(Idle, << >>))
  BY <1>1, ListsOfCommands DEF Recovered, Step
<1>4. ~Charged(o) /\ Uncut(rec) => Good(off)
  <2>1. "confirming_socket_off" \in RecoveryPhases
    BY DEF RecoveryPhases, Active, Confirming
  <2> QED
    BY <1>1, <2>1, ListsOfCommands DEF Recovered, Step, Uncut
<1>5. rec.phase = "idle" => Good(Step(To("confirming_current"), <<"amps">>))
  <2>1. "confirming_current" \in RecoveryPhases /\ "amps" \in Commands \ {"off"}
    BY DEF RecoveryPhases, Active, Confirming, Commands
  <2> QED
    BY <1>1, <2>1, ListsOfCommands DEF Recovered, Step, Uncut
<1>6. ASSUME NEW p \in RecoveryPhases \ {"idle", "confirming_current"}
      PROVE  Good(Step(To(p), << >>))
  BY <1>1, <1>6, ListsOfCommands DEF Recovered, Step, Uncut
<1>7. Good(Step(To("confirming_socket_on"), <<"on">>))
  <2>1. "confirming_socket_on" \in RecoveryPhases /\ "on" \in Commands \ {"off"}
    BY DEF RecoveryPhases, Active, Confirming, Commands
  <2> QED
    BY <1>1, <2>1, ListsOfCommands DEF Recovered, Step, Uncut
<1>8. Good(RecoveryRestart(o))
  <2>1. "confirming_charging" \in RecoveryPhases
    BY DEF RecoveryPhases, Active, Confirming
  <2> QED
    BY <1>1, <2>1, RestartStep DEF Recovered, Uncut
<1>9. {"power_off_dwell", "post_power_settle", "awaiting_actuator", "recovered"}
        \subseteq RecoveryPhases \ {"idle", "confirming_current"}
  BY DEF RecoveryPhases, Active, Ended, Confirming
<1>10. rec.phase \in {"confirming_current", "confirming_socket_off", "confirming_socket_on",
          "awaiting_actuator", "confirming_charging", "power_off_dwell", "post_power_settle",
          "recovered", "fault", "idle"}
  BY DEF Recoveries, RecoveryPhases, Active, Ended, Confirming
<1>11. \A seen, next : Good(next) => Good(Await(rec, seen, next))
  <2> HIDE DEF Good
  <2> QED
    BY <1>2 DEF Await
<1> HIDE DEF Good, off
<1>12. CASE Charged(o)
  BY <1>3, <1>12 DEF Recover, Charged
<1>13. CASE ~Charged(o)
  <2> DEFINE R == Recover(rec, o, wanted, stable)
             staged == o.amps = "staged"
             permitted == Permitted(wanted)
             lasted == rec.phase \in Active /\ rec.age >= Lasts[rec.phase]
  <2>1. R = CASE rec.phase \in Ended -> Step(rec, << >>)
         [] rec.phase = "idle" ->
              IF ~Eligible(o, wanted, stable) THEN Step(rec, << >>)
              ELSE IF staged THEN off ELSE Step(To("confirming_current"), <<"amps">>)
         [] rec.phase = "confirming_current" -> Await(rec, staged, off)
         [] rec.phase = "confirming_socket_off" ->
              Await(rec, ~o.on, Step(To("power_off_dwell"), << >>))
         [] rec.phase = "power_off_dwell" ->
              IF ~lasted THEN Step(rec, << >>)
              ELSE IF permitted THEN Step(To("confirming_socket_on"), <<"on">>)
              ELSE Step(Fault(rec), << >>)
         [] rec.phase = "confirming_socket_on" ->
              Await(rec, o.on, Step(To("post_power_settle"), << >>))
         [] rec.phase = "post_power_settle" ->
              IF ~lasted THEN Step(rec, << >>)
              ELSE IF ~permitted \/ ~o.on THEN Step(Fault(rec), << >>)
              ELSE IF o.range THEN RecoveryRestart(o) ELSE Step(To("awaiting_actuator"), << >>)
         [] rec.phase = "awaiting_actuator" ->
              IF ~permitted \/ ~o.on THEN Step(Fault(rec), << >>)
              ELSE Await(rec, o.range, RecoveryRestart(o))
         [] rec.phase = "confirming_charging" ->
              Await(rec, o.state = "charging", Step(To("recovered"), << >>))
    BY <1>13 DEF Recover, Charged, off
  <2> HIDE DEF R, staged, permitted, lasted
  <2>2. CASE rec.phase \in Ended
    BY <1>2, <2>1, <2>2 DEF R, Ended
  <2>3. CASE rec.phase = "idle"
    <3>1. R = IF ~Eligible(o, wanted, stable) THEN Step(rec, << >>)
              ELSE IF staged THEN off ELSE Step(To("confirming_current"), <<"amps">>)
      BY <2>1, <2>3 DEF Ended
    <3>2. Good(off)
      BY <1>4, <1>13, <2>3 DEF Uncut, off
    <3> QED
      BY <1>2, <1>5, <2>3, <3>1, <3>2 DEF R
  <2>4. CASE rec.phase = "confirming_current"
    <3>1. R = Await(rec, staged, off)
      BY <2>1, <2>4 DEF Ended
    <3>2. Good(off)
      BY <1>4, <1>13, <2>4 DEF Uncut, off
    <3> QED
      BY <1>11, <3>1, <3>2 DEF R
  <2>5. CASE rec.phase = "confirming_socket_off"
    <3>1. R = Await(rec, ~o.on, Step(To("power_off_dwell"), << >>))
      BY <2>1, <2>5 DEF Ended
    <3> QED
      BY <1>6, <1>9, <1>11, <3>1 DEF R
  <2>6. CASE rec.phase = "power_off_dwell"
    <3>1. R = IF ~lasted THEN Step(rec, << >>)
              ELSE IF permitted THEN Step(To("confirming_socket_on"), <<"on">>)
              ELSE Step(Fault(rec), << >>)
      BY <2>1, <2>6 DEF Ended
    <3> QED
      BY <1>2, <1>7, <3>1 DEF R
  <2>7. CASE rec.phase = "confirming_socket_on"
    <3>1. R = Await(rec, o.on, Step(To("post_power_settle"), << >>))
      BY <2>1, <2>7 DEF Ended
    <3> QED
      BY <1>6, <1>9, <1>11, <3>1 DEF R
  <2>8. CASE rec.phase = "post_power_settle"
    <3>1. R = IF ~lasted THEN Step(rec, << >>)
              ELSE IF ~permitted \/ ~o.on THEN Step(Fault(rec), << >>)
              ELSE IF o.range THEN RecoveryRestart(o) ELSE Step(To("awaiting_actuator"), << >>)
      BY <2>1, <2>8 DEF Ended
    <3> QED
      BY <1>2, <1>6, <1>8, <1>9, <3>1 DEF R
  <2>9. CASE rec.phase = "awaiting_actuator"
    <3>1. R = IF ~permitted \/ ~o.on THEN Step(Fault(rec), << >>)
              ELSE Await(rec, o.range, RecoveryRestart(o))
      BY <2>1, <2>9 DEF Ended
    <3> QED
      BY <1>2, <1>8, <1>11, <3>1 DEF R
  <2>10. CASE rec.phase = "confirming_charging"
    <3>1. R = Await(rec, o.state = "charging", Step(To("recovered"), << >>))
      BY <2>1, <2>10 DEF Ended
    <3> QED
      BY <1>6, <1>9, <1>11, <3>1 DEF R
  <2> QED
    BY <1>10, <2>2, <2>3, <2>4, <2>5, <2>6, <2>7, <2>8, <2>9, <2>10 DEF R, Ended
<1> QED
  BY <1>12, <1>13

\* What the cycle sees is a view, at its capture and when it decides.
LEMMA ViewTyped ==
    ASSUME SocketTypeOK
    PROVE  /\ View \in Views /\ Now(job.obs) \in Views
           /\ Charged(Now(job.obs)) <=> Charged(car)
<1>1. job.obs \in Views /\ car \in CarStates /\ socket \in [on : BOOLEAN, fresh : BOOLEAN]
  BY DEF SocketTypeOK, Jobs
<1>2. View \in Views
  BY <1>1 DEF View, Views, CarStates, SocketTypeOK
<1>3. /\ Now(job.obs) \in Views
      /\ Now(job.obs).state = car.state /\ Now(job.obs).age = car.age
  BY <1>1 DEF Now, Views, CarStates
<1> QED
  BY <1>2, <1>3 DEF Charged

\* The ordinary plan and its held staging write are commands too.
LEMMA PlanTyped ==
    ASSUME SocketTypeOK, NEW o, NEW wanted, NEW connected, NEW inWindow
    PROVE  /\ Plan(o, wanted, connected, inWindow) \in Seq(Commands)
           /\ LET s == Staged(mem.stage, o, Plan(o, wanted, connected, inWindow)) IN
              s.stage \in Nat \cup {Unset} /\ s.cmds \in Seq(Commands)
<1> DEFINE amps == IF o.amps = "staged" THEN << >> ELSE <<"amps">>
           on == IF o.amps = "over" THEN << >> ELSE <<"on">>
           start == IF o.switch THEN << >> ELSE <<"start">>
           plan == Plan(o, wanted, connected, inWindow)
<1>1. amps \in Seq(Commands) /\ on \in Seq(Commands) /\ start \in Seq(Commands)
  BY ListsOfCommands DEF Commands
<1> HIDE DEF amps, on, start
<1>2. amps \o on \in Seq(Commands) /\ amps \o start \in Seq(Commands)
  BY <1>1
<1>3. plan = CASE ~wanted ->
                IF o.on /\ ~inWindow /\ (setup.switching \/ ~connected) THEN <<"off">> ELSE << >>
           [] wanted /\ ~o.on -> amps \o on
           [] wanted /\ o.on /\ o.fresh -> << >>
           [] OTHER -> amps \o start
  BY DEF Plan, amps, on, start
<1> HIDE DEF plan
<1>4. plan \in Seq(Commands)
  BY <1>2, <1>3, ListsOfCommands
<1>5. mem.stage \in Nat \cup {Unset}
  BY DEF SocketTypeOK, Memories
<1>6. Staged(mem.stage, o, plan).stage \in Nat \cup {Unset}
      /\ Staged(mem.stage, o, plan).cmds \in Seq(Commands)
  BY <1>4, <1>5, ListsOfCommands DEF Staged
<1> QED
  BY <1>4, <1>6 DEF plan

\* Empty jobs, restored memories and jobs with other commands.
LEMMA JobsTyped ==
    /\ NoJob \in Jobs /\ NoJob.kind = "none" /\ Idle \in Recoveries
    /\ \A d \in Recoveries : Fresh(d) \in Memories /\ Fresh(d).rec = d
    /\ \A o \in Views : [NoJob EXCEPT !.obs = o] \in Jobs /\ [NoJob EXCEPT !.obs = o].kind = "none"
    /\ \A j \in Jobs, k \in {"plan", "recovery"}, c \in Seq(Commands) :
          LET i == [j EXCEPT !.kind = k, !.cmds = c]
          IN  i \in Jobs /\ i.kind = k /\ i.cmds = c /\ i.obs = j.obs
    /\ \A j \in Jobs, c \in Seq(Commands) :
          LET i == [j EXCEPT !.cmds = c] IN i \in Jobs /\ i.kind = j.kind /\ i.cmds = c
<1>1. NoView \in Views
  BY DEF NoView, Views
<1>2. NoJob \in Jobs /\ NoJob.kind = "none"
  BY <1>1, ListsOfCommands DEF NoJob, Jobs
<1>3. Idle \in Recoveries
  BY DEF Idle, Recoveries, RecoveryPhases
<1>4. \A d \in Recoveries : Fresh(d) \in Memories /\ Fresh(d).rec = d
  BY DEF Fresh, Memories
<1>5. \A o \in Views : [NoJob EXCEPT !.obs = o] \in Jobs /\ [NoJob EXCEPT !.obs = o].kind = "none"
  BY <1>2 DEF Jobs
<1>6. ASSUME NEW j \in Jobs, NEW k \in {"plan", "recovery"}, NEW c \in Seq(Commands)
      PROVE  LET i == [j EXCEPT !.kind = k, !.cmds = c]
             IN  i \in Jobs /\ i.kind = k /\ i.cmds = c /\ i.obs = j.obs
  BY <1>6 DEF Jobs
<1>7. ASSUME NEW j \in Jobs, NEW c \in Seq(Commands)
      PROVE  LET i == [j EXCEPT !.cmds = c] IN i \in Jobs /\ i.kind = j.kind /\ i.cmds = c
  BY <1>7 DEF Jobs
<1> QED
  BY <1>2, <1>3, <1>4, <1>5, <1>6, <1>7

-----------------------------------------------------------------------------
(* The controller: what a step of the cycle leaves in memory, store and job. *)

\* The memory, the store and the suspended cycle are typed and consistent; the count
\* is open only while no recovery can ask for a power-off.
Holder ==
    /\ mem \in Memories /\ disk \in Recoveries /\ job \in Jobs /\ changes \in Nat
    /\ pc \in {"idle", "decide", "plan", "send", "log"}
    /\ pc = "send" => job.cmds # << >>

\* A step of the cycle that sends nothing keeps the invariant.
Decides ==
    /\ Holder' /\ cuts' = cuts
    /\ Uncut(mem'.rec) => Uncut(mem.rec) \/ Charged(car) \/ ~setup.smart
    /\ Uncut(disk') => Uncut(disk) \/ Uncut(mem'.rec)
    /\ pc' = "send" /\ job'.kind = "recovery" => CutsOrNot(job'.cmds)
    /\ Cutting' => /\ Uncut(mem.rec) /\ ~Uncut(mem'.rec) /\ disk' = mem'.rec
                   /\ ~Charged(car) /\ setup.smart

\* Each such step.
LEMMA DecidesStep ==
    ASSUME SocketTypeOK, Look \/ DecideNothing \/ DecideUnplugged \/ DecidePlugged \/ PlanAfterSave \/ Log
    PROVE  Decides
<1>1. /\ mem \in Memories /\ mem.rec \in Recoveries /\ disk \in Recoveries /\ job \in Jobs
      /\ changes \in Nat /\ NoJob \in Jobs /\ NoJob.kind = "none"
  BY JobsTyped DEF SocketTypeOK, Memories
<1>2. Spend => changes' \in Nat
  BY <1>1 DEF Spend
<1>3. CASE Look
  <2>1. /\ mem' = mem \/ (~setup.smart /\ mem' = Fresh(Idle))
        /\ cuts' = cuts
        /\ \/ disk' = mem'.rec /\ changes' = changes /\ pc' = "decide" /\ job' = [NoJob EXCEPT !.obs = View]
           \/ disk' = disk /\ changes' = changes /\ pc' = "decide" /\ job' = [NoJob EXCEPT !.obs = View]
           \/ disk' = disk /\ Spend /\ pc' = "idle" /\ job' = NoJob
    BY <1>3 DEF Look, SaveOk, SaveFails, Kept, End
  <2>2. mem' \in Memories /\ mem'.rec \in Recoveries
        /\ (Uncut(mem'.rec) => Uncut(mem.rec) \/ ~setup.smart)
    <3>1. CASE mem' = mem
      BY <1>1, <3>1
    <3>2. CASE ~setup.smart /\ mem' = Fresh(Idle)
      BY <3>2, JobsTyped
    <3> QED
      BY <2>1, <3>1, <3>2
  <2>3. job' \in Jobs /\ pc' \in {"decide", "idle"}
    <3>1. View \in Views
      BY ViewTyped
    <3>2. [NoJob EXCEPT !.obs = View] \in Jobs
      BY <1>1, <3>1 DEF Jobs
    <3> QED
      BY <1>1, <2>1, <3>2
  <2>4. disk' \in Recoveries /\ (Uncut(disk') => Uncut(disk) \/ Uncut(mem'.rec))
    BY <1>1, <2>1, <2>2
  <2>5. changes' \in Nat
    BY <1>1, <1>2, <2>1
  <2> QED
    BY <2>1, <2>2, <2>3, <2>4, <2>5 DEF Decides, Holder, Cutting
<1>4. CASE DecideNothing
  BY <1>1, <1>4 DEF DecideNothing, Kept, End, Decides, Holder, Cutting
<1>5. ASSUME NEW cmds \in Seq(Commands), BeginCycle("plan", cmds), cmds # << >>,
             mem'.rec = mem.rec, mem' \in Memories, UNCHANGED <<disk, changes, cuts>>
      PROVE  Decides
  <2>1. job' \in Jobs /\ job'.kind = "plan" /\ job'.cmds = cmds /\ pc' = "send"
    BY <1>1, <1>5, JobsTyped DEF BeginCycle
  <2> QED
    BY <1>1, <1>5, <2>1 DEF Decides, Holder, Cutting
<1>6. ASSUME End, mem'.rec = mem.rec, mem' \in Memories, UNCHANGED <<disk, changes, cuts>>
      PROVE  Decides
  BY <1>1, <1>6 DEF End, Decides, Holder, Cutting
<1>7. CASE DecideUnplugged
  <2> DEFINE cmds == Plan(Now(job.obs), FALSE, FALSE, window)
  <2>1. cmds \in Seq(Commands)
    BY PlanTyped
  <2>2. UNCHANGED <<mem, disk, changes, cuts>> /\ (End \/ (cmds # << >> /\ BeginCycle("plan", cmds)))
    BY <1>7 DEF DecideUnplugged, Kept
  <2> HIDE DEF cmds
  <2> QED
    BY <1>1, <1>5, <1>6, <2>1, <2>2
<1>8. CASE DecidePlugged
  <2>1. PICK stable \in BOOLEAN :
          LET o == Now(job.obs)
              wanted == target = "charge"
              r == Recover(mem.rec, o, wanted, stable)
              busy == r.rec.phase \in Active \/ r.cmds # << >>
              plan == Plan(o, wanted, TRUE, window)
              s == Staged(mem.stage, o, plan)
          IN /\ Ready /\ UNCHANGED <<car, socket, site, cuts>>
             /\ \/ Kept /\ End
                \/ /\ mem' = [mem EXCEPT !.rec = r.rec]
                   /\ \/ SaveFails
                      \/ /\ SaveOk
                         /\ \/ r.cmds # << >> /\ BeginCycle("recovery", r.cmds)
                            \/ End
                            \/ pc' = "plan" /\ job' = [job EXCEPT !.obs = o]
                \/ /\ mem' = [mem EXCEPT !.stage = s.stage] /\ UNCHANGED <<disk, changes>>
                   /\ IF s.cmds = << >> THEN End ELSE BeginCycle("plan", s.cmds)
    BY <1>8 DEF DecidePlugged
  <2> DEFINE o == Now(job.obs)
             wanted == target = "charge"
             r == Recover(mem.rec, o, wanted, stable)
             s == Staged(mem.stage, o, Plan(o, wanted, TRUE, window))
  <2>2. o \in Views /\ wanted \in BOOLEAN /\ (Charged(o) <=> Charged(car))
    BY ViewTyped
  <2>3. Recovered(mem.rec, o, r)
    BY <1>1, <2>2, RecoverStep
  <2>4. s.stage \in Nat \cup {Unset} /\ s.cmds \in Seq(Commands)
    BY PlanTyped
  <2>5. /\ UNCHANGED cuts /\ setup.smart
        /\ \/ Kept /\ End
           \/ /\ mem' = [mem EXCEPT !.rec = r.rec]
              /\ \/ SaveFails
                 \/ /\ SaveOk
                    /\ \/ r.cmds # << >> /\ BeginCycle("recovery", r.cmds)
                       \/ End
                       \/ pc' = "plan" /\ job' = [job EXCEPT !.obs = o]
           \/ /\ mem' = [mem EXCEPT !.stage = s.stage] /\ UNCHANGED <<disk, changes>>
              /\ IF s.cmds = << >> THEN End ELSE BeginCycle("plan", s.cmds)
    BY <2>1 DEF Ready
  <2> HIDE DEF o, r, s, wanted
  <2>6. CASE Kept /\ End
    BY <1>1, <1>6, <2>5, <2>6 DEF Kept
  <2>7. CASE mem' = [mem EXCEPT !.stage = s.stage] /\ UNCHANGED <<disk, changes>>
             /\ IF s.cmds = << >> THEN End ELSE BeginCycle("plan", s.cmds)
    <3>1. mem' \in Memories /\ mem'.rec = mem.rec
      BY <1>1, <2>4, <2>7 DEF Memories
    <3> QED
      BY <1>5, <1>6, <2>4, <2>5, <2>7, <3>1
  <2>8. CASE /\ mem' = [mem EXCEPT !.rec = r.rec]
             /\ \/ SaveFails
                \/ /\ SaveOk
                   /\ \/ r.cmds # << >> /\ BeginCycle("recovery", r.cmds)
                      \/ End
                      \/ pc' = "plan" /\ job' = [job EXCEPT !.obs = o]
    <3>1. mem' \in Memories /\ mem'.rec = r.rec /\ r.rec \in Recoveries
      BY <1>1, <2>3, <2>8 DEF Memories, Recovered
    <3>2. Uncut(mem'.rec) => Uncut(mem.rec) \/ Charged(car)
      BY <2>2, <2>3, <3>1 DEF Recovered
    <3>3. CASE SaveFails
      BY <1>1, <1>2, <2>5, <3>1, <3>2, <3>3 DEF SaveFails, End, Decides, Holder, Cutting
    <3>4. CASE SaveOk /\ End
      BY <1>1, <2>5, <3>1, <3>2, <3>4 DEF SaveOk, End, Decides, Holder, Cutting
    <3>5. CASE SaveOk /\ pc' = "plan" /\ job' = [job EXCEPT !.obs = o]
      <4>1. job' \in Jobs
        BY <1>1, <2>2, <3>5 DEF Jobs
      <4> QED
        BY <1>1, <2>5, <3>1, <3>2, <3>5, <4>1 DEF SaveOk, Decides, Holder, Cutting
    <3>6. CASE SaveOk /\ r.cmds # << >> /\ BeginCycle("recovery", r.cmds)
      <4>1. job' \in Jobs /\ job'.kind = "recovery" /\ job'.cmds = r.cmds /\ pc' = "send"
        <5>1. r.cmds \in Seq(Commands)
          BY <2>3 DEF Recovered
        <5>2. pc' = "send" /\ job' = [job EXCEPT !.kind = "recovery", !.cmds = r.cmds]
          BY <3>6 DEF BeginCycle
        <5> QED
          BY <1>1, <5>1, <5>2 DEF Jobs
      <4>2. Head(r.cmds) = "off" => r.cmds = <<"off">>
        <5>1. r.cmds \in Seq(Commands) /\ CutsOrNot(r.cmds)
          BY <2>3 DEF Recovered
        <5>2. 1 \in DOMAIN r.cmds /\ Head(r.cmds) = r.cmds[1]
          BY <3>6, <5>1
        <5> QED
          BY <5>1, <5>2 DEF CutsOrNot
      <4>3. Cutting' => Uncut(mem.rec) /\ ~Uncut(mem'.rec) /\ ~Charged(car)
        BY <2>2, <2>3, <3>1, <4>1, <4>2 DEF Cutting, Recovered
      <4>4. CutsOrNot(job'.cmds)
        BY <2>3, <4>1 DEF Recovered
      <4> QED
        BY <1>1, <2>5, <3>1, <3>2, <3>6, <4>1, <4>3, <4>4 DEF SaveOk, Decides, Holder
    <3> QED
      BY <2>8, <3>3, <3>4, <3>5, <3>6
  <2> QED
    BY <2>5, <2>6, <2>7, <2>8
<1>9. CASE PlanAfterSave
  <2> DEFINE s == Staged(mem.stage, job.obs, Plan(job.obs, target = "charge", TRUE, window))
  <2>1. s.stage \in Nat \cup {Unset} /\ s.cmds \in Seq(Commands)
    BY PlanTyped
  <2>2. /\ mem' = [mem EXCEPT !.stage = s.stage] /\ UNCHANGED <<disk, changes, cuts>>
        /\ IF s.cmds = << >> THEN End ELSE BeginCycle("plan", s.cmds)
    BY <1>9 DEF PlanAfterSave
  <2> HIDE DEF s
  <2>3. mem' \in Memories /\ mem'.rec = mem.rec
    BY <1>1, <2>1, <2>2 DEF Memories
  <2> QED
    BY <1>5, <1>6, <2>1, <2>2, <2>3
<1>10. CASE Log
  <2>1. mem' = mem /\ End /\ (SaveOk \/ (disk' = disk /\ Spend)) /\ cuts' = cuts
    BY <1>10 DEF Log
  <2> QED
    BY <1>1, <1>2, <2>1 DEF End, SaveOk, Decides, Holder, Cutting
<1> QED
  BY <1>3, <1>4, <1>7, <1>8, <1>9, <1>10

\* One command of the plan is gone, in memory and store nothing has changed.
Sends ==
    /\ car' \in CarStates /\ car'.state = car.state /\ car'.age = car.age
    /\ socket' \in [on : BOOLEAN, fresh : BOOLEAN]
    /\ UNCHANGED <<site, mem, disk>>
    /\ job' \in Jobs /\ pc' \in {"send", "log"} /\ (pc' = "send" => job'.cmds # << >>)
    /\ changes' \in Nat
    /\ cuts' = IF Cutting THEN cuts + 1 ELSE cuts
    /\ pc = "send" /\ job'.kind = job.kind
    /\ job.kind = "recovery" /\ CutsOrNot(job.cmds) =>
          CutsOrNot(job'.cmds) /\ ~Cutting'

\* A service changes the car and the socket and keeps their types.
LEMMA ApplyTyped ==
    ASSUME SocketTypeOK, NEW c \in Commands, Apply(c) \/ UNCHANGED <<car, socket>>
    PROVE  /\ car' \in CarStates /\ car'.state = car.state /\ car'.age = car.age
           /\ socket' \in [on : BOOLEAN, fresh : BOOLEAN]
<1>1. car \in CarStates /\ socket \in [on : BOOLEAN, fresh : BOOLEAN]
  BY DEF SocketTypeOK
<1>2. CASE UNCHANGED <<car, socket>>
  BY <1>1, <1>2
<1>3. CASE Apply(c)
  <2>1. car' \in CarStates /\ car'.state = car.state /\ car'.age = car.age
    <3>1. car' \in Cars(c)
      BY <1>3 DEF Apply
    <3>2. CASE c = "amps"
      BY <1>1, <3>1, <3>2 DEF Cars, CarStates
    <3>3. CASE c = "start"
      BY <1>1, <3>1, <3>3 DEF Cars, CarStates
    <3>4. CASE c = "on"
      <4>1. PICK f \in BOOLEAN : car' = [car EXCEPT !.faulty = f]
        BY <3>1, <3>4 DEF Cars
      <4> QED
        BY <1>1, <4>1 DEF CarStates
    <3>5. CASE c = "off"
      BY <1>1, <3>1, <3>5 DEF Cars
    <3> QED
      BY <3>2, <3>3, <3>4, <3>5 DEF Commands
  <2>2. socket' \in [on : BOOLEAN, fresh : BOOLEAN]
    <3>1. socket' = Sockets(c)
      BY <1>3 DEF Apply
    <3>2. (~socket.on \/ socket.fresh) \in BOOLEAN
      OBVIOUS
    <3>3. [on |-> TRUE, fresh |-> ~socket.on \/ socket.fresh] \in [on : BOOLEAN, fresh : BOOLEAN]
      BY <3>2
    <3>4. [on |-> FALSE, fresh |-> FALSE] \in [on : BOOLEAN, fresh : BOOLEAN]
      OBVIOUS
    <3> QED
      BY <1>1, <3>1, <3>3, <3>4 DEF Sockets
  <2> QED
    BY <2>1, <2>2
<1> QED
  BY <1>2, <1>3

\* What is left of a list after its first command.
LEMMA TailOfCommands ==
    ASSUME NEW cmds \in Seq(Commands), cmds # << >>
    PROVE  /\ Head(cmds) \in Commands /\ Tail(cmds) \in Seq(Commands)
           /\ Len(cmds) # 1 => Tail(cmds) # << >>
           /\ CutsOrNot(cmds) => /\ CutsOrNot(Tail(cmds))
                                 /\ Tail(cmds) = << >> \/ Head(Tail(cmds)) # "off"
<1>1. /\ Tail(cmds) \in Seq(Commands) /\ Len(Tail(cmds)) = Len(cmds) - 1
      /\ \A i \in 1 .. Len(cmds) - 1 : Tail(cmds)[i] = cmds[i + 1]
      /\ Len(cmds) \in Nat \ {0} /\ DOMAIN Tail(cmds) = 1 .. Len(cmds) - 1
      /\ DOMAIN cmds = 1 .. Len(cmds)
  OBVIOUS
<1>2. Head(cmds) \in Commands
  OBVIOUS
<1>3. Len(cmds) # 1 => Tail(cmds) # << >>
  <2>1. Len(<< >>) = 0
    OBVIOUS
  <2>2. Len(cmds) # 1 => Len(Tail(cmds)) # 0
    BY <1>1
  <2> QED
    BY <2>1, <2>2
<1>4. CASE cmds = <<"off">>
  <2>1. Tail(cmds) = << >>
    BY <1>4
  <2> QED
    BY <1>1, <1>2, <1>3, <2>1, ListsOfCommands
<1>5. CASE \A i \in DOMAIN cmds : cmds[i] # "off"
  <2>1. \A i \in DOMAIN Tail(cmds) : i + 1 \in DOMAIN cmds
    BY <1>1
  <2>2. \A i \in DOMAIN Tail(cmds) : Tail(cmds)[i] # "off"
    BY <1>1, <1>5, <2>1
  <2>3. Tail(cmds) # << >> => 1 \in DOMAIN Tail(cmds) /\ Head(Tail(cmds)) = Tail(cmds)[1]
    BY <1>1
  <2> QED
    BY <1>1, <1>2, <1>3, <2>2, <2>3 DEF CutsOrNot
<1> QED
  BY <1>1, <1>2, <1>3, <1>4, <1>5 DEF CutsOrNot

\* A command is sent, or fails to be.
LEMMA SendsStep ==
    ASSUME SocketTypeOK, Send \/ SendFails
    PROVE  Sends \/ (/\ UNCHANGED <<car, socket, site, mem, disk, cuts, changes>>
                     /\ pc' = "log" /\ job' \in Jobs)
<1>1. job \in Jobs /\ job.cmds \in Seq(Commands) /\ pc = "send" /\ job.cmds # << >>
  BY DEF SocketTypeOK, Jobs, Send, SendFails
<1>2. Head(job.cmds) \in Commands /\ Tail(job.cmds) \in Seq(Commands)
  BY <1>1, TailOfCommands
<1>3. Count(Head(job.cmds)) => cuts' = IF Cutting THEN cuts + 1 ELSE cuts
  BY <1>1 DEF Count, Cutting
<1>4. Spend \/ UNCHANGED changes => changes' \in Nat
  BY DEF Spend, SocketTypeOK
<1>5. CASE Send
  <2>1. /\ car' \in CarStates /\ car'.state = car.state /\ car'.age = car.age
        /\ socket' \in [on : BOOLEAN, fresh : BOOLEAN]
    BY <1>2, <1>5, ApplyTyped DEF Send
  <2>2. job' = [job EXCEPT !.cmds = Tail(job.cmds)]
        /\ pc' = (IF Len(job.cmds) = 1 THEN "log" ELSE "send")
    BY <1>5 DEF Send, Rest
  <2>3. job' \in Jobs /\ job'.kind = job.kind /\ job'.cmds = Tail(job.cmds)
    BY <1>1, <1>2, <2>2 DEF Jobs
  <2>4. pc' \in {"send", "log"} /\ (pc' = "send" => job'.cmds # << >>)
    BY <1>1, <2>2, <2>3, TailOfCommands
  <2>5. CutsOrNot(job.cmds) => CutsOrNot(job'.cmds) /\ ~Cutting'
    BY <1>1, <2>3, <2>4, TailOfCommands DEF Cutting
  <2>6. UNCHANGED <<site, mem, disk>> /\ changes' \in Nat /\ Count(Head(job.cmds))
    BY <1>4, <1>5 DEF Send
  <2> QED
    BY <1>1, <1>3, <2>1, <2>3, <2>4, <2>5, <2>6 DEF Sends
<1>6. CASE SendFails
  <2>1. pc' = "log" /\ job' = [job EXCEPT !.cmds = << >>] /\ UNCHANGED <<site, mem, disk>>
    BY <1>6 DEF SendFails
  <2>2. job' \in Jobs /\ job'.kind = job.kind /\ job'.cmds = << >>
    BY <1>1, <2>1, ListsOfCommands DEF Jobs
  <2>3. CASE UNCHANGED <<car, socket, cuts, changes>>
    BY <2>1, <2>2, <2>3
  <2>4. CASE Spend /\ Count(Head(job.cmds)) /\ (Apply(Head(job.cmds)) \/ UNCHANGED <<car, socket>>)
    <3>1. /\ car' \in CarStates /\ car'.state = car.state /\ car'.age = car.age
          /\ socket' \in [on : BOOLEAN, fresh : BOOLEAN]
      BY <1>2, <2>4, ApplyTyped
    <3> QED
      BY <1>1, <1>3, <1>4, <2>1, <2>2, <2>4, <3>1, ListsOfCommands DEF Sends, Cutting
  <2> QED
    BY <1>6, <2>3, <2>4 DEF SendFails
<1> QED
  BY <1>5, <1>6

-----------------------------------------------------------------------------
(* The invariant. *)

\* The initial states are typed and no power has been cut.
LEMMA InitInv == SocketInit => SocketTypeOK /\ CycleInv
<1> SUFFICES ASSUME SocketInit
             PROVE  SocketTypeOK /\ CycleInv
  OBVIOUS
<1>1. car \in CarStates
  BY DEF SocketInit, CarStates
<1>2. setup \in [smart : BOOLEAN, switching : BOOLEAN]
  BY DEF SocketInit
<1>3. SocketTypeOK
  BY <1>1, <1>2, JobsTyped DEF SocketInit, SocketTypeOK
<1> QED
  BY <1>3 DEF SocketInit, CycleInv, Cutting

\* Time ages a recovery within its phase.
LEMMA OlderTyped ==
    ASSUME NEW rec \in Recoveries
    PROVE  Older(rec) \in Recoveries /\ Older(rec).phase = rec.phase
  BY DEF Older, Recoveries

\* Every action preserves the types and the inductive invariant.
LEMMA NextInv == SocketTypeOK /\ CycleInv /\ [SocketNext]_socketVars => SocketTypeOK' /\ CycleInv'
<1> SUFFICES ASSUME SocketTypeOK, CycleInv, [SocketNext]_socketVars
             PROVE  SocketTypeOK' /\ CycleInv'
  OBVIOUS
<1>1. mem.rec \in Recoveries /\ mem \in Memories /\ disk \in Recoveries
      /\ cuts \in Nat /\ changes \in Nat
  BY DEF SocketTypeOK, Memories
<1>2. CASE Look \/ DecideNothing \/ DecideUnplugged \/ DecidePlugged \/ PlanAfterSave \/ Log
  <2>1. Decides
    BY <1>2, DecidesStep
  <2>2. UNCHANGED <<car, socket, site>>
    BY <1>2 DEF Look, DecideNothing, DecideUnplugged, DecidePlugged, PlanAfterSave, Log
  <2>3. SocketTypeOK'
    BY <2>1, <2>2 DEF SocketTypeOK, Decides, Holder, site
  <2>4. CycleInv'
    BY <2>1, <2>2 DEF CycleInv, Decides, Charged, Uncut, site
  <2> QED
    BY <2>3, <2>4
<1>3. CASE Send \/ SendFails
  <2>1. CASE Sends
    <3>1. SocketTypeOK'
      BY <1>1, <2>1 DEF SocketTypeOK, Sends, site
    <3>2. Charged(car') <=> Charged(car)
      BY <2>1 DEF Sends, Charged
    <3>3. CASE Cutting
      <4>1. cuts' = 1 /\ ~Uncut(mem'.rec) /\ ~Uncut(disk') /\ ~Charged(car') /\ setup'.smart
        BY <2>1, <3>2, <3>3 DEF Sends, CycleInv, site
      <4>2. pc' = "send" /\ job'.kind = "recovery" => CutsOrNot(job'.cmds) /\ ~Cutting'
        BY <2>1 DEF Sends, CycleInv
      <4>3. ~Cutting'
        BY <4>2 DEF Cutting
      <4> QED
        BY <3>1, <4>1, <4>2, <4>3 DEF CycleInv
    <3>4. CASE ~Cutting
      <4>1. cuts' = cuts /\ mem' = mem /\ disk' = disk /\ setup' = setup
        BY <2>1, <3>4 DEF Sends, site
      <4>2. pc' = "send" /\ job'.kind = "recovery" => CutsOrNot(job'.cmds) /\ ~Cutting'
        BY <2>1 DEF Sends, CycleInv
      <4>3. ~Cutting'
        BY <4>2 DEF Cutting
      <4> QED
        BY <3>1, <3>2, <4>1, <4>2, <4>3 DEF CycleInv
    <3> QED
      BY <3>3, <3>4
  <2>2. CASE /\ UNCHANGED <<car, socket, site, mem, disk, cuts, changes>>
             /\ pc' = "log" /\ job' \in Jobs
    BY <2>2 DEF SocketTypeOK, CycleInv, Cutting, site
  <2> QED
    BY <1>3, <2>1, <2>2, SendsStep
\* The world changes around a cycle.
<1>4. ASSUME car' \in CarStates, car'.state = car.state, car'.age = car.age,
             socket' \in [on : BOOLEAN, fresh : BOOLEAN],
             link' \in BOOLEAN, range' \in BOOLEAN, window' \in BOOLEAN,
             target' \in {"charge", "none", "reject"}, gate' \in {"ready", "locked", "closed"},
             changes' \in Nat, UNCHANGED <<setup, mem, disk, pc, job, cuts>>
      PROVE  SocketTypeOK' /\ CycleInv'
  <2>1. SocketTypeOK'
    BY <1>4 DEF SocketTypeOK
  <2>2. Charged(car') <=> Charged(car)
    BY <1>4 DEF Charged
  <2> QED
    BY <1>4, <2>1, <2>2 DEF CycleInv, Cutting
<1>5. CASE Drive
  <2>1. car \in CarStates /\ socket \in [on : BOOLEAN, fresh : BOOLEAN]
    BY DEF SocketTypeOK
  <2>2. /\ car' \in CarStates /\ car'.state = car.state /\ car'.age = car.age
        /\ socket' \in [on : BOOLEAN, fresh : BOOLEAN]
    <3>1. CASE car' = [car EXCEPT !.plugged = ~@] /\ UNCHANGED socket
      BY <2>1, <3>1 DEF CarStates
    <3>2. CASE car' = [car EXCEPT !.switch = ~@] /\ UNCHANGED socket
      BY <2>1, <3>2 DEF CarStates
    <3>3. CASE \E a \in {"under", "over"} \ {car.amps} :
                  car' = [car EXCEPT !.amps = a] /\ UNCHANGED socket
      BY <2>1, <3>3 DEF CarStates
    <3>4. CASE car' = car /\ socket' = Sockets(IF socket.on THEN "off" ELSE "on")
      <4>1. Sockets("off") \in [on : BOOLEAN, fresh : BOOLEAN]
        BY DEF Sockets
      <4>2. Sockets("on") \in [on : BOOLEAN, fresh : BOOLEAN]
        <5>1. (~socket.on \/ socket.fresh) \in BOOLEAN
          OBVIOUS
        <5>2. [on |-> TRUE, fresh |-> ~socket.on \/ socket.fresh]
                 \in [on : BOOLEAN, fresh : BOOLEAN]
          BY <5>1
        <5>3. Sockets("on") = [on |-> TRUE, fresh |-> ~socket.on \/ socket.fresh]
          BY DEF Sockets
        <5> HIDE DEF Sockets
        <5> QED
          BY <5>2, <5>3
      <4> QED
        BY <2>1, <3>4, <4>1, <4>2
    <3> QED
      BY <1>5, <3>1, <3>2, <3>3, <3>4 DEF Drive
  <2> QED
    BY <1>1, <1>4, <1>5, <2>2 DEF Drive, Spend, site, SocketTypeOK
<1>6. CASE Surroundings
  <2>1. /\ UNCHANGED <<car, socket, setup, mem, disk, pc, job, cuts>> /\ changes' \in Nat
        /\ link' \in BOOLEAN /\ range' \in BOOLEAN /\ window' \in BOOLEAN
        /\ target' \in {"charge", "none", "reject"} /\ gate' \in {"ready", "locked", "closed"}
    <3>1. UNCHANGED <<car, socket, setup, mem, disk, pc, job, cuts>> /\ changes' \in Nat
      BY <1>1, <1>6 DEF Surroundings, Spend
    <3>2. link' \in BOOLEAN /\ range' \in BOOLEAN /\ window' \in BOOLEAN
      BY <1>6 DEF Surroundings, SocketTypeOK
    <3>3. target' \in {"charge", "none", "reject"} /\ gate' \in {"ready", "locked", "closed"}
      BY <1>6 DEF Surroundings, SocketTypeOK
    <3> QED
      BY <3>1, <3>2, <3>3
  <2> QED
    BY <1>4, <2>1 DEF SocketTypeOK
<1>7. ASSUME NEW s \in [smart : BOOLEAN, switching : BOOLEAN], Restart1(s),
             cuts' = 0 \/ (cuts' = cuts /\ s = setup)
      PROVE  SocketTypeOK' /\ CycleInv'
  <2>1. mem' \in Memories /\ mem'.rec = disk
    BY <1>1, <1>7, JobsTyped DEF Restart1, RestoredRecovery
  <2>2. /\ setup' = s /\ job' = NoJob /\ pc' = "idle" /\ changes' = changes + 1
        /\ UNCHANGED <<car, socket, link, range, target, window, gate, disk>>
    BY <1>7 DEF Restart1, End, Spend
  <2>3. cuts' \in Nat
    BY <1>1, <1>7
  <2>4. SocketTypeOK'
    <3>1. NoJob \in Jobs
      BY JobsTyped
    <3>2. changes' \in Nat /\ setup' \in [smart : BOOLEAN, switching : BOOLEAN]
      BY <1>1, <1>7, <2>2
    <3>3. job' \in Jobs
      BY <2>2, <3>1
    <3> QED
      BY <1>1, <2>1, <2>2, <2>3, <3>2, <3>3 DEF SocketTypeOK, site
  <2>5. CycleInv'
    BY <1>7, <2>1 DEF CycleInv, Restart1, End, Cutting
  <2> QED
    BY <2>4, <2>5
<1>8. setup \in [smart : BOOLEAN, switching : BOOLEAN]
  BY DEF SocketTypeOK
<1>9. CASE Crash
  BY <1>7, <1>8, <1>9 DEF Crash
<1>10. CASE SelectPath
  <2>1. [setup EXCEPT !.smart = ~@] \in [smart : BOOLEAN, switching : BOOLEAN]
    BY <1>8
  <2> QED
    BY <1>7, <1>10, <2>1 DEF SelectPath
<1>11. CASE Tick
  <2> DEFINE span == IF Sustained > Rearm THEN Sustained ELSE Rearm
             age == IF car.state # Says THEN 0
                    ELSE IF car.age < span THEN car.age + 1 ELSE car.age
             stage == IF mem.stage \in 0 .. Retry - 1 THEN mem.stage + 1 ELSE mem.stage
  <2>1. age \in Nat /\ Says \in {"disconnected", "no_power", "stopped", "charging"}
    BY DEF SocketTypeOK, CarStates, Says
  <2>2. stage \in Nat \cup {Unset}
    BY DEF SocketTypeOK, Memories, Unset
  <2>3. /\ car' = [car EXCEPT !.state = Says, !.age = age]
        /\ socket' = [socket EXCEPT !.fresh = FALSE]
        /\ mem' = [rec |-> Older(mem.rec), stage |-> stage] /\ disk' = Older(disk)
        /\ cuts' = IF Says = "charging" /\ age >= Rearm THEN 0 ELSE cuts
        /\ UNCHANGED <<site, pc, job, changes>> /\ pc = "idle"
    BY <1>11 DEF Tick
  <2> HIDE DEF age, stage
  <2>4. car' \in CarStates /\ car'.state = Says /\ car'.age = age
    BY <2>1, <2>3 DEF SocketTypeOK, CarStates
  <2>5. socket' \in [on : BOOLEAN, fresh : BOOLEAN]
    BY <2>3 DEF SocketTypeOK
  <2>6. /\ mem' \in Memories /\ disk' \in Recoveries
        /\ mem'.rec.phase = mem.rec.phase /\ disk'.phase = disk.phase
    BY <1>1, <2>2, <2>3, OlderTyped DEF Memories
  <2>7. cuts' \in Nat
    BY <1>1, <2>3
  <2>8. SocketTypeOK'
    BY <2>3, <2>4, <2>5, <2>6, <2>7 DEF SocketTypeOK, site
  <2>9. Charged(car') => cuts' = 0
    BY <2>3, <2>4 DEF Charged
  <2>10. setup' = setup
    BY <2>3 DEF site
  <2>11. CycleInv'
    BY <2>3, <2>6, <2>9, <2>10 DEF CycleInv, Uncut, Cutting
  <2> QED
    BY <2>8, <2>11
<1>12. CASE UNCHANGED socketVars
  BY <1>12 DEF socketVars, site, SocketTypeOK, CycleInv, Cutting, Charged, Uncut
<1> QED
  BY <1>2, <1>3, <1>5, <1>6, <1>9, <1>10, <1>11, <1>12 DEF SocketNext, Cycle

\* Every reachable state of SmartSocket has the types of the code's fields, and the
\* count of the power-offs is in step with the recovery in memory and in the store.
THEOREM SocketInvariant == SocketSpec => [](SocketTypeOK /\ CycleInv)
  BY InitInv, NextInv, PTL DEF SocketSpec

\* A car without power is given at most one power cycle (planner/ev.py
\* reconcile_smart_socket_recovery and its latch, ev_active.py's save before the
\* commands), whatever crashes, failing saves and lost commands come between.
THEOREM PowerCycledOnce == SocketSpec => []OnePowerCycle
<1>1. CycleInv => OnePowerCycle
  BY DEF CycleInv, OnePowerCycle
<1> QED
  BY <1>1, SocketInvariant, PTL
================================================================================
