------------------------ MODULE BatteryControllerProofs ------------------------
(***************************************************************************)
(* Theorems about BatteryController, for every power range, every attempt  *)
(* limit and every set of external modes and faults, except where a theorem *)
(* excludes a fault by name.                                               *)
(***************************************************************************)
EXTENDS BatteryController, FoxessSessionsProofs

\* What the holder of the lock carries, by its next step.
HolderOK ==
    /\ job.chan # "none" => lock \in {"save", "exec"}
    /\ lock \in {"mark", "reset", "rearm"} => job.saves # <<>>
    /\ lock = "save" => /\ job.chan \in Channels /\ job.saves = <<job.chan>>
                        /\ job.prev \in SessionOf(job.chan)
    /\ lock = "exec" => job.plan # <<>>

HolderTyped == lock \in Steps /\ job \in Job /\ HolderOK

\* The inductive invariant behind TypeOK.
TypeInv == TypeOK /\ HolderOK

Loaded(ch) == life \in {"up", "stopping"} \/ (ch = "charge" /\ life = "charge_loaded")
HeoForced(ch) == forcer = "heo" /\ inv.mode = ForcedMode(ch)

\* The inductive invariant behind JournalBeforeActuation: a plan is licensed by the
\* session that waits to be stored, and then by the stored one.
JournalInv ==
    /\ life \notin {"up", "stopping"} => lock = "free"
    /\ lock \in {"save", "exec"} /\ job.chan \in Channels =>
          job.plan \in Seq(Licensed(job.chan, sess[job.chan].phase, sess[job.chan].power))
    /\ lock = "exec" /\ job.chan \in Channels =>
          disk[job.chan] = sess[job.chan] /\ fileStat[job.chan] = "valid"
    /\ lock = "exec" /\ job.chan \notin Channels =>
          job.plan \in Seq({c \in Commands(Powers) : ~IsPositive(c)})

\* The inductive invariant behind NoLostObligation: the session that answers for a
\* forced mode HEO selected is unfinished in the store, in memory once it is loaded,
\* and in the copy a failed write rolls back to.
Accounted(ch) ==
    /\ fileStat[ch] = "malformed" \/ (fileStat[ch] = "valid" /\ Owned(disk[ch]))
    /\ Loaded(ch) => Owned(sess[ch]) \/ fileStat[ch] = "malformed"
    /\ lock = "save" /\ job.chan = ch => Owned(sess[ch]) /\ Owned(job.prev)
ObligationInv ==
    /\ seen = inv
    /\ forcer = "heo" => inv.mode \in ForcedModes
    /\ lock \in {"reset", "decide"} => forcer # "heo"
    /\ lock \in {"mark", "rearm"} => \A i \in DOMAIN job.saves : Owned(sess[job.saves[i]])
    /\ \A ch \in Channels : HeoForced(ch) => Accounted(ch)

\* The inductive invariant behind ChargeRetryBudget.
BudgetInv == Budgeted(sess["charge"]) /\ Budgeted(disk["charge"])

-----------------------------------------------------------------------------
(* What one reconciliation can do to the sessions, the lock and the job. *)

\* The session of ch took one sound step, which is now to be stored, or nothing
\* happened at all.
Advanced(ch, o) ==
    /\ sess' \in Sessions /\ HolderTyped'
    /\ \A c \in Channels \ {ch} : sess'[c] = sess[c]
    /\ Owned(sess[ch]) /\ ~Owned(sess'[ch]) => o.mode = "SelfUse"
    /\ ch = "charge" /\ Budgeted(sess[ch]) => Budgeted(sess'[ch])
    /\ {sess[ch].phase, sess'[ch].phase} \subseteq ForcingPhases
         => /\ sess'[ch].power <= sess[ch].power
            /\ ch = "export" => sess'[ch].power = sess[ch].power
    /\ "source" \notin Faults /\ Powered(sess[ch])
         => /\ Powered(sess'[ch])
            /\ lock' = "save" => ForcesLast(ch, sess'[ch].power, job'.plan, o)
    /\ \/ lock' = "free" /\ sess' = sess
       \/ /\ lock' = "save" /\ job'.chan = ch /\ job'.prev = sess[ch]
          /\ job'.plan \in Seq(Licensed(ch, sess'[ch].phase, sess'[ch].power))

\* A licensed plan is a plan.
LEMMA LicensedPlan ==
    ASSUME NEW ch, NEW phase, NEW power, NEW plan \in Seq(Licensed(ch, phase, power))
    PROVE  plan \in Seq(Commands(Powers))
<1>1. Licensed(ch, phase, power) \subseteq Commands(Powers)
  BY DEF Licensed
<1> QED
  BY <1>1

\* The empty job, and a freed lock that leaves it behind.
LEMMA NoJobTyped == NoJob \in Job
<1>1. "charge" \in Channels
  BY DEF Channels
<1>2. IdleSession \in AnySession
  BY <1>1, SessionEdits DEF AnySession
<1>3. SelfUseObservation \in Inverter
  BY MaxKwAssumption DEF SelfUseObservation, Inverter, Observations, Modes, Powers
<1> QED
  BY <1>2, <1>3, EmptyPlan DEF NoJob, Job

\* Freeing the lock leaves a typed holder.
LEMMA ReleaseTyped == Release => HolderTyped'
  BY NoJobTyped DEF Release, HolderTyped, HolderOK, Steps, NoJob

\* A job that only stores.
LEMMA SavingJobTyped ==
    ASSUME NEW saves \in Seq(Channels)
    PROVE  /\ [NoJob EXCEPT !.saves = saves] \in Job
           /\ [NoJob EXCEPT !.saves = saves].saves = saves
           /\ [NoJob EXCEPT !.saves = saves].chan = "none"
  BY NoJobTyped DEF NoJob, Job

\* Advance in one of the two channels.
LEMMA AdvanceCases ==
    ASSUME TypeInv, NEW ch \in Channels, NEW o \in Inverter, Advance(ch, o)
    PROVE  Advanced(ch, o)
<1>1. PICK in \in Offered(ch) :
        LET step == AdvanceSession(ch, sess[ch], o, in) IN
        /\ sess' = [sess EXCEPT ![ch] = step.state]
        /\ IF step.state # sess[ch]
             THEN /\ lock' = "save"
                  /\ job' = [NoJob EXCEPT !.chan = ch, !.plan = step.plan,
                                          !.saves = <<ch>>, !.prev = sess[ch]]
           ELSE IF step.plan # <<>>
             THEN lock' = "exec" /\ job' = [NoJob EXCEPT !.chan = ch, !.plan = step.plan]
           ELSE Release
  BY DEF Advance
<1> DEFINE step == AdvanceSession(ch, sess[ch], o, in)
<1>2. in \in Inputs /\ sess \in Sessions /\ sess[ch] \in SessionOf(ch)
  BY DEF Offered, TypeInv, TypeOK, Sessions
<1>3. Sound(ch, sess[ch], o, step)
  BY <1>2, AdvanceSound DEF Inverter
<1>4. ch = "charge" /\ Budgeted(sess[ch]) => Budgeted(step.state)
  BY <1>2, ChargeBudgetStep DEF Inverter
<1>5. ch = "export" /\ {sess[ch].phase, step.state.phase} \subseteq ForcingPhases
        => step.state.power = sess[ch].power
  BY <1>2, ExportPowerStep
<1>6. "source" \notin Faults /\ Powered(sess[ch])
        => Powered(step.state) /\ ForcesLast(ch, step.state.power, step.plan, o)
  BY <1>2, OrderedStep DEF Offered, Inverter
<1> HIDE DEF step
<1>7. sess' = [sess EXCEPT ![ch] = step.state]
  BY <1>1 DEF step
<1>8. step.state \in SessionOf(ch) /\ step.state \in AnySession /\ sess[ch] \in AnySession
  BY <1>2, <1>3 DEF Sound, AnySession, Channels
<1>9. /\ sess' \in Sessions /\ sess'[ch] = step.state
      /\ \A c \in Channels \ {ch} : sess'[c] = sess[c]
  BY <1>2, <1>7, <1>8 DEF Sessions
<1>10. step.plan \in Seq(Licensed(ch, sess'[ch].phase, sess'[ch].power))
  BY <1>3, <1>9 DEF Sound
<1>11. CASE step.state # sess[ch]
  <2>1. /\ lock' = "save"
        /\ job' = [NoJob EXCEPT !.chan = ch, !.plan = step.plan,
                                !.saves = <<ch>>, !.prev = sess[ch]]
    BY <1>1, <1>11 DEF step
  <2>2. job' = [chan |-> ch, plan |-> step.plan, saves |-> <<ch>>, prev |-> sess[ch],
                obs |-> SelfUseObservation]
    BY <2>1 DEF NoJob
  <2>3. step.plan \in Seq(Commands(Powers)) /\ <<ch>> \in Seq(Channels)
    BY <1>10, LicensedPlan
  <2>4. SelfUseObservation \in Inverter
    BY MaxKwAssumption DEF SelfUseObservation, Inverter, Observations, Modes, Powers
  <2>5. HolderTyped'
    <3>1. job' \in Job
      BY <1>8, <2>2, <2>3, <2>4 DEF Job
    <3>2. HolderOK'
      BY <1>2, <2>1, <2>2 DEF HolderOK
    <3> QED
      BY <2>1, <3>1, <3>2 DEF HolderTyped, Steps
  <2> QED
    BY <1>3, <1>4, <1>9, <1>10, <1>5, <1>6, <2>1, <2>2, <2>5 DEF Advanced, Sound
<1>12. CASE step.state = sess[ch]
  <2>1. step.plan = <<>>
    BY <1>3, <1>12 DEF Sound
  <2>2. Release
    BY <1>1, <1>12, <2>1 DEF step
  <2>3. sess' = sess
    BY <1>2, <1>7, <1>12 DEF Sessions
  <2> QED
    BY <1>3, <1>4, <1>9, <1>5, <1>6, <2>2, <2>3, ReleaseTyped DEF Advanced, Sound, Release
<1> QED
  BY <1>11, <1>12

\* No feedback: owned sessions recover, the others stay, and only owned ones are
\* stored.
Marked ==
    /\ sess' \in Sessions /\ HolderTyped' /\ lock' \in {"free", "mark"}
    /\ \A c \in Channels :
         /\ Owned(sess[c]) => /\ sess'[c].phase = "recovering"
                              /\ sess'[c].power = sess[c].power
                              /\ sess'[c].attempts = sess[c].attempts
         /\ ~Owned(sess[c]) => sess'[c] = sess[c]
    /\ lock' = "mark" => \A i \in DOMAIN job'.saves : Owned(sess'[job'.saves[i]])

\* Degraded evidence in observed Self Use: every session becomes idle.
Cleared(o) ==
    /\ sess' \in Sessions /\ HolderTyped' /\ lock' = "reset" /\ o.mode = "SelfUse"
    /\ job'.saves = <<"charge", "export">> /\ job'.obs = o
    /\ \A c \in Channels : sess'[c] = IdleSession

Idled == HolderTyped' /\ lock' = "free" /\ sess' = sess

\* What ReconcileLocked can do: with nothing latched and degraded evidence it never
\* gets as far as a decision.
Reconciled ==
    \/ Idled \/ Marked \/ Cleared(seen)
    \/ /\ MatchingOwner(seen) \/ seen.mode = "SelfUse"
       /\ \E ch \in Channels :
             Advanced(ch, seen) /\ (Latched(ch) \/ (NoneLatched /\ ~Degraded))

\* A decision advances at most one of the two sessions, and a session that is not
\* latched only when the other is not either (Decide, active.py).
LEMMA DecideCases ==
    ASSUME TypeInv, NEW o \in Inverter, Decide(o)
    PROVE  Idled \/ \E ch \in Channels : Advanced(ch, o) /\ (Latched(ch) \/ NoneLatched)
<1>1. ASSUME NEW ch \in Channels, Advance(ch, o), Latched(ch) \/ NoneLatched
      PROVE  \E c \in Channels : Advanced(c, o) /\ (Latched(c) \/ NoneLatched)
  BY <1>1, AdvanceCases
<1>2. windows \subseteq Channels /\ "charge" \in Channels /\ "export" \in Channels
  BY DEF TypeInv, TypeOK, Channels
<1>3. CASE Release /\ UNCHANGED sess
  BY <1>3, ReleaseTyped DEF Idled, Release
<1> QED
  BY <1>1, <1>2, <1>3 DEF Decide

\* Marking the sessions for recovery queues exactly the owned ones for storage.
LEMMA MarkCases ==
    ASSUME TypeInv, MarkSessionsUnavailable
    PROVE  Marked
<1>1. sess' = [ch \in Channels |-> MarkUnavailable(sess[ch])] /\ sess \in Sessions
  BY DEF MarkSessionsUnavailable, TypeInv, TypeOK
<1>2. ASSUME NEW c \in Channels
      PROVE  /\ sess'[c] \in SessionOf(c)
             /\ Owned(sess[c]) => /\ sess'[c].phase = "recovering"
                                  /\ sess'[c].power = sess[c].power
                                  /\ sess'[c].attempts = sess[c].attempts
             /\ ~Owned(sess[c]) => sess'[c] = sess[c]
  <2>1. sess[c] \in SessionOf(c) /\ sess'[c] = MarkUnavailable(sess[c])
    BY <1>1 DEF Sessions
  <2>2. "recovering" \in Phases(c)
    BY DEF Phases
  <2>3. [sess[c] EXCEPT !.phase = "recovering", !.fresh = FALSE] \in SessionOf(c)
    BY <2>1, <2>2, SessionEdits
  <2> QED
    BY <2>1, <2>3 DEF MarkUnavailable, SessionOf
<1>3. sess' \in Sessions
  BY <1>1, <1>2 DEF Sessions, AnySession, Channels
<1>4. \A c \in Channels : Owned(sess[c]) => Owned(sess'[c])
  BY <1>2 DEF Owned, OwnedPhases
<1>5. Latched("export") => Owned(sess["export"])
  <2>1. sess["export"] \in SessionOf("export")
    BY <1>1 DEF Sessions, Channels
  <2> QED
    BY <2>1 DEF Latched, SessionOf, Phases, Owned, OwnedPhases
<1>6. CASE MarkSaves = <<>>
  BY <1>2, <1>3, <1>6, ReleaseTyped DEF MarkSessionsUnavailable, Marked, Release
<1>7. CASE MarkSaves # <<>>
  <2>1. lock' = "mark" /\ job' = [NoJob EXCEPT !.saves = MarkSaves]
    BY <1>7 DEF MarkSessionsUnavailable
  <2> DEFINE owned == {c \in Channels : Owned(sess[c])}
  <2>2. /\ (IF Owned(sess["charge"]) THEN <<"charge">> ELSE <<>>) \in Seq(owned)
        /\ (IF Latched("export") THEN <<"export">> ELSE <<>>) \in Seq(owned)
    BY <1>5 DEF Channels
  <2>3. MarkSaves \in Seq(owned)
    BY <2>2 DEF MarkSaves
  <2>4. MarkSaves \in Seq(Channels)
    BY <2>3
  <2>5. /\ job' \in Job /\ job'.chan = "none" /\ job'.saves = MarkSaves
    BY <2>1, <2>4, NoJobTyped, SavingJobTyped
  <2>6. HolderTyped'
    BY <1>7, <2>1, <2>5 DEF HolderTyped, HolderOK, Steps
  <2>7. \A i \in DOMAIN job'.saves : Owned(sess'[job'.saves[i]])
    BY <1>4, <2>3, <2>5
  <2> QED
    BY <1>2, <1>3, <2>1, <2>6, <2>7 DEF Marked
<1> QED
  BY <1>6, <1>7

\* A reset leaves both sessions idle and remembers its observation.
LEMMA ResetCases ==
    ASSUME TypeInv, NEW o \in Inverter, o.mode = "SelfUse", ResetSessions(o)
    PROVE  Cleared(o)
<1>1. /\ lock' = "reset"
      /\ job' = [NoJob EXCEPT !.saves = <<"charge", "export">>, !.obs = o]
      /\ sess' = [ch \in Channels |-> IdleSession]
  BY DEF ResetSessions
<1>2. \A c \in Channels : IdleSession \in SessionOf(c)
  BY SessionEdits
<1>3. sess' \in Sessions
  BY <1>1, <1>2 DEF Sessions, AnySession, Channels
<1> DEFINE both == <<"charge", "export">>
<1>4. job' = [NoJob EXCEPT !.saves = both, !.obs = o] /\ both \in Seq(Channels) /\ both # <<>>
  BY <1>1 DEF Channels
<1> HIDE DEF both
<1>5. /\ job' \in Job /\ job'.chan = "none" /\ job'.saves = both /\ job'.saves # <<>>
      /\ job'.obs = o
  <2> DEFINE j == [NoJob EXCEPT !.saves = both, !.obs = o]
  <2>1. j \in Job /\ j.saves = both /\ j.chan = "none" /\ j.obs = o
    BY <1>4, NoJobTyped DEF NoJob, Job
  <2>2. job' = j
    BY <1>4
  <2> HIDE DEF j
  <2> QED
    BY <1>4, <2>1, <2>2
<1> QED
  BY <1>1, <1>3, <1>5 DEF Cleared, HolderTyped, HolderOK, Steps, both

\* Every outcome of one evaluation under the lock.
LEMMA ReconcileCases ==
    ASSUME TypeInv, ReconcileLocked
    PROVE  Reconciled
<1>1. seen \in Inverter
  BY DEF TypeInv, TypeOK
<1>2. CASE Release /\ UNCHANGED sess
  BY <1>2, ReleaseTyped DEF Reconciled, Idled, Release
<1>3. CASE MarkSessionsUnavailable
  BY <1>3, MarkCases DEF Reconciled
<1>4. CASE ResetOwnership(seen) /\ ResetSessions(seen)
  BY <1>1, <1>4, ResetCases DEF Reconciled, ResetOwnership
<1>5. CASE ~HoldOwnership(seen) /\ ~ResetOwnership(seen) /\ Decide(seen)
  <2>1. NoneLatched => NoneOwned
    BY DEF NoneLatched, NoneOwned, Latched, Owned, OwnedPhases
  <2>2. NoneLatched => ~Degraded
    BY <1>5, <2>1 DEF HoldOwnership, ResetOwnership, MatchingOwner, NoneOwned, Channels
  <2> QED
    BY <1>1, <1>5, <2>2, DecideCases DEF Reconciled, HoldOwnership
<1> QED
  BY <1>2, <1>3, <1>4, <1>5 DEF ReconcileLocked, Evaluate

-----------------------------------------------------------------------------
(* Type correctness. *)

\* A reconciliation keeps the sessions, the lock and the job in range.
LEMMA ReconciledTyped ==
    ASSUME TypeInv, Reconciled
    PROVE  sess' \in Sessions /\ HolderTyped'
<1>1. sess \in Sessions
  BY DEF TypeInv, TypeOK
<1> QED
  BY <1>1 DEF Reconciled, Idled, Marked, Cleared, Advanced

\* Commands keep the inverter in range.
LEMMA ApplyTyped ==
    ASSUME NEW o \in Inverter, NEW c \in Commands(Powers)
    PROVE  Apply(c, o) \in Inverter
  BY DEF Apply, Commands, Inverter, Observations, Modes, ForcedModes

\* The first element and the rest of a nonempty sequence.
LEMMA HeadTailTyped ==
    ASSUME NEW S, NEW s \in Seq(S), s # <<>>
    PROVE  /\ Head(s) \in S /\ Tail(s) \in Seq(S) /\ Len(s) \in Nat /\ Len(s) > 0
           /\ Len(s) > 1 => Tail(s) # <<>>
           /\ Len(s) # 1 => Tail(s) # <<>>
           /\ \A i \in DOMAIN Tail(s) : i + 1 \in DOMAIN s /\ Tail(s)[i] = s[i + 1]
<1>1. Len(s) \in Nat /\ Len(s) > 0 /\ DOMAIN s = 1 .. Len(s)
  OBVIOUS
<1>2. Head(s) \in S /\ Tail(s) \in Seq(S) /\ Len(Tail(s)) = Len(s) - 1
  BY <1>1
<1>3. Len(s) # 1 => Len(s) > 1
  <2>1. \A n \in Nat : n > 0 /\ n # 1 => n > 1
    OBVIOUS
  <2> QED
    BY <1>1, <2>1
<1>4. Len(s) > 1 => Tail(s) # <<>>
  BY <1>1, <1>2
<1>5. ASSUME NEW i \in DOMAIN Tail(s)
      PROVE  i + 1 \in DOMAIN s /\ Tail(s)[i] = s[i + 1]
  BY <1>1, <1>2
<1> QED
  BY <1>1, <1>2, <1>3, <1>5, <1>4

\* A store write.
LEMMA SaveTyped ==
    ASSUME TypeInv, SaveSucceeds
    PROVE  TypeInv'
<1> DEFINE store == Head(job.saves)
<1>1. /\ lock \in Saving /\ job.saves \in Seq(Channels) /\ job.saves # <<>>
      /\ job \in Job
  BY DEF SaveSucceeds, Saving, TypeInv, TypeOK, HolderOK, Job
<1>2. store \in Channels /\ Tail(job.saves) \in Seq(Channels)
  BY <1>1, HeadTailTyped
<1>3. /\ disk' = [ch \in Channels |-> IF ch = store THEN sess[ch] ELSE disk[ch]]
      /\ fileStat' = [fileStat EXCEPT ![store] = "valid"]
      /\ stat' = StatAfterSave(store)
      /\ UNCHANGED <<plant, gate, windows, sess, life, pending>>
  BY DEF SaveSucceeds
<1>4. disk' \in Sessions
  BY <1>3 DEF TypeInv, TypeOK, Sessions
<1>5. fileStat' \in [Channels -> FileStatus]
      /\ stat' \in [Channels -> FileStatus \cup {"not_loaded"}]
  BY <1>2, <1>3 DEF TypeInv, TypeOK, FileStatus, StatAfterSave
<1>6. HolderTyped'
  <2>1. CASE NextSave
    <3>1. lock' = lock /\ job' = [job EXCEPT !.saves = Tail(@)]
      BY <2>1 DEF NextSave
    <3>2. job' \in Job /\ job'.chan = job.chan /\ job'.saves = Tail(job.saves)
      BY <1>1, <1>2, <3>1 DEF Job
    <3>3. lock # "save" /\ Tail(job.saves) # <<>>
      BY <1>1, <2>1, HeadTailTyped DEF NextSave, TypeInv, HolderOK
    <3> QED
      BY <1>1, <3>1, <3>2, <3>3 DEF HolderTyped, HolderOK, TypeInv, TypeOK, Saving
  <2>2. CASE Release
    BY <2>2, ReleaseTyped
  <2>3. CASE lock' = "again" /\ job' = NoJob
    BY <2>3, NoJobTyped DEF HolderTyped, HolderOK, Steps, NoJob
  <2>4. CASE lock = "reset" /\ lock' = "decide" /\ job' = [job EXCEPT !.saves = <<>>]
    <3>1. job' \in Job /\ job'.chan = job.chan
      BY <1>1, <2>4, EmptyPlan DEF Job
    <3> QED
      BY <2>4, <3>1 DEF HolderTyped, HolderOK, Steps, TypeInv
  <2>5. CASE /\ lock = "save" /\ job.plan # <<>> /\ lock' = "exec"
             /\ job' = [NoJob EXCEPT !.chan = job.chan, !.plan = job.plan]
    <3>1. job' \in Job /\ job'.plan = job.plan
      BY <1>1, <2>5, NoJobTyped DEF Job
    <3> QED
      BY <2>5, <3>1 DEF HolderTyped, HolderOK, Steps
  <2> QED
    BY <2>1, <2>2, <2>3, <2>4, <2>5 DEF SaveSucceeds, LastSave
<1> QED
  BY <1>3, <1>4, <1>5, <1>6 DEF TypeInv, TypeOK, HolderTyped, plant

\* The holder executes one command, with or without its effect, or stops.
LEMMA ExecTyped ==
    ASSUME TypeInv, ExecuteCommand \/ CommandBlocked \/ CommandFails
    PROVE  TypeInv'
<1>1. /\ lock = "exec" /\ job \in Job /\ job.plan \in Seq(Commands(Powers))
      /\ job.plan # <<>>
  BY DEF ExecuteCommand, CommandBlocked, CommandFails, TypeInv, TypeOK, HolderOK, Job
<1>2. Head(job.plan) \in Commands(Powers) /\ Tail(job.plan) \in Seq(Commands(Powers))
  BY <1>1, HeadTailTyped
<1>3. Len(job.plan) # 1 => Tail(job.plan) # <<>>
  BY <1>1, HeadTailTyped
<1>4. /\ inv' \in Inverter /\ seen' \in Inverter
      /\ forcer' \in {"none", "heo", "external"}
  <2>1. Apply(Head(job.plan), inv) \in Inverter
    BY <1>2, ApplyTyped DEF TypeInv, TypeOK
  <2> QED
    BY <2>1 DEF ExecuteCommand, CommandBlocked, CommandFails, Accept, ForcerAfter, plant,
                TypeInv, TypeOK
<1>5. HolderTyped'
  <2>1. CASE Release
    BY <2>1, ReleaseTyped
  <2>2. CASE /\ Len(job.plan) # 1 /\ lock' = lock
             /\ job' = [job EXCEPT !.plan = Tail(@)]
    <3> DEFINE rest == Tail(job.plan)
    <3>1. job' = [job EXCEPT !.plan = rest] /\ rest \in Seq(Commands(Powers)) /\ rest # <<>>
      BY <1>2, <1>3, <2>2
    <3> HIDE DEF rest
    <3>2. job' \in Job /\ job'.plan # <<>>
      BY <1>1, <3>1 DEF Job
    <3> QED
      BY <1>1, <2>2, <3>1, <3>2 DEF HolderTyped, HolderOK, Steps
  <2> QED
    BY <2>1, <2>2 DEF ExecuteCommand, CommandBlocked, CommandFails
<1> QED
  BY <1>4, <1>5 DEF ExecuteCommand, CommandBlocked, CommandFails, TypeInv, TypeOK,
                    HolderTyped, stores

\* A repair under the lock: a re-armed session to store, a restore to execute.
Rearmed ==
    /\ lock' = "rearm" /\ \A i \in DOMAIN job'.saves : Owned(sess'[job'.saves[i]])
    /\ Budgeted(sess["charge"]) => Budgeted(sess'["charge"])
    /\ \A c \in Channels : Owned(sess[c]) => Owned(sess'[c])
Restoring ==
    /\ lock' = "exec" /\ job'.chan = "supervisor" /\ sess' = sess
    /\ job'.plan \in Seq({c \in Commands(Powers) : ~IsPositive(c)})

\* A supervisor repair keeps sessions and holder typed.
LEMMA RepairTyped ==
    ASSUME TypeInv, Repair
    PROVE  TypeInv' /\ (Idled \/ Rearmed \/ Restoring)
<1>1. /\ pending' = "none" /\ UNCHANGED <<plant, gate, windows, stores, stat, life>>
      /\ \/ Release /\ UNCHANGED sess
         \/ pending \in ForcedModes /\ Rearm(ChannelOf(pending))
         \/ RepairSelfUse
  BY DEF Repair
<1>2. CASE Release /\ UNCHANGED sess
  BY <1>1, <1>2, ReleaseTyped DEF TypeInv, TypeOK, HolderTyped, plant, stores, Release, Idled
<1>3. ASSUME NEW ch \in Channels, Rearm(ch), ~(Release /\ UNCHANGED sess)
      PROVE  sess' \in Sessions /\ HolderTyped' /\ Rearmed
  <2> DEFINE t == [sess[ch] EXCEPT !.phase = "recovering", !.attempts = 0, !.fresh = FALSE]
  <2>1. sess \in Sessions /\ sess[ch] \in SessionOf(ch)
    BY DEF TypeInv, TypeOK, Sessions
  <2>2. t \in SessionOf(ch)
    BY <2>1, SessionEdits DEF Phases
  <2>3. t \in AnySession /\ Owned(t) /\ Budgeted(t)
    <3>1. t.phase = "recovering" /\ t.attempts = 0
      BY <2>1 DEF SessionOf
    <3> QED
      BY <2>2, <3>1, MaxAttemptsAssumption DEF Owned, OwnedPhases, Budgeted, AnySession, Channels
  <2>4. /\ sess' = [sess EXCEPT ![ch] = t] /\ lock' = "rearm"
        /\ job' = [NoJob EXCEPT !.saves = <<ch>>]
    BY <1>3, <2>1 DEF Rearm, Sessions
  <2> HIDE DEF t
  <2>5. /\ sess' \in Sessions /\ sess'[ch] = t
        /\ \A c \in Channels \ {ch} : sess'[c] = sess[c]
    BY <2>1, <2>2, <2>3, <2>4 DEF Sessions
  <2>6. job' \in Job /\ job'.saves = <<ch>> /\ job'.chan = "none"
    <3>1. <<ch>> \in Seq(Channels)
      OBVIOUS
    <3> QED
      BY <2>4, <3>1, SavingJobTyped
  <2>7. HolderTyped'
    BY <2>4, <2>6 DEF HolderTyped, HolderOK, Steps
  <2> QED
    BY <2>3, <2>4, <2>5, <2>6, <2>7 DEF Channels, Rearmed
<1>4. CASE pending \in ForcedModes /\ Rearm(ChannelOf(pending))
  <2>1. ChannelOf(pending) \in Channels
    BY DEF ChannelOf, Channels
  <2> QED
    BY <1>1, <1>2, <1>3, <1>4, <2>1 DEF TypeInv, TypeOK, HolderTyped, plant, stores
<1>5. CASE RepairSelfUse
  <2> DEFINE S == {c \in Commands(Powers) : ~IsPositive(c)}
  <2>1. PlanRestoreMode(seen) \in Seq(S)
    <3>1. SelectMode("SelfUse") \in S /\ SetCharge(0) \in S /\ SetDischarge(0) \in S
      BY MaxKwAssumption DEF Powers, SelectMode, SetCharge, SetDischarge, Commands, IsPositive,
                             IsForce, ForcedModes
    <3>2. /\ Unless(seen.mode = "SelfUse", SelectMode("SelfUse")) \in Seq(S)
          /\ Unless(seen.chg = 0, SetCharge(0)) \in Seq(S)
          /\ Unless(seen.dis = 0, SetDischarge(0)) \in Seq(S)
      BY <3>1, UnlessTyped
    <3> QED
      BY <3>2, ThreeTyped DEF PlanRestoreMode
  <2>2. PlanRestoreMode(seen) \in Seq(Commands(Powers))
    BY <2>1
  <2>3. CASE PlanRestoreMode(seen) = <<>>
    BY <1>2, <1>5, <2>3 DEF RepairSelfUse
  <2>4. CASE PlanRestoreMode(seen) # <<>>
    <3>1. /\ lock' = "exec" /\ sess' = sess
          /\ job' = [NoJob EXCEPT !.chan = "supervisor", !.plan = PlanRestoreMode(seen)]
      BY <1>5, <2>4 DEF RepairSelfUse
    <3>2. job' \in Job /\ job'.chan = "supervisor" /\ job'.plan = PlanRestoreMode(seen)
      BY <2>2, <3>1, NoJobTyped DEF Job
    <3>3. HolderTyped'
      BY <2>4, <3>1, <3>2 DEF HolderTyped, HolderOK, Steps
    <3> QED
      BY <1>1, <2>1, <3>1, <3>2, <3>3
         DEF TypeInv, TypeOK, HolderTyped, plant, stores, Restoring
  <2> QED
    BY <2>3, <2>4
<1> QED
  BY <1>1, <1>2, <1>4, <1>5

\* The copy of a stored session in memory, and the memory after a stop.
LEMMA LoadTyped ==
    ASSUME TypeInv, NEW ch \in Channels, LoadSession(ch)
    PROVE  /\ sess' \in Sessions /\ stat' \in [Channels -> FileStatus \cup {"not_loaded"}]
           /\ \A c \in Channels \ {ch} : sess'[c] = sess[c]
           /\ fileStat[ch] = "valid" => sess'[ch] = disk[ch]
           /\ sess'[ch] \in {disk[ch], IdleSession, sess[ch]}
<1>1. /\ sess \in Sessions /\ disk \in Sessions /\ fileStat[ch] \in FileStatus
      /\ stat \in [Channels -> FileStatus \cup {"not_loaded"}]
  BY DEF TypeInv, TypeOK
<1> DEFINE loaded == CASE fileStat[ch] = "valid"     -> disk[ch]
                       [] fileStat[ch] = "malformed" -> IdleSession
                       [] fileStat[ch] = "missing"   -> sess[ch]
<1>2. loaded \in {disk[ch], IdleSession, sess[ch]}
  BY <1>1 DEF FileStatus
<1>3. IdleSession \in SessionOf(ch)
  BY SessionEdits
<1>4. loaded \in SessionOf(ch) /\ loaded \in AnySession
  BY <1>1, <1>2, <1>3 DEF Sessions, AnySession, Channels
<1>5. sess' = [sess EXCEPT ![ch] = loaded] /\ stat' = [stat EXCEPT ![ch] = fileStat[ch]]
  BY DEF LoadSession
<1>6. fileStat[ch] = "valid" => loaded = disk[ch]
  BY <1>1 DEF FileStatus
<1> HIDE DEF loaded
<1> QED
  BY <1>1, <1>2, <1>4, <1>5, <1>6 DEF Sessions

\* A crash or an unload leaves a typed state.
LEMMA ForgetTyped ==
    ASSUME TypeInv, ForgetMemory
    PROVE  TypeInv' /\ lock' = "free" /\ \A c \in Channels : sess'[c] = IdleSession
<1>1. \A c \in Channels : IdleSession \in SessionOf(c)
  BY SessionEdits
<1>2. sess' = [c \in Channels |-> IdleSession]
  BY DEF ForgetMemory
<1>3. sess' \in Sessions /\ \A c \in Channels : sess'[c] = IdleSession
  BY <1>1, <1>2 DEF Sessions, AnySession, Channels
<1>4. stat' \in [Channels -> FileStatus \cup {"not_loaded"}] /\ life' \in Stages
      /\ pending' \in Expected \cup {"none"}
  BY DEF ForgetMemory, Stages
<1>5. HolderTyped' /\ lock' = "free"
  BY ReleaseTyped DEF ForgetMemory, Release
<1> QED
  BY <1>3, <1>4, <1>5 DEF ForgetMemory, TypeInv, TypeOK, HolderTyped, plant, stores

\* Ageing the stamps keeps every session and the remembered one typed.
LEMMA ElapseTyped ==
    ASSUME TypeInv, Elapse
    PROVE  /\ TypeInv'
           /\ \A c \in Channels : sess'[c] = Older(sess[c]) /\ disk'[c] = Older(disk[c])
           /\ \A c \in Channels :
                /\ sess'[c].phase = sess[c].phase /\ sess'[c].power = sess[c].power
                /\ sess'[c].attempts = sess[c].attempts
                /\ disk'[c].phase = disk[c].phase /\ disk'[c].power = disk[c].power
                /\ disk'[c].attempts = disk[c].attempts
           /\ job'.prev.phase = job.prev.phase
<1>1. /\ sess' = [ch \in Channels |-> Older(sess[ch])]
      /\ disk' = [ch \in Channels |-> Older(disk[ch])]
      /\ job' = [job EXCEPT !.prev = Older(@)]
  BY DEF Elapse
<1>2. ASSUME NEW ch \in Channels, NEW s \in SessionOf(ch)
      PROVE  /\ Older(s) \in SessionOf(ch) /\ Older(s).phase = s.phase
             /\ Older(s).power = s.power /\ Older(s).attempts = s.attempts
  BY DEF Older, SessionOf
<1>3. \A c \in Channels : sess[c] \in SessionOf(c) /\ disk[c] \in SessionOf(c)
  BY DEF TypeInv, TypeOK, Sessions
<1>4. sess' \in Sessions /\ disk' \in Sessions
  BY <1>1, <1>2, <1>3 DEF Sessions, AnySession, Channels
<1>5. job' \in Job /\ job'.prev = Older(job.prev)
  <2>1. job \in Job /\ Older(job.prev) \in AnySession
    BY <1>2 DEF TypeInv, TypeOK, Job, AnySession, Channels
  <2> QED
    BY <1>1, <2>1 DEF Job
<1>6. job'.prev.phase = job.prev.phase
  <2>1. job.prev \in AnySession
    BY DEF TypeInv, TypeOK, Job
  <2> QED
    BY <1>2, <1>5, <2>1 DEF AnySession, Channels
<1>7. HolderOK'
  <2>1. /\ job'.chan = job.chan /\ job'.saves = job.saves /\ job'.plan = job.plan
        /\ lock' = lock
    BY <1>1 DEF Elapse, TypeInv, TypeOK, Job
  <2> QED
    BY <1>2, <1>5, <2>1 DEF TypeInv, HolderOK
<1> QED
  BY <1>1, <1>2, <1>3, <1>4, <1>5, <1>6, <1>7 DEF Elapse, TypeInv, TypeOK, plant

\* Initially everything is in range.
LEMMA InitTyped == Init => TypeInv
<1> SUFFICES ASSUME Init PROVE TypeInv
  OBVIOUS
<1>1. \A c \in Channels : IdleSession \in SessionOf(c)
  BY SessionEdits
<1>2. sess \in Sessions /\ disk \in Sessions
  BY <1>1 DEF Init, Sessions, AnySession, Channels
<1>3. SelfUseObservation \in Inverter
  BY MaxKwAssumption DEF SelfUseObservation, Inverter, Observations, Modes, Powers
<1>4. /\ stat \in [Channels -> FileStatus \cup {"not_loaded"}]
      /\ fileStat \in [Channels -> FileStatus]
  BY DEF Init, FileStatus
<1> QED
  BY <1>2, <1>3, <1>4, NoJobTyped
     DEF Init, TypeInv, TypeOK, HolderOK, Stages, Steps, Expected, NoJob

\* Every step keeps everything in range.
LEMMA NextTyped == TypeInv /\ [Next]_vars => TypeInv'
<1> SUFFICES ASSUME TypeInv, [Next]_vars PROVE TypeInv'
  OBVIOUS
<1> USE DEF plant, stores
<1>1. CASE Reconcile
  BY <1>1, ReconcileCases, ReconciledTyped DEF Reconcile, TypeInv, TypeOK, HolderTyped
<1>2. CASE ReconcileAgain
  BY <1>2, ReconcileCases, ReconciledTyped DEF ReconcileAgain, TypeInv, TypeOK, HolderTyped
<1>3. CASE DecideAfterReset
  <2>1. job.obs \in Inverter /\ Decide(job.obs) /\ sess \in Sessions
    BY <1>3 DEF DecideAfterReset, TypeInv, TypeOK, Job
  <2>2. sess' \in Sessions /\ HolderTyped'
    BY <2>1, DecideCases DEF Idled, Advanced
  <2> QED
    BY <1>3, <2>2 DEF DecideAfterReset, TypeInv, TypeOK, HolderTyped
<1>4. CASE SaveSucceeds
  BY <1>4, SaveTyped
<1>5. CASE SaveFails
  <2>1. sess' \in Sessions
    <3>1. sess \in Sessions /\ job.prev \in AnySession
      BY DEF TypeInv, TypeOK, Job
    <3>2. lock = "save" /\ job.chan = "export" => job.prev \in SessionOf("export")
      BY DEF TypeInv, HolderOK
    <3> QED
      BY <1>5, <3>1, <3>2 DEF SaveFails, Sessions
  <2>2. HolderTyped'
    BY <1>5, ReleaseTyped DEF SaveFails
  <2> QED
    BY <1>5, <2>1, <2>2 DEF SaveFails, TypeInv, TypeOK, HolderTyped
<1>6. CASE ExecuteCommand \/ CommandBlocked \/ CommandFails
  BY <1>6, ExecTyped
<1>7. CASE Supervise
  BY <1>7 DEF Supervise, TypeInv, TypeOK, HolderOK, ExpectedMode, Expected, ForcedModes
<1>8. CASE Repair
  BY <1>8, RepairTyped
<1>9. CASE Boot
  BY <1>9 DEF Boot, TypeInv, TypeOK, HolderOK, Stages
<1>10. CASE LoadCharge \/ LoadExport
  <2>1. PICK ch \in Channels : LoadSession(ch)
    BY <1>10 DEF LoadCharge, LoadExport, Channels
  <2>2. sess' \in Sessions /\ stat' \in [Channels -> FileStatus \cup {"not_loaded"}]
    BY <2>1, LoadTyped
  <2>3. life' \in Stages /\ UNCHANGED <<plant, gate, windows, stores, lock, job, pending>>
    BY <1>10 DEF LoadCharge, LoadExport, LoadSession, Stages
  <2> QED
    BY <2>2, <2>3 DEF TypeInv, TypeOK, HolderOK
<1>11. CASE Unloaded \/ Crash
  BY <1>11, ForgetTyped DEF Unloaded, Crash
<1>12. CASE Unload
  BY <1>12 DEF Unload, TypeInv, TypeOK, HolderOK, Stages
<1>13. CASE Corrupt
  BY <1>13 DEF Corrupt, TypeInv, TypeOK, HolderOK, FileStatus
<1>14. CASE ExternalWrite
  BY <1>14, FaultsAssumption
     DEF ExternalWrite, TypeInv, TypeOK, HolderOK, Inverter, Observations
<1>15. CASE Refresh
  BY <1>15 DEF Refresh, TypeInv, TypeOK, HolderOK
<1>16. CASE ToggleGate
  BY <1>16 DEF ToggleGate, TypeInv, TypeOK, HolderOK
<1>17. CASE ToggleWindow
  BY <1>17 DEF ToggleWindow, TypeInv, TypeOK, HolderOK
<1>18. CASE Elapse
  BY <1>18, ElapseTyped
<1>19. CASE UNCHANGED vars
  BY <1>19 DEF vars, TypeInv, TypeOK, HolderOK
<1> QED
  BY <1>1, <1>2, <1>3, <1>4, <1>5, <1>6, <1>7, <1>8, <1>9, <1>10, <1>11, <1>12, <1>13,
     <1>14, <1>15, <1>16, <1>17, <1>18, <1>19 DEF Next, Hold, Setup, Environment

\* TypeInv is inductive, hence invariant.
LEMMA TypeInvariant == Spec => []TypeInv
  BY InitTyped, NextTyped, PTL DEF Spec

\* Every variable stays in its range: no interleaving of reconciliations, repairs,
\* restarts, failures and external changes leads the controller to a session, a plan
\* or a stored payload it has no meaning for.
THEOREM TypeCorrect == Spec => []TypeOK
<1>1. TypeInv => TypeOK
  BY DEF TypeInv
<1> QED
  BY <1>1, TypeInvariant, PTL

-----------------------------------------------------------------------------
(* The retry budget of the charge session, whatever faults there are. *)

\* A reconciliation that begins within the budget ends within it.
LEMMA ReconciledBudget ==
    ASSUME TypeInv, Reconciled, Budgeted(sess["charge"])
    PROVE  Budgeted(sess'["charge"])
<1>1. "charge" \in Channels
  BY DEF Channels
<1>2. Budgeted(IdleSession)
  BY MaxAttemptsAssumption DEF Budgeted, IdleSession
<1>3. CASE Idled
  BY <1>3 DEF Idled
<1>4. CASE Marked
  <2>1. CASE Owned(sess["charge"])
    BY <1>1, <1>4, <2>1 DEF Marked, Budgeted
  <2>2. CASE ~Owned(sess["charge"])
    BY <1>1, <1>4, <2>2 DEF Marked
  <2> QED
    BY <2>1, <2>2
<1>5. CASE Cleared(seen)
  BY <1>1, <1>2, <1>5 DEF Cleared
<1>6. ASSUME NEW ch \in Channels, Advanced(ch, seen)
      PROVE  Budgeted(sess'["charge"])
  BY <1>1, <1>6 DEF Advanced
<1> QED
  BY <1>3, <1>4, <1>5, <1>6 DEF Reconciled

\* No step takes the charge session, in memory or stored, beyond its budget.
LEMMA NextBudget == TypeInv /\ BudgetInv /\ [Next]_vars => BudgetInv'
<1> SUFFICES ASSUME TypeInv, BudgetInv, [Next]_vars PROVE BudgetInv'
  OBVIOUS
<1>1. "charge" \in Channels /\ Budgeted(IdleSession)
  BY MaxAttemptsAssumption DEF Channels, Budgeted, IdleSession
<1>2. CASE Reconcile \/ ReconcileAgain
  BY <1>2, ReconcileCases, ReconciledBudget DEF Reconcile, ReconcileAgain, BudgetInv, stores
<1>3. CASE DecideAfterReset
  <2>1. job.obs \in Inverter /\ Decide(job.obs)
    BY <1>3 DEF DecideAfterReset, TypeInv, TypeOK, Job
  <2>2. Budgeted(sess'["charge"])
    BY <1>1, <2>1, DecideCases DEF Idled, Advanced, BudgetInv
  <2> QED
    BY <1>3, <2>2 DEF DecideAfterReset, BudgetInv, stores
<1>4. CASE SaveSucceeds
  BY <1>1, <1>4 DEF SaveSucceeds, BudgetInv
<1>5. CASE SaveFails
  <2>1. sess'["charge"] = sess["charge"]
    BY <1>1, <1>5 DEF SaveFails, TypeInv, TypeOK, Sessions
  <2> QED
    BY <1>5, <2>1 DEF SaveFails, BudgetInv, stores
<1>6. CASE Repair
  <2>1. Budgeted(sess'["charge"])
    BY <1>6, RepairTyped DEF Idled, Rearmed, Restoring, BudgetInv
  <2> QED
    BY <1>6, <2>1 DEF Repair, BudgetInv, stores
<1>7. CASE LoadCharge \/ LoadExport
  <2>1. PICK ch \in Channels : LoadSession(ch)
    BY <1>7 DEF LoadCharge, LoadExport, Channels
  <2>2. /\ \A c \in Channels \ {ch} : sess'[c] = sess[c]
        /\ sess'[ch] \in {disk[ch], IdleSession, sess[ch]} /\ disk' = disk
    BY <2>1, LoadTyped DEF LoadSession, stores
  <2> QED
    BY <1>1, <2>2 DEF BudgetInv
<1>8. CASE Unloaded \/ Crash
  BY <1>1, <1>8, ForgetTyped DEF Unloaded, Crash, ForgetMemory, BudgetInv, stores
<1>9. CASE Elapse
  BY <1>1, <1>9, ElapseTyped DEF BudgetInv, Budgeted
<1>10. CASE UNCHANGED <<sess, disk>>
  BY <1>10 DEF BudgetInv
<1> QED
  BY <1>2, <1>3, <1>4, <1>5, <1>6, <1>7, <1>8, <1>9, <1>10
     DEF Next, Hold, Setup, Environment, ExecuteCommand, CommandBlocked, CommandFails,
         Supervise, Boot, Unload, Corrupt, ExternalWrite, Refresh, ToggleGate,
         ToggleWindow, stores, vars

\* Whatever is lost, refused or restarted, the charge session never counts more than
\* MaxAttempts plans for one start or one stop.
THEOREM ChargeBudget == Spec => []ChargeRetryBudget
<1>1. Init => BudgetInv
  BY MaxAttemptsAssumption DEF Init, BudgetInv, Budgeted, IdleSession, Channels
<1>2. Spec => []BudgetInv
  BY <1>1, NextBudget, TypeInvariant, PTL DEF Spec
<1>3. BudgetInv => ChargeRetryBudget
  BY DEF BudgetInv, Budgeted, ChargeRetryBudget
<1> QED
  BY <1>2, <1>3, PTL

-----------------------------------------------------------------------------
(* The journal, when no entity reconciles before the stores are loaded. *)

\* A reconciliation leaves behind a job whose plan its session licenses.
LEMMA ReconciledJournal ==
    ASSUME TypeInv, NEW o \in Inverter,
           Idled \/ Marked \/ Cleared(o) \/ \E ch \in Channels : Advanced(ch, o)
    PROVE  /\ lock' # "exec"
           /\ lock' = "save" /\ job'.chan \in Channels =>
                 job'.plan \in Seq(Licensed(job'.chan, sess'[job'.chan].phase,
                                            sess'[job'.chan].power))
  BY DEF Idled, Marked, Cleared, Advanced

\* No step breaks the journal invariant when nothing reconciles before the load.
LEMMA NextJournal ==
    ASSUME "early" \notin Faults
    PROVE  TypeInv /\ JournalInv /\ [Next]_vars => JournalInv'
<1> SUFFICES ASSUME TypeInv, JournalInv, [Next]_vars PROVE JournalInv'
  OBVIOUS
<1> USE DEF plant, stores
<1>1. CASE Reconcile \/ ReconcileAgain
  <2>1. Reconciled /\ seen \in Inverter
    BY <1>1, ReconcileCases DEF Reconcile, ReconcileAgain, TypeInv, TypeOK
  <2>2. /\ lock' # "exec"
        /\ lock' = "save" /\ job'.chan \in Channels =>
              job'.plan \in Seq(Licensed(job'.chan, sess'[job'.chan].phase,
                                         sess'[job'.chan].power))
    BY <2>1, ReconciledJournal DEF Reconciled
  <2>3. life' \in {"up", "stopping"}
    BY <1>1 DEF Reconcile, ReconcileAgain, Running, JournalInv, TypeInv, TypeOK
  <2> QED
    BY <2>2, <2>3 DEF JournalInv
<1>2. CASE DecideAfterReset
  <2>1. job.obs \in Inverter /\ Decide(job.obs) /\ lock = "decide"
    BY <1>2 DEF DecideAfterReset, TypeInv, TypeOK, Job
  <2>2. Idled \/ \E ch \in Channels : Advanced(ch, job.obs)
    BY <2>1, DecideCases
  <2>3. /\ lock' # "exec"
        /\ lock' = "save" /\ job'.chan \in Channels =>
              job'.plan \in Seq(Licensed(job'.chan, sess'[job'.chan].phase,
                                         sess'[job'.chan].power))
    BY <2>1, <2>2 DEF Idled, Advanced
  <2>4. life' \in {"up", "stopping"}
    BY <1>2, <2>1 DEF DecideAfterReset, JournalInv
  <2> QED
    BY <2>3, <2>4 DEF JournalInv
<1>3. CASE SaveSucceeds
  <2>1. lock # "free" /\ lock # "exec" /\ life' = life /\ sess' = sess
    BY <1>3 DEF SaveSucceeds, Saving
  <2>2. life' \in {"up", "stopping"}
    BY <2>1 DEF JournalInv
  <2>3. CASE NextSave
    <3>1. lock # "save"
      <4>1. Len(<<job.chan>>) = 1
        OBVIOUS
      <4>2. lock = "save" => Len(job.saves) = 1
        BY <4>1 DEF TypeInv, HolderOK
      <4>3. Len(job.saves) > 1 /\ ~(1 > 1)
        BY <2>3 DEF NextSave
      <4> QED
        BY <4>2, <4>3
    <3> QED
      BY <2>1, <2>2, <2>3, <3>1 DEF NextSave, JournalInv
  <2>4. CASE Release \/ lock' \in {"again", "decide"}
    BY <2>2, <2>4 DEF Release, JournalInv
  <2>5. CASE /\ lock = "save" /\ job.plan # <<>> /\ lock' = "exec"
             /\ job' = [NoJob EXCEPT !.chan = job.chan, !.plan = job.plan]
    <3>1. job.chan \in Channels /\ Head(job.saves) = job.chan
      BY <2>5 DEF TypeInv, HolderOK
    <3>2. job'.chan = job.chan /\ job'.plan = job.plan
      BY <2>5 DEF NoJob
    <3>3. disk'[job.chan] = sess[job.chan] /\ fileStat'[job.chan] = "valid"
      BY <1>3, <3>1 DEF SaveSucceeds, TypeInv, TypeOK
    <3> QED
      BY <2>1, <2>2, <2>5, <3>1, <3>2, <3>3 DEF JournalInv
  <2> QED
    BY <1>3, <2>3, <2>4, <2>5 DEF SaveSucceeds, LastSave
<1>4. CASE SaveFails
  BY <1>4 DEF SaveFails, Saving, Release, JournalInv
<1>5. CASE ExecuteCommand \/ CommandBlocked \/ CommandFails
  <2>1. CASE Release
    BY <1>5, <2>1 DEF ExecuteCommand, CommandBlocked, CommandFails, Release, JournalInv
  <2>2. CASE ExecuteCommand /\ lock' = lock /\ job' = [job EXCEPT !.plan = Tail(@)]
    <3> DEFINE rest == Tail(job.plan)
    <3>1. lock = "exec" /\ job \in Job /\ job.plan # <<>>
      BY <2>2 DEF ExecuteCommand, TypeInv, TypeOK, HolderOK
    <3>2. job'.plan = rest /\ job'.chan = job.chan
      BY <2>2, <3>1 DEF Job
    <3>3. \A S : job.plan \in Seq(S) => rest \in Seq(S)
      BY <3>1, HeadTailTyped
    <3>4. life' = life /\ UNCHANGED <<sess, disk, fileStat>>
      BY <2>2 DEF ExecuteCommand
    <3> HIDE DEF rest
    <3> QED
      BY <2>2, <3>1, <3>2, <3>3, <3>4 DEF JournalInv
  <2> QED
    BY <1>5, <2>1, <2>2 DEF ExecuteCommand, CommandBlocked, CommandFails
<1>6. CASE Repair
  <2>1. life' \in {"up", "stopping"} /\ (Idled \/ Rearmed \/ Restoring)
    BY <1>6, RepairTyped DEF Repair
  <2>2. "supervisor" \notin Channels
    BY DEF Channels
  <2> QED
    BY <2>1, <2>2 DEF Idled, Rearmed, Restoring, JournalInv
<1>7. CASE Boot \/ LoadCharge \/ LoadExport
  BY <1>7 DEF Boot, LoadCharge, LoadExport, LoadSession, JournalInv
<1>8. CASE Unloaded \/ Crash
  BY <1>8 DEF Unloaded, Crash, ForgetMemory, Release, JournalInv
<1>9. CASE Corrupt
  BY <1>9 DEF Corrupt, JournalInv
<1>10. CASE Elapse
  <2>1. /\ life' = life /\ lock' = lock /\ fileStat' = fileStat
        /\ job'.plan = job.plan /\ job'.chan = job.chan
    BY <1>10 DEF Elapse, TypeInv, TypeOK, Job
  <2>2. ASSUME NEW c \in Channels
        PROVE  /\ sess'[c].phase = sess[c].phase /\ sess'[c].power = sess[c].power
               /\ disk[c] = sess[c] => disk'[c] = sess'[c]
    BY <1>10, ElapseTyped
  <2> QED
    BY <2>1, <2>2 DEF JournalInv
<1>11. CASE Unload
  BY <1>11 DEF Unload, JournalInv
<1>12. CASE UNCHANGED <<sess, disk, fileStat, life, lock, job>>
  BY <1>12 DEF JournalInv
<1> QED
  BY <1>1, <1>2, <1>3, <1>4, <1>5, <1>6, <1>7, <1>8, <1>9, <1>10, <1>11, <1>12
     DEF Next, Hold, Setup, Environment, Supervise, ExternalWrite, Refresh, ToggleGate,
         ToggleWindow, vars

\* Unless an entity reconciles before the stores are loaded: every command goes out
\* under a stored session that accounts for it.
THEOREM Journal ==
    ASSUME "early" \notin Faults
    PROVE  Spec => []JournalBeforeActuation
<1>1. Init => JournalInv
  BY DEF Init, JournalInv
<1>2. Spec => [](TypeInv /\ JournalInv)
  BY <1>1, NextJournal, TypeInvariant, PTL DEF Spec
<1>3. TypeInv /\ JournalInv => JournalBeforeActuation
  <2> SUFFICES ASSUME TypeInv, JournalInv, lock = "exec"
               PROVE  /\ job.chan \in Channels =>
                            disk[job.chan] = sess[job.chan] /\ fileStat[job.chan] = "valid"
                      /\ \A i \in DOMAIN job.plan : IsPositive(job.plan[i]) =>
                            /\ job.chan \in Channels
                            /\ disk[job.chan].phase = "starting"
                            /\ job.plan[i].kw <= disk[job.chan].power
                            /\ job.plan[i].mode \in {"none", ForcedMode(job.chan)}
    BY DEF JournalBeforeActuation
  <2>1. CASE job.chan \in Channels
    <3>1. ASSUME NEW i \in DOMAIN job.plan
          PROVE  job.plan[i] \in Licensed(job.chan, sess[job.chan].phase, sess[job.chan].power)
      BY <2>1 DEF JournalInv
    <3> QED
      BY <2>1, <3>1 DEF JournalInv, Licensed
  <2>2. CASE job.chan \notin Channels
    <3>1. ASSUME NEW i \in DOMAIN job.plan
          PROVE  ~IsPositive(job.plan[i])
      BY <2>2 DEF JournalInv
    <3> QED
      BY <2>2, <3>1
  <2> QED
    BY <2>1, <2>2
<1> QED
  BY <1>2, <1>3, PTL

-----------------------------------------------------------------------------
(* The obligation, when the entity states also follow the inverter. *)

\* An observed forced mode has its own owner, or none.
LEMMA OwnerOfMode ==
    ASSUME NEW c \in Channels, MatchingOwner(seen), seen.mode = ForcedMode(c)
    PROVE  Owned(sess[c])
  BY DEF MatchingOwner, ForcedMode, Channels

\* The two directions force two different modes.
LEMMA ForcedModeOfChannel ==
    /\ \A c \in Channels : ForcedMode(c) \in ForcedModes /\ ForcedMode(c) # "SelfUse"
    /\ \A c, d \in Channels : ForcedMode(c) = ForcedMode(d) => c = d
  BY DEF Channels, ForcedMode, ForcedModes

\* A reconciliation never lets the owner of HEO's forced mode go.
LEMMA ReconciledObligation ==
    ASSUME TypeInv, ObligationInv, Reconciled,
           UNCHANGED <<inv, seen, forcer, disk, fileStat, life>>
    PROVE  ObligationInv'
<1>1. CASE Idled
  BY <1>1 DEF Idled, ObligationInv, HeoForced, Accounted, Loaded
<1>2. CASE Marked
  <2>1. \A c \in Channels : Owned(sess[c]) => Owned(sess'[c])
    BY <1>2 DEF Marked, Owned, OwnedPhases
  <2>2. lock' \in {"free", "mark"}
    BY <1>2 DEF Marked
  <2>3. lock' = "mark" => \A i \in DOMAIN job'.saves : Owned(sess'[job'.saves[i]])
    BY <1>2 DEF Marked
  <2> QED
    BY <2>1, <2>2, <2>3 DEF ObligationInv, HeoForced, Accounted, Loaded
<1>3. CASE Cleared(seen)
  <2>1. seen.mode = "SelfUse" /\ lock' = "reset"
    BY <1>3 DEF Cleared
  <2>2. forcer # "heo"
    BY <2>1 DEF ObligationInv, ForcedModes
  <2> QED
    BY <2>1, <2>2 DEF ObligationInv, HeoForced
<1>4. ASSUME NEW ch \in Channels, Advanced(ch, seen),
             MatchingOwner(seen) \/ seen.mode = "SelfUse"
      PROVE  ObligationInv'
  <2>1. ASSUME NEW c \in Channels, HeoForced(c)
        PROVE  Owned(sess[c]) /\ Owned(sess'[c])
    <3>1. seen.mode = ForcedMode(c) /\ seen.mode # "SelfUse"
      BY <2>1, ForcedModeOfChannel DEF HeoForced, ObligationInv
    <3>2. Owned(sess[c])
      BY <1>4, <3>1, OwnerOfMode
    <3> QED
      BY <1>4, <3>1, <3>2 DEF Advanced
  <2>2. \/ lock' = "free" /\ sess' = sess
        \/ lock' = "save" /\ job'.chan = ch /\ job'.prev = sess[ch]
    BY <1>4 DEF Advanced
  <2>3. ASSUME NEW c \in Channels, HeoForced(c)
        PROVE  Accounted(c)'
    BY <2>1, <2>2, <2>3 DEF ObligationInv, Accounted
  <2> QED
    BY <2>2, <2>3 DEF ObligationInv, HeoForced
<1> QED
  BY <1>1, <1>2, <1>3, <1>4 DEF Reconciled

\* A store write replaces an obligation only by a session that still owns it.
LEMMA SaveObligation ==
    ASSUME TypeInv, ObligationInv, SaveSucceeds
    PROVE  ObligationInv'
<1> DEFINE store == Head(job.saves)
<1>1. /\ lock \in Saving /\ job.saves \in Seq(Channels) /\ job.saves # <<>>
      /\ lock = "save" => store = job.chan
  BY DEF SaveSucceeds, Saving, TypeInv, TypeOK, HolderOK, Job
<1>2. store \in Channels /\ store = job.saves[1] /\ 1 \in DOMAIN job.saves
  BY <1>1, HeadTailTyped
<1>3. /\ \A c \in Channels : disk'[c] = IF c = store THEN sess[c] ELSE disk[c]
      /\ \A c \in Channels : fileStat'[c] = IF c = store THEN "valid" ELSE fileStat[c]
      /\ UNCHANGED <<inv, seen, forcer, sess, life>>
  BY <1>2 DEF SaveSucceeds, plant, TypeInv, TypeOK
<1> HIDE DEF store
<1>4. ASSUME HeoForced(store)
      PROVE  Owned(sess[store])
  <2>1. lock \in {"mark", "rearm", "save"}
    BY <1>1, <1>4 DEF ObligationInv, HeoForced, Saving
  <2>2. CASE lock \in {"mark", "rearm"}
    BY <1>2, <2>2 DEF ObligationInv
  <2>3. CASE lock = "save"
    BY <1>1, <1>2, <1>4, <2>3 DEF ObligationInv, Accounted
  <2> QED
    BY <2>1, <2>2, <2>3
<1>5. /\ lock' # "save" /\ (lock' \in {"reset", "decide"} => lock = "reset")
      /\ lock' \in {"mark", "rearm"} => \A i \in DOMAIN job'.saves : Owned(sess[job'.saves[i]])
  <2>1. CASE NextSave
    <3>1. lock # "save"
      <4>1. Len(<<job.chan>>) = 1
        OBVIOUS
      <4>2. lock = "save" => Len(job.saves) = 1
        BY <4>1 DEF TypeInv, HolderOK
      <4>3. Len(job.saves) > 1 /\ ~(1 > 1)
        BY <2>1 DEF NextSave
      <4> QED
        BY <4>2, <4>3
    <3>2. lock' = lock /\ job'.saves = Tail(job.saves)
      BY <2>1 DEF NextSave, TypeInv, TypeOK, Job
    <3>3. lock \in {"mark", "rearm"} => \A i \in DOMAIN Tail(job.saves) :
            Owned(sess[Tail(job.saves)[i]])
      BY <1>1, HeadTailTyped DEF ObligationInv
    <3> QED
      BY <1>1, <3>1, <3>2, <3>3 DEF Saving
  <2>2. CASE LastSave
    BY <2>2 DEF LastSave, Release
  <2> QED
    BY <2>1, <2>2 DEF SaveSucceeds
<1>6. ASSUME NEW c \in Channels, HeoForced(c)
      PROVE  Accounted(c)'
  <2>1. Accounted(c)
    BY <1>6 DEF ObligationInv
  <2>2. CASE c = store
    BY <1>3, <1>4, <1>5, <1>6, <2>2 DEF Accounted
  <2>3. CASE c # store
    BY <1>3, <1>5, <2>1, <2>3 DEF Accounted, Loaded
  <2> QED
    BY <2>2, <2>3
<1> QED
  BY <1>3, <1>5, <1>6 DEF ObligationInv, HeoForced

\* A command forces the inverter only under a stored session that owns its mode.
LEMMA ExecObligation ==
    ASSUME "lag" \notin Faults, TypeInv, JournalInv, ObligationInv,
           ExecuteCommand \/ CommandBlocked \/ CommandFails
    PROVE  ObligationInv'
<1>1. /\ lock = "exec" /\ lock' \in {"free", "exec"}
      /\ UNCHANGED <<sess, disk, fileStat, life>>
  BY DEF ExecuteCommand, CommandBlocked, CommandFails, Release, stores
<1>2. CASE UNCHANGED plant
  BY <1>1, <1>2 DEF plant, ObligationInv, HeoForced, Accounted, Loaded
<1>3. CASE Accept(Head(job.plan))
  <2> DEFINE c == Head(job.plan)
  <2>1. /\ job.plan \in Seq(Commands(Powers)) /\ job.plan # <<>>
        /\ inv' = Apply(c, inv) /\ forcer' = ForcerAfter(c) /\ seen' = inv'
    BY <1>1, <1>3 DEF Accept, TypeInv, TypeOK, HolderOK, Job
  <2>2. c \in Commands(Powers)
    BY <2>1, HeadTailTyped
  <2>3. IsPositive(c) => /\ job.chan \in Channels
                         /\ sess[job.chan].phase = "starting"
                         /\ c.mode \in {"none", ForcedMode(job.chan)}
    <3>1. CASE job.chan \in Channels
      <4>1. c \in Licensed(job.chan, sess[job.chan].phase, sess[job.chan].power)
        BY <1>1, <2>1, <3>1, HeadTailTyped DEF JournalInv
      <4> QED
        BY <3>1, <4>1 DEF Licensed
    <3>2. CASE job.chan \notin Channels
      <4>1. c \in {d \in Commands(Powers) : ~IsPositive(d)}
        BY <1>1, <2>1, <3>2, HeadTailTyped DEF JournalInv
      <4> QED
        BY <4>1
    <3> QED
      BY <3>1, <3>2
  <2> HIDE DEF c
  <2>4. inv \in Inverter
    BY DEF TypeInv, TypeOK
  <2>5. CASE c.act = "select_mode" /\ c.mode \in ForcedModes
    <3>1. /\ job.chan \in Channels /\ Owned(sess[job.chan])
          /\ c.mode = ForcedMode(job.chan)
      BY <2>3, <2>5 DEF IsPositive, IsForce, ForcedModes, Owned, OwnedPhases
    <3>2. disk[job.chan] = sess[job.chan] /\ fileStat[job.chan] = "valid"
      BY <1>1, <3>1 DEF JournalInv
    <3>3. inv'.mode = c.mode
      BY <2>1, <2>4, <2>5 DEF Apply, Inverter, Observations
    <3>4. ASSUME NEW d \in Channels, HeoForced(d)'
          PROVE  Accounted(d)'
      <4>1. d = job.chan
        BY <3>1, <3>3, <3>4, ForcedModeOfChannel DEF HeoForced
      <4> QED
        BY <1>1, <3>1, <3>2, <4>1 DEF Accounted
    <3> QED
      BY <1>1, <2>1, <2>5, <3>3, <3>4 DEF ObligationInv
  <2>6. CASE c.act = "select_mode" /\ c.mode \notin ForcedModes
    <3>1. forcer' = "none"
      BY <2>1, <2>6 DEF ForcerAfter
    <3> QED
      BY <1>1, <2>1, <3>1 DEF ObligationInv, HeoForced
  <2>7. CASE c.act # "select_mode"
    <3>1. forcer' = forcer
      BY <2>1, <2>7 DEF ForcerAfter
    <3>2. inv'.mode = inv.mode
      BY <2>1, <2>2, <2>4, <2>7 DEF Apply, Commands, Inverter, Observations
    <3> QED
      BY <1>1, <2>1, <3>1, <3>2 DEF ObligationInv, HeoForced, Accounted, Loaded
  <2> QED
    BY <2>5, <2>6, <2>7
<1> QED
  BY <1>2, <1>3 DEF ExecuteCommand, CommandBlocked, CommandFails

\* No step loses the obligation when entities follow the inverter.
LEMMA NextObligation ==
    ASSUME Faults \cap {"early", "lag"} = {}
    PROVE  TypeInv /\ JournalInv /\ ObligationInv /\ [Next]_vars => ObligationInv'
<1> SUFFICES ASSUME TypeInv, JournalInv, ObligationInv, [Next]_vars PROVE ObligationInv'
  OBVIOUS
<1> USE DEF plant, stores
<1>1. CASE Reconcile \/ ReconcileAgain
  BY <1>1, ReconcileCases, ReconciledObligation DEF Reconcile, ReconcileAgain
<1>2. CASE DecideAfterReset
  <2>1. job.obs \in Inverter /\ Decide(job.obs) /\ lock = "decide"
    BY <1>2 DEF DecideAfterReset, TypeInv, TypeOK, Job
  <2>2. lock' \in {"free", "save"}
    BY <2>1, DecideCases DEF Idled, Advanced
  <2>3. forcer # "heo" /\ UNCHANGED <<inv, seen, forcer>>
    BY <1>2, <2>1 DEF DecideAfterReset, ObligationInv
  <2> QED
    BY <2>2, <2>3 DEF ObligationInv, HeoForced
<1>3. CASE SaveSucceeds
  BY <1>3, SaveObligation
<1>4. CASE SaveFails
  <2>1. lock' = "free" /\ UNCHANGED <<inv, seen, forcer, disk, fileStat, life>>
    BY <1>4 DEF SaveFails, Release
  <2>2. ASSUME NEW c \in Channels, HeoForced(c)
        PROVE  Accounted(c)'
    <3>1. Accounted(c) /\ sess \in Sessions
      BY <2>2 DEF ObligationInv, TypeInv, TypeOK
    <3>2. Owned(sess[c]) => Owned(sess'[c])
      BY <1>4, <3>1 DEF SaveFails, Accounted, Sessions
    <3> QED
      BY <2>1, <3>1, <3>2 DEF Accounted, Loaded
  <2> QED
    BY <2>1, <2>2 DEF ObligationInv, HeoForced
<1>5. CASE ExecuteCommand \/ CommandBlocked \/ CommandFails
  BY <1>5, ExecObligation
<1>6. CASE Repair
  <2>1. /\ lock' \in {"free", "rearm", "exec"}
        /\ \A c \in Channels : Owned(sess[c]) => Owned(sess'[c])
        /\ lock' = "rearm" => \A i \in DOMAIN job'.saves : Owned(sess'[job'.saves[i]])
    BY <1>6, RepairTyped DEF Idled, Rearmed, Restoring
  <2>2. UNCHANGED <<inv, seen, forcer, disk, fileStat, life>>
    BY <1>6 DEF Repair
  <2> QED
    BY <2>1, <2>2 DEF ObligationInv, HeoForced, Accounted, Loaded
<1>7. CASE Boot
  BY <1>7 DEF Boot, ObligationInv, HeoForced, Accounted, Loaded
<1>8. CASE LoadCharge \/ LoadExport
  <2>1. PICK ch \in Channels :
          /\ LoadSession(ch)
          /\ \A c \in Channels : Loaded(c)' => c = ch \/ Loaded(c)
    BY <1>8 DEF LoadCharge, LoadExport, Loaded, Channels
  <2>2. /\ \A c \in Channels \ {ch} : sess'[c] = sess[c]
        /\ fileStat[ch] = "valid" => sess'[ch] = disk[ch]
    BY <2>1, LoadTyped
  <2>3. UNCHANGED <<inv, seen, forcer, disk, fileStat, lock>> /\ lock = "free"
    BY <1>8, <2>1 DEF LoadCharge, LoadExport, LoadSession, JournalInv
  <2>4. ASSUME NEW c \in Channels, HeoForced(c)
        PROVE  Accounted(c)'
    <3>1. Accounted(c)
      BY <2>4 DEF ObligationInv
    <3>2. Loaded(c)' => Owned(sess'[c]) \/ fileStat[c] = "malformed"
      BY <2>1, <2>2, <3>1 DEF Accounted
    <3> QED
      BY <2>3, <3>1, <3>2 DEF Accounted
  <2> QED
    BY <2>3, <2>4 DEF ObligationInv, HeoForced
<1>9. CASE Unloaded \/ Crash
  BY <1>9 DEF Unloaded, Crash, ForgetMemory, Release, ObligationInv, HeoForced, Accounted, Loaded
<1>10. CASE Unload
  BY <1>10 DEF Unload, ObligationInv, HeoForced, Accounted, Loaded
<1>11. CASE Corrupt
  <2>1. PICK s \in Channels : fileStat' = [fileStat EXCEPT ![s] = "malformed"]
    BY <1>11 DEF Corrupt
  <2>2. life = "down" /\ UNCHANGED <<inv, seen, forcer, sess, disk, life, lock, job>>
    BY <1>11 DEF Corrupt
  <2>3. \A c \in Channels : fileStat'[c] \in {fileStat[c], "malformed"}
    BY <2>1 DEF TypeInv, TypeOK
  <2>4. lock = "free"
    BY <2>2 DEF JournalInv
  <2>5. ASSUME NEW c \in Channels, HeoForced(c)
        PROVE  Accounted(c)'
    BY <2>2, <2>3, <2>4, <2>5 DEF ObligationInv, Accounted, Loaded
  <2> QED
    BY <2>2, <2>4, <2>5 DEF ObligationInv, HeoForced
<1>12. CASE ExternalWrite
  BY <1>12 DEF ExternalWrite, ObligationInv, HeoForced
<1>13. CASE Refresh
  BY <1>13 DEF Refresh, ObligationInv
<1>14. CASE Elapse
  <2>1. /\ UNCHANGED <<inv, seen, forcer, fileStat, life, lock>>
        /\ job'.chan = job.chan /\ job'.saves = job.saves
    BY <1>14 DEF Elapse, TypeInv, TypeOK, Job
  <2>2. /\ \A c \in Channels : Owned(sess'[c]) <=> Owned(sess[c])
        /\ \A c \in Channels : Owned(disk'[c]) <=> Owned(disk[c])
        /\ Owned(job'.prev) <=> Owned(job.prev)
    BY <1>14, ElapseTyped DEF Owned
  <2>3. ASSUME lock \in {"mark", "rearm"}, NEW i \in DOMAIN job.saves
        PROVE  Owned(sess'[job.saves[i]])
    <3>1. job.saves \in Seq(Channels)
      BY DEF TypeInv, TypeOK, Job
    <3>2. job.saves[i] \in Channels
      BY <3>1
    <3> QED
      BY <2>2, <2>3, <3>2 DEF ObligationInv
  <2>4. ASSUME NEW c \in Channels, HeoForced(c)
        PROVE  Accounted(c)'
    BY <2>1, <2>2, <2>4 DEF ObligationInv, Accounted, Loaded
  <2> QED
    BY <2>1, <2>3, <2>4 DEF ObligationInv, HeoForced
<1>15. CASE UNCHANGED <<inv, seen, forcer, sess, disk, fileStat, life, lock, job>>
  BY <1>15 DEF ObligationInv, HeoForced, Accounted, Loaded
<1> QED
  BY <1>1, <1>2, <1>3, <1>4, <1>5, <1>6, <1>7, <1>8, <1>9, <1>10, <1>11, <1>12, <1>13,
     <1>14, <1>15 DEF Next, Hold, Setup, Environment, Supervise, ToggleGate, ToggleWindow, vars

\* With entity states that follow the inverter and stores that are loaded first: no
\* order of crashes, failed writes, failed services, repairs and restarts leaves a
\* forced mode behind that no stored session answers for.
THEOREM Obligation ==
    ASSUME Faults \cap {"early", "lag"} = {}
    PROVE  Spec => []NoLostObligation
<1>1. Init => JournalInv /\ ObligationInv
  BY DEF Init, JournalInv, ObligationInv, HeoForced
<1>2. "early" \notin Faults
  OBVIOUS
<1>3. TypeInv /\ JournalInv /\ [Next]_vars => JournalInv'
  BY <1>2, NextJournal
<1>4. TypeInv /\ JournalInv /\ ObligationInv /\ [Next]_vars => ObligationInv'
  BY NextObligation
<1>5. Spec => [](TypeInv /\ JournalInv /\ ObligationInv)
  BY <1>1, <1>3, <1>4, TypeInvariant, PTL DEF Spec
<1>6. ObligationInv => NoLostObligation
  <2> SUFFICES ASSUME ObligationInv, forcer = "heo"
               PROVE  \E ch \in Channels :
                        inv.mode = ForcedMode(ch) /\ (Owned(disk[ch]) \/ fileStat[ch] = "malformed")
    BY DEF NoLostObligation
  <2>1. PICK ch \in Channels : inv.mode = ForcedMode(ch)
    BY DEF ObligationInv, ForcedModes, ForcedMode, Channels
  <2> QED
    BY <2>1 DEF ObligationInv, HeoForced, Accounted
<1> QED
  BY <1>5, <1>6, PTL

-----------------------------------------------------------------------------
(* The controller implements Obligation. *)

\* No step writes a store and commands the inverter at once.
LEMMA OneSideMoves ==
    ASSUME [Next]_vars
    PROVE  UNCHANGED forcer \/ UNCHANGED <<disk, fileStat>>
<1>1. CASE Reconcile
  BY <1>1 DEF Reconcile, plant
<1>2. CASE ReconcileAgain \/ DecideAfterReset
  BY <1>2 DEF ReconcileAgain, DecideAfterReset, plant
<1>3. CASE SaveSucceeds \/ SaveFails
  BY <1>3 DEF SaveSucceeds, SaveFails, plant
<1>4. CASE ExecuteCommand \/ CommandBlocked \/ CommandFails
  BY <1>4 DEF ExecuteCommand, CommandBlocked, CommandFails, stores
<1>5. CASE Supervise \/ Repair
  BY <1>5 DEF Supervise, Repair, plant
<1>6. CASE Setup
  BY <1>6 DEF Setup, Boot, LoadCharge, LoadExport, LoadSession, Unloaded, ForgetMemory, plant
<1>7. CASE Crash \/ Unload \/ Corrupt \/ Elapse \/ ToggleGate \/ ToggleWindow
  BY <1>7 DEF Crash, ForgetMemory, Unload, Corrupt, Elapse, ToggleGate, ToggleWindow, plant
<1>8. CASE ExternalWrite \/ Refresh
  BY <1>8 DEF ExternalWrite, Refresh, stores
<1>9. CASE UNCHANGED vars
  BY <1>9 DEF vars
<1> QED
  BY <1>1, <1>2, <1>3, <1>4, <1>5, <1>6, <1>7, <1>8, <1>9 DEF Next, Hold, Environment

\* With entity states that follow the inverter and stores that are loaded first, every
\* behaviour of the controller is one of the abstract owner: a forced mode is entered
\* under a stored session and the last stored session is given up after it has ended.
THEOREM Implementation ==
    ASSUME Faults \cap {"early", "lag"} = {}
    PROVE  Spec => ImplementsObligation
<1>1. Init => Ledger!Init
  BY DEF Init, Ledger!Init, Forced, Journaled, IdleSession, Owned, OwnedPhases, Channels
<1>2. ASSUME NoLostObligation, NoLostObligation', [Next]_vars
      PROVE  [Ledger!Next]_<<Forced, Journaled>>
  <2>1. UNCHANGED Forced \/ UNCHANGED Journaled
    BY <1>2, OneSideMoves DEF Forced, Journaled
  <2>2. (Forced => Journaled) /\ (Forced' => Journaled')
    BY <1>2 DEF NoLostObligation, Forced, Journaled
  <2>3. Forced \in BOOLEAN /\ Journaled \in BOOLEAN /\ Forced' \in BOOLEAN /\ Journaled' \in BOOLEAN
    BY DEF Forced, Journaled
  <2> QED
    BY <2>1, <2>2, <2>3 DEF Ledger!Next, Ledger!Record, Ledger!Act, Ledger!End, Ledger!Forget
<1>3. Spec => []NoLostObligation
  BY Obligation
<1> QED
  BY <1>1, <1>2, <1>3, PTL DEF Spec, ImplementsObligation, Ledger!Spec
-----------------------------------------------------------------------------
(* One direction, when nothing reconciles before the load and no store write *)
(* fails: a failed charge write is not rolled back and leaves the stored      *)
(* session behind the one in memory.                                          *)

\* Memory that has not been read from its store is idle.
Unread == \A ch \in Channels : ~Loaded(ch) => sess[ch] = IdleSession

Stored(ch) == disk[ch].phase # "idle"
Waits(ch) == lock = "reset" \/ (lock = "save" /\ job.chan = ch)

\* The inductive invariant behind OneDirection: a session latched in memory finds the
\* other direction idle in memory and in the store, and a store that is ahead of memory
\* is about to be written or reported as malformed, so that no decision is reached.
DirectionInv ==
    /\ \A ch, c \in Channels : ch # c /\ Latched(ch) => ~Latched(c) /\ ~Stored(c)
    /\ \A ch, c \in Channels : ch # c /\ Stored(ch) => ~Stored(c)
    /\ \A ch \in Channels : Loaded(ch) /\ Stored(ch) /\ ~Latched(ch)
                              => Waits(ch) \/ stat[ch] = "malformed"
    /\ \A ch \in Channels : fileStat[ch] = "missing" => ~Stored(ch)
    /\ lock \in {"reset", "decide"} => NoneLatched
    /\ lock = "reset" => \/ job.saves = <<"charge", "export">>
                         \/ job.saves = <<"export">> /\ ~Stored("charge")
    /\ lock = "decide" => \A ch \in Channels : ~Stored(ch)

\* What leaves every phase alone, in memory and in the stores, leaves the directions
\* apart.
LEMMA SamePhases ==
    ASSUME DirectionInv,
           \A c \in Channels : /\ Latched(c)' <=> Latched(c)
                               /\ Stored(c)' <=> Stored(c)
                               /\ Loaded(c)' => Loaded(c)
                               /\ Waits(c) => Waits(c)'
                               /\ stat'[c] = stat[c]
                               /\ fileStat'[c] = "missing" => fileStat[c] = "missing",
           lock' \in {"reset", "decide"} => lock' = lock /\ job'.saves = job.saves
    PROVE  DirectionInv'
<1>1. ASSUME NEW ch \in Channels, NEW c \in Channels, ch # c
      PROVE  /\ Latched(ch)' => ~Latched(c)' /\ ~Stored(c)'
             /\ Stored(ch)' => ~Stored(c)'
  BY <1>1 DEF DirectionInv
<1>2. ASSUME NEW c \in Channels, Loaded(c)', Stored(c)', ~Latched(c)'
      PROVE  Waits(c)' \/ stat'[c] = "malformed"
  BY <1>2 DEF DirectionInv
<1>3. \A c \in Channels : fileStat'[c] = "missing" => ~Stored(c)'
  BY DEF DirectionInv
<1>4. lock' \in {"reset", "decide"} => NoneLatched'
  BY DEF DirectionInv, NoneLatched
<1>5. /\ lock' = "reset" => \/ job'.saves = <<"charge", "export">>
                            \/ job'.saves = <<"export">> /\ ~Stored("charge")'
      /\ lock' = "decide" => \A c \in Channels : ~Stored(c)'
  BY DEF DirectionInv, Channels
<1> QED
  BY <1>1, <1>2, <1>3, <1>4, <1>5 DEF DirectionInv

\* An idle session stays idle when one of its stamps ages.
LEMMA OlderIdle == Older(IdleSession) = IdleSession
<1>1. IdleSession \in SessionOf("charge") /\ IdleSession.fresh = FALSE
  BY SessionEdits DEF Channels, IdleSession
<1> QED
  BY <1>1 DEF Older, SessionOf

\* Nothing but a load fills a memory that is not loaded yet.
LEMMA NextUnread ==
    ASSUME "early" \notin Faults
    PROVE  TypeInv /\ JournalInv /\ Unread /\ [Next]_vars => Unread'
<1> SUFFICES ASSUME TypeInv, JournalInv, Unread, [Next]_vars PROVE Unread'
  OBVIOUS
<1>1. CASE Reconcile \/ ReconcileAgain \/ DecideAfterReset \/ SaveSucceeds \/ SaveFails \/ Repair
  <2>1. life' = life /\ life \in {"up", "stopping"}
    BY <1>1 DEF Reconcile, ReconcileAgain, DecideAfterReset, SaveSucceeds, SaveFails, Repair,
                Running, Saving, JournalInv, TypeInv, TypeOK
  <2> QED
    BY <2>1 DEF Unread, Loaded
<1>2. CASE LoadCharge \/ LoadExport
  <2>1. CASE LoadCharge
    <3>1. \A c \in Channels \ {"charge"} : sess'[c] = sess[c]
      BY <2>1, LoadTyped DEF LoadCharge, Channels
    <3> QED
      BY <2>1, <3>1 DEF LoadCharge, Unread, Loaded
  <2>2. CASE LoadExport
    BY <2>2 DEF LoadExport, Unread, Loaded
  <2> QED
    BY <1>2, <2>1, <2>2
<1>3. CASE Unloaded \/ Crash
  BY <1>3, ForgetTyped DEF Unloaded, Crash, Unread
<1>4. CASE Elapse
  BY <1>4, ElapseTyped, OlderIdle DEF Elapse, Unread, Loaded
<1>5. CASE Boot \/ Unload
  BY <1>5 DEF Boot, Unload, Unread, Loaded
<1>6. CASE UNCHANGED <<sess, life>>
  BY <1>6 DEF Unread, Loaded
<1> QED
  BY <1>1, <1>2, <1>3, <1>4, <1>5, <1>6
     DEF Next, Hold, Setup, Environment, ExecuteCommand, CommandBlocked, CommandFails,
         Supervise, Corrupt, ExternalWrite, Refresh, ToggleGate, ToggleWindow, vars

\* An evaluation latches a session only when neither direction is latched or stored.
LEMMA ReconciledDirection ==
    ASSUME TypeInv, JournalInv, DirectionInv, Reconciled, lock \in {"free", "again"},
           \A c \in Channels : Loaded(c), UNCHANGED <<disk, stat, fileStat, life>>
    PROVE  DirectionInv'
<1>1. \A c \in Channels : Stored(c)' <=> Stored(c)
  BY DEF Stored
<1>2. \A c \in Channels : ~Waits(c)
  BY DEF Waits
<1>3. CASE Idled
  BY <1>1, <1>2, <1>3, SamePhases DEF Idled, Latched, Loaded
<1>4. CASE Marked
  <2>1. \A c \in Channels : Latched(c)' <=> Latched(c)
    BY <1>4 DEF Marked, Latched, Owned, OwnedPhases
  <2>2. lock' \in {"free", "mark"}
    BY <1>4 DEF Marked
  <2> QED
    BY <1>1, <1>2, <2>1, <2>2, SamePhases DEF Loaded
<1>5. CASE Cleared(seen)
  <2>1. \A c \in Channels : ~Latched(c)'
    BY <1>5 DEF Cleared, Latched, IdleSession
  <2>2. lock' = "reset" /\ job'.saves = <<"charge", "export">>
    BY <1>5 DEF Cleared
  <2> QED
    BY <1>1, <2>1, <2>2 DEF DirectionInv, NoneLatched, Waits, Loaded
<1>6. ASSUME NEW ch \in Channels, Advanced(ch, seen),
             Latched(ch) \/ (NoneLatched /\ ~Degraded)
      PROVE  DirectionInv'
  <2>1. /\ lock' \in {"free", "save"} /\ (lock' = "save" => job'.chan = ch)
        /\ lock' = "free" => sess' = sess
        /\ \A c \in Channels \ {ch} : Latched(c)' = Latched(c)
    BY <1>6 DEF Advanced, Latched
  <2>2. \A c \in Channels \ {ch} : ~Latched(c) /\ ~Stored(c)
    <3>1. CASE Latched(ch)
      BY <3>1 DEF DirectionInv
    <3>2. CASE NoneLatched /\ ~Degraded
      BY <1>2, <3>2 DEF DirectionInv, NoneLatched, Degraded
    <3> QED
      BY <1>6, <3>1, <3>2
  <2>3. Latched(ch) \/ ~Stored(ch)
    BY <1>2, <1>6 DEF DirectionInv, NoneLatched, Degraded
  <2>4. lock' = "free" => Latched(ch)' = Latched(ch)
    BY <2>1 DEF Latched
  <2> QED
    BY <1>1, <2>1, <2>2, <2>3, <2>4 DEF DirectionInv, Waits, Loaded
<1> QED
  BY <1>3, <1>4, <1>5, <1>6 DEF Reconciled

\* After a reset both stores are idle, and the decision may latch either direction.
LEMMA DecidedDirection ==
    ASSUME TypeInv, DirectionInv, NEW o \in Inverter, Decide(o), lock = "decide",
           UNCHANGED <<disk, stat, fileStat, life>>
    PROVE  DirectionInv'
<1>1. \A c \in Channels : ~Stored(c) /\ ~Latched(c) /\ ~Stored(c)'
  BY DEF DirectionInv, NoneLatched, Stored
<1>2. CASE Idled
  BY <1>1, <1>2 DEF Idled, DirectionInv, Latched
<1>3. ASSUME NEW ch \in Channels, Advanced(ch, o)
      PROVE  DirectionInv'
  <2>1. /\ lock' \in {"free", "save"}
        /\ \A c \in Channels \ {ch} : ~Latched(c)'
    BY <1>1, <1>3 DEF Advanced, Latched
  <2> QED
    BY <1>1, <2>1 DEF DirectionInv
<1> QED
  BY <1>2, <1>3, DecideCases

\* A store write leaves its store as memory has it, and a reset writes both.
LEMMA SaveDirection ==
    ASSUME TypeInv, JournalInv, DirectionInv, SaveSucceeds
    PROVE  DirectionInv'
<1> DEFINE store == Head(job.saves)
<1>1. /\ lock \in Saving /\ job.saves \in Seq(Channels) /\ job.saves # <<>>
      /\ lock = "save" => store = job.chan
  BY DEF SaveSucceeds, Saving, TypeInv, TypeOK, HolderOK, Job
<1>2. store \in Channels
  BY <1>1, HeadTailTyped
<1>3. /\ \A c \in Channels : disk'[c] = IF c = store THEN sess[c] ELSE disk[c]
      /\ \A c \in Channels : fileStat'[c] = IF c = store THEN "valid" ELSE fileStat[c]
      /\ \A c \in Channels : stat'[c] \in {stat[c], "valid"}
      /\ \A c \in Channels : stat'[c] # stat[c] => store = "export" /\ (lock = "reset" \/ c = store)
      /\ UNCHANGED <<sess, life>>
  BY <1>2 DEF SaveSucceeds, StatAfterSave, TypeInv, TypeOK
<1>4. lock = "reset" => \/ store = "charge" /\ job.saves = <<"charge", "export">>
                        \/ store = "export" /\ job.saves = <<"export">> /\ ~Stored("charge")
  BY DEF DirectionInv
<1>5. /\ lock' = "reset" => /\ lock = "reset" /\ job'.saves = Tail(job.saves)
                            /\ Len(job.saves) > 1
      /\ lock' = "decide" => lock = "reset" /\ Len(job.saves) = 1
      /\ lock = "reset" => lock' \in {"reset", "decide"}
      /\ lock' # "save"
  <2>1. lock = "save" => ~(Len(job.saves) > 1)
    <3>1. Len(<<job.chan>>) = 1 /\ ~(1 > 1)
      OBVIOUS
    <3>2. lock = "save" => Len(job.saves) = 1
      BY <3>1 DEF TypeInv, HolderOK
    <3> QED
      BY <3>1, <3>2
  <2>2. CASE NextSave
    <3>1. lock' = lock /\ job'.saves = Tail(job.saves) /\ Len(job.saves) > 1
      BY <2>2 DEF NextSave, TypeInv, TypeOK, Job
    <3> QED
      BY <1>1, <2>1, <3>1 DEF Saving
  <2>3. CASE LastSave
    BY <1>1, <2>3 DEF LastSave, Release, Saving
  <2> QED
    BY <2>2, <2>3 DEF SaveSucceeds
<1> HIDE DEF store
<1>6. \A c \in Channels : /\ Latched(c)' = Latched(c) /\ Loaded(c)' = Loaded(c)
                          /\ Stored(c)' = IF c = store THEN Latched(c) ELSE Stored(c)
  BY <1>3 DEF Latched, Loaded, Stored
<1>7. CASE lock = "reset"
  <2>1. NoneLatched /\ NoneLatched'
    BY <1>6, <1>7 DEF DirectionInv, NoneLatched
  <2>2. CASE store = "charge" /\ job.saves = <<"charge", "export">>
    <3>1. ~(Len(job.saves) = 1) /\ Tail(job.saves) = <<"export">>
      BY <2>2
    <3>2. lock' = "reset" /\ job'.saves = <<"export">>
      BY <1>5, <1>7, <3>1
    <3>3. ~Stored("charge")' /\ \A c \in Channels : Waits(c)'
      BY <1>2, <1>6, <2>1, <2>2, <3>2 DEF NoneLatched, Waits
    <3>4. \A c \in Channels : Stored(c)' => Stored(c)
      BY <1>6, <2>1 DEF NoneLatched
    <3>5. \A c \in Channels : fileStat'[c] = "missing" => ~Stored(c)'
      BY <1>3, <3>4 DEF DirectionInv
    <3> QED
      BY <2>1, <3>2, <3>3, <3>4, <3>5 DEF DirectionInv, NoneLatched
  <2>3. CASE store = "export" /\ job.saves = <<"export">> /\ ~Stored("charge")
    <3>1. ~(Len(job.saves) > 1)
      BY <2>3
    <3>2. lock' = "decide"
      BY <1>5, <1>7, <3>1
    <3>3. \A c \in Channels : ~Stored(c)'
      BY <1>6, <2>1, <2>3 DEF NoneLatched, Channels
    <3> QED
      BY <2>1, <3>2, <3>3 DEF DirectionInv, NoneLatched
  <2> QED
    BY <1>4, <1>7, <2>2, <2>3
<1>8. CASE lock # "reset"
  <2>1. lock' \notin {"reset", "decide"}
    BY <1>5, <1>8
  <2>2. \A c \in Channels : Waits(c) => c = store
    BY <1>1, <1>8 DEF Waits, store
  <2>3. ASSUME NEW ch \in Channels, NEW c \in Channels, ch # c, Stored(ch)'
        PROVE  ~Stored(c)'
    BY <1>6, <2>3 DEF DirectionInv
  <2>4. ASSUME NEW ch \in Channels, NEW c \in Channels, ch # c, Latched(ch)'
        PROVE  ~Latched(c)' /\ ~Stored(c)'
    BY <1>6, <2>4 DEF DirectionInv
  <2>5. ASSUME NEW ch \in Channels, Loaded(ch)', Stored(ch)', ~Latched(ch)'
        PROVE  stat'[ch] = "malformed"
    <3>1. ch # store /\ Loaded(ch) /\ Stored(ch) /\ ~Latched(ch)
      BY <1>6, <2>5
    <3>2. stat[ch] = "malformed" /\ stat'[ch] = stat[ch]
      BY <1>3, <1>8, <2>2, <3>1 DEF DirectionInv
    <3> QED
      BY <3>2
  <2>6. \A c \in Channels : fileStat'[c] = "missing" => ~Stored(c)'
    BY <1>3, <1>6 DEF DirectionInv
  <2> QED
    BY <2>1, <2>3, <2>4, <2>5, <2>6 DEF DirectionInv
<1> QED
  BY <1>7, <1>8

\* No step latches, or stores, both directions.
LEMMA NextDirection ==
    ASSUME Faults \cap {"early", "save"} = {}
    PROVE  TypeInv /\ JournalInv /\ Unread /\ DirectionInv /\ [Next]_vars => DirectionInv'
<1> SUFFICES ASSUME TypeInv, JournalInv, Unread, DirectionInv, [Next]_vars
             PROVE  DirectionInv'
  OBVIOUS
<1> USE DEF plant, stores
<1>1. CASE Reconcile \/ ReconcileAgain
  <2>1. Reconciled /\ lock \in {"free", "again"} /\ UNCHANGED <<disk, stat, fileStat, life>>
    BY <1>1, ReconcileCases DEF Reconcile, ReconcileAgain
  <2>2. \A c \in Channels : Loaded(c)
    BY <1>1 DEF Reconcile, ReconcileAgain, Running, Loaded, JournalInv
  <2> QED
    BY <2>1, <2>2, ReconciledDirection
<1>2. CASE DecideAfterReset
  <2>1. job.obs \in Inverter /\ Decide(job.obs) /\ lock = "decide"
    BY <1>2 DEF DecideAfterReset, TypeInv, TypeOK, Job
  <2> QED
    BY <1>2, <2>1, DecidedDirection DEF DecideAfterReset
<1>3. CASE SaveSucceeds
  BY <1>3, SaveDirection
<1>4. CASE SaveFails
  BY <1>4 DEF SaveFails
<1>5. CASE ExecuteCommand \/ CommandBlocked \/ CommandFails
  <2>1. /\ lock = "exec" /\ lock' \in {"free", "exec"}
        /\ UNCHANGED <<sess, disk, stat, fileStat, life>>
    BY <1>5 DEF ExecuteCommand, CommandBlocked, CommandFails, Release
  <2> QED
    BY <2>1, SamePhases DEF Latched, Stored, Loaded, Waits
<1>6. CASE Repair
  <2>1. lock = "free" /\ lock' \in {"free", "rearm", "exec"} /\ UNCHANGED <<disk, stat, fileStat, life>>
    BY <1>6, RepairTyped DEF Repair, Idled, Rearmed, Restoring
  <2>2. \A c \in Channels : Latched(c)' <=> Latched(c)
    <3>1. CASE UNCHANGED sess
      BY <3>1 DEF Latched
    <3>2. ASSUME NEW ch \in Channels, Rearm(ch)
          PROVE  \A c \in Channels : Latched(c)' <=> Latched(c)
      BY <3>2 DEF Rearm, Latched, TypeInv, TypeOK, Sessions, AnySession, SessionOf
    <3>3. ChannelOf(pending) \in Channels
      BY DEF ChannelOf, Channels
    <3> QED
      BY <1>6, <3>1, <3>2, <3>3 DEF Repair, RepairSelfUse
  <2> QED
    BY <2>1, <2>2, SamePhases DEF Stored, Loaded, Waits
<1>7. CASE LoadCharge \/ LoadExport
  <2>1. PICK ch \in Channels :
          /\ LoadSession(ch) /\ ~Loaded(ch)
          /\ \A c \in Channels \ {ch} : Loaded(c)' = Loaded(c)
    BY <1>7 DEF LoadCharge, LoadExport, Loaded, Channels
  <2>2. /\ UNCHANGED <<disk, fileStat, lock>> /\ lock = "free"
        /\ stat' = [stat EXCEPT ![ch] = fileStat[ch]]
    BY <1>7, <2>1 DEF LoadCharge, LoadExport, LoadSession, JournalInv
  <2>3. /\ \A c \in Channels \ {ch} : Latched(c)' = Latched(c)
        /\ Latched(ch)' => Stored(ch)
        /\ Stored(ch) => Latched(ch)' \/ stat'[ch] = "malformed"
    <3>1. sess[ch] = IdleSession
      BY <2>1 DEF Unread
    <3>2. \A c \in Channels \ {ch} : sess'[c] = sess[c]
      BY <2>1, LoadTyped
    <3>3. sess'[ch] \in {disk[ch], IdleSession}
      BY <2>1, <3>1, LoadTyped
    <3>4. fileStat[ch] = "valid" => sess'[ch] = disk[ch]
      BY <2>1, LoadTyped
    <3>5. fileStat[ch] = "malformed" => stat'[ch] = "malformed"
      BY <2>2 DEF TypeInv, TypeOK
    <3>6. fileStat[ch] \in {"valid", "missing", "malformed"}
      BY DEF TypeInv, TypeOK, FileStatus
    <3> QED
      BY <3>2, <3>3, <3>4, <3>5, <3>6 DEF Latched, Stored, IdleSession, DirectionInv
  <2>4. \A c \in Channels \ {ch} : stat'[c] = stat[c]
    BY <2>2 DEF TypeInv, TypeOK
  <2>5. \A c \in Channels : Stored(c)' = Stored(c) /\ ~Waits(c)
    BY <2>2 DEF Stored, Waits
  <2>6. ASSUME NEW d \in Channels, NEW c \in Channels, d # c, Latched(d)'
        PROVE  ~Latched(c)' /\ ~Stored(c)'
    BY <2>1, <2>3, <2>5, <2>6 DEF DirectionInv
  <2>7. ASSUME NEW c \in Channels, Loaded(c)', Stored(c)', ~Latched(c)'
        PROVE  stat'[c] = "malformed"
    BY <2>1, <2>3, <2>4, <2>5, <2>7 DEF DirectionInv
  <2> QED
    BY <2>2, <2>5, <2>6, <2>7 DEF DirectionInv
<1>8. CASE Unloaded \/ Crash
  <2>1. /\ lock' = "free" /\ \A c \in Channels : ~Latched(c)' /\ ~Loaded(c)'
        /\ UNCHANGED <<disk, fileStat>>
    BY <1>8, ForgetTyped DEF Unloaded, Crash, ForgetMemory, Latched, Loaded, IdleSession
  <2> QED
    BY <2>1 DEF DirectionInv, Stored
<1>9. CASE Corrupt
  <2>1. PICK s \in Channels : fileStat' = [fileStat EXCEPT ![s] = "malformed"]
    BY <1>9 DEF Corrupt
  <2>2. \A c \in Channels : fileStat'[c] = "missing" => fileStat[c] = "missing"
    BY <2>1 DEF TypeInv, TypeOK
  <2>3. UNCHANGED <<sess, disk, stat, life, lock, job>>
    BY <1>9 DEF Corrupt
  <2> QED
    BY <2>2, <2>3, SamePhases DEF Latched, Stored, Loaded, Waits
<1>10. CASE Elapse
  <2>1. UNCHANGED <<stat, fileStat, life, lock>> /\ job'.chan = job.chan /\ job'.saves = job.saves
    BY <1>10 DEF Elapse, TypeInv, TypeOK, Job
  <2>2. \A c \in Channels : (Latched(c)' <=> Latched(c)) /\ (Stored(c)' <=> Stored(c))
    BY <1>10, ElapseTyped DEF Latched, Stored
  <2> QED
    BY <2>1, <2>2, SamePhases DEF Loaded, Waits
<1>11. CASE Boot \/ Unload
  <2>1. /\ UNCHANGED <<sess, disk, stat, fileStat, lock, job>>
        /\ \A c \in Channels : Loaded(c)' => Loaded(c)
    BY <1>11 DEF Boot, Unload, Loaded
  <2> QED
    BY <2>1, SamePhases DEF Latched, Stored, Waits
<1>12. CASE UNCHANGED <<sess, disk, stat, fileStat, life, lock, job>>
  BY <1>12, SamePhases DEF Latched, Stored, Loaded, Waits
<1> QED
  BY <1>1, <1>2, <1>3, <1>4, <1>5, <1>6, <1>7, <1>8, <1>9, <1>10, <1>11, <1>12
     DEF Next, Hold, Setup, Environment, Supervise, ExternalWrite, Refresh, ToggleGate,
         ToggleWindow, vars

\* When the stores are loaded before anything reconciles and every store write succeeds:
\* no order of restarts, corrupted stores, missing feedback, external changes and repairs
\* leaves charge and export unfinished together, in memory or for a restart to find.
THEOREM Direction ==
    ASSUME Faults \cap {"early", "save"} = {}
    PROVE  Spec => []OneDirection
<1>1. Init => JournalInv /\ Unread /\ DirectionInv
  <2> SUFFICES ASSUME Init PROVE JournalInv /\ Unread /\ DirectionInv
    OBVIOUS
  <2>1. \A c \in Channels : sess[c] = IdleSession /\ disk[c] = IdleSession
    BY DEF Init
  <2>2. \A c \in Channels : ~Latched(c) /\ ~Stored(c)
    BY <2>1 DEF Latched, Stored, IdleSession
  <2> QED
    BY <2>1, <2>2 DEF Init, JournalInv, Unread, DirectionInv
<1>2. "early" \notin Faults
  OBVIOUS
<1>3. TypeInv /\ JournalInv /\ [Next]_vars => JournalInv'
  BY <1>2, NextJournal
<1>4. TypeInv /\ JournalInv /\ Unread /\ [Next]_vars => Unread'
  BY <1>2, NextUnread
<1>5. TypeInv /\ JournalInv /\ Unread /\ DirectionInv /\ [Next]_vars => DirectionInv'
  BY NextDirection
<1>6. Spec => []DirectionInv
  BY <1>1, <1>3, <1>4, <1>5, TypeInvariant, PTL DEF Spec
<1>7. DirectionInv => OneDirection
  BY DEF DirectionInv, OneDirection, Latched, Stored, Owned, OwnedPhases, Channels
<1> QED
  BY <1>6, <1>7, PTL

-----------------------------------------------------------------------------
(* The frozen power, when nothing reconciles before the load. *)

\* The inductive invariant behind FrozenPower: the copy an export step may be rolled
\* back to has the power of the step.
RollbackInv ==
    lock = "save" /\ job.chan = "export"
        /\ {job.prev.phase, sess["export"].phase} \subseteq ForcingPhases
      => job.prev.power = sess["export"].power

\* What one evaluation does to the power of both sessions.
LEMMA ReconciledPower ==
    ASSUME TypeInv, NEW o \in Inverter,
           Idled \/ Marked \/ Cleared(o) \/ \E c \in Channels : Advanced(c, o)
    PROVE  /\ \A ch \in Channels : {sess[ch].phase, sess'[ch].phase} \subseteq ForcingPhases
                => sess'[ch].power <= sess[ch].power
           /\ RollbackInv'
<1>1. \A ch \in Channels : sess[ch].power \in Nat
  BY MaxKwAssumption DEF TypeInv, TypeOK, Sessions, SessionOf, Powers
<1>2. CASE Idled
  BY <1>1, <1>2 DEF Idled, RollbackInv
<1>3. CASE Marked
  <2>1. ASSUME NEW ch \in Channels
        PROVE  sess'[ch].power = sess[ch].power
    BY <1>3 DEF Marked
  <2> QED
    BY <1>1, <1>3, <2>1 DEF Marked, RollbackInv
<1>4. CASE Cleared(o)
  <2>1. \A ch \in Channels : sess'[ch].phase \notin ForcingPhases
    BY <1>4 DEF Cleared, IdleSession, ForcingPhases
  <2> QED
    BY <1>4, <2>1 DEF Cleared, RollbackInv
<1>5. ASSUME NEW c \in Channels, Advanced(c, o)
      PROVE  /\ \A ch \in Channels : {sess[ch].phase, sess'[ch].phase} \subseteq ForcingPhases
                   => sess'[ch].power <= sess[ch].power
             /\ RollbackInv'
  BY <1>1, <1>5 DEF Advanced, RollbackInv
<1> QED
  BY <1>2, <1>3, <1>4, <1>5

\* No step of a loaded controller raises the power of a session that is being started,
\* held or recovered.
LEMMA NextPower ==
    ASSUME "early" \notin Faults
    PROVE  TypeInv /\ JournalInv /\ Unread /\ RollbackInv /\ [Next]_vars =>
             /\ RollbackInv'
             /\ \A ch \in Channels : {sess[ch].phase, sess'[ch].phase} \subseteq ForcingPhases
                  => sess'[ch].power <= sess[ch].power
<1> DEFINE Stays == \A ch \in Channels : {sess[ch].phase, sess'[ch].phase} \subseteq ForcingPhases
                       => sess'[ch].power <= sess[ch].power
<1> SUFFICES ASSUME TypeInv, JournalInv, Unread, RollbackInv, [Next]_vars
             PROVE  RollbackInv' /\ Stays
  OBVIOUS
<1>1. \A ch \in Channels : sess[ch].power \in Nat
  BY MaxKwAssumption DEF TypeInv, TypeOK, Sessions, SessionOf, Powers
<1>2. ASSUME \A ch \in Channels : sess'[ch].power = sess[ch].power
      PROVE  Stays
  BY <1>1, <1>2
<1> HIDE DEF Stays
<1>3. CASE Reconcile \/ ReconcileAgain
  <2>1. Reconciled /\ seen \in Inverter
    BY <1>3, ReconcileCases DEF Reconcile, ReconcileAgain, TypeInv, TypeOK
  <2> QED
    BY <2>1, ReconciledPower DEF Reconciled, Stays
<1>4. CASE DecideAfterReset
  <2>1. job.obs \in Inverter /\ Decide(job.obs)
    BY <1>4 DEF DecideAfterReset, TypeInv, TypeOK, Job
  <2>2. Idled \/ \E ch \in Channels : Advanced(ch, job.obs)
    BY <2>1, DecideCases
  <2> QED
    BY <2>1, <2>2, ReconciledPower DEF Stays
<1>5. CASE SaveSucceeds
  <2>1. sess' = sess /\ lock' # "save"
    <3>1. lock = "save" => ~(Len(job.saves) > 1)
      <4>1. Len(<<job.chan>>) = 1 /\ ~(1 > 1)
        OBVIOUS
      <4>2. lock = "save" => Len(job.saves) = 1
        BY <4>1 DEF TypeInv, HolderOK
      <4> QED
        BY <4>1, <4>2
    <3> QED
      BY <1>5, <3>1 DEF SaveSucceeds, NextSave, LastSave, Release
  <2> QED
    BY <1>2, <2>1 DEF RollbackInv
<1>6. CASE SaveFails
  <2>1. lock' = "free"
    BY <1>6 DEF SaveFails, Release
  <2>2. CASE lock = "save" /\ job.chan = "export"
    <3>1. /\ sess'["export"] = job.prev
          /\ \A c \in Channels \ {"export"} : sess'[c] = sess[c]
      BY <1>6, <2>2 DEF SaveFails, TypeInv, TypeOK, Sessions, Channels
    <3>2. Stays
      BY <1>1, <2>2, <3>1 DEF RollbackInv, Stays
    <3> QED
      BY <2>1, <3>2 DEF RollbackInv
  <2>3. CASE ~(lock = "save" /\ job.chan = "export")
    BY <1>2, <1>6, <2>1, <2>3 DEF SaveFails, RollbackInv
  <2> QED
    BY <2>2, <2>3
<1>7. CASE Repair
  <2>1. lock' \in {"free", "rearm", "exec"}
    BY <1>7, RepairTyped DEF Idled, Rearmed, Restoring
  <2>2. \A ch \in Channels : sess'[ch].power = sess[ch].power
    <3>1. ASSUME NEW ch \in Channels, Rearm(ch)
          PROVE  \A c \in Channels : sess'[c].power = sess[c].power
      BY <3>1 DEF Rearm, TypeInv, TypeOK, Sessions, AnySession, SessionOf
    <3>2. ChannelOf(pending) \in Channels
      BY DEF ChannelOf, Channels
    <3> QED
      BY <1>7, <3>1, <3>2 DEF Repair, RepairSelfUse
  <2> QED
    BY <1>2, <2>1, <2>2 DEF RollbackInv
<1>8. CASE LoadCharge \/ LoadExport
  <2>1. PICK c \in Channels : LoadSession(c) /\ ~Loaded(c)
    BY <1>8 DEF LoadCharge, LoadExport, Loaded, Channels
  <2>2. lock' = "free"
    BY <1>8, <2>1 DEF LoadCharge, LoadExport, LoadSession, JournalInv
  <2>3. sess[c].phase \notin ForcingPhases /\ \A ch \in Channels \ {c} : sess'[ch] = sess[ch]
    BY <2>1, LoadTyped DEF Unread, IdleSession, ForcingPhases
  <2>4. Stays
    BY <1>1, <2>3 DEF Stays
  <2> QED
    BY <2>2, <2>4 DEF RollbackInv
<1>9. CASE Unloaded \/ Crash
  <2>1. lock' = "free" /\ \A ch \in Channels : sess'[ch].phase \notin ForcingPhases
    BY <1>9, ForgetTyped DEF Unloaded, Crash, IdleSession, ForcingPhases
  <2> QED
    BY <2>1 DEF RollbackInv, Stays
<1>10. CASE Elapse
  <2>1. /\ \A ch \in Channels : /\ sess'[ch].phase = sess[ch].phase
                                /\ sess'[ch].power = sess[ch].power
        /\ job'.prev.phase = job.prev.phase
    BY <1>10, ElapseTyped
  <2>2. lock' = lock /\ job'.chan = job.chan /\ job'.prev = Older(job.prev)
    BY <1>10 DEF Elapse, TypeInv, TypeOK, Job, Older, AnySession, SessionOf
  <2>3. job'.prev.power = job.prev.power
    BY <2>2 DEF Older, TypeInv, TypeOK, Job, AnySession, SessionOf
  <2>4. RollbackInv'
    BY <2>1, <2>2, <2>3 DEF RollbackInv, Channels
  <2> QED
    BY <1>2, <2>1, <2>4
<1>11. CASE ExecuteCommand \/ CommandBlocked \/ CommandFails
  <2>1. lock' \in {"free", "exec"} /\ sess' = sess
    BY <1>11 DEF ExecuteCommand, CommandBlocked, CommandFails, Release
  <2> QED
    BY <1>2, <2>1 DEF RollbackInv
<1>12. CASE UNCHANGED <<sess, lock, job>>
  BY <1>2, <1>12 DEF RollbackInv
<1> QED
  BY <1>3, <1>4, <1>5, <1>6, <1>7, <1>8, <1>9, <1>10, <1>11, <1>12
     DEF Next, Hold, Setup, Environment, Supervise, Boot, Unload, Corrupt, ExternalWrite,
         Refresh, ToggleGate, ToggleWindow, vars

\* When the stores are loaded before anything reconciles: a raised limit, a retry, a
\* failed write that is rolled back, missing feedback or a repair never raises the power
\* of a session that is being started, held or recovered.
THEOREM Frozen ==
    ASSUME "early" \notin Faults
    PROVE  Spec => FrozenPower
<1>1. Init => JournalInv /\ Unread /\ RollbackInv
  BY DEF Init, JournalInv, Unread, RollbackInv
<1>2. TypeInv /\ JournalInv /\ [Next]_vars => JournalInv'
  BY NextJournal
<1>3. TypeInv /\ JournalInv /\ Unread /\ [Next]_vars => Unread'
  BY NextUnread
<1>4. TypeInv /\ JournalInv /\ Unread /\ RollbackInv /\ [Next]_vars =>
        /\ RollbackInv'
        /\ [\A ch \in Channels :
              {sess[ch].phase, sess'[ch].phase} \subseteq {"starting", "active", "recovering"}
              => sess'[ch].power <= sess[ch].power]_vars
  BY NextPower DEF ForcingPhases
<1> QED
  BY <1>1, <1>2, <1>3, <1>4, TypeInvariant, PTL DEF Spec, FrozenPower

-----------------------------------------------------------------------------
(* The forced mode comes last, when the entity states follow the inverter, the *)
(* native limit stays and nothing reconciles before the load.                   *)

\* The inductive invariant behind ForcedModeLast: what is left of a plan still brings
\* both targets of the inverter to where the forced mode needs them.
ForceInv ==
    /\ seen = inv
    /\ \A ch \in Channels : Powered(sess[ch]) /\ Powered(disk[ch])
    /\ lock = "save" => Powered(job.prev)
    /\ lock \in {"reset", "decide"} => job.obs.chg = inv.chg /\ job.obs.dis = inv.dis
    /\ lock \in {"save", "exec"} /\ job.chan \in Channels =>
          ForcesLast(job.chan, sess[job.chan].power, job.plan, inv)

\* The order is about the two targets only.
LEMMA ForcesLastOfTargets ==
    ASSUME NEW ch, NEW p, NEW plan, NEW o, NEW i, i.chg = o.chg, i.dis = o.dis,
           ForcesLast(ch, p, plan, o)
    PROVE  ForcesLast(ch, p, plan, i)
  BY DEF ForcesLast, Own, Other

\* Executing the first command leaves the rest in order.
LEMMA ForcesLastTail ==
    ASSUME NEW ch \in Channels, NEW p \in Nat, NEW plan \in Seq(Commands(Powers)),
           plan # <<>>, NEW o \in Inverter, ForcesLast(ch, p, plan, o)
    PROVE  ForcesLast(ch, p, Tail(plan), Apply(Head(plan), o))
<1> DEFINE c == Head(plan)
           r == Apply(c, o)
<1>1. /\ c = plan[1] /\ DOMAIN plan = 1 .. Len(plan) /\ Len(plan) \in Nat
      /\ DOMAIN Tail(plan) = 1 .. Len(plan) - 1
      /\ \A i \in DOMAIN Tail(plan) : i + 1 \in DOMAIN plan /\ Tail(plan)[i] = plan[i + 1]
  BY HeadTailTyped
<1>2. c = SetOwn(ch, p) => Own(ch, r) = p /\ Other(ch, r) = Other(ch, o)
  BY DEF SetOwn, SetCharge, SetDischarge, Apply, Own, Other, Inverter, Observations, Channels
<1>3. c = ClearOther(ch) => Other(ch, r) = 0 /\ Own(ch, r) = Own(ch, o)
  BY DEF ClearOther, SetCharge, SetDischarge, Apply, Own, Other, Inverter, Observations, Channels
<1>4. SetOwn(ch, p) # ClearOther(ch)
  BY TargetsForceNothing
<1> HIDE DEF c, r
<1>5. ASSUME NEW i \in 1 .. Len(plan) - 1, IsForce(Tail(plan)[i])
      PROVE  /\ p > 0
             /\ \A j \in 1 .. i - 1 : Tail(plan)[j] \in {SetOwn(ch, p), ClearOther(ch)}
             /\ Own(ch, r) = p \/ \E j \in 1 .. i - 1 : Tail(plan)[j] = SetOwn(ch, p)
             /\ Other(ch, r) = 0 \/ \E j \in 1 .. i - 1 : Tail(plan)[j] = ClearOther(ch)
  <2>1. /\ p > 0
        /\ \A j \in 1 .. i : plan[j] \in {SetOwn(ch, p), ClearOther(ch)}
        /\ Own(ch, o) = p \/ \E j \in 1 .. i : plan[j] = SetOwn(ch, p)
        /\ Other(ch, o) = 0 \/ \E j \in 1 .. i : plan[j] = ClearOther(ch)
    <3>1. i + 1 \in DOMAIN plan /\ IsForce(plan[i + 1]) /\ (i + 1) - 1 = i
      BY <1>1, <1>5
    <3> QED
      BY <3>1 DEF ForcesLast
  <2>2. \A j \in 1 .. i - 1 : j + 1 \in 1 .. i /\ Tail(plan)[j] = plan[j + 1]
    BY <1>1
  <2>3. c \in {SetOwn(ch, p), ClearOther(ch)}
    BY <1>1, <2>1
  <2>4. ASSUME NEW d, d # c, NEW j \in 1 .. i, plan[j] = d
        PROVE  \E k \in 1 .. i - 1 : Tail(plan)[k] = d
    <3>1. j - 1 \in 1 .. i - 1 /\ (j - 1) + 1 = j
      BY <1>1, <2>4
    <3> QED
      BY <2>2, <2>4, <3>1
  <2>5. Own(ch, r) = p \/ \E j \in 1 .. i - 1 : Tail(plan)[j] = SetOwn(ch, p)
    BY <1>2, <1>3, <1>4, <2>1, <2>3, <2>4
  <2>6. Other(ch, r) = 0 \/ \E j \in 1 .. i - 1 : Tail(plan)[j] = ClearOther(ch)
    BY <1>2, <1>3, <1>4, <2>1, <2>3, <2>4
  <2> QED
    BY <2>1, <2>2, <2>5, <2>6
<1>6. ForcesLast(ch, p, Tail(plan), r)
  BY <1>1, <1>5 DEF ForcesLast
<1> QED
  BY <1>6 DEF c, r

\* An evaluation leaves behind a plan in order for what it observed.
LEMMA ReconciledForce ==
    ASSUME "source" \notin Faults, TypeInv, ForceInv, NEW o \in Inverter,
           o.chg = inv.chg, o.dis = inv.dis, UNCHANGED <<inv, seen, disk>>,
           Idled \/ Marked \/ Cleared(o) \/ \E ch \in Channels : Advanced(ch, o)
    PROVE  ForceInv'
<1>1. CASE Idled
  BY <1>1 DEF Idled, ForceInv
<1>2. CASE Marked
  <2>1. \A ch \in Channels : Powered(sess'[ch])
    BY <1>2 DEF Marked, ForceInv, Powered
  <2> QED
    BY <1>2, <2>1 DEF Marked, ForceInv
<1>3. CASE Cleared(o)
  <2>1. \A ch \in Channels : Powered(sess'[ch])
    BY <1>3 DEF Cleared, Powered, IdleSession
  <2> QED
    BY <1>3, <2>1 DEF Cleared, ForceInv
<1>4. ASSUME NEW ch \in Channels, Advanced(ch, o)
      PROVE  ForceInv'
  <2>1. \A c \in Channels : Powered(sess'[c])
    BY <1>4 DEF Advanced, ForceInv
  <2>2. lock' = "save" => /\ ForcesLast(ch, sess'[ch].power, job'.plan, inv')
                          /\ job'.chan = ch /\ Powered(job'.prev)
    <3>1. lock' = "save" => ForcesLast(ch, sess'[ch].power, job'.plan, o)
      BY <1>4 DEF Advanced, ForceInv
    <3>2. lock' = "save" => job'.chan = ch /\ job'.prev = sess[ch]
      BY <1>4 DEF Advanced
    <3> QED
      BY <3>1, <3>2, ForcesLastOfTargets DEF ForceInv
  <2>3. lock' \in {"free", "save"}
    BY <1>4 DEF Advanced
  <2> QED
    BY <2>1, <2>2, <2>3 DEF ForceInv
<1> QED
  BY <1>1, <1>2, <1>3, <1>4

\* No step disorders what is left of a plan.
LEMMA NextForce ==
    ASSUME Faults \cap {"early", "lag", "source"} = {}
    PROVE  TypeInv /\ JournalInv /\ ForceInv /\ [Next]_vars => ForceInv'
<1> SUFFICES ASSUME TypeInv, JournalInv, ForceInv, [Next]_vars PROVE ForceInv'
  OBVIOUS
<1> USE DEF plant, stores
<1>1. CASE Reconcile \/ ReconcileAgain
  <2>1. Reconciled /\ seen \in Inverter /\ seen = inv
    BY <1>1, ReconcileCases DEF Reconcile, ReconcileAgain, TypeInv, TypeOK, ForceInv
  <2> QED
    BY <1>1, <2>1, ReconciledForce DEF Reconcile, ReconcileAgain, Reconciled
<1>2. CASE DecideAfterReset
  <2>1. job.obs \in Inverter /\ Decide(job.obs) /\ lock = "decide"
    BY <1>2 DEF DecideAfterReset, TypeInv, TypeOK, Job
  <2>2. Idled \/ \E ch \in Channels : Advanced(ch, job.obs)
    BY <2>1, DecideCases
  <2>3. job.obs.chg = inv.chg /\ job.obs.dis = inv.dis
    BY <2>1 DEF ForceInv
  <2> QED
    BY <1>2, <2>1, <2>2, <2>3, ReconciledForce DEF DecideAfterReset
<1>3. CASE SaveSucceeds
  <2>1. /\ UNCHANGED <<inv, seen, sess>> /\ lock \in {"mark", "reset", "save", "rearm"}
        /\ disk' = [ch \in Channels |-> IF ch = Head(job.saves) THEN sess[ch] ELSE disk[ch]]
    BY <1>3 DEF SaveSucceeds, Saving
  <2>2. \A ch \in Channels : Powered(sess'[ch]) /\ Powered(disk'[ch])
    BY <2>1 DEF ForceInv
  <2>3. /\ lock' \in {"reset", "decide"} => lock = "reset" /\ job'.obs = job.obs
        /\ lock' # "save"
        /\ lock' = "exec" => lock = "save" /\ job'.chan = job.chan /\ job'.plan = job.plan
    <3>1. CASE NextSave
      <4>1. lock # "save"
        <5>1. Len(<<job.chan>>) = 1 /\ ~(1 > 1)
          OBVIOUS
        <5>2. lock = "save" => Len(job.saves) = 1
          BY <5>1 DEF TypeInv, HolderOK
        <5> QED
          BY <3>1, <5>1, <5>2 DEF NextSave
      <4> QED
        BY <2>1, <3>1, <4>1 DEF NextSave, TypeInv, TypeOK, Job
    <3>2. CASE LastSave
      BY <3>2 DEF LastSave, Release, NoJob, TypeInv, TypeOK, Job
    <3> QED
      BY <1>3, <3>1, <3>2 DEF SaveSucceeds
  <2> QED
    BY <2>1, <2>2, <2>3 DEF ForceInv
<1>4. CASE SaveFails
  <2>1. lock' = "free" /\ UNCHANGED <<inv, seen, disk>>
    BY <1>4 DEF SaveFails, Release
  <2>2. \A ch \in Channels : Powered(sess'[ch])
    BY <1>4 DEF SaveFails, ForceInv, TypeInv, TypeOK, Sessions
  <2> QED
    BY <2>1, <2>2 DEF ForceInv
<1>5. CASE ExecuteCommand \/ CommandBlocked \/ CommandFails
  <2>1. /\ lock = "exec" /\ lock' \in {"free", "exec"} /\ UNCHANGED <<sess, disk>>
        /\ job.plan \in Seq(Commands(Powers)) /\ job.plan # <<>> /\ inv \in Inverter
    BY <1>5 DEF ExecuteCommand, CommandBlocked, CommandFails, Release, TypeInv, TypeOK,
                HolderOK, Job
  <2>2. seen' = inv'
    BY <1>5 DEF ExecuteCommand, CommandBlocked, CommandFails, Accept, ForceInv
  <2>3. lock' = "exec" => /\ inv' = Apply(Head(job.plan), inv)
                          /\ job'.plan = Tail(job.plan) /\ job'.chan = job.chan
    BY <1>5 DEF ExecuteCommand, CommandBlocked, CommandFails, Accept, Release,
                TypeInv, TypeOK, Job
  <2>4. ASSUME lock' = "exec", job.chan \in Channels
        PROVE  ForcesLast(job.chan, sess[job.chan].power, job'.plan, inv')
    <3>1. ForcesLast(job.chan, sess[job.chan].power, job.plan, inv)
      BY <2>1, <2>4 DEF ForceInv
    <3>2. sess[job.chan].power \in Nat
      BY <2>4, MaxKwAssumption DEF TypeInv, TypeOK, Sessions, SessionOf, Powers
    <3> QED
      BY <2>1, <2>3, <2>4, <3>1, <3>2, ForcesLastTail
  <2> QED
    BY <2>1, <2>2, <2>3, <2>4 DEF ForceInv
<1>6. CASE Repair
  <2>1. /\ UNCHANGED <<inv, seen, disk>>
        /\ \/ lock' \in {"free", "rearm"}
           \/ lock' = "exec" /\ job'.chan = "supervisor"
    BY <1>6, RepairTyped DEF Repair, Idled, Rearmed, Restoring
  <2>2. \A ch \in Channels : Powered(sess'[ch])
    <3>1. ASSUME NEW ch \in Channels, Rearm(ch)
          PROVE  \A c \in Channels : Powered(sess'[c])
      <4> DEFINE t == [sess[ch] EXCEPT !.phase = "recovering", !.attempts = 0, !.fresh = FALSE]
      <4>1. sess \in Sessions /\ sess[ch] \in SessionOf(ch)
        BY <3>1 DEF TypeInv, TypeOK, Sessions
      <4>2. t.phase = "recovering"
        BY <4>1 DEF SessionOf
      <4>3. sess' = [sess EXCEPT ![ch] = t] \/ sess' = sess
        BY <3>1, <4>1 DEF Rearm, Sessions
      <4> HIDE DEF t
      <4>4. \A c \in Channels : sess'[c] \in {t, sess[c]}
        BY <3>1, <4>1, <4>3 DEF Sessions
      <4> QED
        BY <4>2, <4>4 DEF ForceInv, Powered
    <3>2. ChannelOf(pending) \in Channels
      BY DEF ChannelOf, Channels
    <3> QED
      BY <1>6, <3>1, <3>2 DEF Repair, RepairSelfUse, ForceInv
  <2> QED
    BY <2>1, <2>2 DEF ForceInv, Channels
<1>7. CASE LoadCharge \/ LoadExport
  <2>1. PICK ch \in Channels : LoadSession(ch)
    BY <1>7 DEF LoadCharge, LoadExport, Channels
  <2>2. /\ \A c \in Channels \ {ch} : sess'[c] = sess[c]
        /\ sess'[ch] \in {disk[ch], IdleSession, sess[ch]}
    BY <2>1, LoadTyped
  <2>3. lock' = "free" /\ UNCHANGED <<inv, seen, disk>>
    BY <1>7, <2>1 DEF LoadCharge, LoadExport, LoadSession, JournalInv
  <2>4. \A c \in Channels : Powered(sess'[c])
    BY <2>2 DEF ForceInv, Powered, IdleSession
  <2> QED
    BY <2>3, <2>4 DEF ForceInv
<1>8. CASE Unloaded \/ Crash
  <2>1. lock' = "free" /\ UNCHANGED <<inv, seen, disk>> /\ \A c \in Channels : sess'[c] = IdleSession
    BY <1>8, ForgetTyped DEF Unloaded, Crash, ForgetMemory
  <2> QED
    BY <2>1 DEF ForceInv, Powered, IdleSession
<1>9. CASE ExternalWrite
  <2>1. /\ inv'.chg = inv.chg /\ inv'.dis = inv.dis /\ seen' = inv'
        /\ UNCHANGED <<sess, disk, lock, job>>
    BY <1>9 DEF ExternalWrite, ForceInv, TypeInv, TypeOK, Inverter, Observations
  <2>2. \A c, p, plan : ForcesLast(c, p, plan, inv) => ForcesLast(c, p, plan, inv')
    BY <2>1, ForcesLastOfTargets
  <2> QED
    BY <2>1, <2>2 DEF ForceInv
<1>10. CASE Refresh
  BY <1>10 DEF Refresh, ForceInv
<1>11. CASE Elapse
  <2>1. UNCHANGED <<inv, seen, lock>>
    BY <1>11 DEF Elapse
  <2>2. /\ job'.chan = job.chan /\ job'.plan = job.plan /\ job'.obs = job.obs
        /\ job'.prev.power = job.prev.power
    BY <1>11 DEF Elapse, Older, TypeInv, TypeOK, Job, AnySession, SessionOf
  <2>3. /\ \A c \in Channels : Powered(sess'[c]) /\ Powered(disk'[c])
        /\ \A c \in Channels : sess'[c].power = sess[c].power
        /\ Powered(job.prev) => Powered(job'.prev)
    BY <1>11, <2>2, ElapseTyped DEF ForceInv, Powered
  <2> QED
    BY <2>1, <2>2, <2>3 DEF ForceInv
<1>12. CASE UNCHANGED <<inv, seen, sess, disk, lock, job>>
  BY <1>12 DEF ForceInv
<1> QED
  BY <1>1, <1>2, <1>3, <1>4, <1>5, <1>6, <1>7, <1>8, <1>9, <1>10, <1>11, <1>12
     DEF Next, Hold, Setup, Environment, Supervise, Boot, Unload, Corrupt, ToggleGate,
         ToggleWindow, vars

\* The one step that enters a forced mode finds both targets as its stored owner wants.
LEMMA ForcedStep ==
    ASSUME TypeInv, JournalInv, ForceInv, [Next]_vars, NEW ch \in Channels,
           forcer' = "heo", inv'.mode = ForcedMode(ch), inv.mode # inv'.mode
    PROVE  LET own == IF ch = "charge" THEN inv'.chg ELSE inv'.dis IN
           own \in 1 .. disk[ch].power /\ inv'.chg + inv'.dis = own
<1> DEFINE c == Head(job.plan)
<1>1. lock = "exec" /\ inv' = Apply(c, inv) /\ forcer' = ForcerAfter(c)
  <2>1. CASE ExecuteCommand \/ CommandFails \/ CommandBlocked
    BY <2>1 DEF ExecuteCommand, CommandFails, CommandBlocked, Accept, plant
  <2>2. CASE ExternalWrite
    BY <2>2 DEF ExternalWrite
  <2>3. CASE inv' = inv
    BY <2>3
  <2> QED
    BY <2>1, <2>2, <2>3
       DEF Next, Hold, Setup, Environment, Reconcile, ReconcileAgain, DecideAfterReset,
           SaveSucceeds, SaveFails, Repair, Supervise, Boot, LoadCharge, LoadExport,
           LoadSession, Unloaded, Crash, ForgetMemory, Unload, Corrupt, Refresh,
           ToggleGate, ToggleWindow, Elapse, vars, plant
<1>2. /\ job.plan \in Seq(Commands(Powers)) /\ job.plan # <<>> /\ inv \in Inverter
      /\ c = job.plan[1] /\ 1 \in DOMAIN job.plan
  <2>1. job.plan \in Seq(Commands(Powers)) /\ job.plan # <<>> /\ inv \in Inverter
    BY <1>1 DEF TypeInv, TypeOK, HolderOK, Job
  <2> QED
    BY <2>1
<1>3. c \in Commands(Powers)
  BY <1>2, HeadTailTyped
<1> HIDE DEF c
<1>4. /\ c.act = "select_mode" /\ c.mode = ForcedMode(ch) /\ IsForce(c)
      /\ inv'.chg = inv.chg /\ inv'.dis = inv.dis
  <2>1. c.act = "select_mode"
    BY <1>1, <1>2, <1>3 DEF Apply, Commands, Inverter, Observations
  <2>2. inv' = [inv EXCEPT !.mode = c.mode]
    BY <1>1, <2>1 DEF Apply
  <2> QED
    BY <1>2, <2>1, <2>2, ForcedModeOfChannel DEF IsForce, Inverter, Observations
<1>5. job.chan \in Channels
  <2>1. ASSUME job.chan \notin Channels
        PROVE  FALSE
    <3>1. job.plan[1] \in {d \in Commands(Powers) : ~IsPositive(d)}
      BY <1>1, <1>2, <2>1 DEF JournalInv
    <3> QED
      BY <1>2, <1>4, <3>1 DEF IsPositive
  <2> QED
    BY <2>1
<1>6. job.chan = ch
  <2>1. job.plan[1] \in Licensed(job.chan, sess[job.chan].phase, sess[job.chan].power)
    BY <1>1, <1>2, <1>5 DEF JournalInv
  <2>2. c.mode = ForcedMode(job.chan)
    BY <1>2, <1>4, <2>1, ForcedModeOfChannel DEF Licensed, IsPositive, IsForce, ForcedModes
  <2> QED
    BY <1>4, <1>5, <2>2, ForcedModeOfChannel
<1>7. sess[ch].power > 0 /\ Own(ch, inv) = sess[ch].power /\ Other(ch, inv) = 0
  <2>1. ForcesLast(ch, sess[ch].power, job.plan, inv)
    BY <1>1, <1>6 DEF ForceInv
  <2>2. \A j \in 1 .. 1 - 1 : FALSE
    OBVIOUS
  <2> QED
    BY <1>2, <1>4, <2>1, <2>2 DEF ForcesLast
<1>8. disk[ch].power = sess[ch].power /\ sess[ch].power \in Nat
  <2>1. disk[ch] = sess[ch]
    BY <1>1, <1>6 DEF JournalInv
  <2> QED
    BY <2>1, MaxKwAssumption DEF TypeInv, TypeOK, Sessions, SessionOf, Powers
<1> QED
  BY <1>4, <1>7, <1>8 DEF Own, Other

\* With entity states that follow the inverter, a native limit that stays and stores that
\* are loaded first: wherever failures, restarts and external changes broke off the plans
\* before, HEO enters a forced mode only with the opposite target at zero and its own
\* target positive and within the stored power of the session that owns it.
THEOREM ForcedLast ==
    ASSUME Faults \cap {"early", "lag", "source"} = {}
    PROVE  Spec => ForcedModeLast
<1>1. Init => JournalInv /\ ForceInv
  BY DEF Init, JournalInv, ForceInv, Powered, IdleSession
<1>2. "early" \notin Faults
  OBVIOUS
<1>3. TypeInv /\ JournalInv /\ [Next]_vars => JournalInv'
  BY <1>2, NextJournal
<1>4. TypeInv /\ JournalInv /\ ForceInv /\ [Next]_vars => ForceInv'
  BY NextForce
<1>5. TypeInv /\ JournalInv /\ ForceInv /\ [Next]_vars =>
        [\A ch \in Channels :
            forcer' = "heo" /\ inv'.mode = ForcedMode(ch) /\ inv.mode # inv'.mode
            => LET own == IF ch = "charge" THEN inv'.chg ELSE inv'.dis IN
               own \in 1 .. disk[ch].power /\ inv'.chg + inv'.dis = own]_vars
  BY ForcedStep
<1> QED
  BY <1>1, <1>3, <1>4, <1>5, TypeInvariant, PTL DEF Spec, ForcedModeLast
=============================================================================
