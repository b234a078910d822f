--------------------------- MODULE HeartbeatsProofs ---------------------------
(***************************************************************************)
(* PingsWin and DownIsAlerted of Heartbeats, for any number of pings,      *)
(* sweeps and edits at a time, whatever the periods, graces and crashes.   *)
(*                                                                         *)
(* What a sweep read is in the past and stays overdue, so the comparison   *)
(* of the whole deadline suffices.  A heartbeat goes down together with    *)
(* the alert that says so, and until alerts cross nobody is about to emit  *)
(* a recovery while it is down.                                            *)
(***************************************************************************)
EXTENDS Heartbeats, TLAPS

\* A sweep took up a heartbeat whose deadline had passed.
SweepsAreDue ==
  \A p \in Process :
    At(p) = "swept" =>
      /\ proc[p].to = "down" => Passed(proc[p].alertAt)
      /\ proc[p].to = "late" => Passed(proc[p].expectedAt)

\* While alerts keep their order, no recovery is on its way for what is down.
NoFalseRecovery ==
  status = "down" /\ ~crossed =>
    \A p \in Process : At(p) = "emit" => proc[p].alert # "recover"

HeartbeatInv == TypeOK /\ SweepsAreDue /\ NoFalseRecovery /\ DownIsAlerted

------------------------------------------------------------------------------
(* The deadlines *)

LEMMA DeadlinesAreTimes ==
  ASSUME NEW t \in 0 .. MaxTime, NEW g \in Graces
  PROVE  /\ computeAfterPing(t, g).expectedAt \in Time
         /\ computeAfterPing(t, g).alertAt \in Time
         /\ \A armed \in BOOLEAN :
              /\ computeInitial(t, g, armed).expectedAt \in Time
              /\ computeInitial(t, g, armed).alertAt \in Time
PROOF
  <1>1. t \in Nat /\ g \in Nat /\ Period \in Nat
    BY TimeAssumption
  <1>2. t + Period \in Nat /\ t + Period + g \in Nat
    BY <1>1
  <1> QED
    BY <1>2 DEF computeAfterPing, computeInitial, Deadline, Disarmed, Time

LEMMA StartDeadlineIsTime ==
  ASSUME NEW t \in 0 .. MaxTime, NEW e \in Time, NEW a \in Time
  PROVE  /\ computeAfterStart(t, Deadline(e, a)).expectedAt \in Time
         /\ computeAfterStart(t, Deadline(e, a)).alertAt \in Time
PROOF
  <1>1. t + Runtime \in Nat
    BY TimeAssumption
  <1>2. a # None => Sooner(t + Runtime, a) \in Nat
    BY <1>1 DEF Sooner, Time
  <1> QED
    BY <1>1, <1>2 DEF computeAfterStart, Deadline, Time

LEMMA EditDeadlineIsTime ==
  ASSUME NEW done \in Time, NEW t \in 0 .. MaxTime, NEW g \in Graces, NEW armed \in BOOLEAN
  PROVE  /\ computeAfterEdit(done, t, g, armed).expectedAt \in Time
         /\ computeAfterEdit(done, t, g, armed).alertAt \in Time
PROOF
  <1>1. done # None =>
          /\ computeAfterPing(done, g).expectedAt \in Time
          /\ computeAfterPing(done, g).alertAt \in Time
    <2> SUFFICES ASSUME done \in Nat
                 PROVE  /\ computeAfterPing(done, g).expectedAt \in Time
                        /\ computeAfterPing(done, g).alertAt \in Time
      BY DEF Time
    <2>1. done + Period \in Nat /\ done + Period + g \in Nat
      BY TimeAssumption
    <2> QED
      BY <2>1 DEF computeAfterPing, Deadline, Time
  <1> QED
    BY <1>1, DeadlinesAreTimes DEF computeAfterEdit

------------------------------------------------------------------------------
(* Types *)

LEMMA InitTyped == Init => TypeOK
PROOF
  <1> SUFFICES ASSUME Init PROVE TypeOK
    OBVIOUS
  <1>1. 0 \in 0 .. MaxTime /\ 0 \in 0 .. MaxCrashes /\ None \in Time
    BY TimeAssumption DEF Time
  <1>2. expectedAt \in Time /\ alertAt \in Time
    BY <1>1, DeadlinesAreTimes DEF Init
  <1>3. proc \in [Process -> Step]
    BY DEF Init, Step
  <1> QED
    BY <1>1, <1>2, <1>3 DEF Init, TypeOK, Status

LEMMA PingTyped == ASSUME TypeOK, NEW p \in Process, ApplyPing(p) PROVE TypeOK'
PROOF
  <1> USE DEF TypeOK
  <1> DEFINE kind == proc[p].kind
             t == proc[p].t
             resumed == status = "paused" /\ ResumeOnPing /\ kind # "log"
             s == IF resumed THEN "new" ELSE status
  <1>1. kind \in PingKind /\ t \in 0 .. MaxTime
    BY DEF ApplyPing, At, Step, Idle
  <1>2. t \in Time /\ None \in Time
    BY <1>1, TimeAssumption DEF Time
  <1>3. Idle \in Step
    BY DEF Step
  <1>4. \A alert \in {None, "fail", "recover"} : ThenEmits(p, alert) => proc' \in [Process -> Step]
    BY <1>3 DEF ThenEmits, Does, Step
  <1>5. crossed' \in BOOLEAN
    BY DEF ApplyPing, Crosses
  <1>6. /\ now' = now /\ grace' = grace /\ notifyOnLate' = notifyOnLate
        /\ incident' = incident /\ alertLost' = alertLost /\ crashes' = crashes
    BY DEF ApplyPing
  <1>7. CASE kind = "log"
    BY <1>3, <1>5, <1>6, <1>7 DEF ApplyPing, Does, completions
  <1>8. CASE kind = "start"
    <2>1. /\ status' = s
          /\ IF s = "paused" THEN UNCHANGED <<expectedAt, alertAt>>
             ELSE Set(computeAfterStart(t, IF resumed THEN Disarmed
                                           ELSE Deadline(expectedAt, alertAt)))
          /\ UNCHANGED completions /\ Does(p, Idle)
      BY <1>8 DEF ApplyPing
    <2>2. expectedAt' \in Time /\ alertAt' \in Time
      BY <1>1, <1>2, <2>1, StartDeadlineIsTime DEF Set, Disarmed
    <2>3. status' \in Status
      BY <2>1 DEF Status
    <2> QED
      BY <1>3, <1>5, <1>6, <2>1, <2>2, <2>3 DEF Does, completions
  <1>9. CASE kind \in {"success", "fail"}
    <2>1. lastSuccessAt' \in Time /\ lastFailureAt' \in Time
      BY <1>2, <1>9 DEF ApplyPing
    <2>2. expectedAt' \in Time /\ alertAt' \in Time /\ status' \in Status
      BY <1>1, <1>9, DeadlinesAreTimes DEF ApplyPing, Set, Status
    <2>3. proc' \in [Process -> Step]
      BY <1>3, <1>4, <1>9 DEF ApplyPing, RecoveryOf, FailureOf, Does
    <2> QED
      BY <1>5, <1>6, <2>1, <2>2, <2>3
  <1> QED
    BY <1>1, <1>7, <1>8, <1>9 DEF PingKind

LEMMA TypePreserved == TypeOK /\ [Next]_vars => TypeOK'
PROOF
  <1> SUFFICES ASSUME TypeOK, [Next]_vars PROVE TypeOK'
    OBVIOUS
  <1> USE DEF TypeOK
  <1>1. Idle \in Step
    BY DEF Step
  <1>2. CASE Tick
    BY <1>2, TimeAssumption DEF Tick, row
  <1>3. ASSUME NEW p \in Process, NEW kind \in PingKind, ReceivePing(p, kind)
        PROVE  TypeOK'
    <2>1. [at |-> "ping", kind |-> kind, t |-> now] \in Step
      BY DEF Step
    <2> QED
      BY <1>3, <2>1 DEF ReceivePing, Does, row
  <1>4. ASSUME NEW p \in Process, ApplyPing(p) PROVE TypeOK'
    BY <1>4, PingTyped
  <1>5. ASSUME NEW p \in Process, FindOverdue(p) PROVE TypeOK'
    <2>1. Candidate("late") \in Step /\ Candidate("down") \in Step
      BY DEF Candidate, Step
    <2> QED
      BY <1>5, <2>1 DEF FindOverdue, Does, row
  <1>6. ASSUME NEW p \in Process, applySweepTransition(p) PROVE TypeOK'
    <2>1. proc[p].to \in {"late", "down"}
      BY <1>6 DEF applySweepTransition, At, Step, Idle
    <2>2. \A alert \in {None, "fail", "late"} : ThenEmits(p, alert) => proc' \in [Process -> Step]
      BY <1>1 DEF ThenEmits, Does, Step
    <2>3. proc' \in [Process -> Step]
      BY <1>1, <1>6, <2>2 DEF applySweepTransition, Does
    <2>4. status' \in Status /\ crossed' \in BOOLEAN
      BY <1>6, <2>1 DEF applySweepTransition, Status
    <2> QED
      BY <1>6, <2>3, <2>4 DEF applySweepTransition, completions
  <1>7. ASSUME NEW p \in Process, ReadRow(p) PROVE TypeOK'
    <2>1. lastCompletionAt \in Time
      BY DEF lastCompletionAt, Later
    <2>2. \A g \in Graces, n \in Notifies \cup {None} :
            [at |-> "edit", grace |-> g, notify |-> n, moves |-> Moves(g)] \in Step
      BY <2>1 DEF Moves, Step
    <2>3. [at |-> "pause"] \in Step /\ [at |-> "resume", lastDone |-> lastCompletionAt] \in Step
      BY <2>1 DEF Step
    <2> QED
      BY <1>7, <2>2, <2>3 DEF ReadRow, Does, row
  <1>8. ASSUME NEW p \in Process, Edit(p) PROVE TypeOK'
    <2> DEFINE seen == proc[p].moves
               d == computeAfterEdit(seen.lastDone, now, proc[p].grace, seen.armed)
    <2>1. /\ proc[p].grace \in Graces /\ proc[p].notify \in Notifies \cup {None}
          /\ seen \in {None} \cup [late : BOOLEAN, armed : BOOLEAN, lastDone : Time]
      BY <1>8 DEF Edit, At, Step, Idle
    <2>2. seen # None => d.expectedAt \in Time /\ d.alertAt \in Time
      BY <2>1, EditDeadlineIsTime
    <2>3. expectedAt' \in Time /\ alertAt' \in Time /\ status' \in Status
      BY <1>8, <2>2 DEF Edit, Set, Status
    <2>4. grace' \in Graces /\ notifyOnLate' \in Notifies
      BY <1>8, <2>1 DEF Edit
    <2> QED
      BY <1>1, <1>8, <2>3, <2>4 DEF Edit, Does, completions
  <1>9. ASSUME NEW p \in Process, Pause(p) PROVE TypeOK'
    BY <1>1, <1>9 DEF Pause, Does, Set, Disarmed, Deadline, Status, Time, completions
  <1>10. ASSUME NEW p \in Process, Resume(p) PROVE TypeOK'
    <2>1. proc[p].lastDone \in Time
      BY <1>10 DEF Resume, At, Step, Idle
    <2>2. expectedAt' \in Time /\ alertAt' \in Time
      <3>1. PICK onCrontab \in BOOLEAN :
              Set(computeAfterEdit(proc[p].lastDone, now, grace,
                                   proc[p].lastDone # None \/ onCrontab))
        BY <1>10 DEF Resume
      <3> QED
        BY <2>1, <3>1, EditDeadlineIsTime DEF Set
    <2> QED
      BY <1>1, <1>10, <2>2 DEF Resume, Does, Status, completions
  <1>11. ASSUME NEW p \in Process, Emit(p) \/ LoseAlert(p) PROVE TypeOK'
    <2>1. crashes' \in 0 .. MaxCrashes
      BY <1>11, TimeAssumption DEF Emit, LoseAlert
    <2> QED
      BY <1>1, <1>11, <2>1 DEF Emit, LoseAlert, Does, row
  <1>12. CASE UNCHANGED vars
    BY <1>12 DEF vars, row
  <1> QED
    BY <1>2, <1>3, <1>4, <1>5, <1>6, <1>7, <1>8, <1>9, <1>10, <1>11, <1>12 DEF Next, Sweep

------------------------------------------------------------------------------
(* Sweeps and alerts *)

LEMMA ClockRuns == TypeOK /\ [Next]_vars => now \in Int /\ now' \in Int /\ now' >= now
PROOF
  <1> SUFFICES ASSUME TypeOK, [Next]_vars PROVE now \in Int /\ now' \in Int /\ now' >= now
    OBVIOUS
  <1>1. now \in Int
    BY TimeAssumption DEF TypeOK
  <1>2. CASE Tick
    BY <1>1, <1>2 DEF Tick
  <1>3. CASE ~Tick
    <2>1. now' = now
      BY <1>3 DEF Next, ReceivePing, ApplyPing, Sweep, FindOverdue, applySweepTransition,
                  ReadRow, Edit, Pause, Resume, Emit, LoseAlert, vars
    <2> QED
      BY <1>1, <2>1
  <1> QED
    BY <1>2, <1>3

\* What a ping or a transition goes on with: when the heartbeat is down
\* afterwards, it was already, or the alert that says so.
LEMMA WritersEmit ==
  ASSUME TypeOK, NEW p \in Process, ApplyPing(p) \/ applySweepTransition(p)
  PROVE  \E alert \in {None, "fail", "late", "recover"} :
           /\ ThenEmits(p, alert)
           /\ status' = "down" => alert = "fail" \/ (status = "down" /\ alert = None)
PROOF
  <1>1. CASE ApplyPing(p)
    <2> DEFINE kind == proc[p].kind
               resumed == status = "paused" /\ ResumeOnPing /\ kind # "log"
               s == IF resumed THEN "new" ELSE status
    <2>1. kind \in PingKind
      BY <1>1 DEF ApplyPing, At, TypeOK, Step, Idle
    <2>2. CASE kind \in {"log", "start"}
      <3>1. ThenEmits(p, None)
        BY <1>1, <2>2 DEF ApplyPing, ThenEmits
      <3>2. status' = "down" => status = "down"
        BY <1>1, <2>2 DEF ApplyPing
      <3> QED
        BY <3>1, <3>2
    <2>3. CASE kind = "success"
      <3>1. status' # "down" \/ s = "paused"
        BY <1>1, <2>3 DEF ApplyPing
      <3>2. CASE s = "paused"
        <4>1. Does(p, Idle) /\ status' = status
          BY <1>1, <2>3, <3>2 DEF ApplyPing
        <4> QED
          BY <4>1 DEF ThenEmits
      <3>3. CASE s # "paused"
        <4>1. ThenEmits(p, RecoveryOf(s)) /\ status' = "up"
          BY <1>1, <2>3, <3>3 DEF ApplyPing
        <4> QED
          BY <4>1 DEF RecoveryOf
      <3> QED
        BY <3>2, <3>3
    <2>4. CASE kind = "fail"
      <3>1. CASE s = "paused"
        <4>1. Does(p, Idle) /\ status' = status
          BY <1>1, <2>4, <3>1 DEF ApplyPing
        <4> QED
          BY <4>1 DEF ThenEmits
      <3>2. CASE s # "paused"
        <4>1. ThenEmits(p, FailureOf(s))
          BY <1>1, <2>4, <3>2 DEF ApplyPing
        <4> QED
          BY <4>1 DEF FailureOf
      <3> QED
        BY <3>1, <3>2
    <2> QED
      BY <2>1, <2>2, <2>3, <2>4 DEF PingKind
  <1>2. CASE applySweepTransition(p)
    <2>1. CASE AsSeen(p)
      <3>1. /\ status' = proc[p].to
            /\ ThenEmits(p, IF proc[p].to = "down" THEN "fail"
                            ELSE IF notifyOnLate THEN "late" ELSE None)
        BY <1>2, <2>1 DEF applySweepTransition
      <3> QED
        BY <3>1
    <2>2. CASE ~AsSeen(p)
      <3>1. status' = status /\ Does(p, Idle)
        BY <1>2, <2>2 DEF applySweepTransition
      <3> QED
        BY <3>1 DEF ThenEmits
    <2> QED
      BY <2>1, <2>2
  <1> QED
    BY <1>1, <1>2

LEMMA ReadersGoOn ==
  ASSUME NEW p \in Process, ReadRow(p)
  PROVE  \E s : Does(p, s) /\ s.at \in {"edit", "pause", "resume"}
PROOF
  <1>1. CASE \E g \in Graces, n \in Notifies \cup {None} :
               Does(p, [at |-> "edit", grace |-> g, notify |-> n, moves |-> Moves(g)])
    <2>1. PICK g \in Graces, n \in Notifies \cup {None} :
            Does(p, [at |-> "edit", grace |-> g, notify |-> n, moves |-> Moves(g)])
      BY <1>1
    <2>2. [at |-> "edit", grace |-> g, notify |-> n, moves |-> Moves(g)].at = "edit"
      OBVIOUS
    <2> QED
      BY <2>1, <2>2
  <1>2. CASE Does(p, [at |-> "pause"])
    <2>1. [at |-> "pause"].at = "pause"
      OBVIOUS
    <2> QED
      BY <1>2, <2>1
  <1>3. CASE Does(p, [at |-> "resume", lastDone |-> lastCompletionAt])
    <2>1. [at |-> "resume", lastDone |-> lastCompletionAt].at = "resume"
      OBVIOUS
    <2> QED
      BY <1>3, <2>1
  <1> QED
    BY <1>1, <1>2, <1>3 DEF ReadRow

\* A sweep begins only with what is overdue.
LEMMA SweepsPreserved == TypeOK /\ SweepsAreDue /\ [Next]_vars => SweepsAreDue'
PROOF
  <1> SUFFICES ASSUME TypeOK, SweepsAreDue, [Next]_vars,
                      NEW q \in Process, proc'[q].at = "swept"
               PROVE  /\ proc'[q].to = "down" =>
                           proc'[q].alertAt # None /\ proc'[q].alertAt <= now'
                      /\ proc'[q].to = "late" =>
                           proc'[q].expectedAt # None /\ proc'[q].expectedAt <= now'
    BY DEF SweepsAreDue, Passed, At
  <1>1. /\ proc \in [Process -> Step]
        /\ now \in Int /\ now' \in Int /\ now' >= now
    BY ClockRuns DEF TypeOK
  <1>2. CASE proc'[q] = proc[q]
    <2>1. At(q) = "swept"
      BY <1>2 DEF At
    <2>2. /\ proc[q].to = "down" => proc[q].alertAt # None /\ proc[q].alertAt <= now
          /\ proc[q].to = "late" => proc[q].expectedAt # None /\ proc[q].expectedAt <= now
      BY <2>1 DEF SweepsAreDue, Passed
    <2>3. proc[q].alertAt \in Time /\ proc[q].expectedAt \in Time
      BY <1>1, <2>1 DEF At, Step, Idle
    <2> QED
      BY <1>1, <1>2, <2>2, <2>3 DEF Time
  <1>3. CASE proc'[q] # proc[q]
    <2>1. PICK p \in Process :
            \/ \E kind \in PingKind : ReceivePing(p, kind)
            \/ ApplyPing(p) \/ Sweep(p)
            \/ ReadRow(p) \/ Edit(p) \/ Pause(p) \/ Resume(p)
            \/ Emit(p) \/ LoseAlert(p)
      BY <1>3 DEF Next, Tick, vars
    <2>2. CASE FindOverdue(p)
      <3>1. \/ Does(p, Candidate("late")) /\ Passed(expectedAt)
            \/ Does(p, Candidate("down")) /\ Passed(alertAt)
        BY <2>2 DEF FindOverdue
      <3>2. now' = now
        BY <2>2 DEF FindOverdue
      <3>3. q = p
        BY <1>1, <1>3, <3>1 DEF Does
      <3> QED
        BY <1>1, <3>1, <3>2, <3>3 DEF Does, Candidate, Passed
    <2>3. CASE ~FindOverdue(p)
      <3>1. \E s : Does(p, s) /\ s.at # "swept"
        <4>1. CASE \E kind \in PingKind : ReceivePing(p, kind)
          BY <4>1 DEF ReceivePing
        <4>2. CASE ApplyPing(p) \/ applySweepTransition(p)
          <5>1. PICK alert : ThenEmits(p, alert)
            BY <4>2, WritersEmit
          <5> QED
            BY <5>1 DEF ThenEmits, Idle
        <4>3. CASE ReadRow(p)
          BY <4>3, ReadersGoOn
        <4>4. CASE Edit(p) \/ Pause(p) \/ Resume(p) \/ Emit(p) \/ LoseAlert(p)
          <5>1. Does(p, Idle)
            BY <4>4 DEF Edit, Pause, Resume, Emit, LoseAlert
          <5> QED
            BY <5>1 DEF Idle
        <4> QED
          BY <2>1, <2>3, <4>1, <4>2, <4>3, <4>4 DEF Sweep
      <3> QED
        BY <1>1, <1>3, <3>1 DEF Does
    <2> QED
      BY <2>2, <2>3
  <1> QED
    BY <1>2, <1>3

LEMMA AlertsPreserved ==
  TypeOK /\ NoFalseRecovery /\ DownIsAlerted /\ [Next]_vars
    => NoFalseRecovery' /\ DownIsAlerted'
PROOF
  <1> SUFFICES ASSUME TypeOK, NoFalseRecovery, DownIsAlerted, [Next]_vars
               PROVE  NoFalseRecovery' /\ DownIsAlerted'
    OBVIOUS
  <1>1. proc \in [Process -> Step]
    BY DEF TypeOK
  <1>2. ASSUME status' = status, crossed' = crossed, incident' = incident,
               alertLost' = alertLost,
               \A q \in Process : proc'[q] = proc[q] \/ (At(q) # "emit" /\ At(q)' # "emit")
        PROVE  NoFalseRecovery' /\ DownIsAlerted'
    BY <1>2 DEF NoFalseRecovery, DownIsAlerted, At
  <1>3. ASSUME status' # "down",
               \A q \in Process : proc'[q] = proc[q] \/ (At(q) # "emit" /\ At(q)' # "emit")
        PROVE  NoFalseRecovery' /\ DownIsAlerted'
    BY <1>3 DEF NoFalseRecovery, DownIsAlerted
  <1>4. CASE Tick \/ UNCHANGED vars
    BY <1>2, <1>4 DEF Tick, vars, row
  <1>5. ASSUME NEW p \in Process,
               \/ \E kind \in PingKind : ReceivePing(p, kind)
               \/ FindOverdue(p) \/ ReadRow(p)
        PROVE  NoFalseRecovery' /\ DownIsAlerted'
    <2>1. /\ status' = status /\ crossed' = crossed /\ incident' = incident
          /\ alertLost' = alertLost
      BY <1>5 DEF ReceivePing, FindOverdue, ReadRow, row
    <2>2. At(p) = "idle" /\ \E s : Does(p, s) /\ s.at # "emit"
      <3>1. CASE \E kind \in PingKind : ReceivePing(p, kind)
        BY <3>1 DEF ReceivePing
      <3>2. CASE FindOverdue(p)
        <4>1. Candidate("late").at # "emit" /\ Candidate("down").at # "emit"
          BY DEF Candidate
        <4> QED
          BY <3>2, <4>1 DEF FindOverdue
      <3>3. CASE ReadRow(p)
        <4>1. At(p) = "idle"
          BY <3>3 DEF ReadRow
        <4> QED
          BY <3>3, <4>1, ReadersGoOn
      <3> QED
        BY <1>5, <3>1, <3>2, <3>3
    <2>3. \A q \in Process : proc'[q] = proc[q] \/ (At(q) # "emit" /\ At(q)' # "emit")
      BY <1>1, <2>2 DEF Does, At
    <2> QED
      BY <1>2, <2>1, <2>3
  <1>6. ASSUME NEW p \in Process, Edit(p) \/ Pause(p) \/ Resume(p)
        PROVE  NoFalseRecovery' /\ DownIsAlerted'
    <2>1. \A q \in Process : proc'[q] = proc[q] \/ (At(q) # "emit" /\ At(q)' # "emit")
      BY <1>1, <1>6 DEF Edit, Pause, Resume, Does, At, Idle
    <2>2. crossed' = crossed /\ incident' = incident /\ alertLost' = alertLost
      BY <1>6 DEF Edit, Pause, Resume
    <2>3. status' = status \/ status' # "down"
      BY <1>6 DEF Edit, Pause, Resume
    <2> QED
      BY <1>2, <1>3, <2>1, <2>2, <2>3
  <1>7. ASSUME NEW p \in Process, Emit(p) PROVE NoFalseRecovery' /\ DownIsAlerted'
    <2>1. /\ status' = status /\ crossed' = crossed /\ alertLost' = alertLost
          /\ incident' = (proc[p].alert # "recover") /\ At(p) = "emit"
          /\ proc' = [proc EXCEPT ![p] = Idle]
      BY <1>7 DEF Emit, Does, row
    <2>2. \A q \in Process : At(q)' = "emit" => proc'[q] = proc[q]
      BY <1>1, <2>1 DEF At, Idle
    <2>3. NoFalseRecovery'
      BY <2>1, <2>2 DEF NoFalseRecovery, At
    <2>4. status = "down" /\ ~crossed => incident'
      BY <2>1 DEF NoFalseRecovery
    <2> QED
      BY <2>1, <2>3, <2>4 DEF DownIsAlerted
  <1>8. ASSUME NEW p \in Process, LoseAlert(p) PROVE NoFalseRecovery' /\ DownIsAlerted'
    <2>1. /\ status' = status /\ crossed' = crossed /\ alertLost' = TRUE
          /\ proc' = [proc EXCEPT ![p] = Idle]
      BY <1>8 DEF LoseAlert, Does, row
    <2>2. \A q \in Process : At(q)' = "emit" => proc'[q] = proc[q]
      BY <1>1, <2>1 DEF At, Idle
    <2> QED
      BY <2>1, <2>2 DEF NoFalseRecovery, DownIsAlerted, At
  <1>9. ASSUME NEW p \in Process, ApplyPing(p) \/ applySweepTransition(p)
        PROVE  NoFalseRecovery' /\ DownIsAlerted'
    <2>1. /\ incident' = incident /\ alertLost' = alertLost
          /\ crossed' = (crossed \/ Crosses(p))
          /\ At(p) # "emit"
      BY <1>9 DEF ApplyPing, applySweepTransition
    <2>2. PICK alert \in {None, "fail", "late", "recover"} :
            /\ ThenEmits(p, alert)
            /\ status' = "down" => alert = "fail" \/ (status = "down" /\ alert = None)
      BY <1>9, WritersEmit
    <2> DEFINE s == IF alert = None THEN Idle ELSE [at |-> "emit", alert |-> alert]
    <2>3. proc' = [proc EXCEPT ![p] = s]
      BY <2>2 DEF ThenEmits, Does
    <2>4. /\ proc'[p] = s
          /\ \A q \in Process \ {p} : proc'[q] = proc[q]
      BY <1>1, <2>3
    <2>5. status' = "down" =>
            \/ s.at = "emit" /\ s.alert = "fail"
            \/ status = "down" /\ s.at # "emit"
      BY <2>2, NoneAssumption DEF Idle
    <2> HIDE DEF s
    <2>6. CASE status' = "down" /\ s.at = "emit" /\ s.alert = "fail"
      <3>1. DownIsAlerted'
        BY <2>4, <2>6 DEF DownIsAlerted, At
      <3>2. ~crossed' => \A q \in Process \ {p} : At(q) # "emit"
        BY <2>1, <2>4, <2>6 DEF Crosses
      <3> QED
        BY <2>4, <2>6, <3>1, <3>2 DEF NoFalseRecovery, At
    <2>7. CASE status' = "down" /\ status = "down" /\ s.at # "emit"
      <3>1. \A q \in Process : At(q)' = "emit" <=> At(q) = "emit"
        BY <2>1, <2>4, <2>7 DEF At
      <3>2. crossed => crossed'
        BY <2>1
      <3> QED
        BY <2>1, <2>4, <2>7, <3>1, <3>2 DEF NoFalseRecovery, DownIsAlerted, At
    <2>8. CASE status' # "down"
      BY <2>8 DEF NoFalseRecovery, DownIsAlerted
    <2> QED
      BY <2>5, <2>6, <2>7, <2>8
  <1> QED
    BY <1>4, <1>5, <1>6, <1>7, <1>8, <1>9 DEF Next, Sweep

------------------------------------------------------------------------------
(* Theorems *)

\* The invariant behind the properties: types, sweeps that began with an overdue
\* deadline, and no recovery on its way for a heartbeat that is down.
THEOREM HeartbeatsInvariant == Spec => []HeartbeatInv
PROOF
  <1>1. Init => HeartbeatInv
    BY InitTyped DEF Init, HeartbeatInv, SweepsAreDue, NoFalseRecovery, DownIsAlerted, At, Idle
  <1>2. HeartbeatInv /\ [Next]_vars => HeartbeatInv'
    BY TypePreserved, SweepsPreserved, AlertsPreserved DEF HeartbeatInv
  <1> QED
    BY <1>1, <1>2, PTL DEF Spec

\* A heartbeat that is down has been announced, or its alert is on the way or was
\* lost, as long as no two alerts crossed (heartbeat-ping.service.ts:133,
\* heartbeat.service.ts:364-366).
THEOREM DownIsAnnounced == Spec => []DownIsAlerted
PROOF
  <1>1. HeartbeatInv => DownIsAlerted
    BY DEF HeartbeatInv
  <1> QED
    BY HeartbeatsInvariant, <1>1, PTL

\* "A ping that lands while the sweep is deciding always wins": a sweep acts only
\* on the deadline that stands, and only once it has passed.
THEOREM PingsAlwaysWin == Spec => PingsWin
PROOF
  <1>1. HeartbeatInv /\ [Next]_vars =>
          [\A p \in Sweeper :
             applySweepTransition(p) /\ status' # status =>
               IF status' = "down" THEN Passed(alertAt) ELSE Passed(expectedAt)]_vars
    <2> SUFFICES ASSUME HeartbeatInv, NEW p \in Sweeper,
                        applySweepTransition(p), status' # status
                 PROVE  IF status' = "down" THEN Passed(alertAt) ELSE Passed(expectedAt)
      OBVIOUS
    <2>1. p \in Process /\ At(p) = "swept" /\ AsSeen(p) /\ status' = proc[p].to
      BY DEF applySweepTransition, Process
    <2>2. proc[p].to \in {"late", "down"}
      BY <2>1 DEF HeartbeatInv, TypeOK, At, Step, Idle
    <2> QED
      BY <2>1, <2>2 DEF HeartbeatInv, SweepsAreDue, AsSeen
  <1> QED
    BY HeartbeatsInvariant, <1>1, PTL DEF Spec, PingsWin
==============================================================================
