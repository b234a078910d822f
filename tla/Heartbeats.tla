------------------------------- MODULE Heartbeats -------------------------------
(***************************************************************************)
(* One heartbeat of kind "period": the pings that move it on               *)
(* (services/heartbeat-ping.service.ts), the sweep that notices what is    *)
(* overdue (services/heartbeat.service.ts), the people who edit, pause and *)
(* resume it (modules/heartbeats/heartbeat.routes.ts), and the deadlines   *)
(* they all compute (services/heartbeat-schedule.ts).                      *)
(*                                                                         *)
(* A process reads the row, decides, and writes later; only a ping does    *)
(* both under a row lock.  Alerts are raised after the write.              *)
(*                                                                         *)
(* The server the job runs on is in the inventory: the sweep passes over   *)
(* the heartbeats of a deleted server (serverAlive), which only means that *)
(* FindOverdue is not taken, and that nothing is owed to them.             *)
(***************************************************************************)
EXTENDS Integers, FiniteSets

CONSTANTS
  Pinger,       \* requests of the monitored job
  Sweeper,      \* replicas sweeping (the lease may be lost: several at a time)
  Editor,       \* requests of people
  Period, Runtime,   \* periodSeconds, maxRuntimeSeconds
  Graces, Notifies,  \* the values of graceSeconds and notifyOnLate people choose from
  Skew,         \* MAX_SKEW_MS
  ResumeOnPing,
  MaxTime,      \* bound: the clock
  MaxCrashes,   \* bound: processes that die between a write and its alert
  None

ASSUME TimeAssumption ==
  /\ Period \in Nat \ {0} /\ Graces \subseteq Nat /\ Graces # {}
  /\ Notifies \subseteq BOOLEAN /\ Notifies # {}
  /\ Runtime \in Nat /\ Skew \in Nat
  /\ MaxTime \in Nat /\ MaxCrashes \in Nat /\ ResumeOnPing \in BOOLEAN
ASSUME ProcessAssumption ==
  Pinger \cap Sweeper = {} /\ Pinger \cap Editor = {} /\ Sweeper \cap Editor = {}
ASSUME NoneAssumption == None \notin Nat \cup {"fail", "late", "recover"}

VARIABLES
  now,
  status, expectedAt, alertAt,                       \* the row
  lastSuccessAt, lastFailureAt, grace, notifyOnLate,
  proc,         \* proc[p]: what process p has read and is about to write
  incident,     \* is the alert rackmap:heartbeat:<id> open?
  alertLost, crashes,
  crossed       \* history: an alert was raised while another was still to be emitted

row == <<status, expectedAt, alertAt, lastSuccessAt, lastFailureAt, grace, notifyOnLate>>
completions == <<lastSuccessAt, lastFailureAt>>
vars == <<now, row, proc, incident, alertLost, crashes, crossed>>

Process == Pinger \cup Sweeper \cup Editor
Status == {"new", "up", "late", "down", "paused"}
PingKind == {"start", "success", "fail", "log"}
Time == Nat \cup {None}

Idle == [at |-> "idle"]
Step ==
  {Idle}
  \cup [at : {"ping"}, kind : PingKind, t : 0..MaxTime]
  \cup [at : {"swept"}, to : {"late", "down"}, status : Status, expectedAt : Time, alertAt : Time]
  \cup [at : {"edit"}, grace : Graces, notify : Notifies \cup {None},
         moves : {None} \cup [late : BOOLEAN, armed : BOOLEAN, lastDone : Time]]
  \cup [at : {"pause"}]
  \cup [at : {"resume"}, lastDone : Time]
  \cup [at : {"emit"}, alert : {"fail", "late", "recover"}]

TypeOK ==
  /\ now \in 0..MaxTime
  /\ status \in Status /\ expectedAt \in Time /\ alertAt \in Time /\ lastSuccessAt \in Time /\ lastFailureAt \in Time
  /\ grace \in Graces /\ notifyOnLate \in Notifies
  /\ proc \in [Process -> Step]
  /\ incident \in BOOLEAN /\ alertLost \in BOOLEAN /\ crashes \in 0..MaxCrashes
  /\ crossed \in BOOLEAN

-----------------------------------------------------------------------------
(* heartbeat-schedule.ts.                                                  *)

Deadline(e, a) == [expectedAt |-> e, alertAt |-> a]
Disarmed == Deadline(None, None)
computeAfterPing(t, g) == Deadline(t + Period, t + Period + g)
computeInitial(t, g, armed) == IF armed THEN computeAfterPing(t, g) ELSE Disarmed

Sooner(a, b) == IF a < b THEN a ELSE b
computeAfterStart(t, d) ==
  LET done == t + Runtime IN
  IF d.alertAt = None \/ d.expectedAt = None THEN Deadline(d.expectedAt, done)
  ELSE IF t >= d.expectedAt - Skew THEN Deadline(d.expectedAt, done)
  ELSE Deadline(d.expectedAt, Sooner(done, d.alertAt))

computeAfterEdit(done, t, g, armed) ==
  IF done = None THEN computeInitial(t, g, armed)
  ELSE LET d == computeAfterPing(done, g) IN
       IF d.alertAt > t /\ d.expectedAt > t THEN d ELSE computeAfterPing(t, g)

Passed(deadline) == deadline # None /\ deadline <= now

-----------------------------------------------------------------------------
(* Made by hand it expects nothing; made by the cron editor it is armed.   *)
Init ==
  /\ now = 0
  /\ status = "new" /\ lastSuccessAt = None /\ lastFailureAt = None
  /\ grace \in Graces /\ notifyOnLate \in Notifies
  /\ \E armed \in BOOLEAN :
       /\ expectedAt = computeInitial(0, grace, armed).expectedAt
       /\ alertAt = computeInitial(0, grace, armed).alertAt
  /\ proc = [p \in Process |-> Idle]
  /\ incident = FALSE /\ alertLost = FALSE /\ crashes = 0 /\ crossed = FALSE

At(p) == proc[p].at
Does(p, s) == proc' = [proc EXCEPT ![p] = s]
ThenEmits(p, alert) == Does(p, IF alert = None THEN Idle ELSE [at |-> "emit", alert |-> alert])
Crosses(p) == proc'[p].at = "emit" /\ \E q \in Process \ {p} : At(q) = "emit"
Later(a, b) == IF a = None \/ (b # None /\ a < b) THEN b ELSE a
lastCompletionAt == Later(lastSuccessAt, lastFailureAt)
Set(d) == expectedAt' = d.expectedAt /\ alertAt' = d.alertAt

-----------------------------------------------------------------------------
(* recordHeartbeatPing: the clock is read before the lock is taken, so     *)
(* pings may be applied out of order.                                      *)

ReceivePing(p, kind) ==
  /\ p \in Pinger /\ At(p) = "idle"
  /\ Does(p, [at |-> "ping", kind |-> kind, t |-> now])
  /\ UNCHANGED <<now, row, incident, alertLost, crashes, crossed>>

(* late -> up resolves only if "late" was announced.                       *)
RecoveryOf(s) == IF s = "down" \/ (s = "late" /\ notifyOnLate) THEN "recover" ELSE None

(* Repeated failures while down are recorded, not alerted again.           *)
FailureIfUp(s) == IF s = "up" THEN "fail" ELSE None
FailureOf(s) == IF s # "down" THEN "fail" ELSE None

ApplyPing(p) ==
  /\ At(p) = "ping"
  /\ LET kind == proc[p].kind
         t == proc[p].t
         resumed == status = "paused" /\ ResumeOnPing /\ kind # "log"
         s == IF resumed THEN "new" ELSE status
     IN
     /\ CASE kind = "log" ->
               UNCHANGED <<status, expectedAt, alertAt, completions>> /\ Does(p, Idle)
          [] kind = "start" ->
               /\ status' = s
               /\ IF s = "paused" THEN UNCHANGED <<expectedAt, alertAt>>
                  ELSE Set(computeAfterStart(t, IF resumed THEN Disarmed
                                                ELSE Deadline(expectedAt, alertAt)))
               /\ UNCHANGED completions /\ Does(p, Idle)
          [] kind \in {"success", "fail"} ->
               /\ IF kind = "success" THEN lastSuccessAt' = t /\ UNCHANGED lastFailureAt
                  ELSE lastFailureAt' = t /\ UNCHANGED lastSuccessAt
               /\ IF s = "paused"
                  THEN UNCHANGED <<status, expectedAt, alertAt>> /\ Does(p, Idle)
                  ELSE /\ Set(computeAfterPing(t, grace))
                       /\ status' = IF kind = "success" THEN "up" ELSE "down"
                       /\ ThenEmits(p, IF kind = "success" THEN RecoveryOf(s) ELSE FailureOf(s))
  /\ crossed' = (crossed \/ Crosses(p))
  /\ UNCHANGED <<now, grace, notifyOnLate, incident, alertLost, crashes>>

-----------------------------------------------------------------------------
(* The sweep.                                                              *)

MayGoDownIfPinged == {"up", "late"}
MayGoDown == {"new", "up", "late"}

Candidate(to) ==
  [at |-> "swept", to |-> to, status |-> status, expectedAt |-> expectedAt, alertAt |-> alertAt]

(* findSweepCandidates, of a heartbeat whose server is alive.              *)
FindOverdue(p) ==
  /\ p \in Sweeper /\ At(p) = "idle"
  /\ \/ /\ status = "up" /\ Passed(expectedAt) /\ ~Passed(alertAt)
        /\ Does(p, Candidate("late"))
     \/ /\ status \in MayGoDown /\ Passed(alertAt)
        /\ Does(p, Candidate("down"))
  /\ UNCHANGED <<now, row, incident, alertLost, crashes, crossed>>

(* ... WHERE status = from AND alertAt = <seen> [AND expectedAt = <seen>]  *)
StatusAsSeen(p) == status = proc[p].status
AsSeen(p) ==
  /\ status = proc[p].status
  /\ alertAt = proc[p].alertAt
  /\ proc[p].to = "late" => expectedAt = proc[p].expectedAt

applySweepTransition(p) ==
  /\ At(p) = "swept"
  /\ IF AsSeen(p)
     THEN /\ status' = proc[p].to
          /\ ThenEmits(p, IF proc[p].to = "down" THEN "fail"
                          ELSE IF notifyOnLate THEN "late" ELSE None)
     ELSE UNCHANGED status /\ Does(p, Idle)
  /\ crossed' = (crossed \/ Crosses(p))
  /\ UNCHANGED <<now, expectedAt, alertAt, completions, grace, notifyOnLate,
                 incident, alertLost, crashes>>

-----------------------------------------------------------------------------
(* The routes: each reads the row, and later updates it by id.             *)

(* What an edit of the timing needs of the row to move the deadlines.      *)
Moves(g) ==
  IF g = grace \/ status = "paused" THEN None
  ELSE [late |-> status = "late", armed |-> alertAt # None, lastDone |-> lastCompletionAt]

ReadRow(p) ==
  /\ p \in Editor /\ At(p) = "idle"
  /\ \/ \E g \in Graces, n \in Notifies \cup {None} :
          /\ (g # grace) # (n # None)    \* one field at a time
          /\ Does(p, [at |-> "edit", grace |-> g, notify |-> n, moves |-> Moves(g)])
     \/ status # "paused" /\ Does(p, [at |-> "pause"])
     \/ status = "paused" /\ Does(p, [at |-> "resume", lastDone |-> lastCompletionAt])
  /\ UNCHANGED <<now, row, incident, alertLost, crashes, crossed>>

Edit(p) ==
  /\ At(p) = "edit"
  /\ LET seen == proc[p].moves
         d == computeAfterEdit(seen.lastDone, now, proc[p].grace, seen.armed)
     IN IF seen # None
        THEN /\ Set(d)
             /\ status' = IF seen.late /\ d.expectedAt # None /\ d.expectedAt > now
                          THEN "up" ELSE status
        ELSE UNCHANGED <<status, expectedAt, alertAt>>
  /\ grace' = proc[p].grace
  /\ notifyOnLate' = IF proc[p].notify = None THEN notifyOnLate ELSE proc[p].notify
  /\ Does(p, Idle)
  /\ UNCHANGED <<now, completions, incident, alertLost, crashes, crossed>>

Pause(p) ==
  /\ At(p) = "pause"
  /\ status' = "paused" /\ Set(Disarmed)
  /\ Does(p, Idle)
  /\ UNCHANGED <<now, completions, grace, notifyOnLate, incident, alertLost, crashes, crossed>>

(* A heartbeat of the cron editor is armed even if it never pinged.        *)
Resume(p) ==
  /\ At(p) = "resume"
  /\ status' = "new"
  /\ \E onCrontab \in BOOLEAN :
       Set(computeAfterEdit(proc[p].lastDone, now, grace,
                            proc[p].lastDone # None \/ onCrontab))
  /\ Does(p, Idle)
  /\ UNCHANGED <<now, completions, grace, notifyOnLate, incident, alertLost, crashes, crossed>>

-----------------------------------------------------------------------------
(* emitHeartbeatAlert: "recover" resolves, the others trigger; an error is *)
(* logged and the alert is lost.                                           *)
Emit(p) ==
  /\ At(p) = "emit"
  /\ Does(p, Idle)
  /\ incident' = (proc[p].alert # "recover")
  /\ UNCHANGED <<now, row, alertLost, crashes, crossed>>

(* The process dies, or emitAlert fails.                                   *)
LoseAlert(p) ==
  /\ At(p) = "emit" /\ crashes < MaxCrashes
  /\ Does(p, Idle)
  /\ alertLost' = TRUE /\ crashes' = crashes + 1
  /\ UNCHANGED <<now, row, incident, crossed>>

(* Time passes, at least a minute at a time (the shortest period): the     *)
(* ping's transaction, which ends within seconds, spans one unit at most,  *)
(* and so does the time between a write and its alert.                     *)
Tick ==
  /\ now < MaxTime
  /\ \A p \in Process : At(p) # "emit" /\ (At(p) = "ping" => proc[p].t = now)
  /\ now' = now + 1
  /\ UNCHANGED <<row, proc, incident, alertLost, crashes, crossed>>

Sweep(p) == FindOverdue(p) \/ applySweepTransition(p)
Next ==
  \/ Tick
  \/ \E p \in Process :
       \/ \E kind \in PingKind : ReceivePing(p, kind)
       \/ ApplyPing(p) \/ Sweep(p)
       \/ ReadRow(p) \/ Edit(p) \/ Pause(p) \/ Resume(p)
       \/ Emit(p) \/ LoseAlert(p)

Spec == Init /\ [][Next]_vars

(* The sweepers' timers fire again and again, and a sweep begun goes on.   *)
FairSpec == Spec /\ \A p \in Sweeper : WF_vars(Sweep(p) \/ Emit(p))

-----------------------------------------------------------------------------
(* Properties.                                                             *)

(* "A ping that lands while the sweep is deciding always wins": a sweep    *)
(* takes the heartbeat down only when the deadline that stands at that     *)
(* moment has passed, and makes it late only when it was expected.         *)
PingsWin ==
  [][\A p \in Sweeper :
       applySweepTransition(p) /\ status' # status =>
         IF status' = "down" THEN Passed(alertAt) ELSE Passed(expectedAt)]_vars

(* A heartbeat that is down has been announced, or its alert is on the way *)
(* or was lost.  Alerts are emitted after the transaction, so those of two *)
(* pings at once may arrive in the other order: once that is possible      *)
(* nothing is claimed.                                                     *)
DownIsAlerted ==
  status = "down" /\ ~crossed =>
    incident \/ alertLost \/ \E p \in Process : At(p) = "emit"

(* A heartbeat whose deadline has passed does not stay up: it goes down,   *)
(* or somebody moves the deadline.                                         *)
OverdueGoesDown ==
  (status \in {"new", "up", "late"} /\ Passed(alertAt))
    ~> (status \in {"down", "paused"} \/ ~Passed(alertAt))

(* "late -> up resolves only if late was announced in the first place":    *)
(* once its alerts are out, a heartbeat that is up has no open incident.   *)
UpIsResolved ==
  status = "up" /\ ~alertLost /\ (\A p \in Process : At(p) # "emit") => ~incident
=============================================================================
