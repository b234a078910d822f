---------------------------- MODULE MCScheduledWork -----------------------------
(***************************************************************************)
(* What happens on schedules, side by side: scheduled runbook runs, the    *)
(* crontabs of the hosts, the heartbeats behind their lines, when those    *)
(* are due, and the drift snapshots of the sweep.  They share no state     *)
(* here, so in each behaviour one of them, `part`, moves and the others    *)
(* stay where they began; every behaviour of every module is among them.   *)
(***************************************************************************)
EXTENDS RunbookSchedule, CronMonitor, Crontab, CronDeadlines, Drift, TLC

\* Replicas are interchangeable, and so are editors.
ScheduleSymmetry == Permutations(Replica) \cup Permutations(Editor)

VARIABLE part

allVars == <<part, scheduleVars, cronVars, crontab, deadlineVars, driftVars>>

\* What a component that stays put began with is of no interest.
Plainly ==
  /\ part = "runbook" \/ enabled
  /\ part = "crontab" \/ crontab = <<>>
  /\ \/ part = "deadlines"
     \/ /\ jump = CHOOSE j \in Jumps : TRUE
        /\ schedule = CHOOSE s \in Schedules : TRUE
        /\ graceTime = CHOOSE g \in GraceTimes : TRUE
        /\ alarm = Unset
  /\ part = "drift" \/ host = [c \in Category |-> CHOOSE v \in Content : TRUE]

Init ==
  /\ part \in {"runbook", "cron", "crontab", "deadlines", "drift"}
  /\ ScheduleInit /\ CronInit /\ CrontabInit /\ DeadlineInit /\ DriftInit
  /\ Plainly

Next ==
  /\ UNCHANGED part
  /\ \/ /\ part = "runbook" /\ ScheduleNext
        /\ UNCHANGED <<cronVars, crontab, deadlineVars, driftVars>>
     \/ /\ part = "cron" /\ CronNext
        /\ UNCHANGED <<scheduleVars, crontab, deadlineVars, driftVars>>
     \/ /\ part = "crontab" /\ CrontabNext
        /\ UNCHANGED <<scheduleVars, cronVars, deadlineVars, driftVars>>
     \/ /\ part = "deadlines" /\ DeadlineNext
        /\ UNCHANGED <<scheduleVars, cronVars, crontab, driftVars>>
     \/ /\ part = "drift" /\ DriftNext
        /\ UNCHANGED <<scheduleVars, cronVars, crontab, deadlineVars>>

Spec == Init /\ [][Next]_allVars
=================================================================================
