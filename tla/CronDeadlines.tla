------------------------------ MODULE CronDeadlines ------------------------------
(***************************************************************************)
(* The deadlines of a heartbeat that follows a cron schedule               *)
(* (services/heartbeat-schedule.ts), against the job that really runs on   *)
(* the host: its clock is somewhat fast, runs take their time or are       *)
(* missed, and once in a while the clocks jump forward.  Heartbeats has    *)
(* the periodic kind and the interleaving of pings, sweeps and edits; each *)
(* is one step here.                                                       *)
(*                                                                         *)
(* The unit of time is half a minute; cron fires on even instants.         *)
(***************************************************************************)
EXTENDS Integers

CONSTANTS
  Day,         \* a schedule repeats after so long
  Schedules,   \* sets of the even instants of a day
  GraceTimes, Runtime,   \* graceSeconds people choose from, maxRuntimeSeconds
  MaxSkew,     \* MAX_SKEW_MS
  Jumps,       \* when the clocks may jump, Shift forward; some time that is never
               \* reached stands for not at all
  Shift,
  Lookback,    \* DST_LOOKBACK_MS
  Horizon,     \* bound: the clock
  MaxRevisions,   \* bound: edits
  Unset

ASSUME DeadlineAssumption ==
  /\ Day \in Nat \ {0} /\ \A s \in Schedules : s # {} /\ s \subseteq 0 .. Day - 1
  /\ GraceTimes \subseteq Nat /\ GraceTimes # {} /\ Runtime \in Nat
  /\ MaxSkew \in Nat /\ Shift \in Nat /\ Lookback \in Nat /\ Jumps \subseteq Nat
  /\ Horizon \in Nat /\ MaxRevisions \in Nat /\ Unset \notin Nat

\* Cron's grain, and MAX_SKEW_MS, are a minute; the clocks jump by hours, never half
\* a day, and not by more than DST_LOOKBACK_MS.
ASSUME GrainAssumption ==
  /\ \A s \in Schedules : \A a, b \in s : a < b => MaxSkew <= b - a /\ MaxSkew <= a + Day - b
  /\ MaxSkew + Shift <= Day \div 2 /\ Shift <= Lookback

VARIABLES
  clock, jump,
  schedule, graceTime,       \* of the heartbeat and of the crontab
  expected, alarm, down,     \* expectedAt, alertAt, status "down"
  completed,                 \* the last completion ping
  heard,      \* the last thing heard or done about the heartbeat
  reported,   \* the runs up to this one are accounted for
  begun,      \* the first start ping since the last completion
  revisions

deadlineVars == <<clock, jump, schedule, graceTime, expected, alarm, down, completed, heard,
                  reported, begun, revisions>>
settings == <<jump, schedule, graceTime, revisions>>

Instant == Nat \cup {Unset}

DeadlineTypeOK ==
  /\ clock \in 0 .. Horizon /\ jump \in Jumps
  /\ schedule \in Schedules /\ graceTime \in GraceTimes
  /\ expected \in Instant /\ alarm \in Instant /\ (alarm = Unset => expected = Unset)
  /\ down \in BOOLEAN
  /\ heard \in 0 .. clock /\ completed \in Instant /\ begun \in Instant
  /\ reported \in 0 .. clock + MaxSkew + Shift
  /\ revisions \in 0 .. MaxRevisions

--------------------------------------------------------------------------------
(* heartbeat-schedule.ts *)

Least(a, b) == IF a < b THEN a ELSE b
Greatest(a, b) == IF a > b THEN a ELSE b

IsRun(s, t) == t % Day \in s

\* The first run strictly after t.
nextCronRun(s, t) ==
  CHOOSE u \in t + 1 .. t + Day : IsRun(s, u) /\ \A v \in t + 1 .. u - 1 : ~IsRun(s, v)

\* tzOffsetMs differs between next1 and some hours earlier.
Widening(next1) == IF next1 - Lookback < jump /\ jump <= next1 THEN Shift ELSE 0

\* Mutant: the early window is not widened after a jump of the clocks.
SkewOnly(next1, next2) == Least(MaxSkew, (next2 - next1) \div 2)

\* Mutant: nor is it capped at half the period.
WideTolerance(next1, next2) == MaxSkew + Widening(next1)

earlyTolerance(next1, next2) == Least(MaxSkew + Widening(next1), (next2 - next1) \div 2)

nextExpectedCronRun(s, t) ==
  LET next1 == nextCronRun(s, t)
      next2 == nextCronRun(s, next1)
  IN nextCronRun(s, t + earlyTolerance(next1, next2))

Due(e, g) == [expected |-> e, alarm |-> IF e = Unset THEN Unset ELSE e + g]

AfterPing(s, g, t) == Due(nextExpectedCronRun(s, t), g)
Initially(s, g, t, armed) == Due(IF armed THEN nextCronRun(s, t) ELSE Unset, g)

AfterStart(t) ==
  LET end == t + Runtime IN
  [expected |-> expected,
   alarm |-> IF alarm = Unset \/ expected = Unset \/ t >= expected - MaxSkew THEN end
             ELSE Least(end, alarm)]

AfterEdit(s, g, armed) ==
  IF completed = Unset THEN Initially(s, g, clock, armed)
  ELSE LET kept == AfterPing(s, g, completed) IN
       IF kept.expected > clock THEN kept ELSE AfterPing(s, g, clock)

Await(d) == expected' = d.expected /\ alarm' = d.alarm

--------------------------------------------------------------------------------
(* The host *)

\* cron makes up for a daily job whose hour is skipped at the moment of the jump;
\* the schedule places it as much later as the clocks have moved.
Daily(s) == \A t \in 0 .. Day - 1 : IsRun(s, t) => nextCronRun(s, t) = t + Day
FiresAt(r) == IF Daily(schedule) /\ jump <= r /\ r < jump + Shift THEN jump ELSE r

\* How fast the host's clock may be: a minute, and less than half the way to the
\* next run.
Fast(r) == Least(MaxSkew, (nextCronRun(schedule, r) - r) \div 2)

\* The runs that may be under way and have not been reported.
Runs == {r \in reported + 1 .. clock + MaxSkew + Shift :
           IsRun(schedule, r) /\ FiresAt(r) - Fast(r) <= clock}

--------------------------------------------------------------------------------
(* Pings, the sweep, edits *)

\* A completion resolves: down or not, the job is up again.
CompletionPing ==
  /\ \E r \in Runs : reported' = r
  /\ Await(AfterPing(schedule, graceTime, clock))
  /\ down' = FALSE
  /\ completed' = clock /\ heard' = clock /\ begun' = Unset
  /\ UNCHANGED <<clock, settings>>

StartPing ==
  /\ Runs # {} /\ begun # clock
  /\ Await(AfterStart(clock))
  /\ heard' = clock
  /\ begun' = IF begun = Unset THEN clock ELSE begun
  /\ UNCHANGED <<clock, settings, down, completed, reported>>

\* The sweep finds the heartbeat past its deadline.
GoDown ==
  /\ ~down /\ alarm # Unset /\ alarm <= clock
  /\ down' = TRUE
  /\ UNCHANGED <<clock, settings, expected, alarm, completed, heard, reported, begun>>

\* The schedule or the grace of the job and its heartbeat changes: the runs from now
\* on count.
Revise ==
  /\ revisions < MaxRevisions
  /\ \E s \in Schedules, g \in GraceTimes :
       /\ <<s, g>> # <<schedule, graceTime>>
       /\ schedule' = s /\ graceTime' = g
       /\ Await(AfterEdit(s, g, alarm # Unset))
  /\ heard' = clock /\ reported' = clock
  /\ revisions' = revisions + 1
  /\ UNCHANGED <<clock, jump, down, completed, begun>>

PassHalfMinute ==
  /\ clock < Horizon
  /\ clock' = clock + 1
  /\ UNCHANGED <<settings, expected, alarm, down, completed, heard, reported, begun>>

\* Created by the cron editor it is armed, created by hand it is not.
DeadlineInit ==
  /\ clock = 0 /\ jump \in Jumps
  /\ schedule \in Schedules /\ graceTime \in GraceTimes
  /\ \E armed \in BOOLEAN :
       LET d == Initially(schedule, graceTime, 0, armed) IN
       expected = d.expected /\ alarm = d.alarm
  /\ down = FALSE /\ completed = Unset /\ heard = 0 /\ reported = 0 /\ begun = Unset
  /\ revisions = 0

DeadlineNext == CompletionPing \/ StartPing \/ GoDown \/ Revise \/ PassHalfMinute

DeadlineSpec == DeadlineInit /\ [][DeadlineNext]_deadlineVars

--------------------------------------------------------------------------------
(* Properties *)

\* Nobody is paged for a job that does its work: when a heartbeat goes down, some run
\* has not been reported within its grace, or one that began has outlasted its time;
\* not for a fast clock, an edit, or a run that cron moved when the clocks jumped.
Overdue ==
  \/ \E r \in reported + 1 .. clock : IsRun(schedule, r) /\ r + graceTime <= clock
  \/ begun # Unset /\ begun + Runtime <= clock
NoFalseAlarm == [][down' /\ ~down => Overdue]_deadlineVars

\* A job that falls silent is noticed: its deadline is never later than the second
\* run after the last thing heard of it, and its grace, or the end of a run's time.
SilenceIsNoticed ==
  alarm # Unset =>
    alarm <= Greatest(nextCronRun(schedule, nextCronRun(schedule, heard)) + graceTime,
                      heard + Runtime)

\* The next run to come is expected whatever was reported last ("so a frequent job can
\* never swallow a real run", heartbeat-schedule.ts:87; "a ping 50s into the minute
\* must still expect the next minute", tests/heartbeat-schedule.test.ts:40).
EveryRunIsExpected ==
  expected # Unset =>
    \A r \in heard + 1 .. expected : IsRun(schedule, r) /\ r > reported => expected = r
==================================================================================
