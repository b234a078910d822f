---------------------------- MODULE RunbookSchedule ----------------------------
(***************************************************************************)
(* Scheduled runs of one runbook                                           *)
(* (apps/api/src/services/runbook-scheduler.ts) against the edits and the  *)
(* deletion of that runbook (runbook.service.ts) and runs asked for by     *)
(* hand.  The job lock usually admits one tick at a time; after a lost     *)
(* lease two overlap, so every replica may tick here.                      *)
(*                                                                         *)
(* The cron expression is an instance of every Period units of time.       *)
(***************************************************************************)
EXTENDS Integers, FiniteSets

CONSTANTS
  Replica,      \* API processes that may run a schedule tick
  Editor,       \* admins with an updateRunbook request in flight
  Period,       \* distance between two occurrences
  MaxTime,      \* bound on time
  MaxActive,    \* bound on the runs that are waiting or running
  MaxFired,     \* bound on the runs of one occurrence
  None

ASSUME PeriodAssumption == Period \in Nat \ {0}
ASSUME BoundAssumption == MaxTime \in Nat /\ MaxActive \in Nat /\ MaxFired \in Nat
ASSUME NoneAssumption == None \notin Nat

VARIABLES
  now,
  enabled, nextAt, deleted,   \* scheduleEnabled, nextScheduledAt, deletedAt
  active,                     \* number of runs waiting or running
  tick,                       \* tick[w]: the occurrence w's tick is working on
  edit,                       \* edit[e]: what e's updateRunbook loaded
  fired,                      \* history: fired[o], runs inserted for occurrence o
  pendingAgain                \* history: occurrences a save made pending again

scheduleVars == <<now, enabled, nextAt, deleted, active, tick, edit, fired, pendingAgain>>

Occurrence == 0 .. MaxTime + Period
TickState == [step : {"advance", "count", "insert"}, at : 0 .. MaxTime, seen : Occurrence]
LoadedEdit == [enabled : BOOLEAN, nextAt : Occurrence \cup {None}]

ScheduleTypeOK ==
  /\ now \in 0 .. MaxTime
  /\ enabled \in BOOLEAN /\ deleted \in BOOLEAN
  /\ nextAt \in Occurrence \cup {None}
  /\ active \in 0 .. MaxActive
  /\ tick \in [Replica -> TickState \cup {None}]
  /\ edit \in [Editor -> LoadedEdit \cup {None}]
  /\ fired \in [Occurrence -> 0 .. MaxFired]
  /\ pendingAgain \subseteq Occurrence

\* computeNextScheduledAt: the first occurrence strictly after t.
computeNextScheduledAt(t) == (t \div Period + 1) * Period

\* createRunbook, with the schedule enabled or not.
ScheduleInit ==
  /\ now = 0
  /\ enabled \in BOOLEAN /\ deleted = FALSE
  /\ nextAt = IF enabled THEN computeNextScheduledAt(0) ELSE None
  /\ active = 0
  /\ tick = [w \in Replica |-> None]
  /\ edit = [e \in Editor |-> None]
  /\ fired = [o \in Occurrence |-> 0]
  /\ pendingAgain = {}

runbook == <<enabled, nextAt, deleted>>

------------------------------------------------------------------------------
(* runRunbookScheduleTick *)

ReadDue(w) ==
  /\ tick[w] = None
  /\ enabled /\ ~deleted /\ nextAt # None /\ nextAt <= now
  /\ tick' = [tick EXCEPT ![w] = [step |-> "advance", at |-> now, seen |-> nextAt]]
  /\ UNCHANGED <<now, runbook, active, edit, fired, pendingAgain>>

\* Mutant: the update that advances is not conditional on the value read.
WinsAlways(seen) == TRUE

Wins(seen) == nextAt = seen

\* Older than one period when it was read: the policy for missed runs.
Missed(t) == t.at >= computeNextScheduledAt(t.seen)

\* The compare-and-set on nextScheduledAt, then the missed-run policy.
Advance(w) ==
  /\ tick[w] # None /\ tick[w].step = "advance"
  /\ \/ /\ Wins(tick[w].seen)
        /\ nextAt' = computeNextScheduledAt(tick[w].at)
        /\ tick' = [tick EXCEPT ![w] =
             IF Missed(tick[w]) THEN None ELSE [@ EXCEPT !.step = "count"]]
     \/ ~Wins(tick[w].seen) /\ tick' = [tick EXCEPT ![w] = None] /\ UNCHANGED nextAt
  /\ UNCHANGED <<now, enabled, deleted, active, edit, fired, pendingAgain>>

\* The overlap policy.
CountActive(w) ==
  /\ tick[w] # None /\ tick[w].step = "count"
  /\ tick' = [tick EXCEPT ![w] =
       IF active > 0 THEN None ELSE [@ EXCEPT !.step = "insert"]]
  /\ UNCHANGED <<now, runbook, active, edit, fired, pendingAgain>>

\* License, parameters and targets are in order: the run is queued.
InsertScheduled(w) ==
  /\ tick[w] # None /\ tick[w].step = "insert"
  /\ active < MaxActive /\ fired[tick[w].seen] < MaxFired
  /\ active' = active + 1
  /\ fired' = [fired EXCEPT ![tick[w].seen] = @ + 1]
  /\ tick' = [tick EXCEPT ![w] = None]
  /\ UNCHANGED <<now, runbook, edit, pendingAgain>>

\* They are not, or a statement throws, or the process dies.
SkipOccurrence(w) ==
  /\ tick[w] # None
  /\ tick' = [tick EXCEPT ![w] = None]
  /\ UNCHANGED <<now, runbook, active, edit, fired, pendingAgain>>

------------------------------------------------------------------------------
(* updateRunbook and deleteRunbook *)

LoadRunbook(e) ==
  /\ edit[e] = None /\ ~deleted
  /\ edit' = [edit EXCEPT ![e] = [enabled |-> enabled, nextAt |-> nextAt]]
  /\ UNCHANGED <<now, runbook, active, tick, fired, pendingAgain>>

\* nextScheduledAt of the update: kept from the row as it was loaded, unless the
\* schedule changes.
NextOnSave(old, on) ==
  IF ~on THEN None
  ELSE IF on # old.enabled \/ old.nextAt = None THEN computeNextScheduledAt(now)
  ELSE old.nextAt

\* The input switches the schedule or leaves it (`on`), the other fields aside.
SaveRunbook(e, on) ==
  /\ edit[e] # None
  /\ enabled' = on
  /\ nextAt' = NextOnSave(edit[e], on)
  /\ pendingAgain' = pendingAgain \cup IF nextAt' = None THEN {} ELSE
                  {o \in Occurrence : /\ nextAt' <= o
                                      /\ IF nextAt = None THEN edit[e].nextAt # None
                                                          ELSE o < nextAt}
  /\ edit' = [edit EXCEPT ![e] = None]
  /\ UNCHANGED <<now, deleted, active, tick, fired>>

DeleteRunbook ==
  /\ ~deleted
  /\ deleted' = TRUE /\ enabled' = FALSE /\ nextAt' = None
  /\ UNCHANGED <<now, active, tick, edit, fired, pendingAgain>>

------------------------------------------------------------------------------
(* The environment *)

RunByHand ==
  /\ ~deleted /\ active < MaxActive
  /\ active' = active + 1
  /\ UNCHANGED <<now, runbook, tick, edit, fired, pendingAgain>>

RunEnds ==
  /\ active > 0
  /\ active' = active - 1
  /\ UNCHANGED <<now, runbook, tick, edit, fired, pendingAgain>>

PassTime ==
  /\ now < MaxTime
  /\ now' = now + 1
  /\ UNCHANGED <<runbook, active, tick, edit, fired, pendingAgain>>

ScheduleNext ==
  \/ DeleteRunbook \/ RunByHand \/ RunEnds \/ PassTime
  \/ \E w \in Replica :
       ReadDue(w) \/ Advance(w) \/ CountActive(w) \/ InsertScheduled(w)
         \/ SkipOccurrence(w)
  \/ \E e \in Editor : LoadRunbook(e) \/ \E on \in BOOLEAN : SaveRunbook(e, on)

ScheduleSpec == ScheduleInit /\ [][ScheduleNext]_scheduleVars

------------------------------------------------------------------------------
(* Properties *)

\* Each occurrence starts at most one run, however the ticks of two replicas and
\* the saves overlap, unless a save wrote back an occurrence it had loaded before a
\* tick advanced past it: that occurrence and those between are pending again.
OncePerOccurrence == \A o \in Occurrence \ pendingAgain : fired[o] <= 1

\* The same without the exception (runbook-scheduler.ts:61-62, "exactly one tick
\* (on any replica) wins each occurrence, even if two ever overlap").
NeverTwice == \A o \in Occurrence : fired[o] <= 1

\* A scheduled run is never queued behind another active one
\* (runbook-scheduler.ts:20-21).
NeverQueuedBehind ==
  [][fired' # fired => active = 0]_scheduleVars
==============================================================================
