------------------------------ MODULE StatusChecks ------------------------------
(***************************************************************************)
(* The TCP checks of one server and the alerts they raise                  *)
(* (services/status.service.ts, runCheck; driven by scheduler.ts under its *)
(* lease and by the check routes): read the row, probe for up to           *)
(* PING_TIMEOUT_MS, write the row from what was read, decide about alerts. *)
(* Beside them the metric alerts (services/alert.service.ts), whose only   *)
(* state is in the memory of the process that sweeps; one threshold stands *)
(* for those of CPU, RAM and disk.                                         *)
(*                                                                         *)
(* A checker may die and be followed by one without memory: its restart,   *)
(* or another replica that takes the lease over.                           *)
(***************************************************************************)
EXTENDS Integers

CONSTANTS
  Checker,     \* who may be checking at the same time
  Threshold,   \* STATUS_FLIP_THRESHOLD
  MaxFlips,    \* bound: changes of the server
  MaxMishaps   \* bound: restarts, and e-mails that fail

ASSUME StatusAssumption ==
  Threshold \in Nat \ {0} /\ MaxFlips \in Nat /\ MaxMishaps \in Nat

VARIABLES
  isUp,      \* what a probe would find
  high,      \* what a measurement would find: above the threshold
  row,       \* lastStatus, downStreak, notifiedDown
  probe,     \* where each check is, what it read and what it found
  told,      \* what the last alert said about the server
  flipLost,  \* history: a flip alert died with its process, and none went out since
  sweep,     \* each metric sweep: what it measured, and whether it has announced it
  memory,    \* state: was it high at the last sweep of this process?
  metricTold,   \* is the metric's incident open?
  metricForgotten,   \* history: what was announced last is remembered by nobody
  flips, mishaps

checkVars == <<row, probe, told, flipLost>>
metricVars == <<sweep, memory, metricTold, metricForgotten>>
statusVars == <<isUp, high, checkVars, metricVars, flips, mishaps>>

------------------------------------------------------------------------------

\* The streak is only ever compared with the threshold.
MoreDown(n) == IF n < Threshold THEN n + 1 ELSE n
StatusRow == [last : {"unknown", "up", "down"}, streak : 0 .. Threshold, notified : BOOLEAN]
Fresh == [last |-> "unknown", streak |-> 0, notified |-> FALSE]
NoProbe == [pc |-> "idle", read |-> Fresh, found |-> "unknown"]
NoSweep == [pc |-> "idle", isHigh |-> FALSE]

StatusTypeOK ==
  /\ isUp \in BOOLEAN /\ high \in BOOLEAN
  /\ row \in StatusRow
  /\ probe \in [Checker -> [pc : {"idle", "probe", "write", "claim", "down", "up"},
                            read : StatusRow, found : {"unknown", "up", "down"}]]
  /\ told \in {"up", "down"} /\ flipLost \in BOOLEAN
  /\ sweep \in [Checker -> [pc : {"idle", "judge", "remember"}, isHigh : BOOLEAN]]
  /\ memory \in [Checker -> BOOLEAN] /\ metricTold \in BOOLEAN
  /\ metricForgotten \in BOOLEAN
  /\ flips \in 0 .. MaxFlips /\ mishaps \in 0 .. MaxMishaps

StatusInit ==
  /\ isUp \in BOOLEAN /\ high = FALSE
  /\ row = Fresh
  /\ probe = [c \in Checker |-> NoProbe]
  /\ told = "up" /\ flipLost = FALSE
  /\ sweep = [c \in Checker |-> NoSweep]
  /\ memory = [c \in Checker |-> FALSE]
  /\ metricTold = FALSE /\ metricForgotten = FALSE
  /\ flips = 0 /\ mishaps = 0

Flip ==
  /\ flips < MaxFlips
  /\ flips' = flips + 1
  /\ \/ isUp' = ~isUp /\ UNCHANGED high
     \/ high' = ~high /\ UNCHANGED isUp
  /\ UNCHANGED <<checkVars, metricVars, mishaps>>

ReadRow(c) ==
  /\ probe[c].pc = "idle"
  /\ probe' = [probe EXCEPT ![c] = [pc |-> "probe", read |-> row, found |-> "unknown"]]
  /\ UNCHANGED <<isUp, high, row, told, flipLost, metricVars, flips, mishaps>>

Probe(c) ==
  /\ probe[c].pc = "probe"
  /\ probe' = [probe EXCEPT ![c] = [@ EXCEPT !.pc = "write",
                                             !.found = IF isUp THEN "up" ELSE "down"]]
  /\ UNCHANGED <<isUp, high, row, told, flipLost, metricVars, flips, mishaps>>

NewStreak(c) == IF probe[c].found = "up" THEN 0 ELSE MoreDown(probe[c].read.streak)


ConfirmedDown(c) ==
  /\ probe[c].found = "down" /\ NewStreak(c) >= Threshold
  /\ ~probe[c].read.notified
Recovered(c) == probe[c].found = "up" /\ probe[c].read.last = "down"

WriteRow(c) ==
  /\ probe[c].pc = "write"
  /\ row' = [last |-> probe[c].found, streak |-> NewStreak(c),
             notified |-> probe[c].found = "down" /\ probe[c].read.notified]
  /\ probe' = [probe EXCEPT ![c].pc = IF ConfirmedDown(c) THEN "claim"
                                      ELSE IF Recovered(c) THEN "up" ELSE "idle"]
  /\ UNCHANGED <<isUp, high, told, flipLost, metricVars, flips, mishaps>>

ClaimNotice(c) ==
  /\ probe[c].pc = "claim"
  /\ row' = [row EXCEPT !.notified = TRUE]
  /\ probe' = [probe EXCEPT ![c].pc = "down"]
  /\ UNCHANGED <<isUp, high, told, flipLost, metricVars, flips, mishaps>>

\* notifyFlip, which nobody waits for; it is over long before the next interval.
NotifyFlip(c) ==
  /\ probe[c].pc \in {"down", "up"}
  /\ told' = probe[c].pc /\ flipLost' = FALSE
  /\ probe' = [probe EXCEPT ![c] = NoProbe]
  /\ UNCHANGED <<isUp, high, row, metricVars, flips, mishaps>>

------------------------------------------------------------------------------
(* Metric alerts *)

\* fetchMetrics, over SSH.
Measure(c) ==
  /\ sweep[c].pc = "idle"
  /\ sweep' = [sweep EXCEPT ![c] = [pc |-> "judge", isHigh |-> high]]
  /\ UNCHANGED <<isUp, high, checkVars, memory, metricTold, metricForgotten, flips, mishaps>>

\* Rising and falling edges against this process's memory are announced.
Judge(c) ==
  /\ sweep[c].pc = "judge"
  /\ IF sweep[c].isHigh # memory[c]
     THEN metricTold' = sweep[c].isHigh /\ metricForgotten' = FALSE
     ELSE UNCHANGED <<metricTold, metricForgotten>>
  /\ sweep' = [sweep EXCEPT ![c].pc = "remember"]
  /\ UNCHANGED <<isUp, high, checkVars, memory, flips, mishaps>>

\* state.set, once the e-mails are out.
Remember(c) ==
  /\ sweep[c].pc = "remember"
  /\ memory' = [memory EXCEPT ![c] = sweep[c].isHigh]
  /\ sweep' = [sweep EXCEPT ![c] = NoSweep]
  /\ UNCHANGED <<isUp, high, checkVars, metricTold, metricForgotten, flips, mishaps>>

\* An e-mail of this metric, or of another one of the same sweep, fails after the event
\* was emitted: checkServer ends in its catch, and what was announced is not remembered.
EmailFails(c) ==
  /\ mishaps < MaxMishaps /\ mishaps' = mishaps + 1
  /\ sweep[c].pc = "remember" /\ sweep[c].isHigh # memory[c]
  /\ sweep' = [sweep EXCEPT ![c] = NoSweep]
  /\ metricForgotten' = TRUE
  /\ UNCHANGED <<isUp, high, checkVars, memory, metricTold, flips>>

------------------------------------------------------------------------------
(* The process dies.  Its check and its sweep end where they are, its      *)
(* memory is gone; the row stays.                                          *)
Restart(c) ==
  /\ mishaps < MaxMishaps /\ mishaps' = mishaps + 1
  /\ flipLost' = (flipLost \/ probe[c].pc \in {"down", "up"})
  /\ probe' = [probe EXCEPT ![c] = NoProbe]
  /\ sweep' = [sweep EXCEPT ![c] = NoSweep]
  /\ memory' = [memory EXCEPT ![c] = FALSE]
  /\ metricForgotten' = (metricForgotten \/ metricTold)
  /\ UNCHANGED <<isUp, high, row, told, metricTold, flips>>

Check(c) == ReadRow(c) \/ Probe(c) \/ WriteRow(c) \/ ClaimNotice(c) \/ NotifyFlip(c)
Sweep(c) == Measure(c) \/ Judge(c) \/ Remember(c)
Mishap(c) == EmailFails(c) \/ Restart(c)

StatusNext == Flip \/ \E c \in Checker : Check(c) \/ Sweep(c) \/ Mishap(c)

\* The schedulers check for ever, a probe ends at its timeout, and a sweep that
\* cannot reach the host changes nothing and is repeated.
StatusFairness ==
  \A c \in Checker : WF_statusVars(Check(c)) /\ WF_statusVars(Sweep(c))

StatusSpec == StatusInit /\ [][StatusNext]_statusVars
StatusFairSpec == StatusSpec /\ StatusFairness

------------------------------------------------------------------------------
(* Properties *)


\* "Falling edge: close the incident the trigger opened" (alert.service.ts:71): of a
\* metric that is back to normal no incident stays open.
IncidentsAreClosed == <>[](~high) => <>[](~metricTold)
=================================================================================
