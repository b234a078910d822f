------------------------- MODULE RunbookExecutorProofs -------------------------
(***************************************************************************)
(* Types, OneExecutor, BlastRadius, HostResultsAreFinal, the refinement of *)
(* RunLifecycle and, at the end, OutcomeIsTrue and ReaperSettles, for any  *)
(* number of runs, hosts, workers and faults.                              *)
(*                                                                         *)
(* The inductive invariant speaks of one execution at a time (EntrySound): *)
(* its run has been claimed and bears its worker's name, and its failures  *)
(* and its open tasks together are bounded, because each failure was a     *)
(* task and no task is opened once too many failures are known.  Every     *)
(* action touches one execution; the others stay sound by FrameSound.      *)
(***************************************************************************)
EXTENDS RunbookExecutor, FiniteSetTheorems, TLAPS

USE RunAssumption, HostAssumption, WorkerAssumption, DryRunAssumption, LimitAssumption,
    EnvironmentAssumption, NoneAssumption

------------------------------------------------------------------------------
(* The types *)

ExecLabel == {"none", "claimed", "fanout", "finalizing", "failing", "committing", "notifying"}
TaskLabel == {"none", "waiting", "claiming", "remote"}
Flag == {"cancelled", "lost", "shutdown", "stopped"}

\* TypeOK, in the parts that actions leave alone together, and without the bound on
\* the failures, which is a matter of counting.
RowTypes ==
  /\ status \in [Run -> RunStatus]
  /\ claimedBy \in [Run -> Worker \cup {None}]
  /\ cancelRequested \in [Run -> BOOLEAN]
  /\ summary \in [Run -> Summary \cup {None}]
  /\ stale \in [Run -> BOOLEAN]

HostTypes == hostStatus \in [Run -> [Host -> HostStatus]]

AlertTypes == alerts \in [Run -> Seq({"trigger", "resolve"})]

WorkerTypes ==
  /\ proc \in [Worker -> {"up", "stopping", "marking", "dead"}]
  /\ candidate \in [Worker -> Run \cup {None}]
  /\ toMark \in [Worker -> SUBSET Run]
  /\ faults \in 0 .. MaxFaults

ExecTypes ==
  /\ exec \in [Worker -> [Run -> ExecLabel]]
  /\ verdict \in [Worker -> [Run -> Verdict \cup {None}]]
  /\ \A w \in Worker, r \in Run :
       exec[w][r] \in {"committing", "notifying"} => verdict[w][r] \in Verdict

TaskTypes ==
  /\ task \in [Worker -> [Run -> [Host -> TaskLabel]]]
  /\ flags \in [Worker -> [Run -> SUBSET Flag]]
  /\ failures \in [Worker -> [Run -> Nat]]

CleanupTypes == cleanup \in [Run -> Cleanup \cup {None}]

Types ==
  /\ RowTypes /\ HostTypes /\ AlertTypes /\ WorkerTypes
  /\ ExecTypes /\ TaskTypes /\ CleanupTypes

\* A summary counts each kind of row.
LEMMA SummaryType ==
  ASSUME NEW hs
  PROVE  summarize(hs) \in Summary
<1>1. \A b \in HostEnded : Cardinality({h \in Host : Bucket(hs[h]) = b}) \in 0 .. Cardinality(Host)
  <2> SUFFICES ASSUME NEW b \in HostEnded
               PROVE  Cardinality({h \in Host : Bucket(hs[h]) = b}) \in 0 .. Cardinality(Host)
      OBVIOUS
  <2> DEFINE S == {h \in Host : Bucket(hs[h]) = b}
  <2>1. IsFiniteSet(S) /\ Cardinality(S) <= Cardinality(Host)
      BY FS_Subset
  <2>2. Cardinality(S) \in Nat /\ Cardinality(Host) \in Nat
      BY <2>1, FS_CardinalityType
  <2> QED
      BY <2>1, <2>2
<1> QED
    BY <1>1 DEF summarize, Summary

\* Settling rows keeps them rows.
LEMMA SetHostsType ==
  ASSUME HostTypes, NEW r \in Run, NEW from, NEW to \in HostStatus, SetHosts(r, from, to)
  PROVE  HostTypes'
BY DEF HostTypes, SetHosts

\* Writing one entry of a table indexed by worker and run, and by host as well.
LEMMA EntryType ==
  ASSUME NEW S, NEW f \in [Worker -> [Run -> S]], NEW w \in Worker, NEW r \in Run, NEW x \in S
  PROVE  [f EXCEPT ![w][r] = x] \in [Worker -> [Run -> S]]
OBVIOUS

LEMMA HostEntryType ==
  ASSUME NEW S, NEW f \in [Worker -> [Run -> [Host -> S]]],
         NEW w \in Worker, NEW r \in Run, NEW h \in Host, NEW x \in S
  PROVE  [f EXCEPT ![w][r][h] = x] \in [Worker -> [Run -> [Host -> S]]]
<1>1. [f[w] EXCEPT ![r][h] = x] \in [Run -> [Host -> S]]
    OBVIOUS
<1> QED
    BY <1>1

LEMMA ForgetType ==
  ASSUME TaskTypes, NEW w \in Worker, NEW r \in Run, Forget(w, r)
  PROVE  /\ flags' \in [Worker -> [Run -> SUBSET Flag]]
         /\ failures' \in [Worker -> [Run -> Nat]]
<1>1. [flags EXCEPT ![w][r] = {}] \in [Worker -> [Run -> SUBSET Flag]]
    BY EntryType DEF TaskTypes
<1>2. [failures EXCEPT ![w][r] = 0] \in [Worker -> [Run -> Nat]]
    BY EntryType DEF TaskTypes
<1> QED
    BY <1>1, <1>2 DEF Forget, TaskTypes

LEMMA ReturnType ==
  ASSUME ExecTypes, TaskTypes, NEW w \in Worker, NEW r \in Run, Return(w, r)
  PROVE  /\ ExecTypes'
         /\ flags' \in [Worker -> [Run -> SUBSET Flag]]
         /\ failures' \in [Worker -> [Run -> Nat]]
<1>1. exec' \in [Worker -> [Run -> ExecLabel]]
    BY DEF Return, ExecTypes, ExecLabel
<1>2. verdict' \in [Worker -> [Run -> Verdict \cup {None}]]
    BY DEF Return, ExecTypes
<1>3. \A v \in Worker, q \in Run :
        exec'[v][q] \in {"committing", "notifying"} => verdict'[v][q] \in Verdict
    BY DEF Return, ExecTypes
<1>4. flags' \in [Worker -> [Run -> SUBSET Flag]] /\ failures' \in [Worker -> [Run -> Nat]]
    BY ForgetType DEF Return
<1> QED
    BY <1>1, <1>2, <1>3, <1>4 DEF ExecTypes

\* A step of the cleanup writes one field of its record.
LEMMA AdvanceType ==
  ASSUME CleanupTypes, NEW r \in Run, cleanup[r] # None, NEW s \in CleanupStep, Advance(r, s)
  PROVE  CleanupTypes'
<1>1. [cleanup[r] EXCEPT !.step = s] \in Cleanup
    BY DEF CleanupTypes, Cleanup
<1> QED
    BY <1>1 DEF CleanupTypes, Advance

LEMMA InitTypes == Init => Types
<1> SUFFICES ASSUME Init PROVE Types
    OBVIOUS
<1> USE DEF Init
<1>1. RowTypes /\ HostTypes
    BY DEF RowTypes, RunStatus, HostTypes, HostStatus
<1>2. AlertTypes /\ CleanupTypes
    BY DEF AlertTypes, CleanupTypes
<1>3. WorkerTypes
    BY DEF WorkerTypes
<1>4. ExecTypes /\ TaskTypes
    BY DEF ExecTypes, TaskTypes, ExecLabel, TaskLabel
<1> QED
    BY <1>1, <1>2, <1>3, <1>4 DEF Types

LEMMA StepTypes == Types /\ [Next]_vars => Types'
<1> SUFFICES ASSUME Types, [Next]_vars PROVE Types'
    OBVIOUS
<1> USE DEF Types, local, rows
<1> USE DEF ExecLabel
<1>1. ASSUME NEW r \in Run, Submit(r) \/ GoStale(r)
      PROVE  Types'
  <2>1. RowTypes'
      BY <1>1 DEF Submit, GoStale, RowTypes, RunStatus
  <2>2. UNCHANGED <<hostStatus, alerts, proc, local, cleanup, faults>>
      BY <1>1 DEF Submit, GoStale
  <2> QED
      BY <2>1, <2>2 DEF HostTypes, AlertTypes, WorkerTypes, ExecTypes, TaskTypes, CleanupTypes
<1>2. ASSUME NEW w \in Worker, PickCandidate(w)
      PROVE  Types'
  <2>1. WorkerTypes'
      BY <1>2 DEF PickCandidate, WorkerTypes, Queued
  <2>2. UNCHANGED <<rows, alerts, toMark, exec, task, flags, failures, verdict, cleanup>>
      BY <1>2 DEF PickCandidate
  <2> QED
      BY <2>1, <2>2 DEF RowTypes, HostTypes, AlertTypes, ExecTypes, TaskTypes, CleanupTypes
<1>3. ASSUME NEW w \in Worker, Claim(w)
      PROVE  Types'
  <2> DEFINE r == candidate[w]
  <2>0. r \in Run
      BY <1>3 DEF Claim, WorkerTypes
  <2> HIDE DEF r
  <2>1. RowTypes'
    <3>1. UNCHANGED <<cancelRequested, summary>>
        BY <1>3 DEF Claim
    <3>2. CASE /\ status' = [status EXCEPT ![r] = "running"]
               /\ claimedBy' = [claimedBy EXCEPT ![r] = w]
               /\ stale' = [stale EXCEPT ![r] = FALSE]
        BY <2>0, <3>1, <3>2 DEF RowTypes, RunStatus
    <3>3. CASE UNCHANGED <<status, claimedBy, stale>>
        BY <3>1, <3>3 DEF RowTypes
    <3> QED
        BY <1>3, <3>2, <3>3 DEF Claim, r
  <2>2. WorkerTypes'
      BY <1>3 DEF Claim, WorkerTypes, Fault
  <2>3. ExecTypes'
    <3>1. UNCHANGED verdict
        BY <1>3 DEF Claim
    <3>2. CASE exec' = [exec EXCEPT ![w][r] = "claimed"]
        BY <2>0, <3>1, <3>2 DEF ExecTypes
    <3>3. CASE UNCHANGED exec
        BY <3>1, <3>3 DEF ExecTypes
    <3> QED
        BY <1>3, <3>2, <3>3 DEF Claim, r
  <2>4. UNCHANGED <<hostStatus, alerts, task, flags, failures, cleanup>>
      BY <1>3 DEF Claim
  <2> QED
      BY <2>1, <2>2, <2>3, <2>4 DEF HostTypes, AlertTypes, TaskTypes, CleanupTypes
<1>4. ASSUME NEW w \in Worker, NEW r \in Run, Load(w, r)
      PROVE  Types'
  <2>1. UNCHANGED <<rows, alerts, proc, candidate, toMark, cleanup, faults>>
      BY <1>4 DEF Load
  <2>2. ExecTypes' /\ TaskTypes'
    <3>1. CASE Owned(w, r) /\ exec' = [exec EXCEPT ![w][r] = "fanout"]
               /\ task' = [task EXCEPT ![w][r] = [h \in Host |->
                             IF hostStatus[r][h] = "pending" THEN "waiting" ELSE "none"]]
               /\ UNCHANGED <<verdict, flags, failures>>
        BY <3>1 DEF ExecTypes, TaskTypes, TaskLabel
    <3>2. CASE Return(w, r) /\ UNCHANGED task
        BY <3>2, ReturnType DEF TaskTypes
    <3> QED
        BY <1>4, <3>1, <3>2 DEF Load
  <2> QED
      BY <2>1, <2>2 DEF RowTypes, HostTypes, AlertTypes, WorkerTypes, CleanupTypes
<1>5. ASSUME NEW w \in Worker, NEW r \in Run, NEW h \in Host, StartHost(w, r, h) \/ ClaimHost(w, r, h)
      PROVE  Types'
  <2>1. UNCHANGED <<status, claimedBy, cancelRequested, summary, stale, alerts, proc,
                    candidate, toMark, exec, flags, failures, verdict, cleanup, faults>>
      BY <1>5 DEF StartHost, ClaimHost
  <2>2. HostTypes'
      BY <1>5 DEF StartHost, ClaimHost, HostTypes, HostStatus, HostEnded
  <2>3. TaskTypes'
    <3>1. PICK x \in TaskLabel : task' = [task EXCEPT ![w][r][h] = x]
        BY <1>5 DEF StartHost, ClaimHost, TaskLabel
    <3>2. [task EXCEPT ![w][r][h] = x] \in [Worker -> [Run -> [Host -> TaskLabel]]]
        BY HostEntryType DEF TaskTypes
    <3> QED
        BY <2>1, <3>1, <3>2 DEF TaskTypes
  <2> QED
      BY <2>1, <2>2, <2>3 DEF RowTypes, AlertTypes, WorkerTypes, ExecTypes, CleanupTypes
<1>6. ASSUME NEW w \in Worker, NEW r \in Run, NEW h \in Host, NEW o \in Outcome, FinishHost(w, r, h, o)
      PROVE  Types'
  <2>1. UNCHANGED <<status, claimedBy, cancelRequested, summary, stale, alerts, proc,
                    candidate, toMark, exec, verdict, cleanup, faults>>
      BY <1>6 DEF FinishHost
  <2>2. HostTypes'
      BY <1>6 DEF FinishHost, settleHost, HostTypes, HostStatus, HostEnded, Outcome
  <2>3. TaskTypes'
      BY <1>6 DEF FinishHost, TaskTypes, TaskLabel, Flag
  <2> QED
      BY <2>1, <2>2, <2>3 DEF RowTypes, AlertTypes, WorkerTypes, ExecTypes, CleanupTypes
<1>7. ASSUME NEW w \in Worker, NEW r \in Run, JoinHosts(w, r)
      PROVE  Types'
  <2>1. UNCHANGED <<rows, alerts, proc, candidate, toMark, task, cleanup, faults>>
      BY <1>7 DEF JoinHosts
  <2>2. ExecTypes' /\ TaskTypes'
    <3>1. CASE Return(w, r)
        BY <2>1, <3>1, ReturnType DEF TaskTypes
    <3>2. CASE exec' = [exec EXCEPT ![w][r] = "finalizing"] /\ UNCHANGED <<verdict, flags, failures>>
        BY <2>1, <3>2 DEF ExecTypes, TaskTypes
    <3> QED
        BY <1>7, <3>1, <3>2 DEF JoinHosts
  <2> QED
      BY <2>1, <2>2 DEF RowTypes, HostTypes, AlertTypes, WorkerTypes, CleanupTypes
<1>8. ASSUME NEW w \in Worker, NEW r \in Run, Finalize(w, r)
      PROVE  Types'
  <2> DEFINE sum == summarize(hostStatus[r])
             v == [status |-> VerdictOf(flags[w][r], sum), summary |-> sum]
  <2>1. UNCHANGED <<rows, alerts, proc, candidate, toMark, task, cleanup, faults>>
      BY <1>8 DEF Finalize
  <2>2. sum \in Summary
      BY SummaryType
  <2>3. VerdictOf(flags[w][r], sum) \in Ended
      BY DEF VerdictOf, Ended
  <2>4. v \in Verdict
      BY <2>2, <2>3 DEF Verdict
  <2>5. verdict' = [verdict EXCEPT ![w][r] = v] /\ exec' = [exec EXCEPT ![w][r] = "committing"]
      BY <1>8 DEF Finalize
  <2> HIDE DEF v
  <2>6. ExecTypes'
      BY <2>4, <2>5 DEF ExecTypes
  <2>7. TaskTypes'
      BY <1>8, <2>1, ForgetType DEF Finalize, TaskTypes
  <2> QED
      BY <2>1, <2>6, <2>7 DEF RowTypes, HostTypes, AlertTypes, WorkerTypes, CleanupTypes
<1>9. ASSUME NEW w \in Worker, NEW r \in Run, Throw(w, r) \/ GiveUp(w, r)
      PROVE  Types'
  <2>1. UNCHANGED <<rows, alerts, proc, candidate, toMark, task, cleanup>> /\ Fault
      BY <1>9 DEF Throw, GiveUp
  <2>2. WorkerTypes'
      BY <2>1 DEF WorkerTypes, Fault
  <2>3. ExecTypes' /\ TaskTypes'
    <3>1. CASE Throw(w, r)
        BY <3>1 DEF Throw, ExecTypes, TaskTypes
    <3>2. CASE GiveUp(w, r)
        BY <2>1, <3>2, ReturnType DEF GiveUp, TaskTypes
    <3> QED
        BY <1>9, <3>1, <3>2
  <2> QED
      BY <2>1, <2>2, <2>3 DEF RowTypes, HostTypes, AlertTypes, CleanupTypes
<1>10. ASSUME NEW w \in Worker, NEW r \in Run, FailHosts(w, r)
       PROVE  Types'
  <2> DEFINE v == [status |-> "failed", summary |-> summarize(hostStatus'[r])]
  <2>1. UNCHANGED <<status, claimedBy, cancelRequested, summary, stale, alerts, proc,
                    candidate, toMark, task, flags, failures, cleanup, faults>>
      BY <1>10 DEF FailHosts
  <2>2. HostTypes'
      BY <1>10, SetHostsType DEF FailHosts, HostStatus, HostEnded
  <2>3. v \in Verdict
      BY SummaryType DEF Verdict, Ended
  <2>4. verdict' = [verdict EXCEPT ![w][r] = v] /\ exec' = [exec EXCEPT ![w][r] = "committing"]
      BY <1>10 DEF FailHosts
  <2> HIDE DEF v
  <2>5. ExecTypes'
      BY <2>3, <2>4 DEF ExecTypes
  <2> QED
      BY <2>1, <2>2, <2>5 DEF RowTypes, AlertTypes, WorkerTypes, TaskTypes, CleanupTypes
<1>11. ASSUME NEW w \in Worker, NEW r \in Run, Commit(w, r)
       PROVE  Types'
  <2>1. UNCHANGED <<claimedBy, cancelRequested, stale, hostStatus, alerts, proc,
                    candidate, toMark, task, cleanup>>
      BY <1>11 DEF Commit
  <2>2. verdict[w][r] \in Verdict
      BY <1>11 DEF Commit, ExecTypes
  <2>3. verdict[w][r].status \in RunStatus /\ verdict[w][r].summary \in Summary
      BY <2>2 DEF Verdict, RunStatus
  <2>4. RowTypes'
      BY <1>11, <2>1, <2>3 DEF Commit, RowTypes
  <2>5. WorkerTypes'
      BY <1>11, <2>1 DEF Commit, Fault, WorkerTypes
  <2>6. ExecTypes' /\ TaskTypes'
    <3>1. CASE exec' = [exec EXCEPT ![w][r] = "notifying"] /\ UNCHANGED <<verdict, flags, failures>>
        BY <2>1, <2>2, <3>1 DEF ExecTypes, TaskTypes
    <3>2. CASE Return(w, r)
        BY <2>1, <3>2, ReturnType DEF TaskTypes
    <3> QED
        BY <1>11, <3>1, <3>2 DEF Commit
  <2> QED
      BY <2>1, <2>4, <2>5, <2>6 DEF HostTypes, AlertTypes, CleanupTypes
<1>12. ASSUME NEW r \in Run, NEW s, Emit(r, s)
       PROVE  AlertTypes'
    BY <1>12 DEF Emit, AlertTypes
<1>13. ASSUME NEW w \in Worker, NEW r \in Run, Notify(w, r)
       PROVE  Types'
  <2>1. UNCHANGED <<rows, proc, candidate, toMark, task, cleanup>>
      BY <1>13 DEF Notify
  <2>2. AlertTypes'
      BY <1>12, <1>13 DEF Notify, AlertTypes
  <2>3. WorkerTypes'
      BY <1>13 DEF Notify, Fault, WorkerTypes
  <2>4. ExecTypes' /\ TaskTypes'
      BY <1>13, <2>1, ReturnType DEF Notify, TaskTypes
  <2> QED
      BY <2>1, <2>2, <2>3, <2>4 DEF RowTypes, HostTypes, CleanupTypes
<1>14. ASSUME NEW w \in Worker, NEW r \in Run, Heartbeat(w, r) \/ CancelCheck(w, r)
       PROVE  Types'
  <2>1. UNCHANGED <<status, claimedBy, cancelRequested, summary, hostStatus, alerts, proc,
                    candidate, toMark, exec, task, failures, verdict, cleanup, faults>>
      BY <1>14 DEF Heartbeat, CancelCheck
  <2>2. RowTypes'
      BY <1>14 DEF Heartbeat, CancelCheck, RowTypes
  <2>3. TaskTypes'
    <3>1. CASE UNCHANGED flags
        BY <2>1, <3>1 DEF TaskTypes
    <3>2. ASSUME NEW f \in Flag, Raise(w, r, f)
          PROVE  TaskTypes'
      <4>1. flags[w][r] \cup {f} \in SUBSET Flag
          BY <3>2 DEF TaskTypes
      <4>2. flags' = [flags EXCEPT ![w][r] = flags[w][r] \cup {f}]
          BY <3>2 DEF Raise
      <4>3. flags' \in [Worker -> [Run -> SUBSET Flag]]
          BY <4>1, <4>2, EntryType DEF TaskTypes
      <4> QED
          BY <2>1, <4>3 DEF TaskTypes
    <3> QED
        BY <1>14, <3>1, <3>2 DEF Heartbeat, CancelCheck, Flag
  <2> QED
      BY <2>1, <2>2, <2>3 DEF HostTypes, AlertTypes, WorkerTypes, ExecTypes, CleanupTypes
<1>15. ASSUME NEW w \in Worker, NEW r \in Run, CancelRun(w, r)
       PROVE  Types'
  <2>1. UNCHANGED <<claimedBy, summary, stale, hostStatus, alerts, proc, local, faults>>
      BY <1>15 DEF CancelRun
  <2>2. RowTypes'
      BY <1>15 DEF CancelRun, RowTypes, RunStatus, Ended
  <2>3. [by |-> w, kind |-> "cancel", step |-> "hosts", summary |-> None, overtakes |-> FALSE]
          \in Cleanup
      BY DEF Cleanup, CleanupStep
  <2>4. CleanupTypes'
      BY <1>15, <2>3 DEF CancelRun, CleanupTypes
  <2> QED
      BY <2>1, <2>2, <2>4 DEF HostTypes, AlertTypes, WorkerTypes, ExecTypes, TaskTypes
<1>16. ASSUME NEW w \in Worker, NEW r \in Run, NEW k \in {"reap", "shutdown"}, Starts(r, w, k)
       PROVE  CleanupTypes'
  <2>1. (k = "reap" /\ BeingExecuted(r)) \in BOOLEAN
      OBVIOUS
  <2>2. [by |-> w, kind |-> k, step |-> "running", summary |-> None,
         overtakes |-> k = "reap" /\ BeingExecuted(r)] \in Cleanup
      BY <2>1 DEF Cleanup, CleanupStep
  <2> QED
      BY <1>16, <2>2 DEF Starts, CleanupTypes
<1>17. ASSUME NEW w \in Worker, NEW r \in Run, Reap(w, r) \/ MarkOwn(w, r)
       PROVE  Types'
  <2>1. UNCHANGED <<claimedBy, cancelRequested, summary, stale, hostStatus, alerts, proc,
                    candidate, exec, task, flags, failures, verdict, faults>>
      BY <1>17 DEF Reap, MarkOwn
  <2>2. RowTypes'
      BY <1>17 DEF Reap, MarkOwn, RowTypes, RunStatus, Ended
  <2>3. WorkerTypes'
      BY <1>17 DEF Reap, MarkOwn, WorkerTypes
  <2>4. CleanupTypes'
      BY <1>16, <1>17 DEF Reap, MarkOwn, CleanupTypes
  <2> QED
      BY <2>1, <2>2, <2>3, <2>4 DEF HostTypes, AlertTypes, ExecTypes, TaskTypes
<1>18. ASSUME NEW w \in Worker, Shutdown(w) \/ GraceOver(w)
       PROVE  Types'
  <2>1. UNCHANGED <<rows, alerts, candidate, exec, task, failures, verdict, cleanup, faults>>
      BY <1>18 DEF Shutdown, GraceOver
  <2>2. WorkerTypes'
      BY <1>18 DEF Shutdown, GraceOver, WorkerTypes
  <2>3. TaskTypes'
      BY <1>18 DEF Shutdown, GraceOver, TaskTypes, Flag
  <2> QED
      BY <2>1, <2>2, <2>3 DEF RowTypes, HostTypes, AlertTypes, ExecTypes, CleanupTypes
<1>19. ASSUME NEW w \in Worker, NEW r \in Run, CancelHosts(w, r) \/ LoseRunning(w, r) \/ LosePending(w, r)
       PROVE  Types'
  <2>1. UNCHANGED <<status, claimedBy, cancelRequested, summary, stale, alerts, proc, local, faults>>
      BY <1>19 DEF CancelHosts, LoseRunning, LosePending
  <2>2. HostTypes'
      BY <1>19, SetHostsType DEF CancelHosts, LoseRunning, LosePending, LostStatus, HostStatus, HostEnded
  <2>3. CleanupTypes'
      BY <1>19, AdvanceType DEF CancelHosts, LoseRunning, LosePending, CleansAt, Cleaning, CleanupStep
  <2> QED
      BY <2>1, <2>2, <2>3 DEF RowTypes, AlertTypes, WorkerTypes, ExecTypes, TaskTypes
<1>20. ASSUME NEW w \in Worker, NEW r \in Run, ReadHosts(w, r)
       PROVE  Types'
  <2>1. UNCHANGED <<rows, alerts, proc, local, faults>>
      BY <1>20 DEF ReadHosts
  <2>2. CleanupTypes'
      BY <1>20, SummaryType DEF ReadHosts, CleansAt, Cleaning, CleanupTypes, Cleanup, CleanupStep
  <2> QED
      BY <2>1, <2>2 DEF RowTypes, HostTypes, AlertTypes, WorkerTypes, ExecTypes, TaskTypes
<1>21. ASSUME NEW w \in Worker, NEW r \in Run, StoreSummary(w, r)
       PROVE  Types'
  <2>1. UNCHANGED <<status, claimedBy, cancelRequested, stale, hostStatus, alerts, proc, local, faults>>
      BY <1>21 DEF StoreSummary
  <2>2. cleanup[r] \in Cleanup /\ cleanup[r] # None
      BY <1>21 DEF StoreSummary, CleansAt, Cleaning, CleanupTypes
  <2>3. RowTypes'
      BY <1>21, <2>2 DEF StoreSummary, RowTypes, Cleanup
  <2>4. CleanupTypes'
      BY <1>21, <2>2, AdvanceType DEF StoreSummary, CleanupStep
  <2> QED
      BY <2>1, <2>3, <2>4 DEF HostTypes, AlertTypes, WorkerTypes, ExecTypes, TaskTypes
<1>22. ASSUME NEW w \in Worker, NEW r \in Run, AlertLost(w, r) \/ CleanupFails(w, r)
       PROVE  Types'
  <2>1. UNCHANGED <<rows, proc, local>>
      BY <1>22 DEF AlertLost, CleanupFails
  <2>2. AlertTypes'
      BY <1>12, <1>22 DEF AlertLost, CleanupFails, AlertTypes
  <2>3. CleanupTypes'
      BY <1>22, AdvanceType DEF AlertLost, CleanupFails, CleansAt, Cleaning, CleanupStep
  <2>4. faults' \in 0 .. MaxFaults
      BY <1>22 DEF AlertLost, CleanupFails, Fault, WorkerTypes
  <2> QED
      BY <2>1, <2>2, <2>3, <2>4 DEF RowTypes, HostTypes, WorkerTypes, ExecTypes, TaskTypes
<1>23. ASSUME NEW w \in Worker, Vanish(w)
       PROVE  Types'
  <2>1. UNCHANGED <<rows, alerts, faults>>
      BY <1>23 DEF Vanish
  <2>2. WorkerTypes'
      BY <1>23 DEF Vanish, WorkerTypes
  <2>3. ExecTypes'
      BY <1>23 DEF Vanish, ExecTypes
  <2>4. TaskTypes'
      BY <1>23 DEF Vanish, TaskTypes, TaskLabel
  <2>5. CleanupTypes'
    <3>1. \A r \in Run : r \in Cleaning(w) => [cleanup[r] EXCEPT !.step = "abandoned"] \in Cleanup
        BY DEF Cleaning, CleanupTypes, Cleanup, CleanupStep
    <3> QED
        BY <1>23, <3>1 DEF Vanish, CleanupTypes
  <2> QED
      BY <2>1, <2>2, <2>3, <2>4, <2>5 DEF RowTypes, HostTypes, AlertTypes
<1>24. CASE UNCHANGED vars
    BY <1>24 DEF vars, RowTypes, HostTypes, AlertTypes, WorkerTypes, ExecTypes, TaskTypes, CleanupTypes
<1> QED
    BY <1>1, <1>2, <1>3, <1>4, <1>5, <1>6, <1>7, <1>8, <1>9, <1>10, <1>11, <1>13, <1>14, <1>15,
       <1>17, <1>18, <1>19, <1>20, <1>21, <1>22, <1>23, <1>24
       DEF Next, ExecutorStep, HostStep, CleanupStepOf, Exit, Crash
------------------------------------------------------------------------------
(* What an execution holds *)

Fresh(r) == status[r] \in {"none", "queued"}

Held(w, r) == {h \in Host : task[w][r][h] # "none"}
Open(w, r) == {h \in Host : task[w][r][h] \in {"claiming", "remote"}}

\* A run nobody has claimed is worked on by nobody, a run is executed under the name
\* on its row, and every failure counted was a task of its own: none is opened once
\* MaxFailures of them are known, and Concurrency of them may be under way by then.
EntrySound(w, r) ==
  /\ Fresh(r) => exec[w][r] = "none" /\ failures[w][r] = 0 /\ Held(w, r) = {}
  /\ exec[w][r] # "none" => claimedBy[r] = w
  /\ exec[w][r] = "claimed" => failures[w][r] = 0 /\ Held(w, r) = {}
  /\ "stopped" \notin flags[w][r] => failures[w][r] < MaxFailures
  /\ failures[w][r] + Cardinality(Held(w, r)) <= Cardinality(Host)
  /\ failures[w][r] + Cardinality(Open(w, r)) <= MaxFailures - 1 + Concurrency

ExecutionIsSound == \A w \in Worker, r \in Run : EntrySound(w, r)

ExecutorInv == Types /\ ExecutionIsSound

LEMMA HostSets ==
  ASSUME NEW w, NEW r
  PROVE  /\ IsFiniteSet(Held(w, r)) /\ Cardinality(Held(w, r)) \in Nat
         /\ IsFiniteSet(Open(w, r)) /\ Cardinality(Open(w, r)) \in Nat
         /\ Cardinality(Open(w, r)) <= Cardinality(Held(w, r))
         /\ Cardinality(Held(w, r)) <= Cardinality(Host) /\ Cardinality(Host) \in Nat
<1>1. Held(w, r) \in SUBSET Host /\ Open(w, r) \in SUBSET Held(w, r)
    BY DEF Held, Open
<1>2. IsFiniteSet(Held(w, r)) /\ Cardinality(Held(w, r)) <= Cardinality(Host)
    BY <1>1, FS_Subset
<1>3. IsFiniteSet(Open(w, r)) /\ Cardinality(Open(w, r)) <= Cardinality(Held(w, r))
    BY <1>1, <1>2, FS_Subset
<1> QED
    BY <1>2, <1>3, FS_CardinalityType

\* An entry none of whose parts moves stays sound.
LEMMA FrameSound ==
  ASSUME NEW w \in Worker, NEW r \in Run, EntrySound(w, r), Fresh(r)' => Fresh(r),
         exec'[w][r] = exec[w][r], task'[w][r] = task[w][r],
         failures'[w][r] = failures[w][r],
         "stopped" \in flags'[w][r] <=> "stopped" \in flags[w][r],
         claimedBy'[r] = claimedBy[r] \/ exec[w][r] = "none"
  PROVE  EntrySound(w, r)'
<1>1. Held(w, r)' = Held(w, r) /\ Open(w, r)' = Open(w, r)
    BY DEF Held, Open
<1> QED
    BY <1>1 DEF EntrySound

\* Steps that touch no execution, except to raise a flag.
LEMMA BystanderSound ==
  ASSUME ExecutorInv, \A q \in Run : Fresh(q)' => Fresh(q),
         UNCHANGED <<exec, task, failures, claimedBy>>,
         \A w \in Worker, r \in Run : "stopped" \in flags'[w][r] <=> "stopped" \in flags[w][r]
  PROVE  ExecutionIsSound'
<1> SUFFICES ASSUME NEW w \in Worker, NEW r \in Run
             PROVE  EntrySound(w, r)'
    BY DEF ExecutionIsSound
<1> QED
    BY FrameSound DEF ExecutorInv, ExecutionIsSound

\* Steps of executeRun after the load: the tasks stay, and the state.* of an execution
\* that has none is forgotten or kept.
LEMMA ProceedSound ==
  ASSUME ExecutorInv, NEW w \in Worker, NEW r \in Run, NEW x \in ExecLabel \ {"claimed"},
         exec[w][r] # "none", exec' = [exec EXCEPT ![w][r] = x],
         Forget(w, r) \/ UNCHANGED <<flags, failures>>,
         UNCHANGED <<task, claimedBy>>, \A q \in Run : Fresh(q)' => Fresh(q)
  PROVE  ExecutionIsSound'
<1> USE DEF ExecutorInv, Types
<1> SUFFICES ASSUME NEW v \in Worker, NEW q \in Run
             PROVE  EntrySound(v, q)'
    BY DEF ExecutionIsSound
<1>0. EntrySound(v, q) /\ EntrySound(w, r)
    BY DEF ExecutionIsSound
<1>1. CASE v # w \/ q # r
  <2>1. exec'[v][q] = exec[v][q]
      BY <1>1 DEF ExecTypes
  <2>2. failures'[v][q] = failures[v][q] /\ flags'[v][q] = flags[v][q]
      BY <1>1 DEF TaskTypes, Forget
  <2> QED
      BY <1>0, <2>1, <2>2, FrameSound
<1>2. CASE v = w /\ q = r
  <2>1. exec'[w][r] = x /\ claimedBy'[r] = w /\ ~Fresh(r)'
      BY <1>0 DEF ExecTypes, EntrySound
  <2>2. Held(w, r)' = Held(w, r) /\ Open(w, r)' = Open(w, r)
      BY DEF Held, Open
  <2>3. CASE UNCHANGED <<flags, failures>>
      BY <1>0, <1>2, <2>1, <2>2, <2>3 DEF EntrySound
  <2>4. CASE /\ flags' = [flags EXCEPT ![w][r] = {}]
             /\ failures' = [failures EXCEPT ![w][r] = 0]
             /\ \A h \in Host : task[w][r][h] = "none"
    <3>1. failures'[w][r] = 0
        BY <2>4 DEF TaskTypes
    <3>2. Held(w, r) = {} /\ Open(w, r) = {}
        BY <2>4 DEF Held, Open
    <3>3. Cardinality(Held(w, r)) = 0 /\ Cardinality(Open(w, r)) = 0
        BY <3>2, FS_EmptySet
    <3>4. Cardinality(Host) \in Nat
        BY FS_CardinalityType
    <3> QED
        BY <1>2, <2>1, <2>2, <3>1, <3>3, <3>4 DEF EntrySound
  <2> QED
      BY <2>3, <2>4 DEF Forget
<1> QED
    BY <1>1, <1>2

LEMMA ReturnSound ==
  ASSUME ExecutorInv, NEW w \in Worker, NEW r \in Run, Return(w, r), exec[w][r] # "none",
         UNCHANGED <<task, claimedBy>>, \A q \in Run : Fresh(q)' => Fresh(q)
  PROVE  ExecutionIsSound'
BY ProceedSound DEF Return, ExecLabel

\* A host task moves on, or ends and may be counted as a failure; n failures after it.
HostMove(w, r, h, x, n) ==
  \/ n = failures[w][r] /\ x \in {"none", "remote"} /\ (x = "remote" => task[w][r][h] = "claiming")
  \/ n = failures[w][r] /\ x = "claiming" /\ n < MaxFailures /\ Cardinality(Open(w, r)) < Concurrency
  \/ n = failures[w][r] + 1 /\ x = "none" /\ task[w][r][h] = "remote"

LEMMA HostSound ==
  ASSUME ExecutorInv, NEW w \in Worker, NEW r \in Run, NEW h \in Host, NEW x \in TaskLabel,
         task[w][r][h] # "none", task' = [task EXCEPT ![w][r][h] = x],
         NEW n \in Nat, failures' = [failures EXCEPT ![w][r] = n],
         UNCHANGED <<exec, claimedBy>>, \A q \in Run : Fresh(q)' => Fresh(q),
         \A v \in Worker, q \in Run :
           v # w \/ q # r => flags'[v][q] = flags[v][q],
         "stopped" \notin flags'[w][r] => n < MaxFailures,
         HostMove(w, r, h, x, n)
  PROVE  ExecutionIsSound'
<1> USE DEF ExecutorInv, Types, HostMove
<1> SUFFICES ASSUME NEW v \in Worker, NEW q \in Run
             PROVE  EntrySound(v, q)'
    BY DEF ExecutionIsSound
<1>0. EntrySound(v, q) /\ EntrySound(w, r)
    BY DEF ExecutionIsSound
<1>1. CASE v # w \/ q # r
  <2>1. task'[v][q] = task[v][q]
      BY <1>1 DEF TaskTypes
  <2>2. failures'[v][q] = failures[v][q]
      BY <1>1 DEF TaskTypes
  <2> QED
      BY <1>0, <1>1, <2>1, <2>2, FrameSound
<1>2. CASE v = w /\ q = r
  <2>1. failures'[w][r] = n /\ task'[w][r] = [task[w][r] EXCEPT ![h] = x]
      BY DEF TaskTypes
  <2>2. task[w][r] \in [Host -> TaskLabel] /\ failures[w][r] \in Nat
      BY DEF TaskTypes
  <2>3. h \in Held(w, r)
      BY DEF Held
  <2>4. ~Fresh(r)' /\ exec[w][r] # "claimed"
      BY <1>0, <2>3 DEF EntrySound
  <2>5. x = "none" => Held(w, r)' = Held(w, r) \ {h} /\ Open(w, r)' = Open(w, r) \ {h}
      BY <2>1, <2>2 DEF Held, Open
  <2>6. x # "none" => Held(w, r)' = Held(w, r)
      BY <2>1, <2>2 DEF Held
  <2>7. x = "remote" /\ task[w][r][h] = "claiming" => Open(w, r)' = Open(w, r)
      BY <2>1, <2>2 DEF Open
  <2>8. x = "claiming" => Open(w, r)' = Open(w, r) \cup {h}
      BY <2>1, <2>2 DEF Open
  <2>9. task[w][r][h] = "remote" => h \in Open(w, r)
      BY DEF Open
  <2>10. /\ IsFiniteSet(Held(w, r)) /\ Cardinality(Held(w, r)) \in Nat
         /\ IsFiniteSet(Open(w, r)) /\ Cardinality(Open(w, r)) \in Nat
         /\ Cardinality(Host) \in Nat
      BY HostSets
  <2>11. /\ Cardinality(Held(w, r) \ {h}) = Cardinality(Held(w, r)) - 1
         /\ Cardinality(Open(w, r) \ {h}) =
              IF h \in Open(w, r) THEN Cardinality(Open(w, r)) - 1 ELSE Cardinality(Open(w, r))
         /\ Cardinality(Open(w, r) \cup {h}) =
              IF h \in Open(w, r) THEN Cardinality(Open(w, r)) ELSE Cardinality(Open(w, r)) + 1
    <3> HIDE DEF Held, Open
    <3>1. Cardinality(Held(w, r) \ {h}) = Cardinality(Held(w, r)) - 1
        BY <2>3, <2>10, FS_RemoveElement
    <3>2. Cardinality(Open(w, r) \ {h}) =
            IF h \in Open(w, r) THEN Cardinality(Open(w, r)) - 1 ELSE Cardinality(Open(w, r))
        BY <2>10, FS_RemoveElement
    <3>3. Cardinality(Open(w, r) \cup {h}) =
            IF h \in Open(w, r) THEN Cardinality(Open(w, r)) ELSE Cardinality(Open(w, r)) + 1
        BY <2>10, FS_AddElement
    <3> QED
        BY <3>1, <3>2, <3>3
  <2>12. n + Cardinality(Held(w, r)') <= Cardinality(Host)
    <3> DEFINE c == Cardinality(Held(w, r))
               d == Cardinality(Held(w, r)')
    <3>1. (x = "none" => d = c - 1) /\ (x # "none" => d = c)
        BY <2>5, <2>6, <2>11
    <3>2. c \in Nat /\ Cardinality(Host) \in Nat /\ failures[w][r] + c <= Cardinality(Host)
        BY <1>0, <2>10 DEF EntrySound
    <3> HIDE DEF c, d
    <3>3. n + d <= Cardinality(Host)
        BY <2>2, <3>1, <3>2
    <3> QED
        BY <3>3 DEF d
  <2>13. n + Cardinality(Open(w, r)') <= MaxFailures - 1 + Concurrency
    <3> DEFINE c == Cardinality(Open(w, r))
               d == Cardinality(Open(w, r)')
    <3>1. x = "none" => d = IF h \in Open(w, r) THEN c - 1 ELSE c
        BY <2>5, <2>11
    <3>2. x = "remote" => d = c
        BY <2>7
    <3>3. x = "claiming" => d = IF h \in Open(w, r) THEN c ELSE c + 1
        BY <2>8, <2>11
    <3>4. c \in Nat /\ failures[w][r] + c <= MaxFailures - 1 + Concurrency
        BY <1>0, <2>10 DEF EntrySound
    <3>5. d \in Int
        BY <2>10, <3>1, <3>2, <3>3
    <3>6. x = "claiming" /\ n < MaxFailures /\ c < Concurrency
            => n + d <= MaxFailures - 1 + Concurrency
        BY <3>3, <3>4
    <3> HIDE DEF c, d
    <3>7. n + d <= MaxFailures - 1 + Concurrency
        BY <2>2, <2>9, <3>1, <3>2, <3>4, <3>5, <3>6 DEF c
    <3> QED
        BY <3>7 DEF d
  <2> QED
      BY <1>0, <1>2, <2>1, <2>4, <2>12, <2>13 DEF EntrySound
<1> QED
    BY <1>1, <1>2
LEMMA InitSound == Init => ExecutionIsSound
<1> SUFFICES ASSUME Init, NEW w \in Worker, NEW r \in Run
             PROVE  EntrySound(w, r)
    BY DEF ExecutionIsSound
<1>1. /\ exec[w][r] = "none" /\ failures[w][r] = 0 /\ flags[w][r] = {}
      /\ Held(w, r) = {} /\ Open(w, r) = {}
    BY DEF Init, Held, Open
<1>2. Cardinality(Held(w, r)) = 0 /\ Cardinality(Open(w, r)) = 0 /\ Cardinality(Host) \in Nat
    BY <1>1, FS_EmptySet, FS_CardinalityType
<1> QED
    BY <1>1, <1>2 DEF EntrySound

\* A run that has been claimed, or cancelled, never waits again.
LEMMA NeverFreshAgain ==
  ASSUME Types, Next, NEW r \in Run
  PROVE  Fresh(r)' => Fresh(r)
<1> USE DEF Types, RowTypes, Fresh
<1>1. \A w \in Worker, q \in Run : exec[w][q] = "committing" =>
        verdict[w][q].status \notin {"none", "queued"}
    BY DEF ExecTypes, Verdict, Ended
<1>2. ASSUME NEW w \in Worker, Claim(w)
      PROVE  Fresh(r)' => Fresh(r)
    BY <1>2 DEF Claim
<1>3. ASSUME NEW w \in Worker, NEW q \in Run, Commit(w, q)
      PROVE  Fresh(r)' => Fresh(r)
    BY <1>1, <1>3 DEF Commit
<1>4. ASSUME NEW w \in Worker, NEW q \in Run, CancelRun(w, q) \/ Reap(w, q) \/ MarkOwn(w, q)
      PROVE  Fresh(r)' => Fresh(r)
    BY <1>4 DEF CancelRun, Reap, MarkOwn
<1>5. ASSUME NEW q \in Run, Submit(q) \/ GoStale(q)
      PROVE  Fresh(r)' => Fresh(r)
    BY <1>5 DEF Submit, GoStale
<1>6. CASE UNCHANGED status
    BY <1>6
<1>7. ASSUME NEW w \in Worker, PickCandidate(w) \/ Shutdown(w) \/ GraceOver(w) \/ Vanish(w)
      PROVE  UNCHANGED status
    BY <1>7 DEF PickCandidate, Shutdown, GraceOver, Vanish, rows
<1>8. ASSUME NEW w \in Worker, NEW q \in Run,
             \/ Load(w, q) \/ JoinHosts(w, q) \/ Finalize(w, q) \/ FailHosts(w, q) \/ Notify(w, q)
             \/ Throw(w, q) \/ GiveUp(w, q) \/ Heartbeat(w, q) \/ CancelCheck(w, q)
             \/ CleanupStepOf(w, q) \/ CleanupFails(w, q)
      PROVE  UNCHANGED status
    BY <1>8 DEF Load, JoinHosts, Finalize, FailHosts, Notify, Throw, GiveUp, Heartbeat, CancelCheck,
                CleanupStepOf, CancelHosts, LoseRunning, LosePending, ReadHosts, StoreSummary,
                AlertLost, CleanupFails, rows
<1>9. ASSUME NEW w \in Worker, NEW q \in Run, NEW h \in Host, HostStep(w, q, h)
      PROVE  UNCHANGED status
    BY <1>9 DEF HostStep, StartHost, ClaimHost, FinishHost
<1> QED
    BY <1>2, <1>3, <1>4, <1>5, <1>6, <1>7, <1>8, <1>9 DEF Next, ExecutorStep, Exit, Crash

LEMMA StepSound == ExecutorInv /\ [Next]_vars => ExecutionIsSound'
<1> SUFFICES ASSUME ExecutorInv, [Next]_vars PROVE ExecutionIsSound'
    OBVIOUS
<1>0. CASE UNCHANGED vars
  <2>1. UNCHANGED <<status, claimedBy, exec, task, failures, flags>>
      BY <1>0 DEF vars, rows, local
  <2>2. \A q \in Run : Fresh(q)' => Fresh(q)
      BY <2>1 DEF Fresh
  <2> QED
      BY <2>1, <2>2, BystanderSound
<1> SUFFICES ASSUME Next PROVE ExecutionIsSound'
    BY <1>0
<1>t. Types
    BY DEF ExecutorInv
<1>f. \A q \in Run : Fresh(q)' => Fresh(q)
    BY <1>t, NeverFreshAgain
<1>e. \A w \in Worker, r \in Run : EntrySound(w, r)
    BY DEF ExecutorInv, ExecutionIsSound
<1>1. ASSUME UNCHANGED <<exec, task, failures, flags, claimedBy>>
      PROVE  ExecutionIsSound'
    BY <1>1, <1>f, BystanderSound
<1>2. ASSUME NEW r \in Run, Submit(r) \/ GoStale(r)
      PROVE  ExecutionIsSound'
    BY <1>1, <1>2 DEF Submit, GoStale, local
<1>3. ASSUME NEW w \in Worker, PickCandidate(w) \/ GraceOver(w)
      PROVE  ExecutionIsSound'
    BY <1>1, <1>3 DEF PickCandidate, GraceOver, rows
<1>4. ASSUME NEW w \in Worker, NEW r \in Run,
             CancelRun(w, r) \/ Reap(w, r) \/ MarkOwn(w, r) \/ CleanupStepOf(w, r) \/ CleanupFails(w, r)
      PROVE  ExecutionIsSound'
    BY <1>1, <1>4 DEF CancelRun, Reap, MarkOwn, CleanupStepOf, CancelHosts, LoseRunning, LosePending,
                      ReadHosts, StoreSummary, AlertLost, CleanupFails, rows, local
<1>5. ASSUME NEW w \in Worker, Claim(w)
      PROVE  ExecutionIsSound'
  <2> DEFINE c == candidate[w]
  <2>0. c \in Run /\ UNCHANGED <<task, failures, flags>>
      BY <1>5, <1>t DEF Claim, Types, WorkerTypes
  <2>1. \/ /\ Fresh(c)
           /\ claimedBy' = [claimedBy EXCEPT ![c] = w]
           /\ status' = [status EXCEPT ![c] = "running"]
           /\ exec' = [exec EXCEPT ![w][c] = "claimed"] \/ UNCHANGED exec
        \/ UNCHANGED <<claimedBy, exec>>
      BY <1>5 DEF Claim, Claimable, Fresh
  <2> HIDE DEF c
  <2>2. CASE UNCHANGED <<claimedBy, exec>>
      BY <2>0, <2>2, <1>1
  <2>3. CASE /\ Fresh(c)
             /\ claimedBy' = [claimedBy EXCEPT ![c] = w]
             /\ status' = [status EXCEPT ![c] = "running"]
             /\ exec' = [exec EXCEPT ![w][c] = "claimed"] \/ UNCHANGED exec
    <3> SUFFICES ASSUME NEW v \in Worker, NEW q \in Run
                 PROVE  EntrySound(v, q)'
        BY DEF ExecutionIsSound
    <3>1. EntrySound(v, q) /\ (q = c => exec[v][q] = "none")
        BY <1>e, <2>3 DEF EntrySound
    <3>2. claimedBy'[q] = claimedBy[q] \/ exec[v][q] = "none"
        BY <2>0, <2>3, <3>1, <1>t DEF Types, RowTypes
    <3>3. CASE exec'[v][q] = exec[v][q]
        BY <1>f, <2>0, <3>1, <3>2, <3>3, FrameSound
    <3>4. CASE exec'[v][q] # exec[v][q]
      <4>1. v = w /\ q = c /\ exec'[v][q] = "claimed"
          BY <2>0, <2>3, <3>4, <1>t DEF Types, ExecTypes
      <4>2. claimedBy'[c] = w /\ status'[c] = "running"
          BY <2>0, <2>3, <1>t DEF Types, RowTypes
      <4>3. Held(v, q)' = Held(v, q) /\ Open(v, q)' = Open(v, q)
          BY <2>0 DEF Held, Open
      <4>4. failures[v][q] = 0 /\ Held(v, q) = {}
          BY <2>3, <3>1, <4>1 DEF EntrySound
      <4>5. ~Fresh(q)' /\ failures'[v][q] = failures[v][q] /\ flags'[v][q] = flags[v][q]
          BY <2>0, <4>1, <4>2 DEF Fresh
      <4> QED
          BY <3>1, <4>1, <4>2, <4>3, <4>4, <4>5 DEF EntrySound
    <3> QED
        BY <3>3, <3>4
  <2> QED
      BY <2>1, <2>2, <2>3
<1>6. ASSUME NEW w \in Worker, NEW r \in Run, Load(w, r)
      PROVE  ExecutionIsSound'
  <2>1. UNCHANGED <<claimedBy>> /\ exec[w][r] = "claimed"
      BY <1>6 DEF Load, rows
  <2>2. CASE Return(w, r) /\ UNCHANGED task
      BY <1>f, <2>1, <2>2, ReturnSound
  <2>3. CASE /\ exec' = [exec EXCEPT ![w][r] = "fanout"]
             /\ task' = [task EXCEPT ![w][r] = [h \in Host |->
                           IF hostStatus[r][h] = "pending" THEN "waiting" ELSE "none"]]
             /\ UNCHANGED <<verdict, flags, failures>>
    <3> SUFFICES ASSUME NEW v \in Worker, NEW q \in Run
                 PROVE  EntrySound(v, q)'
        BY DEF ExecutionIsSound
    <3>1. CASE v # w \/ q # r
      <4>1. task'[v][q] = task[v][q] /\ exec'[v][q] = exec[v][q]
          BY <2>3, <3>1, <1>t DEF Types, TaskTypes, ExecTypes
      <4> QED
          BY <1>e, <1>f, <2>1, <2>3, <4>1, FrameSound
    <3>2. CASE v = w /\ q = r
      <4>1. failures[w][r] = 0 /\ claimedBy[r] = w /\ ~Fresh(r)
            /\ ("stopped" \notin flags[w][r] => failures[w][r] < MaxFailures)
          BY <1>e, <2>1 DEF EntrySound
      <4>2. exec'[w][r] = "fanout"
          BY <2>3, <1>t DEF Types, ExecTypes
      <4>3. Open(w, r)' = {}
          BY <2>3, <1>t DEF Types, TaskTypes, Open
      <4>4. /\ Cardinality(Open(w, r)') = 0
            /\ Cardinality(Held(w, r)') <= Cardinality(Host) /\ Cardinality(Held(w, r)') \in Nat
            /\ Cardinality(Host) \in Nat
        <5>1. Held(w, r)' \in SUBSET Host
            BY DEF Held
        <5>2. IsFiniteSet(Held(w, r)') /\ Cardinality(Held(w, r)') <= Cardinality(Host)
            BY <5>1, FS_Subset
        <5> QED
            BY <4>3, <5>2, FS_CardinalityType, FS_EmptySet
      <4> QED
          BY <1>f, <2>1, <2>3, <3>2, <4>1, <4>2, <4>4 DEF EntrySound
    <3> QED
        BY <3>1, <3>2
  <2> QED
      BY <1>6, <2>2, <2>3 DEF Load
<1>7. ASSUME NEW w \in Worker, NEW r \in Run, NEW h \in Host, StartHost(w, r, h) \/ ClaimHost(w, r, h)
      PROVE  ExecutionIsSound'
  <2>1. UNCHANGED <<status, claimedBy, exec, flags, failures>> /\ task[w][r][h] # "none"
      BY <1>7 DEF StartHost, ClaimHost
  <2>2. failures[w][r] \in Nat /\ failures \in [Worker -> [Run -> Nat]]
      BY <1>t DEF Types, TaskTypes
  <2>a. \A v \in Worker, q \in Run : v # w \/ q # r => flags'[v][q] = flags[v][q]
      BY <2>1
  <2>3. failures' = [failures EXCEPT ![w][r] = failures[w][r]]
      BY <2>1, <2>2
  <2>4. "stopped" \notin flags'[w][r] => failures[w][r] < MaxFailures
      BY <1>e, <2>1 DEF EntrySound
  <2>5. \E x \in TaskLabel :
          /\ task' = [task EXCEPT ![w][r][h] = x]
          /\ \/ x \in {"none", "remote"} /\ (x = "remote" => task[w][r][h] = "claiming")
             \/ /\ x = "claiming" /\ "stopped" \notin flags[w][r]
                /\ Cardinality(Open(w, r)) < Concurrency
      BY <1>7 DEF StartHost, ClaimHost, Admitted, Stopped, TaskLabel, Open
  <2>6. PICK x \in TaskLabel :
          /\ task' = [task EXCEPT ![w][r][h] = x]
          /\ \/ x \in {"none", "remote"} /\ (x = "remote" => task[w][r][h] = "claiming")
             \/ /\ x = "claiming" /\ "stopped" \notin flags[w][r]
                /\ Cardinality(Open(w, r)) < Concurrency
      BY <2>5
  <2>7. HostMove(w, r, h, x, failures[w][r])
      BY <2>1, <2>4, <2>6 DEF HostMove
  <2> QED
      BY <1>f, <2>1, <2>2, <2>a, <2>3, <2>4, <2>6, <2>7, HostSound
<1>8. ASSUME NEW w \in Worker, NEW r \in Run, NEW h \in Host, NEW o \in Outcome, FinishHost(w, r, h, o)
      PROVE  ExecutionIsSound'
  <2> DEFINE bad == o \in {"failed", "timed_out"}
             n == IF bad THEN failures[w][r] + 1 ELSE failures[w][r]
  <2>1. UNCHANGED <<status, claimedBy, exec>> /\ task[w][r][h] = "remote"
        /\ task' = [task EXCEPT ![w][r][h] = "none"]
        /\ failures' = [failures EXCEPT ![w][r] = n]
        /\ flags' = [flags EXCEPT ![w][r] =
             IF bad /\ n >= MaxFailures THEN flags[w][r] \cup {"stopped"} ELSE flags[w][r]]
      BY <1>8 DEF FinishHost
  <2>2. failures[w][r] \in Nat /\ flags \in [Worker -> [Run -> SUBSET Flag]]
      BY <1>t DEF Types, TaskTypes
  <2>3. "stopped" \notin flags'[w][r] => n < MaxFailures
      BY <1>e, <2>1, <2>2 DEF EntrySound
  <2>4. \A v \in Worker, q \in Run : v # w \/ q # r => flags'[v][q] = flags[v][q]
      BY <2>1, <2>2
  <2>5. n \in Nat /\ (n = failures[w][r] \/ n = failures[w][r] + 1)
      BY <2>2
  <2>6. "none" \in TaskLabel /\ HostMove(w, r, h, "none", n)
      BY <2>1, <2>5 DEF TaskLabel, HostMove
  <2>7. failures' = [failures EXCEPT ![w][r] = n] /\ task[w][r][h] # "none"
        /\ UNCHANGED <<exec, claimedBy>>
      BY <2>1
  <2> HIDE DEF n, bad
  <2> QED
      BY <1>f, <2>1, <2>3, <2>4, <2>5, <2>6, <2>7, HostSound
<1>9. ASSUME NEW w \in Worker, NEW r \in Run,
             JoinHosts(w, r) \/ GiveUp(w, r) \/ Notify(w, r) \/ Commit(w, r)
      PROVE  ExecutionIsSound'
  <2>1. UNCHANGED <<task, claimedBy>> /\ exec[w][r] # "none"
      BY <1>9 DEF JoinHosts, GiveUp, Notify, Commit, rows
  <2>2. \/ Return(w, r)
        \/ /\ \E x \in {"finalizing", "notifying"} : exec' = [exec EXCEPT ![w][r] = x]
           /\ UNCHANGED <<flags, failures>>
      BY <1>9 DEF JoinHosts, GiveUp, Notify, Commit
  <2> QED
      BY <1>f, <2>1, <2>2, ReturnSound, ProceedSound DEF ExecLabel
<1>10. ASSUME NEW w \in Worker, NEW r \in Run, Finalize(w, r) \/ FailHosts(w, r) \/ Throw(w, r)
       PROVE  ExecutionIsSound'
  <2>1. UNCHANGED <<task, claimedBy>> /\ exec[w][r] # "none"
      BY <1>10 DEF Finalize, FailHosts, Throw, rows
  <2>2. /\ \E x \in {"committing", "failing"} : exec' = [exec EXCEPT ![w][r] = x]
        /\ Forget(w, r) \/ UNCHANGED <<flags, failures>>
      BY <1>10 DEF Finalize, FailHosts, Throw
  <2> QED
      BY <1>f, <2>1, <2>2, ProceedSound DEF ExecLabel
<1>11. ASSUME NEW w \in Worker, NEW r \in Run, Heartbeat(w, r) \/ CancelCheck(w, r)
       PROVE  ExecutionIsSound'
  <2>1. UNCHANGED <<exec, task, failures, claimedBy>>
      BY <1>11 DEF Heartbeat, CancelCheck, rows
  <2>2. UNCHANGED flags \/ Raise(w, r, "lost") \/ Raise(w, r, "cancelled")
      BY <1>11 DEF Heartbeat, CancelCheck
  <2>3. \A v \in Worker, q \in Run : "stopped" \in flags'[v][q] <=> "stopped" \in flags[v][q]
    <3>1. CASE UNCHANGED flags
        BY <3>1
    <3>2. ASSUME NEW f \in {"lost", "cancelled"}, flags' = [flags EXCEPT ![w][r] = flags[w][r] \cup {f}],
                 NEW v \in Worker, NEW q \in Run
          PROVE  "stopped" \in flags'[v][q] <=> "stopped" \in flags[v][q]
        BY <3>2, <1>t DEF Types, TaskTypes
    <3> QED
        BY <2>2, <3>1, <3>2 DEF Raise
  <2> QED
      BY <1>f, <2>1, <2>3, BystanderSound
<1>12. ASSUME NEW w \in Worker, Shutdown(w)
       PROVE  ExecutionIsSound'
  <2>1. UNCHANGED <<exec, task, failures, claimedBy>>
      BY <1>12 DEF Shutdown, rows
  <2>2. \A v \in Worker, q \in Run : "stopped" \in flags'[v][q] <=> "stopped" \in flags[v][q]
      BY <1>12, <1>t DEF Shutdown, Types, TaskTypes
  <2> QED
      BY <1>f, <2>1, <2>2, BystanderSound
<1>13. ASSUME NEW w \in Worker, Vanish(w)
       PROVE  ExecutionIsSound'
  <2> SUFFICES ASSUME NEW v \in Worker, NEW q \in Run
               PROVE  EntrySound(v, q)'
      BY DEF ExecutionIsSound
  <2>0. UNCHANGED claimedBy
      BY <1>13 DEF Vanish, rows
  <2>1. CASE v # w
    <3>1. /\ exec'[v][q] = exec[v][q] /\ task'[v][q] = task[v][q]
          /\ failures'[v][q] = failures[v][q] /\ flags'[v][q] = flags[v][q]
        BY <1>13, <2>1, <1>t DEF Vanish, Types, ExecTypes, TaskTypes
    <3> QED
        BY <1>e, <1>f, <2>0, <3>1, FrameSound
  <2>2. CASE v = w
    <3>1. exec'[v][q] = "none" /\ failures'[v][q] = 0 /\ \A h \in Host : task'[v][q][h] = "none"
        BY <1>13, <2>2, <1>t DEF Vanish, Types, ExecTypes, TaskTypes
    <3>2. Held(v, q)' = {} /\ Open(v, q)' = {}
        BY <3>1 DEF Held, Open
    <3>3. Cardinality(Held(v, q)') = 0 /\ Cardinality(Open(v, q)') = 0 /\ Cardinality(Host) \in Nat
        BY <3>2, FS_EmptySet, FS_CardinalityType
    <3> QED
        BY <3>1, <3>2, <3>3 DEF EntrySound
  <2> QED
      BY <2>1, <2>2
<1> QED
    BY <1>2, <1>3, <1>4, <1>5, <1>6, <1>7, <1>8, <1>9, <1>10, <1>11, <1>12, <1>13
       DEF Next, ExecutorStep, HostStep, Exit, Crash

LEMMA ExecutorInvariant == Spec => []ExecutorInv
<1>1. Init => ExecutorInv
    BY InitTypes, InitSound DEF ExecutorInv
<1>2. ExecutorInv /\ [Next]_vars => ExecutorInv'
    BY StepTypes, StepSound DEF ExecutorInv
<1> QED
    BY <1>1, <1>2, PTL DEF Spec
------------------------------------------------------------------------------
(* The theorems *)

\* Every reachable state of the runs, their rows and the processes is well typed; in
\* particular no execution counts more failures than the run has hosts.
THEOREM ExecutorTypeCorrect == Spec => []TypeOK
<1>1. ExecutorInv => TypeOK
  <2> SUFFICES ASSUME ExecutorInv PROVE TypeOK
      OBVIOUS
  <2>1. \A w \in Worker, r \in Run : failures[w][r] \in 0 .. Cardinality(Host)
    <3> SUFFICES ASSUME NEW w \in Worker, NEW r \in Run
                 PROVE  failures[w][r] \in 0 .. Cardinality(Host)
        OBVIOUS
    <3>1. failures[w][r] \in Nat
        BY DEF ExecutorInv, Types, TaskTypes
    <3>2. failures[w][r] + Cardinality(Held(w, r)) <= Cardinality(Host)
        BY DEF ExecutorInv, ExecutionIsSound, EntrySound
    <3> QED
        BY <3>1, <3>2, HostSets
  <2>2. failures \in [Worker -> [Run -> 0 .. Cardinality(Host)]]
      BY <2>1 DEF ExecutorInv, Types, TaskTypes
  <2> QED
      BY <2>2 DEF TypeOK, ExecutorInv, Types, RowTypes, HostTypes, AlertTypes, WorkerTypes, ExecTypes,
                  TaskTypes, CleanupTypes, ExecLabel, TaskLabel, Flag
<1> QED
    BY <1>1, ExecutorInvariant, PTL

\* Two live workers are never both in the execution of one run: the claiming update
\* takes a queued row only, and its winner's name stays on the row.
THEOREM OneExecutorAtATime == Spec => []OneExecutor
<1>1. ExecutorInv => OneExecutor
    BY DEF ExecutorInv, ExecutionIsSound, EntrySound, OneExecutor, Timers
<1> QED
    BY <1>1, ExecutorInvariant, PTL

\* At most MaxFailures - 1 failures are known when a host is opened, and it is one of at
\* most Concurrency: so many hosts of a run can fail, in each of its executions.
THEOREM DamageIsLimited == Spec => []BlastRadius
<1>1. ExecutorInv => BlastRadius
  <2> SUFFICES ASSUME ExecutorInv, NEW w \in Worker, NEW r \in Run
               PROVE  failures[w][r] + Cardinality({h \in Host : task[w][r][h] = "remote"})
                        <= MaxFailures - 1 + Concurrency
      BY DEF BlastRadius
  <2> DEFINE R == {h \in Host : task[w][r][h] = "remote"}
  <2>1. R \in SUBSET Open(w, r)
      BY DEF Open
  <2>2. Cardinality(R) <= Cardinality(Open(w, r)) /\ Cardinality(R) \in Nat
      BY <2>1, HostSets, FS_Subset, FS_CardinalityType
  <2>3. Cardinality(Open(w, r)) \in Nat /\ failures[w][r] \in Nat
      BY HostSets DEF ExecutorInv, Types, TaskTypes
  <2>4. failures[w][r] + Cardinality(Open(w, r)) <= MaxFailures - 1 + Concurrency
      BY DEF ExecutorInv, ExecutionIsSound, EntrySound
  <2> HIDE DEF R
  <2>5. failures[w][r] + Cardinality(R) <= MaxFailures - 1 + Concurrency
      BY <2>2, <2>3, <2>4
  <2> QED
      BY <2>5 DEF R
<1> QED
    BY <1>1, ExecutorInvariant, PTL

RowsKept ==
  \A r \in Run, h \in Host : hostStatus[r][h] \in HostEnded => hostStatus'[r][h] = hostStatus[r][h]

\* Every write to a host row is conditional on a status that has not ended.
LEMMA RowsStep == Types /\ [Next]_vars => RowsKept
<1> SUFFICES ASSUME Types, [Next]_vars PROVE RowsKept
    OBVIOUS
<1> USE DEF Types, HostTypes, RowsKept, HostEnded
<1>1. CASE UNCHANGED hostStatus
    BY <1>1
<1>2. ASSUME NEW r \in Run, NEW from \in SUBSET {"pending", "running"}, NEW to, SetHosts(r, from, to)
      PROVE  RowsKept
    BY <1>2 DEF SetHosts
<1>3. ASSUME NEW w \in Worker, NEW r \in Run, NEW h \in Host, StartHost(w, r, h) \/ ClaimHost(w, r, h)
      PROVE  RowsKept
    BY <1>3 DEF StartHost, ClaimHost
<1>4. ASSUME NEW w \in Worker, NEW r \in Run, NEW h \in Host, NEW o \in Outcome, FinishHost(w, r, h, o)
      PROVE  RowsKept
    BY <1>4 DEF FinishHost, settleHost
<1>5. ASSUME NEW w \in Worker, NEW r \in Run,
             FailHosts(w, r) \/ CancelHosts(w, r) \/ LoseRunning(w, r) \/ LosePending(w, r)
      PROVE  RowsKept
    BY <1>2, <1>5 DEF FailHosts, CancelHosts, LoseRunning, LosePending
<1>6. ASSUME NEW w \in Worker, NEW r \in Run,
             \/ Load(w, r) \/ JoinHosts(w, r) \/ Finalize(w, r) \/ Commit(w, r) \/ Notify(w, r)
             \/ ReadHosts(w, r) \/ StoreSummary(w, r) \/ AlertLost(w, r) \/ CleanupFails(w, r)
             \/ Throw(w, r) \/ GiveUp(w, r) \/ Heartbeat(w, r) \/ CancelCheck(w, r)
             \/ CancelRun(w, r) \/ Reap(w, r) \/ MarkOwn(w, r)
      PROVE  RowsKept
    BY <1>1, <1>6 DEF Load, JoinHosts, Finalize, Commit, Notify, ReadHosts, StoreSummary, AlertLost, CleanupFails,
                Throw, GiveUp, Heartbeat, CancelCheck, CancelRun, Reap, MarkOwn, rows
<1>7. ASSUME NEW w \in Worker, PickCandidate(w) \/ Claim(w) \/ Shutdown(w) \/ GraceOver(w) \/ Vanish(w)
      PROVE  RowsKept
    BY <1>1, <1>7 DEF PickCandidate, Claim, Shutdown, GraceOver, Vanish, rows
<1>8. ASSUME NEW r \in Run, Submit(r) \/ GoStale(r)
      PROVE  RowsKept
    BY <1>1, <1>8 DEF Submit, GoStale
<1>9. CASE UNCHANGED vars
    BY <1>9 DEF vars, rows
<1> HIDE DEF RowsKept, Types, HostTypes
<1>10. ASSUME NEW w \in Worker, NEW r \in Run, NEW h \in Host, HostStep(w, r, h)
      PROVE  RowsKept
    BY <1>3, <1>4, <1>10 DEF HostStep
<1>11. ASSUME NEW w \in Worker, NEW r \in Run, ExecutorStep(w, r) \/ CleanupStepOf(w, r)
       PROVE  RowsKept
    BY <1>1, <1>5, <1>6, <1>11 DEF ExecutorStep, CleanupStepOf
<1> QED
    BY <1>6, <1>7, <1>8, <1>9, <1>10, <1>11 DEF Next, Exit, Crash

\* Whoever races over a host row - a host task, the reaper, a cancellation, a shutdown,
\* an executor that lost the run - its result is written once.
THEOREM HostResultsStay == Spec => HostResultsAreFinal
<1>1. ExecutorInv /\ [Next]_vars => [RowsKept]_vars
    BY RowsStep DEF ExecutorInv
<1> QED
    BY <1>1, ExecutorInvariant, PTL DEF Spec, HostResultsAreFinal, RowsKept

\* Each step moves one run along its life cycle, or none.
LEMMA LifecycleStep == Types /\ [Next]_vars => [Lifecycle!Next]_status
<1> SUFFICES ASSUME Types, [Next]_vars PROVE [Lifecycle!Next]_status
    OBVIOUS
<1> USE DEF Types, RowTypes
<1>1. ASSUME NEW r \in Run, status[r] = "none", status' = [status EXCEPT ![r] = "queued"]
      PROVE  Lifecycle!Submit(r)
    BY <1>1 DEF Lifecycle!Submit, Lifecycle!Move, Lifecycle!Waiting
<1>2. ASSUME NEW r \in Run, status[r] = "queued", status' = [status EXCEPT ![r] = "running"]
      PROVE  Lifecycle!Claim(r)
    BY <1>2 DEF Lifecycle!Claim, Lifecycle!Move
<1>3. ASSUME NEW r \in Run, status[r] = "queued", status' = [status EXCEPT ![r] = "cancelled"]
      PROVE  Lifecycle!Withdraw(r)
    BY <1>3 DEF Lifecycle!Withdraw, Lifecycle!Move
<1>4. ASSUME NEW r \in Run, NEW s \in Ended, status[r] = "running", status' = [status EXCEPT ![r] = s]
      PROVE  Lifecycle!Finish(r)
    BY <1>4 DEF Lifecycle!Finish, Lifecycle!Move, Ended
<1>5. ASSUME NEW w \in Worker, NEW r \in Run, CancelRun(w, r)
      PROVE  UNCHANGED status \/ Lifecycle!Withdraw(r)
    BY <1>3, <1>5 DEF CancelRun
<1>6. ASSUME NEW w \in Worker, NEW r \in Run, Reap(w, r) \/ MarkOwn(w, r)
      PROVE  UNCHANGED status \/ Lifecycle!Finish(r)
    BY <1>4, <1>6 DEF Reap, MarkOwn, Reapable, Owned, Ended
<1>7. ASSUME NEW w \in Worker, NEW r \in Run, Commit(w, r)
      PROVE  UNCHANGED status \/ Lifecycle!Finish(r)
  <2>1. verdict[w][r].status \in Ended
      BY <1>7 DEF Commit, ExecTypes, Verdict
  <2> QED
      BY <1>4, <1>7, <2>1 DEF Commit, MayCommit, Owned
<1>8. ASSUME NEW w \in Worker, Claim(w)
      PROVE  UNCHANGED status \/ \E r \in Run : Lifecycle!Claim(r)
  <2>1. candidate[w] \in Run
      BY <1>8 DEF Claim, WorkerTypes
  <2> QED
      BY <1>2, <1>8, <2>1 DEF Claim, Claimable
<1>9. ASSUME NEW r \in Run, Submit(r) \/ GoStale(r)
      PROVE  UNCHANGED status \/ Lifecycle!Submit(r)
    BY <1>1, <1>9 DEF Submit, GoStale
<1>10. ASSUME NEW w \in Worker, PickCandidate(w) \/ Shutdown(w) \/ GraceOver(w) \/ Vanish(w)
       PROVE  UNCHANGED status
    BY <1>10 DEF PickCandidate, Shutdown, GraceOver, Vanish, rows
<1>11. ASSUME NEW w \in Worker, NEW r \in Run,
              \/ Load(w, r) \/ JoinHosts(w, r) \/ Finalize(w, r) \/ FailHosts(w, r) \/ Notify(w, r)
              \/ Throw(w, r) \/ GiveUp(w, r) \/ Heartbeat(w, r) \/ CancelCheck(w, r)
              \/ CleanupStepOf(w, r) \/ CleanupFails(w, r)
       PROVE  UNCHANGED status
    BY <1>11 DEF Load, JoinHosts, Finalize, FailHosts, Notify, Throw, GiveUp, Heartbeat, CancelCheck,
                 CleanupStepOf, CancelHosts, LoseRunning, LosePending, ReadHosts, StoreSummary,
                 AlertLost, CleanupFails, rows
<1>12. ASSUME NEW w \in Worker, NEW r \in Run, NEW h \in Host, HostStep(w, r, h)
       PROVE  UNCHANGED status
    BY <1>12 DEF HostStep, StartHost, ClaimHost, FinishHost
<1>13. CASE UNCHANGED vars
    BY <1>13 DEF vars, rows
<1> QED
    BY <1>5, <1>6, <1>7, <1>8, <1>9, <1>10, <1>11, <1>12, <1>13
       DEF Next, ExecutorStep, Exit, Crash, Lifecycle!Next

\* The executors, the reaper, cancellation, shutdowns and crashes together implement the
\* life cycle of a run: it is claimed once, and its final status is its last.
THEOREM ExecutorImplementsLifecycle == Spec => LifecycleSpec
<1>1. Init => Lifecycle!Init
    BY DEF Init, Lifecycle!Init
<1>2. ExecutorInv /\ [Next]_vars => [Lifecycle!Next]_status
    BY LifecycleStep DEF ExecutorInv
<1> QED
    BY <1>1, <1>2, ExecutorInvariant, PTL DEF Spec, LifecycleSpec, Lifecycle!Spec

------------------------------------------------------------------------------
(***************************************************************************)
(* A run's outcome is true to its host rows, and its alert to its outcome  *)
(* (OutcomeIsTrue of RunbookExecutor).  The invariant has two parts.       *)
(*                                                                         *)
(* RowSound: while a run is fanned out every row that has not ended is the *)
(* business of one of its tasks, so when the tasks are gone the rows have  *)
(* all ended; rows that have ended stay (RowsStep), so what finalizeRun    *)
(* counted is still there when it commits, and ever after.                 *)
(*                                                                         *)
(* Tale: one actor at a time may still speak of a run: its executor        *)
(* while the run is running and until it has notified, or the reaper after *)
(* it ended the run itself.                                                *)
(***************************************************************************)

(* The rows of a run and its tasks *)

RowSound(w, r) ==
  /\ Held(w, r) # {} => claimedBy[r] = w
  /\ Fresh(r) \/ exec[w][r] = "claimed" => \A h \in Host : hostStatus[r][h] # "running"
  /\ exec[w][r] \in {"fanout", "finalizing"} =>
       \A h \in Host :
         /\ hostStatus[r][h] = "pending" => task[w][r][h] \in {"waiting", "claiming"}
         /\ hostStatus[r][h] = "running" => task[w][r][h] = "remote"
  /\ exec[w][r] = "finalizing" => \A h \in Host : task[w][r][h] = "none"

\* A verdict of success, full or partial, that its rows bear out for good.
Borne(r, s, sum) ==
  s \in {"succeeded", "partially_failed"} =>
    LET won == {h \in Host : hostStatus[r][h] = "succeeded"} IN
    /\ won # {}
    /\ (s = "succeeded") = (won = Host)
    /\ \A h \in Host : hostStatus[r][h] \in HostEnded
    /\ sum = summarize(hostStatus[r])

VerdictSound(w, r) ==
  exec[w][r] \in {"committing", "notifying"} =>
    Borne(r, verdict[w][r].status, verdict[w][r].summary)

RowsSound == \A w \in Worker, r \in Run : RowSound(w, r)
VerdictsSound == \A w \in Worker, r \in Run : VerdictSound(w, r)

\* A row stays, or ends.
Settling(r) ==
  \A h \in Host : hostStatus'[r][h] = hostStatus[r][h] \/ hostStatus'[r][h] \in HostEnded

LEMMA SetHostsSettles ==
  ASSUME HostTypes, NEW r \in Run, NEW from, NEW to \in HostEnded, SetHosts(r, from, to)
  PROVE  \A q \in Run : Settling(q)
BY DEF HostTypes, SetHosts, Settling

LEMMA QuietSettles ==
  ASSUME UNCHANGED hostStatus
  PROVE  \A q \in Run : Settling(q)
BY DEF Settling

LEMMA RowFrame ==
  ASSUME NEW w \in Worker, NEW r \in Run, RowSound(w, r), Fresh(r)' => Fresh(r), HostTypes,
         exec'[w][r] = exec[w][r], task'[w][r] = task[w][r], Settling(r),
         claimedBy'[r] = claimedBy[r] \/ Held(w, r) = {}
  PROVE  RowSound(w, r)'
<1>1. Held(w, r)' = Held(w, r)
    BY DEF Held
<1>2. \A h \in Host : /\ hostStatus'[r][h] = "running" => hostStatus[r][h] = "running"
                      /\ hostStatus'[r][h] = "pending" => hostStatus[r][h] = "pending"
    BY DEF Settling, HostEnded
<1> QED
    BY <1>1, <1>2 DEF RowSound

\* Steps of anybody but the executor of a run and its tasks.
LEMMA BystanderRows ==
  ASSUME Types, RowsSound, \A q \in Run : Fresh(q)' => Fresh(q), \A q \in Run : Settling(q),
         UNCHANGED <<exec, task, claimedBy>>
  PROVE  RowsSound'
BY RowFrame DEF RowsSound, Types

\* An executor moves on; it starts to finalize when its tasks are gone.
LEMMA ProceedRows ==
  ASSUME Types, RowsSound, \A q \in Run : Fresh(q)' => Fresh(q), \A q \in Run : Settling(q),
         NEW w \in Worker, NEW r \in Run, NEW x \in ExecLabel \ {"claimed", "fanout"},
         exec' = [exec EXCEPT ![w][r] = x], UNCHANGED <<task, claimedBy>>,
         x = "finalizing" => exec[w][r] = "fanout" /\ \A h \in Host : task[w][r][h] = "none"
  PROVE  RowsSound'
<1> SUFFICES ASSUME NEW v \in Worker, NEW q \in Run
             PROVE  RowSound(v, q)'
    BY DEF RowsSound
<1>1. CASE exec'[v][q] = exec[v][q]
    BY <1>1, RowFrame DEF RowsSound, Types
<1>2. CASE exec'[v][q] # exec[v][q]
  <2>1. v = w /\ q = r /\ exec'[w][r] = x
      BY <1>2 DEF Types, ExecTypes
  <2>2. Held(w, r)' = Held(w, r)
      BY DEF Held
  <2>3. \A h \in Host : /\ hostStatus'[r][h] = "running" => hostStatus[r][h] = "running"
                        /\ hostStatus'[r][h] = "pending" => hostStatus[r][h] = "pending"
      BY DEF Settling, HostEnded
  <2>4. RowSound(w, r)
      BY DEF RowsSound
  <2> QED
      BY <2>1, <2>2, <2>3, <2>4 DEF RowSound
<1> QED
    BY <1>1, <1>2

LEMMA ReturnRows ==
  ASSUME Types, RowsSound, \A q \in Run : Fresh(q)' => Fresh(q), UNCHANGED hostStatus,
         NEW w \in Worker, NEW r \in Run, Return(w, r), UNCHANGED <<task, claimedBy>>
  PROVE  RowsSound'
BY ProceedRows, QuietSettles DEF Return, ExecLabel

\* The executor of a run is the only one with tasks for it.
LEMMA OnlyExecutor ==
  ASSUME ExecutorInv, RowsSound, NEW w \in Worker, NEW r \in Run, NEW h \in Host,
         task[w][r][h] # "none"
  PROVE  /\ ~Fresh(r) /\ exec[w][r] # "claimed" /\ exec[w][r] # "finalizing"
         /\ \A v \in Worker \ {w} : exec[v][r] = "none" /\ Held(v, r) = {}
<1>1. h \in Held(w, r)
    BY DEF Held
<1>2. ~Fresh(r) /\ exec[w][r] # "claimed"
    BY <1>1 DEF ExecutorInv, ExecutionIsSound, EntrySound
<1>3. claimedBy[r] = w /\ exec[w][r] # "finalizing"
    BY <1>1 DEF RowsSound, RowSound
<1>4. ASSUME NEW v \in Worker \ {w}
      PROVE  exec[v][r] = "none" /\ Held(v, r) = {}
    BY <1>3 DEF ExecutorInv, ExecutionIsSound, EntrySound, RowsSound, RowSound
<1> QED
    BY <1>2, <1>3, <1>4

\* A step of one host task: x is its place after the step, s its row.
LEMMA HostRows ==
  ASSUME ExecutorInv, RowsSound, \A q \in Run : Fresh(q)' => Fresh(q),
         NEW w \in Worker, NEW r \in Run, NEW h \in Host, NEW x, NEW s,
         task[w][r][h] # "none", task' = [task EXCEPT ![w][r][h] = x],
         hostStatus' = [hostStatus EXCEPT ![r][h] = s],
         UNCHANGED <<exec, claimedBy>>,
         exec[w][r] = "fanout" =>
           /\ s = "pending" => x \in {"waiting", "claiming"}
           /\ s = "running" => x = "remote"
  PROVE  RowsSound'
<1> USE DEF ExecutorInv, Types
<1> SUFFICES ASSUME NEW v \in Worker, NEW q \in Run
             PROVE  RowSound(v, q)'
    BY DEF RowsSound
<1>0. RowSound(v, q) /\ RowSound(w, r)
    BY DEF RowsSound
<1>1. /\ ~Fresh(r) /\ exec[w][r] # "claimed" /\ exec[w][r] # "finalizing"
      /\ \A u \in Worker \ {w} : exec[u][r] = "none" /\ Held(u, r) = {}
    BY OnlyExecutor
<1>2. CASE q # r
  <2>1. task'[v][q] = task[v][q] /\ hostStatus'[q] = hostStatus[q]
      BY <1>2 DEF TaskTypes, HostTypes
  <2>2. Settling(q)
      BY <2>1 DEF Settling
  <2> QED
      BY <1>0, <2>1, <2>2, RowFrame
<1>3. CASE q = r /\ v # w
  <2>1. Held(v, r)' = Held(v, r)
      BY <1>3 DEF Held, TaskTypes
  <2> QED
      BY <1>1, <1>3, <2>1 DEF RowSound
<1>4. CASE q = r /\ v = w
  <2>1. claimedBy[r] = w
      BY <1>0 DEF RowSound, Held
  <2>2. exec'[w][r] = "fanout" =>
          \A g \in Host :
            /\ hostStatus'[r][g] = "pending" => task'[w][r][g] \in {"waiting", "claiming"}
            /\ hostStatus'[r][g] = "running" => task'[w][r][g] = "remote"
    <3> SUFFICES ASSUME exec[w][r] = "fanout", NEW g \in Host
                 PROVE  /\ hostStatus'[r][g] = "pending" => task'[w][r][g] \in {"waiting", "claiming"}
                        /\ hostStatus'[r][g] = "running" => task'[w][r][g] = "remote"
        OBVIOUS
    <3>1. CASE g = h
      <4>1. hostStatus'[r][h] = s /\ task'[w][r][h] = x
          BY DEF TaskTypes, HostTypes
      <4> QED
          BY <3>1, <4>1
    <3>2. CASE g # h
      <4>1. hostStatus'[r][g] = hostStatus[r][g] /\ task'[w][r][g] = task[w][r][g]
          BY <3>2 DEF TaskTypes, HostTypes
      <4> QED
          BY <1>0, <4>1 DEF RowSound
    <3> QED
        BY <3>1, <3>2
  <2> QED
      BY <1>1, <1>4, <2>1, <2>2 DEF RowSound
<1> QED
    BY <1>2, <1>3, <1>4

LEMMA RowsStepSound == ExecutorInv /\ RowsSound /\ [Next]_vars => RowsSound'
<1> SUFFICES ASSUME ExecutorInv, RowsSound, [Next]_vars PROVE RowsSound'
    OBVIOUS
<1>t. Types
    BY DEF ExecutorInv
<1>0. CASE UNCHANGED vars
  <2>1. UNCHANGED <<status, claimedBy, exec, task, hostStatus>>
      BY <1>0 DEF vars, rows, local
  <2>2. \A q \in Run : Fresh(q)' => Fresh(q)
      BY <2>1 DEF Fresh
  <2> QED
      BY <1>t, <2>1, <2>2, BystanderRows, QuietSettles
<1> SUFFICES ASSUME Next PROVE RowsSound'
    BY <1>0
<1>f. \A q \in Run : Fresh(q)' => Fresh(q)
    BY <1>t, NeverFreshAgain
<1>1. ASSUME UNCHANGED <<exec, task, claimedBy, hostStatus>>
      PROVE  RowsSound'
    BY <1>1, <1>f, <1>t, BystanderRows, QuietSettles
<1>2. ASSUME NEW r \in Run, Submit(r) \/ GoStale(r)
      PROVE  RowsSound'
    BY <1>1, <1>2 DEF Submit, GoStale, local
<1>3. ASSUME NEW w \in Worker, PickCandidate(w) \/ GraceOver(w) \/ Shutdown(w)
      PROVE  RowsSound'
    BY <1>1, <1>3 DEF PickCandidate, GraceOver, Shutdown, rows
<1>4. ASSUME NEW w \in Worker, NEW r \in Run,
             \/ CancelRun(w, r) \/ Reap(w, r) \/ MarkOwn(w, r) \/ ReadHosts(w, r) \/ StoreSummary(w, r)
             \/ AlertLost(w, r) \/ CleanupFails(w, r) \/ Heartbeat(w, r) \/ CancelCheck(w, r)
      PROVE  RowsSound'
    BY <1>1, <1>4 DEF CancelRun, Reap, MarkOwn, ReadHosts, StoreSummary, AlertLost, CleanupFails,
                      Heartbeat, CancelCheck, rows, local
<1>5. ASSUME NEW w \in Worker, NEW r \in Run, CancelHosts(w, r) \/ LoseRunning(w, r) \/ LosePending(w, r)
      PROVE  RowsSound'
  <2>1. UNCHANGED <<exec, task, claimedBy>>
      BY <1>5 DEF CancelHosts, LoseRunning, LosePending, local
  <2>2. \E from \in SUBSET {"pending", "running"}, to \in HostEnded : SetHosts(r, from, to)
      BY <1>5 DEF CancelHosts, LoseRunning, LosePending, LostStatus, HostEnded
  <2>3. \A q \in Run : Settling(q)
      BY <1>t, <2>2, SetHostsSettles DEF Types
  <2> QED
      BY <1>f, <1>t, <2>1, <2>3, BystanderRows
<1>6. ASSUME NEW w \in Worker, Claim(w)
      PROVE  RowsSound'
  <2> DEFINE c == candidate[w]
  <2>0. c \in Run /\ UNCHANGED <<task, hostStatus>>
      BY <1>6, <1>t DEF Claim, Types, WorkerTypes
  <2>1. \/ /\ Fresh(c)
           /\ claimedBy' = [claimedBy EXCEPT ![c] = w]
           /\ exec' = [exec EXCEPT ![w][c] = "claimed"] \/ UNCHANGED exec
        \/ UNCHANGED <<claimedBy, exec>>
      BY <1>6 DEF Claim, Claimable, Fresh
  <2> HIDE DEF c
  <2>2. CASE UNCHANGED <<claimedBy, exec>>
      BY <2>0, <2>2, <1>1
  <2>3. CASE /\ Fresh(c)
             /\ claimedBy' = [claimedBy EXCEPT ![c] = w]
             /\ exec' = [exec EXCEPT ![w][c] = "claimed"] \/ UNCHANGED exec
    <3> SUFFICES ASSUME NEW v \in Worker, NEW q \in Run
                 PROVE  RowSound(v, q)'
        BY DEF RowsSound
    <3>1. RowSound(v, q) /\ EntrySound(v, q)
        BY DEF RowsSound, ExecutorInv, ExecutionIsSound
    <3>2. claimedBy'[q] = claimedBy[q] \/ Held(v, q) = {}
        BY <1>t, <2>0, <2>3, <3>1 DEF EntrySound, Types, RowTypes
    <3>3. CASE exec'[v][q] = exec[v][q]
      <4>1. Settling(q) /\ task'[v][q] = task[v][q]
          BY <2>0 DEF Settling
      <4> QED
          BY <1>f, <1>t, <3>1, <3>2, <3>3, <4>1, RowFrame DEF Types
    <3>4. CASE exec'[v][q] # exec[v][q]
      <4>1. v = w /\ q = c /\ exec'[v][q] = "claimed"
          BY <1>t, <2>0, <2>3, <3>4 DEF Types, ExecTypes
      <4>2. Held(v, q)' = {}
          BY <2>0, <2>3, <3>1, <4>1 DEF EntrySound, Held
      <4>3. \A h \in Host : hostStatus'[q][h] # "running"
          BY <2>0, <2>3, <3>1, <4>1 DEF RowSound
      <4> QED
          BY <4>1, <4>2, <4>3 DEF RowSound
    <3> QED
        BY <3>3, <3>4
  <2> QED
      BY <2>1, <2>2, <2>3
<1>7. ASSUME NEW w \in Worker, NEW r \in Run, Load(w, r)
      PROVE  RowsSound'
  <2>1. UNCHANGED <<claimedBy, hostStatus>> /\ exec[w][r] = "claimed"
      BY <1>7 DEF Load, rows
  <2>2. CASE Return(w, r) /\ UNCHANGED task
      BY <1>f, <1>t, <2>1, <2>2, ReturnRows
  <2>3. CASE /\ exec' = [exec EXCEPT ![w][r] = "fanout"]
             /\ task' = [task EXCEPT ![w][r] = [h \in Host |->
                           IF hostStatus[r][h] = "pending" THEN "waiting" ELSE "none"]]
    <3> SUFFICES ASSUME NEW v \in Worker, NEW q \in Run
                 PROVE  RowSound(v, q)'
        BY DEF RowsSound
    <3>0. RowSound(v, q) /\ EntrySound(v, q)
        BY DEF RowsSound, ExecutorInv, ExecutionIsSound
    <3>1. CASE v # w \/ q # r
      <4>1. task'[v][q] = task[v][q] /\ exec'[v][q] = exec[v][q] /\ Settling(q)
          BY <2>1, <2>3, <3>1, <1>t DEF Types, TaskTypes, ExecTypes, Settling
      <4> QED
          BY <1>f, <1>t, <2>1, <3>0, <4>1, RowFrame DEF Types
    <3>2. CASE v = w /\ q = r
      <4>1. claimedBy[r] = w /\ ~Fresh(r) /\ \A h \in Host : hostStatus[r][h] # "running"
          BY <2>1, <3>0, <3>2 DEF EntrySound, RowSound
      <4>2. /\ exec'[w][r] = "fanout"
            /\ \A h \in Host : hostStatus[r][h] = "pending" => task'[w][r][h] = "waiting"
          BY <2>3, <1>t DEF Types, ExecTypes, TaskTypes
      <4> QED
          BY <1>f, <2>1, <3>2, <4>1, <4>2 DEF RowSound
    <3> QED
        BY <3>1, <3>2
  <2> QED
      BY <1>7, <2>2, <2>3 DEF Load
<1>8. ASSUME NEW w \in Worker, NEW r \in Run, NEW h \in Host, StartHost(w, r, h)
      PROVE  RowsSound'
  <2>1. UNCHANGED <<exec, claimedBy>> /\ task[w][r][h] = "waiting"
      BY <1>8 DEF StartHost
  <2>2. CASE /\ task' = [task EXCEPT ![w][r][h] = "claiming"]
             /\ UNCHANGED hostStatus
    <3>1. hostStatus' = [hostStatus EXCEPT ![r][h] = hostStatus[r][h]]
        BY <1>t, <2>2 DEF Types, HostTypes
    <3>2. exec[w][r] = "fanout" => /\ hostStatus[r][h] = "pending" => "claiming" \in {"waiting", "claiming"}
                                   /\ hostStatus[r][h] = "running" => "claiming" = "remote"
        BY <2>1 DEF RowsSound, RowSound
    <3>3. task[w][r][h] # "none"
        BY <2>1
    <3> QED
        BY <1>f, <2>1, <2>2, <3>1, <3>2, <3>3, HostRows
  <2>3. ASSUME NEW s \in HostEnded, task' = [task EXCEPT ![w][r][h] = "none"],
               hostStatus' = [hostStatus EXCEPT ![r][h] =
                 IF hostStatus[r][h] = "pending" THEN s ELSE hostStatus[r][h]]
        PROVE  RowsSound'
    <3> DEFINE to == IF hostStatus[r][h] = "pending" THEN s ELSE hostStatus[r][h]
    <3>1. exec[w][r] = "fanout" => /\ to = "pending" => "none" \in {"waiting", "claiming"}
                                   /\ to = "running" => "none" = "remote"
        BY <2>1 DEF RowsSound, RowSound, HostEnded
    <3>2. hostStatus' = [hostStatus EXCEPT ![r][h] = to]
        BY <2>3
    <3>3. task[w][r][h] # "none"
        BY <2>1
    <3> HIDE DEF to
    <3> QED
        BY <1>f, <2>1, <2>3, <3>1, <3>2, <3>3, HostRows
  <2> QED
      BY <1>8, <2>2, <2>3 DEF StartHost, HostEnded
<1>9. ASSUME NEW w \in Worker, NEW r \in Run, NEW h \in Host, ClaimHost(w, r, h)
      PROVE  RowsSound'
  <2> DEFINE won == hostStatus[r][h] = "pending"
             x == IF won THEN "remote" ELSE "none"
             s == IF won THEN "running" ELSE hostStatus[r][h]
  <2>1. UNCHANGED <<exec, claimedBy>> /\ task[w][r][h] = "claiming"
        /\ task' = [task EXCEPT ![w][r][h] = x] /\ hostStatus' = [hostStatus EXCEPT ![r][h] = s]
      BY <1>9 DEF ClaimHost
  <2>2. exec[w][r] = "fanout" => s # "pending" /\ (s = "running" => x = "remote")
      BY <2>1 DEF RowsSound, RowSound
  <2> HIDE DEF x, s, won
  <2> QED
      BY <1>f, <2>1, <2>2, HostRows
<1>10. ASSUME NEW w \in Worker, NEW r \in Run, NEW h \in Host, NEW o \in Outcome, FinishHost(w, r, h, o)
       PROVE  RowsSound'
  <2> DEFINE s == settleHost(hostStatus[r][h], o)
  <2>1. UNCHANGED <<exec, claimedBy>> /\ task[w][r][h] = "remote"
        /\ task' = [task EXCEPT ![w][r][h] = "none"] /\ hostStatus' = [hostStatus EXCEPT ![r][h] = s]
      BY <1>10 DEF FinishHost
  <2>2. exec[w][r] = "fanout" => s # "pending" /\ s # "running"
      BY <2>1 DEF RowsSound, RowSound, settleHost, Outcome
  <2> HIDE DEF s
  <2> QED
      BY <1>f, <2>1, <2>2, HostRows
<1>11. ASSUME NEW w \in Worker, NEW r \in Run,
              \/ JoinHosts(w, r) \/ GiveUp(w, r) \/ Notify(w, r) \/ Commit(w, r)
              \/ Finalize(w, r) \/ Throw(w, r)
       PROVE  RowsSound'
  <2>1. UNCHANGED <<task, claimedBy, hostStatus>>
      BY <1>11 DEF JoinHosts, GiveUp, Notify, Commit, Finalize, Throw, rows
  <2>2. \/ Return(w, r)
        \/ \E x \in {"notifying", "committing", "failing"} : exec' = [exec EXCEPT ![w][r] = x]
        \/ /\ exec' = [exec EXCEPT ![w][r] = "finalizing"]
           /\ exec[w][r] = "fanout" /\ \A h \in Host : task[w][r][h] = "none"
      BY <1>11 DEF JoinHosts, GiveUp, Notify, Commit, Finalize, Throw
  <2> QED
      BY <1>f, <1>t, <2>1, <2>2, ReturnRows, ProceedRows, QuietSettles DEF ExecLabel
<1>12. ASSUME NEW w \in Worker, NEW r \in Run, FailHosts(w, r)
       PROVE  RowsSound'
  <2>1. UNCHANGED <<task, claimedBy>> /\ exec' = [exec EXCEPT ![w][r] = "committing"]
        /\ SetHosts(r, {"pending", "running"}, "failed")
      BY <1>12 DEF FailHosts
  <2>2. \A q \in Run : Settling(q)
      BY <1>t, <2>1, SetHostsSettles DEF Types, HostEnded
  <2> QED
      BY <1>f, <1>t, <2>1, <2>2, ProceedRows DEF ExecLabel
<1>13. ASSUME NEW w \in Worker, Vanish(w)
       PROVE  RowsSound'
  <2> SUFFICES ASSUME NEW v \in Worker, NEW q \in Run
               PROVE  RowSound(v, q)'
      BY DEF RowsSound
  <2>0. UNCHANGED <<claimedBy, hostStatus>> /\ RowSound(v, q)
      BY <1>13 DEF Vanish, rows, RowsSound
  <2>1. CASE v # w
    <3>1. exec'[v][q] = exec[v][q] /\ task'[v][q] = task[v][q] /\ Settling(q)
        BY <1>13, <1>t, <2>0, <2>1 DEF Vanish, Types, ExecTypes, TaskTypes, Settling
    <3> QED
        BY <1>f, <1>t, <2>0, <3>1, RowFrame DEF Types
  <2>2. CASE v = w
    <3>1. exec'[v][q] = "none" /\ \A h \in Host : task'[v][q][h] = "none"
        BY <1>13, <1>t, <2>2 DEF Vanish, Types, ExecTypes, TaskTypes
    <3>2. Held(v, q)' = {}
        BY <3>1 DEF Held
    <3> QED
        BY <1>f, <2>0, <3>1, <3>2 DEF RowSound
  <2> QED
      BY <2>1, <2>2
<1>14. ASSUME NEW w \in Worker, NEW r \in Run, NEW h \in Host, HostStep(w, r, h)
       PROVE  RowsSound'
    BY <1>8, <1>9, <1>10, <1>14 DEF HostStep
<1>15. ASSUME NEW w \in Worker, NEW r \in Run, ExecutorStep(w, r) \/ CleanupStepOf(w, r)
       PROVE  RowsSound'
    BY <1>4, <1>5, <1>7, <1>11, <1>12, <1>15 DEF ExecutorStep, CleanupStepOf
<1> QED
    BY <1>2, <1>3, <1>4, <1>6, <1>11, <1>13, <1>14, <1>15 DEF Next, Exit, Crash

------------------------------------------------------------------------------
(* The verdict *)

\* Rows that have all ended stay as they are, and so does what they bear out.
LEMMA BorneStays ==
  ASSUME Types, Types', RowsKept, NEW r \in Run, NEW s, NEW sum, Borne(r, s, sum)
  PROVE  Borne(r, s, sum)'
<1> SUFFICES ASSUME s \in {"succeeded", "partially_failed"}
             PROVE  Borne(r, s, sum)'
    BY DEF Borne
<1>1. \A h \in Host : hostStatus[r][h] \in HostEnded
    BY DEF Borne
<1>2. \A h \in Host : hostStatus'[r][h] = hostStatus[r][h]
    BY <1>1 DEF RowsKept
<1>3. hostStatus'[r] = hostStatus[r]
    BY <1>2 DEF Types, HostTypes
<1> QED
    BY <1>3 DEF Borne, summarize

\* What finalizeRun finds: every row has ended, and its verdict is borne out by them.
LEMMA VerdictBorne ==
  ASSUME Types, RowsSound, NEW w \in Worker, NEW r \in Run, exec[w][r] = "finalizing"
  PROVE  Borne(r, VerdictOf(flags[w][r], summarize(hostStatus[r])), summarize(hostStatus[r]))
<1> DEFINE sum == summarize(hostStatus[r])
           won == {h \in Host : hostStatus[r][h] = "succeeded"}
           s == VerdictOf(flags[w][r], sum)
<1>1. \A h \in Host : hostStatus[r][h] \in HostEnded
  <2>1. RowSound(w, r)
      BY DEF RowsSound
  <2>2. \A h \in Host : hostStatus[r][h] # "pending" /\ hostStatus[r][h] # "running"
      BY <2>1 DEF RowSound
  <2>3. \A h \in Host : hostStatus[r][h] \in HostStatus
      BY DEF Types, HostTypes
  <2> QED
      BY <2>2, <2>3 DEF HostStatus
<1>2. won = {h \in Host : Bucket(hostStatus[r][h]) = "succeeded"}
    BY <1>1 DEF Bucket
<1>3. sum["succeeded"] = Cardinality(won)
    BY <1>2 DEF summarize, HostEnded
<1>4. won \in SUBSET Host /\ IsFiniteSet(won)
    BY FS_Subset
<1>5. (Cardinality(won) = 0) = (won = {}) /\ (Cardinality(won) = Cardinality(Host)) = (won = Host)
  <2>1. Cardinality(won) = 0 <=> won = {}
      BY <1>4, FS_EmptySet
  <2>2. Cardinality(won) = Cardinality(Host) <=> won = Host
      BY <1>4, FS_Subset
  <2> QED
      BY <2>1, <2>2
<1> HIDE DEF won
<1>6. s \in {"succeeded", "partially_failed"} => won # {} /\ (s = "succeeded") = (won = Host)
    BY <1>3, <1>5 DEF VerdictOf
<1> QED
    BY <1>1, <1>6 DEF Borne, won

LEMMA VerdictsStep ==
  ASSUME ExecutorInv, RowsSound, VerdictsSound, Types', RowsKept, [Next]_vars
  PROVE  VerdictsSound'
<1> USE DEF ExecutorInv
<1> SUFFICES ASSUME NEW v \in Worker, NEW q \in Run
             PROVE  VerdictSound(v, q)'
    BY DEF VerdictsSound
\* The execution keeps the verdict it had, or has none to commit.
<1>1. ASSUME \/ exec'[v][q] \notin {"committing", "notifying"}
             \/ exec[v][q] \in {"committing", "notifying"} /\ verdict'[v][q] = verdict[v][q]
      PROVE  VerdictSound(v, q)'
    BY <1>1, BorneStays DEF VerdictsSound, VerdictSound
<1>2. ASSUME UNCHANGED <<exec, verdict>>
      PROVE  VerdictSound(v, q)'
    BY <1>1, <1>2
<1>3. ASSUME NEW w \in Worker, NEW r \in Run, Return(w, r)
      PROVE  VerdictSound(v, q)'
    BY <1>1, <1>3 DEF Return, Types, ExecTypes
<1>4. ASSUME NEW w \in Worker, NEW r \in Run, NEW x \in ExecLabel,
             exec' = [exec EXCEPT ![w][r] = x], UNCHANGED verdict,
             x \in {"committing", "notifying"} => exec[w][r] \in {"committing", "notifying"}
      PROVE  VerdictSound(v, q)'
    BY <1>1, <1>4 DEF Types, ExecTypes
<1>5. ASSUME NEW w \in Worker, Claim(w)
      PROVE  VerdictSound(v, q)'
  <2>1. candidate[w] \in Run
      BY <1>5 DEF Claim, Types, WorkerTypes
  <2> QED
      BY <1>2, <1>4, <1>5, <2>1 DEF Claim, ExecLabel
<1>6. ASSUME NEW w \in Worker, NEW r \in Run, Load(w, r) \/ JoinHosts(w, r)
      PROVE  VerdictSound(v, q)'
    BY <1>3, <1>4, <1>6 DEF Load, JoinHosts, ExecLabel
<1>7. ASSUME NEW w \in Worker, NEW r \in Run, GiveUp(w, r) \/ Notify(w, r) \/ Commit(w, r) \/ Throw(w, r)
      PROVE  VerdictSound(v, q)'
    BY <1>3, <1>4, <1>7 DEF GiveUp, Notify, Commit, Throw, ExecLabel
<1>8. ASSUME NEW w \in Worker, NEW r \in Run, Finalize(w, r)
      PROVE  VerdictSound(v, q)'
  <2>1. exec[w][r] = "finalizing" /\ exec' = [exec EXCEPT ![w][r] = "committing"]
      BY <1>8 DEF Finalize
  <2>2. \E s, sum : /\ Borne(r, s, sum)
                    /\ verdict' = [verdict EXCEPT ![w][r] = [status |-> s, summary |-> sum]]
      BY <1>8, <2>1, VerdictBorne DEF Finalize
  <2>3. PICK s, sum : /\ Borne(r, s, sum)
                      /\ verdict' = [verdict EXCEPT ![w][r] = [status |-> s, summary |-> sum]]
      BY <2>2
  <2>4. CASE v = w /\ q = r
    <3>1. verdict'[w][r].status = s /\ verdict'[w][r].summary = sum
        BY <2>3 DEF Types, ExecTypes
    <3>2. Borne(r, s, sum)'
        BY <2>3, BorneStays
    <3> QED
        BY <2>4, <3>1, <3>2 DEF VerdictSound, Borne
  <2>5. CASE v # w \/ q # r
      BY <1>1, <2>1, <2>3, <2>5 DEF Types, ExecTypes
  <2> QED
      BY <2>4, <2>5
<1>9. ASSUME NEW w \in Worker, NEW r \in Run, FailHosts(w, r)
      PROVE  VerdictSound(v, q)'
  <2> DEFINE d == [status |-> "failed", summary |-> summarize(hostStatus'[r])]
  <2>1. /\ exec' = [exec EXCEPT ![w][r] = "committing"]
        /\ verdict' = [verdict EXCEPT ![w][r] = d]
      BY <1>9 DEF FailHosts
  <2>2. d.status = "failed"
      OBVIOUS
  <2> HIDE DEF d
  <2>3. CASE v = w /\ q = r
    <3>1. verdict'[w][r].status = "failed"
        BY <2>1, <2>2 DEF Types, ExecTypes
    <3> QED
        BY <2>3, <3>1 DEF VerdictSound, Borne
  <2>4. CASE v # w \/ q # r
      BY <1>1, <2>1, <2>4 DEF Types, ExecTypes
  <2> QED
      BY <2>3, <2>4
<1>10. ASSUME NEW w \in Worker, Vanish(w)
       PROVE  VerdictSound(v, q)'
    BY <1>1, <1>10 DEF Vanish, Types, ExecTypes
<1>11. ASSUME NEW r \in Run, Submit(r) \/ GoStale(r)
       PROVE  VerdictSound(v, q)'
    BY <1>2, <1>11 DEF Submit, GoStale, local
<1>12. ASSUME NEW w \in Worker, PickCandidate(w) \/ Shutdown(w) \/ GraceOver(w)
       PROVE  VerdictSound(v, q)'
    BY <1>2, <1>12 DEF PickCandidate, Shutdown, GraceOver
<1>13. ASSUME NEW w \in Worker, NEW r \in Run,
              \/ Heartbeat(w, r) \/ CancelCheck(w, r) \/ CancelRun(w, r) \/ Reap(w, r) \/ MarkOwn(w, r)
              \/ CleanupStepOf(w, r) \/ CleanupFails(w, r)
       PROVE  VerdictSound(v, q)'
    BY <1>2, <1>13 DEF Heartbeat, CancelCheck, CancelRun, Reap, MarkOwn, CleanupStepOf, CancelHosts,
                       LoseRunning, LosePending, ReadHosts, StoreSummary, AlertLost, CleanupFails, local
<1>14. ASSUME NEW w \in Worker, NEW r \in Run, NEW h \in Host, HostStep(w, r, h)
       PROVE  VerdictSound(v, q)'
    BY <1>2, <1>14 DEF HostStep, StartHost, ClaimHost, FinishHost
<1>15. CASE UNCHANGED vars
    BY <1>2, <1>15 DEF vars, local
<1> QED
    BY <1>5, <1>6, <1>7, <1>8, <1>9, <1>10, <1>11, <1>12, <1>13, <1>14, <1>15
       DEF Next, ExecutorStep, Exit, Crash

------------------------------------------------------------------------------
(* The tale a run leaves behind: its final status, its summary and its alert *)

\* While a run is waiting or running nobody has spoken of it; one that is being cleaned
\* up was failed or cancelled by its cleaner, whose alert is still to come until it is
\* done; and the executor about to notify is the only one with anything to say.
Tale(r) ==
  /\ status[r] \in {"none", "queued", "running"} => alerts[r] = <<>> /\ cleanup[r] = None
  /\ cleanup[r] # None =>
       \/ status[r] = "failed"
       \/ status[r] = "cancelled" /\ cleanup[r].step \in {"hosts", "done", "abandoned"}
  /\ cleanup[r] # None /\ cleanup[r].step \notin {"done", "abandoned"} => alerts[r] = <<>>
  /\ \A w \in Worker : exec[w][r] = "notifying" =>
       cleanup[r] = None /\ alerts[r] = <<>> /\ status[r] = verdict[w][r].status
  /\ AlertIsTrue(r)

TalesSound == \A r \in Run : Tale(r) /\ VerdictIsTrue(r)

OutcomeInv == ExecutorInv /\ RowsSound /\ VerdictsSound /\ TalesSound

\* Nobody starts to notify.
NotifyKept ==
  \A w \in Worker, r \in Run :
    exec'[w][r] = "notifying" => exec[w][r] = "notifying" /\ verdict'[w][r] = verdict[w][r]

LEMMA ExecutorsKeep ==
  ASSUME Types, NEW w \in Worker, NEW r \in Run, NEW x \in ExecLabel \ {"notifying"}, NEW d,
         exec' = [exec EXCEPT ![w][r] = x],
         verdict' = [verdict EXCEPT ![w][r] = d] \/ UNCHANGED verdict
  PROVE  NotifyKept
BY DEF NotifyKept, Types, ExecTypes

LEMMA TaleFrame ==
  ASSUME NotifyKept, NEW r \in Run, Tale(r), status'[r] = status[r], alerts'[r] = alerts[r],
         \/ cleanup'[r] = cleanup[r]
         \/ cleanup[r] # None /\ cleanup'[r].step \in {"done", "abandoned"}
  PROVE  Tale(r)'
BY DEF NotifyKept, Tale, AlertIsTrue

LEMMA VerdictFrame ==
  ASSUME Types, Types', RowsKept, NEW r \in Run, VerdictIsTrue(r),
         \/ status'[r] = status[r] /\ summary'[r] = summary[r]
         \/ status'[r] \notin {"succeeded", "partially_failed"}
  PROVE  VerdictIsTrue(r)'
<1>1. CASE status'[r] \notin {"succeeded", "partially_failed"}
    BY <1>1 DEF VerdictIsTrue
<1>2. CASE status'[r] = status[r] /\ summary'[r] = summary[r]
  <2>1. Borne(r, status[r], summary[r])
      BY DEF VerdictIsTrue, Borne
  <2>2. PICK s, sum : s = status[r] /\ sum = summary[r]
      OBVIOUS
  <2>3. Borne(r, s, sum)'
      BY <2>1, <2>2, BorneStays
  <2> QED
      BY <1>2, <2>2, <2>3 DEF VerdictIsTrue, Borne
<1> QED
    BY <1>1, <1>2

\* Steps that touch no status, summary, alert or cleanup, and notify nobody.
LEMMA SilentTales ==
  ASSUME Types, Types', RowsKept, TalesSound, NotifyKept,
         UNCHANGED <<status, summary, alerts, cleanup>>
  PROVE  TalesSound'
BY TaleFrame, VerdictFrame DEF TalesSound

\* A waiting or running run takes its next status, and perhaps a cleaner.
LEMMA MoveTales ==
  ASSUME ExecutorInv, Types', RowsKept, TalesSound, NotifyKept, UNCHANGED <<summary, alerts>>,
         NEW r \in Run, status[r] \in {"none", "queued", "running"},
         status'[r] \in {"queued", "running", "failed", "cancelled"},
         \A q \in Run : q # r => status'[q] = status[q] /\ cleanup'[q] = cleanup[q],
         status'[r] \in {"queued", "running"} => cleanup'[r] = None,
         status'[r] = "cancelled" => cleanup'[r].step \in {"hosts", "done", "abandoned"}
  PROVE  TalesSound'
<1> USE DEF ExecutorInv, Types, RowTypes, CleanupTypes
<1> SUFFICES ASSUME NEW q \in Run
             PROVE  Tale(q)' /\ VerdictIsTrue(q)'
    BY DEF TalesSound
<1>0. Tale(q) /\ VerdictIsTrue(q)
    BY DEF TalesSound
<1>1. CASE q # r
  <2>1. status'[q] = status[q] /\ cleanup'[q] = cleanup[q]
      BY <1>1
  <2> QED
      BY <1>0, <2>1, TaleFrame, VerdictFrame
<1>2. CASE q = r
  <2>1. alerts[r] = <<>> /\ alerts'[r] = <<>>
      BY <1>0, <1>2 DEF Tale
  <2>2. \A w \in Worker : exec'[w][r] # "notifying"
    <3>1. \A w \in Worker : exec[w][r] = "notifying" => verdict[w][r].status \in Ended
        BY DEF ExecTypes, Verdict
    <3> QED
        BY <1>0, <1>2, <3>1 DEF NotifyKept, Tale, Ended
  <2>3. VerdictIsTrue(r)'
      BY <1>0, <1>2, <2>1, VerdictFrame
  <2>4. AlertIsTrue(r)'
      BY <2>1 DEF AlertIsTrue
  <2> QED
      BY <1>2, <2>1, <2>2, <2>3, <2>4 DEF Tale
<1> QED
    BY <1>1, <1>2

\* A step of the cleanup of a run, which has still something to do.
LEMMA CleanupTales ==
  ASSUME Types, Types', RowsKept, TalesSound, NotifyKept, UNCHANGED <<status, alerts>>,
         NEW r \in Run, cleanup[r] # None,
         \A q \in Run : q # r => summary'[q] = summary[q] /\ cleanup'[q] = cleanup[q],
         \/ cleanup'[r].step \in {"done", "abandoned"}
         \/ status[r] = "failed" /\ alerts[r] = <<>>
  PROVE  TalesSound'
<1> USE DEF Types, CleanupTypes
<1> SUFFICES ASSUME NEW q \in Run
             PROVE  Tale(q)' /\ VerdictIsTrue(q)'
    BY DEF TalesSound
<1>0. Tale(q) /\ VerdictIsTrue(q)
    BY DEF TalesSound
<1>1. CASE q # r
  <2>1. cleanup'[q] = cleanup[q] /\ summary'[q] = summary[q]
      BY <1>1
  <2> QED
      BY <1>0, <2>1, TaleFrame, VerdictFrame
<1>2. CASE q = r
  <2>1. status'[r] = status[r] /\ alerts'[r] = alerts[r]
      OBVIOUS
  <2>2. status[r] \in {"failed", "cancelled"}
      BY <1>0, <1>2 DEF Tale
  <2>3. VerdictIsTrue(r)'
      BY <1>0, <1>2, <2>1, <2>2, VerdictFrame
  <2>4. Tale(r)'
    <3>1. CASE cleanup'[r].step \in {"done", "abandoned"}
        BY <1>0, <1>2, <2>1, <3>1, TaleFrame
    <3>2. CASE status[r] = "failed" /\ alerts[r] = <<>>
        BY <1>0, <1>2, <2>1, <3>2 DEF Tale, NotifyKept, AlertIsTrue
    <3> QED
        BY <3>1, <3>2
  <2> QED
      BY <1>2, <2>3, <2>4
<1> QED
    BY <1>1, <1>2

\* The one alert of a run: by the executor that notifies, or by the reaper when done.
LEMMA EmitTales ==
  ASSUME Types, Types', RowsKept, TalesSound, UNCHANGED <<status, summary>>,
         NEW r \in Run, NEW s \in Ended, status[r] = s, alerts[r] = <<>>, Emit(r, s),
         \A w \in Worker : exec'[w][r] # "notifying",
         \A q \in Run : q # r => cleanup'[q] = cleanup[q],
         \/ cleanup'[r] = cleanup[r] /\ cleanup[r] = None
         \/ cleanup[r] # None /\ cleanup'[r].step \in {"done", "abandoned"},
         NotifyKept
  PROVE  TalesSound'
<1> USE DEF Types, AlertTypes
<1> SUFFICES ASSUME NEW q \in Run
             PROVE  Tale(q)' /\ VerdictIsTrue(q)'
    BY DEF TalesSound
<1>0. Tale(q) /\ VerdictIsTrue(q)
    BY DEF TalesSound
<1>1. CASE q # r
  <2>1. alerts'[q] = alerts[q]
      BY <1>1 DEF Emit
  <2> QED
      BY <1>0, <1>1, <2>1, TaleFrame, VerdictFrame
<1>2. CASE q = r
  <2>1. VerdictIsTrue(r)'
      BY <1>0, <1>2, VerdictFrame
  <2>2. alerts'[r] = IF r \in DryRun \/ s = "cancelled" THEN <<>>
                     ELSE IF s = "succeeded" THEN <<"resolve">> ELSE <<"trigger">>
      BY DEF Emit
  <2>3. AlertIsTrue(r)'
      BY <2>2 DEF AlertIsTrue, Ended
  <2>4. Tale(r)'
      BY <1>0, <1>2, <2>3 DEF Tale, Ended
  <2> QED
      BY <1>2, <2>1, <2>4
<1> QED
    BY <1>1, <1>2

LEMMA CommitTales ==
  ASSUME ExecutorInv, Types', RowsKept, VerdictsSound, TalesSound,
         NEW w \in Worker, NEW r \in Run, Commit(w, r)
  PROVE  TalesSound'
<1> USE DEF ExecutorInv, Types
<1>1. exec[w][r] = "committing" /\ UNCHANGED <<alerts, cleanup>>
    BY DEF Commit
<1>2. CASE ~MayCommit(w, r)
  <2>1. Return(w, r) /\ UNCHANGED <<status, summary>>
      BY <1>2 DEF Commit
  <2>2. NotifyKept
      BY <2>1, ExecutorsKeep DEF Return, ExecLabel
  <2> QED
      BY <1>1, <2>1, <2>2, SilentTales
<1>3. CASE MayCommit(w, r)
  <2>1. /\ status' = [status EXCEPT ![r] = verdict[w][r].status]
        /\ summary' = [summary EXCEPT ![r] = verdict[w][r].summary]
        /\ \/ exec' = [exec EXCEPT ![w][r] = "notifying"] /\ UNCHANGED verdict
           \/ Return(w, r)
      BY <1>3 DEF Commit
  <2>2. verdict[w][r] \in Verdict /\ verdict[w][r].status \in Ended
      BY <1>1 DEF ExecTypes, Verdict
  <2>3. status[r] = "running"
      BY <1>3 DEF MayCommit, Owned
  <2>4. \A q \in Run : Tale(q) /\ VerdictIsTrue(q)
      BY DEF TalesSound
  <2>5. alerts[r] = <<>> /\ cleanup[r] = None
      BY <2>3, <2>4 DEF Tale
  <2>6. \A v \in Worker : v # w => exec[v][r] = "none"
      BY <1>1 DEF ExecutionIsSound, EntrySound
  <2>7. \A v \in Worker, q \in Run :
          exec'[v][q] = "notifying" =>
            /\ verdict'[v][q] = verdict[v][q]
            /\ q = r => v = w
            /\ q # r => exec[v][q] = "notifying"
      BY <2>1, <2>6 DEF Return, ExecTypes
  <2> SUFFICES ASSUME NEW q \in Run
               PROVE  Tale(q)' /\ VerdictIsTrue(q)'
      BY DEF TalesSound
  <2>8. CASE q # r
    <3>1. status'[q] = status[q] /\ summary'[q] = summary[q]
        BY <2>1, <2>8 DEF RowTypes
    <3>2. Tale(q)'
        BY <1>1, <2>4, <2>7, <2>8, <3>1 DEF Tale, AlertIsTrue
    <3> QED
        BY <2>4, <3>1, <3>2, VerdictFrame
  <2>9. CASE q = r
    <3>1. status'[r] = verdict[w][r].status /\ summary'[r] = verdict[w][r].summary
        BY <2>1 DEF RowTypes
    <3>2. Tale(r)'
        BY <1>1, <2>2, <2>5, <2>7, <3>1 DEF Tale, AlertIsTrue, Ended
    <3>3. Borne(r, verdict[w][r].status, verdict[w][r].summary)
        BY <1>1 DEF VerdictsSound, VerdictSound
    <3>4. PICK s, sum : s = verdict[w][r].status /\ sum = verdict[w][r].summary
        OBVIOUS
    <3>5. Borne(r, s, sum)'
        BY <3>3, <3>4, BorneStays
    <3>6. VerdictIsTrue(r)'
        BY <3>1, <3>4, <3>5 DEF VerdictIsTrue, Borne
    <3> QED
        BY <2>9, <3>2, <3>6
  <2> QED
      BY <2>8, <2>9
<1> QED
    BY <1>2, <1>3

LEMMA TalesStep ==
  ASSUME ExecutorInv, RowsSound, VerdictsSound, TalesSound, Types', RowsKept, [Next]_vars
  PROVE  TalesSound'
<1> USE DEF ExecutorInv, Types
<1>t. \A q \in Run : Tale(q)
    BY DEF TalesSound
<1>1. ASSUME UNCHANGED <<exec, verdict>>
      PROVE  NotifyKept
    BY <1>1 DEF NotifyKept
<1>2. ASSUME NEW w \in Worker, NEW r \in Run, Return(w, r)
      PROVE  NotifyKept
    BY <1>2, ExecutorsKeep DEF Return, ExecLabel
<1>3. ASSUME UNCHANGED <<status, summary, alerts, cleanup>>, NotifyKept
      PROVE  TalesSound'
    BY <1>3, SilentTales
<1>4. ASSUME NEW r \in Run, Submit(r) \/ GoStale(r)
      PROVE  TalesSound'
  <2>1. UNCHANGED <<summary, alerts, cleanup>> /\ NotifyKept
      BY <1>1, <1>4 DEF Submit, GoStale, local
  <2>2. CASE UNCHANGED status
      BY <1>3, <2>1, <2>2
  <2>3. CASE status[r] = "none" /\ status' = [status EXCEPT ![r] = "queued"]
    <3>1. cleanup[r] = None
        BY <1>t, <2>3 DEF Tale
    <3>2. status'[r] = "queued" /\ \A q \in Run : q # r => status'[q] = status[q]
        BY <2>3 DEF RowTypes
    <3> QED
        BY <2>1, <2>3, <3>1, <3>2, MoveTales
  <2> QED
      BY <1>4, <2>2, <2>3 DEF Submit, GoStale
<1>5. ASSUME NEW w \in Worker, Claim(w)
      PROVE  TalesSound'
  <2> DEFINE c == candidate[w]
  <2>1. c \in Run /\ UNCHANGED <<summary, alerts, cleanup, verdict>>
      BY <1>5 DEF Claim, WorkerTypes
  <2>2. /\ \/ status[c] = "queued" /\ status' = [status EXCEPT ![c] = "running"]
           \/ UNCHANGED status
        /\ exec' = [exec EXCEPT ![w][c] = "claimed"] \/ UNCHANGED exec
      BY <1>5 DEF Claim, Claimable
  <2> HIDE DEF c
  <2>3. NotifyKept
      BY <1>1, <2>1, <2>2, ExecutorsKeep DEF ExecLabel
  <2>4. CASE UNCHANGED status
      BY <1>3, <2>1, <2>3, <2>4
  <2>5. CASE status[c] = "queued" /\ status' = [status EXCEPT ![c] = "running"]
    <3>1. cleanup[c] = None
        BY <1>t, <2>1, <2>5 DEF Tale
    <3>2. status'[c] = "running" /\ \A q \in Run : q # c => status'[q] = status[q]
        BY <2>1, <2>5 DEF RowTypes
    <3> QED
        BY <2>1, <2>3, <2>5, <3>1, <3>2, MoveTales
  <2> QED
      BY <2>2, <2>4, <2>5
<1>6. ASSUME NEW w \in Worker, NEW r \in Run, CancelRun(w, r) \/ Reap(w, r) \/ MarkOwn(w, r)
      PROVE  TalesSound'
  <2>1. UNCHANGED <<summary, alerts>> /\ NotifyKept
      BY <1>1, <1>6 DEF CancelRun, Reap, MarkOwn, local
  <2>2. CASE UNCHANGED <<status, cleanup>>
      BY <1>3, <2>1, <2>2
  <2>3. CASE ~UNCHANGED <<status, cleanup>>
    <3>1. /\ status[r] \in {"queued", "running"} /\ status'[r] \in {"failed", "cancelled"}
          /\ status'[r] = "cancelled" => cleanup'[r].step = "hosts"
        BY <1>6, <2>3 DEF CancelRun, Reap, MarkOwn, Reapable, Owned, Starts, RowTypes, CleanupTypes
    <3>2. \A q \in Run : q # r => status'[q] = status[q] /\ cleanup'[q] = cleanup[q]
        BY <1>6 DEF CancelRun, Reap, MarkOwn, Starts, RowTypes, CleanupTypes
    <3> QED
        BY <2>1, <3>1, <3>2, MoveTales
  <2> QED
      BY <2>2, <2>3
<1>7. ASSUME NEW w \in Worker, NEW r \in Run,
             \/ CancelHosts(w, r) \/ LoseRunning(w, r) \/ LosePending(w, r) \/ ReadHosts(w, r)
             \/ StoreSummary(w, r) \/ CleanupFails(w, r)
      PROVE  TalesSound'
  <2>1. /\ UNCHANGED <<status, alerts>> /\ NotifyKept
        /\ \A q \in Run : q # r => summary'[q] = summary[q]
      BY <1>1, <1>7 DEF CancelHosts, LoseRunning, LosePending, ReadHosts, StoreSummary, CleanupFails,
                        local, rows, RowTypes
  <2>2. cleanup[r] # None /\ cleanup[r] \in Cleanup /\ cleanup[r].step \notin {"done", "abandoned"}
      BY <1>7 DEF CancelHosts, LoseRunning, LosePending, ReadHosts, StoreSummary, CleanupFails,
                  CleansAt, Cleaning, CleanupTypes
  <2>3. \A q \in Run : q # r => cleanup'[q] = cleanup[q]
      BY <1>7 DEF CancelHosts, LoseRunning, LosePending, ReadHosts, StoreSummary, CleanupFails, Advance,
                  CleanupTypes
  <2>4. cleanup[r].step \in {"running", "pending", "read", "store"} =>
          status[r] = "failed" /\ alerts[r] = <<>>
      BY <1>t, <2>2 DEF Tale
  <2>5. ASSUME NEW s, Advance(r, s)
        PROVE  cleanup'[r].step = s
      BY <2>2, <2>5 DEF Advance, CleanupTypes, Cleanup
  <2>6. \/ cleanup'[r].step \in {"done", "abandoned"}
        \/ cleanup[r].step \in {"running", "pending", "read", "store"}
    <3>1. CASE CancelHosts(w, r) \/ CleanupFails(w, r)
        BY <2>5, <3>1 DEF CancelHosts, CleanupFails
    <3>2. CASE LoseRunning(w, r) \/ LosePending(w, r) \/ ReadHosts(w, r) \/ StoreSummary(w, r)
        BY <3>2 DEF LoseRunning, LosePending, ReadHosts, StoreSummary, CleansAt
    <3> QED
        BY <1>7, <3>1, <3>2
  <2> QED
      BY <2>1, <2>2, <2>3, <2>4, <2>6, CleanupTales
<1>8. ASSUME NEW w \in Worker, NEW r \in Run, AlertLost(w, r)
      PROVE  TalesSound'
  <2>1. UNCHANGED <<status, summary, exec, verdict>> /\ Emit(r, "failed") /\ Advance(r, "done")
      BY <1>8 DEF AlertLost, rows, local
  <2>2. cleanup[r] # None /\ cleanup[r] \in Cleanup /\ cleanup[r].step = "alert"
      BY <1>8 DEF AlertLost, CleansAt, Cleaning, CleanupTypes
  <2>3. status[r] = "failed" /\ alerts[r] = <<>> /\ \A v \in Worker : exec[v][r] # "notifying"
      BY <1>t, <2>2 DEF Tale
  <2>4. cleanup'[r].step = "done" /\ \A q \in Run : q # r => cleanup'[q] = cleanup[q]
      BY <2>1, <2>2 DEF Advance, CleanupTypes, Cleanup
  <2>5. NotifyKept /\ \A v \in Worker : exec'[v][r] # "notifying"
      BY <1>1, <2>1, <2>3
  <2> QED
      BY <2>1, <2>2, <2>3, <2>4, <2>5, EmitTales DEF Ended
<1>9. ASSUME NEW w \in Worker, NEW r \in Run, Notify(w, r)
       PROVE  TalesSound'
  <2>1. exec[w][r] = "notifying" /\ Return(w, r) /\ UNCHANGED <<status, summary, cleanup>>
      BY <1>9 DEF Notify, rows
  <2>2. NotifyKept
      BY <1>2, <2>1
  <2>3. CASE UNCHANGED alerts
      BY <1>3, <2>1, <2>2, <2>3
  <2>4. CASE Emit(r, verdict[w][r].status)
    <3>1. cleanup[r] = None /\ alerts[r] = <<>> /\ status[r] = verdict[w][r].status
        BY <1>t, <2>1 DEF Tale
    <3>2. status[r] \in Ended
        BY <2>1, <3>1 DEF ExecTypes, Verdict
    <3>3. \A v \in Worker : exec'[v][r] # "notifying"
      <4>1. \A v \in Worker : v # w => exec[v][r] = "none"
          BY <2>1 DEF ExecutionIsSound, EntrySound
      <4> QED
          BY <2>1, <4>1 DEF Return, ExecTypes
    <3>4. PICK s \in Ended : s = status[r] /\ Emit(r, s)
        BY <2>4, <3>1, <3>2
    <3> QED
        BY <2>1, <2>2, <3>1, <3>3, <3>4, EmitTales
  <2> QED
      BY <1>9, <2>3, <2>4 DEF Notify
<1>10. ASSUME NEW w \in Worker, NEW r \in Run, Commit(w, r)
       PROVE  TalesSound'
    BY <1>10, CommitTales
<1>11. ASSUME NEW w \in Worker, NEW r \in Run,
              \/ Load(w, r) \/ JoinHosts(w, r) \/ GiveUp(w, r) \/ Throw(w, r) \/ Finalize(w, r)
              \/ FailHosts(w, r)
       PROVE  TalesSound'
  <2>1. UNCHANGED <<status, summary, alerts, cleanup>>
      BY <1>11 DEF Load, JoinHosts, GiveUp, Throw, Finalize, FailHosts, rows
  <2>2. \/ Return(w, r)
        \/ \E x \in ExecLabel \ {"notifying"} :
             /\ exec' = [exec EXCEPT ![w][r] = x]
             /\ UNCHANGED verdict \/ \E d : verdict' = [verdict EXCEPT ![w][r] = d]
      BY <1>11 DEF Load, JoinHosts, GiveUp, Throw, Finalize, FailHosts, ExecLabel
  <2>3. NotifyKept
      BY <1>2, <2>2, ExecutorsKeep
  <2> QED
      BY <1>3, <2>1, <2>3
<1>12. ASSUME NEW w \in Worker, NEW r \in Run, NEW h \in Host, HostStep(w, r, h)
       PROVE  TalesSound'
    BY <1>1, <1>3, <1>12 DEF HostStep, StartHost, ClaimHost, FinishHost
<1>13. ASSUME NEW w \in Worker, NEW r \in Run, Heartbeat(w, r) \/ CancelCheck(w, r)
       PROVE  TalesSound'
    BY <1>1, <1>3, <1>13 DEF Heartbeat, CancelCheck, rows
<1>14. ASSUME NEW w \in Worker, PickCandidate(w) \/ Shutdown(w) \/ GraceOver(w)
       PROVE  TalesSound'
    BY <1>1, <1>3, <1>14 DEF PickCandidate, Shutdown, GraceOver, rows
<1>15. ASSUME NEW w \in Worker, Vanish(w)
       PROVE  TalesSound'
  <2>1. UNCHANGED <<status, summary, alerts>>
      BY <1>15 DEF Vanish, rows
  <2>2. NotifyKept
      BY <1>15 DEF Vanish, NotifyKept, ExecTypes
  <2>3. \A r \in Run :
          \/ cleanup'[r] = cleanup[r]
          \/ cleanup[r] # None /\ cleanup'[r].step \in {"done", "abandoned"}
    <3>1. \A r \in Run : r \in Cleaning(w) =>
            cleanup[r] # None /\ [cleanup[r] EXCEPT !.step = "abandoned"].step = "abandoned"
        BY DEF Cleaning, CleanupTypes, Cleanup
    <3> QED
        BY <1>15, <3>1 DEF Vanish
  <2> QED
      BY <2>1, <2>2, <2>3, TaleFrame, VerdictFrame DEF TalesSound
<1>16. CASE UNCHANGED vars
    BY <1>1, <1>3, <1>16 DEF vars, rows, local
<1> HIDE DEF Types, ExecutorInv
<1>17. ASSUME NEW w \in Worker, NEW r \in Run, ExecutorStep(w, r) \/ CleanupStepOf(w, r)
       PROVE  TalesSound'
    BY <1>7, <1>8, <1>9, <1>10, <1>11, <1>17 DEF ExecutorStep, CleanupStepOf
<1> QED
    BY <1>4, <1>5, <1>6, <1>7, <1>11, <1>12, <1>13, <1>14, <1>15, <1>16, <1>17
       DEF Next, Exit, Crash

------------------------------------------------------------------------------
(* The theorem *)

LEMMA OutcomeInit == Init => OutcomeInv
<1> SUFFICES ASSUME Init PROVE OutcomeInv
    OBVIOUS
<1>1. ExecutorInv
    BY InitTypes, InitSound DEF ExecutorInv
<1>2. RowsSound /\ VerdictsSound
    BY DEF Init, RowsSound, RowSound, VerdictsSound, VerdictSound, Held
<1>3. TalesSound
    BY DEF Init, TalesSound, Tale, AlertIsTrue, VerdictIsTrue
<1> QED
    BY <1>1, <1>2, <1>3 DEF OutcomeInv

LEMMA OutcomeStep == OutcomeInv /\ [Next]_vars => OutcomeInv'
<1> SUFFICES ASSUME OutcomeInv, [Next]_vars PROVE OutcomeInv'
    OBVIOUS
<1>1. ExecutorInv /\ RowsSound /\ VerdictsSound /\ TalesSound /\ Types
    BY DEF OutcomeInv, ExecutorInv
<1>2. Types' /\ RowsKept /\ ExecutorInv'
    BY <1>1, StepTypes, StepSound, RowsStep DEF ExecutorInv
<1>3. RowsSound' /\ VerdictsSound' /\ TalesSound'
    BY <1>1, <1>2, RowsStepSound, VerdictsStep, TalesStep
<1> QED
    BY <1>2, <1>3 DEF OutcomeInv

\* A run reported as a success was one on its hosts, its summary counts its rows, and
\* it raised at most the one alert its status calls for - whatever crashes, lost
\* replies, stalls, cancellations and shutdowns it met on the way.
THEOREM OutcomesAreTrue == Spec => []OutcomeIsTrue
<1>1. OutcomeInv => OutcomeIsTrue
    BY DEF OutcomeInv, TalesSound, Tale, OutcomeIsTrue
<1> QED
    BY <1>1, OutcomeInit, OutcomeStep, PTL DEF Spec
------------------------------------------------------------------------------
(***************************************************************************)
(* The reaper leaves no host row open (ReaperSettles of RunbookExecutor).  *)
(*                                                                         *)
(* A run the reaper has failed is running no more, so no executor makes a  *)
(* host task for it; and if none was left when it was taken, only cleanup  *)
(* and rows that end remain.  Each statement of the cleanup then adds to   *)
(* what is settled (ReapSound), whoever else writes at the same time.      *)
(***************************************************************************)

\* The reaper took the run from a process that was gone.
Reaped(r) == cleanup[r] # None /\ cleanup[r].kind = "reap" /\ ~cleanup[r].overtakes

Unattended(r) == \A v \in Worker, h \in Host : task[v][r][h] = "none"

\* What each statement of the cleanup leaves behind.
ReapSound(r) ==
  Reaped(r) =>
    /\ status[r] \in Ended /\ Unattended(r)
    /\ cleanup[r].step # "hosts"
    /\ cleanup[r].step = "pending" => \A h \in Host : hostStatus[r][h] # "running"
    /\ cleanup[r].step \in {"read", "store", "alert", "done"} =>
         \A h \in Host : hostStatus[r][h] \in HostEnded

ReaperInv == ExecutorInv /\ \A r \in Run : ReapSound(r)

\* Another run's tasks are not touched.
LEMMA OtherTasks ==
  ASSUME Types, NEW w \in Worker, NEW q \in Run, NEW r \in Run, q # r, Unattended(r), NEW x,
         task' = [task EXCEPT ![w][q] = x]
  PROVE  Unattended(r)'
<1>1. \A v \in Worker : task'[v][r] = task[v][r]
    BY DEF Types, TaskTypes
<1> QED
    BY <1>1 DEF Unattended

LEMMA OtherTask ==
  ASSUME Types, NEW w \in Worker, NEW q \in Run, NEW r \in Run, q # r, Unattended(r),
         NEW h \in Host, NEW x, task' = [task EXCEPT ![w][q][h] = x]
  PROVE  Unattended(r)'
<1>1. \A v \in Worker : task'[v][r] = task[v][r]
    BY DEF Types, TaskTypes
<1> QED
    BY <1>1 DEF Unattended

\* Host tasks are made for a running run only.
LEMMA NoNewTasks ==
  ASSUME Types, [Next]_vars, NEW r \in Run, status[r] \in Ended, Unattended(r)
  PROVE  Unattended(r)'
<1> USE DEF Types, TaskTypes
<1>1. CASE UNCHANGED task
    BY <1>1 DEF Unattended
<1>2. ASSUME NEW w \in Worker, NEW q \in Run, Load(w, q)
      PROVE  Unattended(r)'
  <2>1. CASE q = r
    <3>1. UNCHANGED task
        BY <1>2, <2>1 DEF Load, Owned, Ended
    <3> QED
        BY <1>1, <3>1
  <2>2. CASE q # r
    <3>1. UNCHANGED task \/ \E x : task' = [task EXCEPT ![w][q] = x]
        BY <1>2 DEF Load
    <3> QED
        BY <1>1, <2>2, <3>1, OtherTasks
  <2> QED
      BY <2>1, <2>2
<1>3. ASSUME NEW w \in Worker, NEW q \in Run, NEW h \in Host, HostStep(w, q, h)
      PROVE  Unattended(r)'
  <2>1. q # r
      BY <1>3 DEF Unattended, HostStep, StartHost, ClaimHost, FinishHost
  <2>2. \E x : task' = [task EXCEPT ![w][q][h] = x]
      BY <1>3 DEF HostStep, StartHost, ClaimHost, FinishHost
  <2> QED
      BY <2>1, <2>2, OtherTask
<1>4. ASSUME NEW w \in Worker, Vanish(w)
      PROVE  Unattended(r)'
    BY <1>4 DEF Vanish, Unattended
<1>5. ASSUME NEW w \in Worker, NEW q \in Run,
             \/ JoinHosts(w, q) \/ Finalize(w, q) \/ FailHosts(w, q) \/ Commit(w, q)
             \/ Notify(w, q) \/ CleanupStepOf(w, q) \/ CleanupFails(w, q)
             \/ Throw(w, q) \/ GiveUp(w, q) \/ Heartbeat(w, q) \/ CancelCheck(w, q)
             \/ CancelRun(w, q) \/ Reap(w, q) \/ MarkOwn(w, q)
      PROVE  Unattended(r)'
  <2>1. UNCHANGED task
      BY <1>5 DEF JoinHosts, Finalize, FailHosts, Commit, Notify, CleanupStepOf, CancelHosts,
                  LoseRunning, LosePending, ReadHosts, StoreSummary, AlertLost, CleanupFails,
                  Throw, GiveUp, Heartbeat, CancelCheck, CancelRun, Reap, MarkOwn, local
  <2> QED
      BY <1>1, <2>1
<1>6. ASSUME NEW w \in Worker, PickCandidate(w) \/ Claim(w) \/ Shutdown(w) \/ GraceOver(w)
      PROVE  Unattended(r)'
    BY <1>1, <1>6 DEF PickCandidate, Claim, Shutdown, GraceOver
<1>7. ASSUME NEW q \in Run, Submit(q) \/ GoStale(q)
      PROVE  Unattended(r)'
    BY <1>1, <1>7 DEF Submit, GoStale, local
<1>8. CASE UNCHANGED vars
    BY <1>1, <1>8 DEF vars, local
<1> QED
    BY <1>2, <1>3, <1>4, <1>5, <1>6, <1>7, <1>8 DEF Next, ExecutorStep, Exit, Crash

OnlyEnd(r) ==
  \A h \in Host : hostStatus'[r][h] = hostStatus[r][h] \/ hostStatus'[r][h] \in HostEnded

\* Without a task, a row changes by ending.
LEMMA RowsOnlyEnd ==
  ASSUME Types, [Next]_vars, NEW r \in Run, Unattended(r)
  PROVE  OnlyEnd(r)
<1> USE DEF Types, HostTypes, OnlyEnd
<1>1. CASE UNCHANGED hostStatus
    BY <1>1
<1>2. ASSUME NEW q \in Run, NEW from, NEW to \in HostEnded, SetHosts(q, from, to)
      PROVE  OnlyEnd(r)
    BY <1>2 DEF SetHosts
<1>3. ASSUME NEW w \in Worker, NEW q \in Run, NEW h \in Host, HostStep(w, q, h)
      PROVE  OnlyEnd(r)
  <2>1. q # r
      BY <1>3 DEF Unattended, HostStep, StartHost, ClaimHost, FinishHost
  <2>2. hostStatus'[r] = hostStatus[r]
      BY <1>3, <2>1 DEF HostStep, StartHost, ClaimHost, FinishHost
  <2> QED
      BY <2>2
<1>4. ASSUME NEW w \in Worker, NEW q \in Run,
             FailHosts(w, q) \/ CancelHosts(w, q) \/ LoseRunning(w, q) \/ LosePending(w, q)
      PROVE  OnlyEnd(r)
    BY <1>2, <1>4 DEF FailHosts, CancelHosts, LoseRunning, LosePending, LostStatus, HostEnded
<1>5. ASSUME NEW w \in Worker, NEW q \in Run,
             \/ Load(w, q) \/ JoinHosts(w, q) \/ Finalize(w, q) \/ Commit(w, q) \/ Notify(w, q)
             \/ ReadHosts(w, q) \/ StoreSummary(w, q) \/ AlertLost(w, q) \/ CleanupFails(w, q)
             \/ Throw(w, q) \/ GiveUp(w, q) \/ Heartbeat(w, q) \/ CancelCheck(w, q)
             \/ CancelRun(w, q) \/ Reap(w, q) \/ MarkOwn(w, q)
      PROVE  OnlyEnd(r)
    BY <1>1, <1>5 DEF Load, JoinHosts, Finalize, Commit, Notify, ReadHosts, StoreSummary,
                      AlertLost, CleanupFails, Throw, GiveUp, Heartbeat, CancelCheck, CancelRun,
                      Reap, MarkOwn, rows
<1>6. ASSUME NEW w \in Worker,
             PickCandidate(w) \/ Claim(w) \/ Shutdown(w) \/ GraceOver(w) \/ Vanish(w)
      PROVE  OnlyEnd(r)
    BY <1>1, <1>6 DEF PickCandidate, Claim, Shutdown, GraceOver, Vanish, rows
<1>7. ASSUME NEW q \in Run, Submit(q) \/ GoStale(q)
      PROVE  OnlyEnd(r)
    BY <1>1, <1>7 DEF Submit, GoStale
<1>8. CASE UNCHANGED vars
    BY <1>1, <1>8 DEF vars, rows
<1> HIDE DEF OnlyEnd, Types, HostTypes
<1>9. ASSUME NEW w \in Worker, NEW q \in Run, ExecutorStep(w, q) \/ CleanupStepOf(w, q)
      PROVE  OnlyEnd(r)
    BY <1>4, <1>5, <1>9 DEF ExecutorStep, CleanupStepOf
<1> QED
    BY <1>3, <1>5, <1>6, <1>7, <1>8, <1>9 DEF Next, Exit, Crash

LEMMA EndedStays ==
  ASSUME Types, [Next]_vars, NEW r \in Run, status[r] \in Ended
  PROVE  status'[r] \in Ended
<1>1. [Lifecycle!Next]_status /\ status \in [Run -> RunStatus]
    BY LifecycleStep DEF Types, RowTypes
<1>2. ASSUME NEW q \in Run, NEW from, from \cap Ended = {}, NEW to, Lifecycle!Move(q, from, to)
      PROVE  status'[r] = status[r]
  <2>1. q # r
      BY <1>2 DEF Lifecycle!Move
  <2> QED
      BY <1>1, <1>2, <2>1 DEF Lifecycle!Move
<1>3. CASE Lifecycle!WithdrawMany
  <2>1. status[r] \notin Lifecycle!Waiting
      BY DEF Lifecycle!Waiting, Ended
  <2> QED
      BY <1>3, <2>1 DEF Lifecycle!WithdrawMany
<1>4. ASSUME NEW q \in Run,
             \/ Lifecycle!Submit(q) \/ Lifecycle!Approve(q) \/ Lifecycle!Refuse(q)
             \/ Lifecycle!Withdraw(q) \/ Lifecycle!Claim(q) \/ Lifecycle!Finish(q)
      PROVE  status'[r] = status[r]
  <2>1. /\ {"none"} \cap Ended = {} /\ {"pending_approval"} \cap Ended = {}
        /\ {"queued"} \cap Ended = {} /\ {"running"} \cap Ended = {}
      BY DEF Ended
  <2> QED
      BY <1>2, <1>4, <2>1 DEF Lifecycle!Submit, Lifecycle!Approve, Lifecycle!Refuse,
         Lifecycle!Withdraw, Lifecycle!Claim, Lifecycle!Finish
<1> QED
    BY <1>1, <1>3, <1>4 DEF Lifecycle!Next

\* A run whose cleanup stays where it is, or is given up, stays sound.
LEMMA ReapFrame ==
  ASSUME Types, [Next]_vars, NEW r \in Run, ReapSound(r),
         \/ cleanup'[r] = cleanup[r]
         \/ cleanup[r] # None /\ cleanup'[r] = [cleanup[r] EXCEPT !.step = "abandoned"]
  PROVE  ReapSound(r)'
<1>1. cleanup \in [Run -> Cleanup \cup {None}]
    BY DEF Types, CleanupTypes
<1>2. /\ Reaped(r)' => Reaped(r)
      /\ Reaped(r)' => cleanup'[r].step \in {cleanup[r].step, "abandoned"}
    BY <1>1 DEF Reaped, Cleanup
<1> SUFFICES ASSUME Reaped(r), Reaped(r)' PROVE ReapSound(r)'
    BY <1>2 DEF ReapSound
<1>3. status'[r] \in Ended /\ Unattended(r)'
    BY EndedStays, NoNewTasks DEF ReapSound
<1>4. \A h \in Host : hostStatus'[r][h] = hostStatus[r][h] \/ hostStatus'[r][h] \in HostEnded
    BY RowsOnlyEnd DEF ReapSound, OnlyEnd
<1>5. "running" \notin HostEnded
    BY DEF HostEnded
<1> QED
    BY <1>2, <1>3, <1>4, <1>5 DEF ReapSound

\* The cleanup of r goes on, to step s.
LEMMA ReapAdvance ==
  ASSUME Types, [Next]_vars, NEW r \in Run, ReapSound(r), cleanup[r] # None,
         NEW s \in CleanupStep \ {"hosts"},
         cleanup'[r].kind = cleanup[r].kind, cleanup'[r].overtakes = cleanup[r].overtakes,
         cleanup'[r].step = s,
         Reaped(r) /\ s = "pending" => \A h \in Host : hostStatus'[r][h] # "running",
         Reaped(r) /\ s \in {"read", "store", "alert", "done"} =>
           \A h \in Host : hostStatus'[r][h] \in HostEnded
  PROVE  ReapSound(r)'
<1>1. Reaped(r)' => Reaped(r)
    BY DEF Reaped
<1>2. Reaped(r) => status'[r] \in Ended /\ Unattended(r)'
    BY EndedStays, NoNewTasks DEF ReapSound
<1> QED
    BY <1>1, <1>2 DEF ReapSound

\* The statements of the cleanup, one after the other.
LEMMA CleanupReaps ==
  ASSUME Types, [Next]_vars, NEW w \in Worker, NEW r \in Run, ReapSound(r), CleanupStepOf(w, r)
  PROVE  ReapSound(r)'
<1>1. /\ cleanup \in [Run -> Cleanup \cup {None}]
      /\ hostStatus \in [Run -> [Host -> HostStatus]]
    BY DEF Types, CleanupTypes, HostTypes
<1>2. cleanup[r] # None /\ cleanup[r] \in Cleanup
    BY <1>1 DEF CleanupStepOf, CancelHosts, LoseRunning, LosePending, ReadHosts, StoreSummary,
                AlertLost, CleansAt, Cleaning
<1>3. ASSUME NEW s, Advance(r, s)
      PROVE  /\ cleanup'[r].kind = cleanup[r].kind /\ cleanup'[r].step = s
             /\ cleanup'[r].overtakes = cleanup[r].overtakes
    BY <1>1, <1>2, <1>3 DEF Advance, Cleanup
<1>4. ASSUME NEW from, NEW to \in HostEnded, SetHosts(r, from, to)
      PROVE  \A h \in Host : /\ hostStatus[r][h] \in from => hostStatus'[r][h] \in HostEnded
                             /\ hostStatus[r][h] \notin from => hostStatus'[r][h] = hostStatus[r][h]
    BY <1>1, <1>4 DEF SetHosts
<1>5. CASE CancelHosts(w, r)
  <2>1. cleanup[r].step = "hosts" /\ Advance(r, "done")
      BY <1>5 DEF CancelHosts, CleansAt
  <2>2. ~Reaped(r)
      BY <2>1 DEF ReapSound
  <2>3. /\ cleanup'[r].kind = cleanup[r].kind /\ cleanup'[r].step = "done"
        /\ cleanup'[r].overtakes = cleanup[r].overtakes
      BY <1>3, <2>1
  <2>4. "done" \in CleanupStep \ {"hosts"}
      BY DEF CleanupStep
  <2> QED
      BY <1>2, <2>2, <2>3, <2>4, ReapAdvance
<1>6. CASE LoseRunning(w, r)
  <2>1. Advance(r, "pending") /\ SetHosts(r, {"running"}, "failed")
      BY <1>6 DEF LoseRunning, LostStatus
  <2>2. \A h \in Host : hostStatus'[r][h] # "running"
      BY <1>4, <2>1 DEF HostEnded
  <2>3. /\ cleanup'[r].kind = cleanup[r].kind /\ cleanup'[r].step = "pending"
        /\ cleanup'[r].overtakes = cleanup[r].overtakes
      BY <1>3, <2>1
  <2>4. "pending" \in CleanupStep \ {"hosts"}
      BY DEF CleanupStep
  <2> QED
      BY <1>2, <2>2, <2>3, <2>4, ReapAdvance
<1>7. CASE LosePending(w, r)
  <2>1. /\ Advance(r, "read") /\ SetHosts(r, {"pending"}, "skipped")
        /\ cleanup[r].step = "pending"
      BY <1>7 DEF LosePending, CleansAt
  <2>2. Reaped(r) => \A h \in Host : hostStatus[r][h] \in {"pending"} \cup HostEnded
      BY <1>1, <2>1 DEF ReapSound, HostStatus
  <2>3. Reaped(r) => \A h \in Host : hostStatus'[r][h] \in HostEnded
      BY <1>4, <2>1, <2>2 DEF HostEnded
  <2>4. /\ cleanup'[r].kind = cleanup[r].kind /\ cleanup'[r].step = "read"
        /\ cleanup'[r].overtakes = cleanup[r].overtakes
      BY <1>3, <2>1
  <2>5. "read" \in CleanupStep \ {"hosts"}
      BY DEF CleanupStep
  <2> QED
      BY <1>2, <2>3, <2>4, <2>5, ReapAdvance
<1>8. CASE ReadHosts(w, r) \/ StoreSummary(w, r) \/ AlertLost(w, r)
  <2>1. hostStatus' = hostStatus /\ cleanup[r].step \in {"read", "store", "alert"}
      BY <1>8 DEF ReadHosts, StoreSummary, AlertLost, CleansAt, rows
  <2>2. /\ cleanup'[r].kind = cleanup[r].kind /\ cleanup'[r].overtakes = cleanup[r].overtakes
        /\ cleanup'[r].step \in {"store", "alert", "done"}
    <3>1. CASE ReadHosts(w, r)
        BY <1>1, <1>2, <3>1 DEF ReadHosts, Cleanup
    <3>2. CASE StoreSummary(w, r) \/ AlertLost(w, r)
        BY <1>3, <3>2 DEF StoreSummary, AlertLost
    <3> QED
        BY <1>8, <3>1, <3>2
  <2>3. Reaped(r) => \A h \in Host : hostStatus'[r][h] \in HostEnded
      BY <2>1 DEF ReapSound
  <2> QED
      BY <1>2, <2>2, <2>3, ReapAdvance DEF CleanupStep
<1> QED
    BY <1>5, <1>6, <1>7, <1>8 DEF CleanupStepOf

\* The reaper finds no task, unless it overtakes somebody.
LEMMA ReapStarts ==
  ASSUME Types, NEW r \in Run, NEW w \in Worker, NEW k, Starts(r, w, k), UNCHANGED task,
         status'[r] \in Ended
  PROVE  ReapSound(r)'
<1>1. /\ cleanup'[r].kind = k /\ cleanup'[r].step = "running"
      /\ cleanup'[r].overtakes = (k = "reap" /\ BeingExecuted(r))
    BY DEF Starts, Types, CleanupTypes
<1>2. Reaped(r)' => Unattended(r)'
    BY <1>1 DEF Reaped, BeingExecuted, Unattended
<1> QED
    BY <1>1, <1>2 DEF ReapSound

LEMMA ReapStep ==
  ASSUME Types, [Next]_vars, NEW q \in Run, ReapSound(q)
  PROVE  ReapSound(q)'
<1>1. Types /\ ReapSound(q)
    OBVIOUS
<1>3. /\ cleanup \in [Run -> Cleanup \cup {None}] /\ status \in [Run -> RunStatus]
    BY DEF Types, CleanupTypes, RowTypes
<1>4. ASSUME cleanup'[q] = cleanup[q]
      PROVE  ReapSound(q)'
    BY <1>1, <1>4, ReapFrame
<1>5. ASSUME NEW w \in Worker, NEW r \in Run, CleanupStepOf(w, r)
      PROVE  ReapSound(q)'
  <2>1. CASE r = q
      BY <1>1, <1>5, <2>1, CleanupReaps
  <2>2. CASE r # q
    <3>1. cleanup'[q] = cleanup[q]
        BY <1>3, <1>5, <2>2 DEF CleanupStepOf, CancelHosts, LoseRunning, LosePending, ReadHosts,
                                StoreSummary, AlertLost, Advance
    <3> QED
        BY <1>4, <3>1
  <2> QED
      BY <2>1, <2>2
<1>6. ASSUME NEW w \in Worker, NEW r \in Run, Reap(w, r) \/ MarkOwn(w, r)
      PROVE  ReapSound(q)'
  <2>1. CASE cleanup' = cleanup
      BY <1>4, <2>1
  <2>2. CASE r # q
    <3>1. cleanup'[q] = cleanup[q]
        BY <1>3, <1>6, <2>2 DEF Reap, MarkOwn, Starts
    <3> QED
        BY <1>4, <3>1
  <2>3. CASE r = q /\ cleanup' # cleanup
    <3>1. PICK k \in {"reap", "shutdown"} : Starts(q, w, k)
        BY <1>6, <2>3 DEF Reap, MarkOwn
    <3>2. UNCHANGED task /\ status'[q] \in Ended
        BY <1>3, <1>6, <2>3 DEF Reap, MarkOwn, local, Ended
    <3> QED
        BY <1>1, <3>1, <3>2, ReapStarts
  <2> QED
      BY <2>1, <2>2, <2>3
<1>7. ASSUME NEW w \in Worker, NEW r \in Run, CancelRun(w, r)
      PROVE  ReapSound(q)'
  <2>1. CASE cleanup'[q] = cleanup[q]
      BY <1>4, <2>1
  <2>2. CASE cleanup'[q] # cleanup[q]
    <3>1. cleanup'[q].kind = "cancel"
        BY <1>3, <1>7, <2>2 DEF CancelRun
    <3> QED
        BY <3>1 DEF ReapSound, Reaped
  <2> QED
      BY <2>1, <2>2
<1>8. ASSUME NEW w \in Worker, NEW r \in Run, CleanupFails(w, r)
      PROVE  ReapSound(q)'
  <2>1. \/ cleanup'[q] = cleanup[q]
        \/ cleanup[q] # None /\ cleanup'[q] = [cleanup[q] EXCEPT !.step = "abandoned"]
      BY <1>3, <1>8 DEF CleanupFails, Cleaning, Advance
  <2> QED
      BY <1>1, <2>1, ReapFrame
<1>9. ASSUME NEW w \in Worker, Vanish(w)
      PROVE  ReapSound(q)'
  <2>1. \/ cleanup'[q] = cleanup[q]
        \/ cleanup[q] # None /\ cleanup'[q] = [cleanup[q] EXCEPT !.step = "abandoned"]
      BY <1>9 DEF Vanish, Cleaning
  <2> QED
      BY <1>1, <2>1, ReapFrame
<1>10. ASSUME NEW w \in Worker, NEW r \in Run,
              \/ ExecutorStep(w, r) \/ Throw(w, r) \/ GiveUp(w, r)
              \/ Heartbeat(w, r) \/ CancelCheck(w, r)
       PROVE  ReapSound(q)'
  <2>1. cleanup' = cleanup
      BY <1>10 DEF ExecutorStep, Load, JoinHosts, Finalize, FailHosts, Commit, Notify, Throw,
                   GiveUp, Heartbeat, CancelCheck
  <2> QED
      BY <1>4, <2>1
<1>11. ASSUME NEW w \in Worker, NEW r \in Run, NEW h \in Host, HostStep(w, r, h)
       PROVE  ReapSound(q)'
    BY <1>4, <1>11 DEF HostStep, StartHost, ClaimHost, FinishHost
<1>12. ASSUME NEW w \in Worker, PickCandidate(w) \/ Claim(w) \/ Shutdown(w) \/ GraceOver(w)
       PROVE  ReapSound(q)'
    BY <1>4, <1>12 DEF PickCandidate, Claim, Shutdown, GraceOver
<1>13. ASSUME NEW r \in Run, Submit(r) \/ GoStale(r)
       PROVE  ReapSound(q)'
    BY <1>4, <1>13 DEF Submit, GoStale
<1>14. CASE UNCHANGED vars
  <2>1. cleanup' = cleanup
      BY <1>14 DEF vars
  <2> QED
      BY <1>4, <2>1
<1> QED
    BY <1>5, <1>6, <1>7, <1>8, <1>9, <1>10, <1>11, <1>12, <1>13, <1>14 DEF Next, Exit, Crash

LEMMA ReaperStep == ReaperInv /\ [Next]_vars => ReaperInv'
<1> SUFFICES ASSUME ReaperInv, [Next]_vars PROVE ReaperInv'
    OBVIOUS
<1>1. ExecutorInv /\ Types /\ \A r \in Run : ReapSound(r)
    BY DEF ReaperInv, ExecutorInv
<1>2. ExecutorInv'
    BY <1>1, StepTypes, StepSound DEF ExecutorInv
<1>3. \A r \in Run : ReapSound(r)'
    BY <1>1, ReapStep
<1> QED
    BY <1>2, <1>3 DEF ReaperInv

\* Once the reaper is done with a run whose executor was gone, all its host rows have
\* ended, whatever other workers, cancellations and crashes did meanwhile.
THEOREM ReaperLeavesNothingOpen == Spec => []ReaperSettles
<1>1. Init => ReaperInv
  <2>1. Init => ExecutorInv
      BY InitTypes, InitSound DEF ExecutorInv
  <2>2. Init => \A r \in Run : ReapSound(r)
      BY DEF Init, ReapSound, Reaped
  <2> QED
      BY <2>1, <2>2 DEF ReaperInv
<1>2. ReaperInv => ReaperSettles
    BY DEF ReaperInv, ReapSound, Reaped, ReaperSettles
<1> QED
    BY <1>1, <1>2, ReaperStep, PTL DEF Spec
================================================================================
