---------------------------- MODULE RunbookExecutor ----------------------------
(***************************************************************************)
(* Execution of runbook runs by several API replicas over one database     *)
(* (apps/api/src/services/runbook-executor.service.ts): claiming a queued  *)
(* run, fanning its hosts out, the verdict, cancellation, the reaper that  *)
(* fails runs whose executor is gone, shutdown and crashes.                *)
(*                                                                         *)
(* One action is one database statement together with the synchronous code *)
(* around it.  Run and host rows live in the database and survive crashes; *)
(* everything indexed by a worker lives in that process and does not.      *)
(* Runs are numbered in creation order.                                    *)
(***************************************************************************)
EXTENDS Integers, FiniteSets, Sequences

CONSTANTS
  Run, Host,
  Worker,       \* API processes; a restarted one has a new INSTANCE_ID
  Survivor,     \* the workers that never crash and are never shut down
  DryRun,       \* the runs that only probe
  Concurrency,  \* run.concurrency
  MaxFailures,  \* run.maxFailures; null is any number above the host count
  MaxRuns,      \* RUNBOOK_MAX_CONCURRENT_RUNS
  MaxSessions,  \* RUNBOOK_MAX_SSH_SESSIONS
  MayStall,     \* may a live executor miss its heartbeats for RUNBOOK_STALE_MS?
  MaxFaults,    \* bound: database calls that throw, or whose reply is lost
  None

ASSUME RunAssumption == Run \subseteq Nat /\ IsFiniteSet(Run)
ASSUME HostAssumption == IsFiniteSet(Host) /\ Host # {}
ASSUME WorkerAssumption == Survivor \subseteq Worker /\ None \notin Worker
ASSUME DryRunAssumption == DryRun \subseteq Run
ASSUME LimitAssumption ==
  /\ Concurrency \in Nat \ {0} /\ MaxFailures \in Nat \ {0}
  /\ MaxRuns \in Nat \ {0} /\ MaxSessions \in Nat \ {0}
ASSUME EnvironmentAssumption == MayStall \in BOOLEAN /\ MaxFaults \in Nat
ASSUME NoneAssumption == None \notin Run

VARIABLES
  \* the rows of runbook_run
  status, claimedBy, cancelRequested, summary,
  stale,       \* heartbeatAt is older than RUNBOOK_STALE_MS
  \* the rows of runbook_host_result
  hostStatus,
  \* what left the system
  alerts,      \* alerts[r]: the alert actions emitted for run r
  \* the processes
  proc,        \* "up", "stopping" (grace period), "marking", "dead"
  candidate,   \* the run claimNextRun found and is about to claim
  toMark,      \* the runs markOwnRunsFailed still has to fail
  exec,        \* where each worker is in executeRun(run)
  task,        \* where each of its host tasks is
  flags,       \* state.cancelled, .lost, .shutdown, .stopped
  failures,    \* state.failures
  verdict,     \* the status and summary about to be committed
  cleanup,     \* who is settling the host rows of a run it just ended, and how far
  faults

rows == <<status, claimedBy, cancelRequested, summary, stale, hostStatus>>
local == <<candidate, toMark, exec, task, flags, failures, verdict>>
vars == <<rows, alerts, proc, local, cleanup, faults>>

------------------------------------------------------------------------------
(* Statuses and summaries *)

Ended == {"succeeded", "failed", "partially_failed", "cancelled"}
RunStatus == {"none", "queued", "running"} \cup Ended
HostEnded == {"succeeded", "failed", "timed_out", "cancelled", "skipped"}
HostStatus == {"pending", "running"} \cup HostEnded
Outcome == {"succeeded", "failed", "timed_out", "cancelled"}

\* A row that is neither a success, a timeout, a cancellation nor a skip is
\* counted as failed: also one still pending or running.
Bucket(s) == IF s \in HostEnded THEN s ELSE "failed"

summarize(hs) == [b \in HostEnded |-> Cardinality({h \in Host : Bucket(hs[h]) = b})]

Summary == [HostEnded -> 0 .. Cardinality(Host)]
Verdict == [status : Ended, summary : Summary]
CleanupStep == {"hosts", "running", "pending", "read", "store", "alert",
                "done", "abandoned"}
Cleanup == [by : Worker, kind : {"cancel", "reap", "shutdown"},
            step : CleanupStep, summary : Summary \cup {None},
            overtakes : BOOLEAN]

TypeOK ==
  /\ status \in [Run -> RunStatus]
  /\ claimedBy \in [Run -> Worker \cup {None}]
  /\ cancelRequested \in [Run -> BOOLEAN]
  /\ summary \in [Run -> Summary \cup {None}]
  /\ stale \in [Run -> BOOLEAN]
  /\ hostStatus \in [Run -> [Host -> HostStatus]]
  /\ alerts \in [Run -> Seq({"trigger", "resolve"})]
  /\ proc \in [Worker -> {"up", "stopping", "marking", "dead"}]
  /\ candidate \in [Worker -> Run \cup {None}]
  /\ toMark \in [Worker -> SUBSET Run]
  /\ exec \in [Worker -> [Run -> {"none", "claimed", "fanout", "finalizing",
                                  "failing", "committing", "notifying"}]]
  /\ task \in [Worker -> [Run -> [Host -> {"none", "waiting", "claiming", "remote"}]]]
  /\ flags \in [Worker -> [Run -> SUBSET {"cancelled", "lost", "shutdown", "stopped"}]]
  /\ failures \in [Worker -> [Run -> 0 .. Cardinality(Host)]]
  /\ verdict \in [Worker -> [Run -> Verdict \cup {None}]]
  /\ cleanup \in [Run -> Cleanup \cup {None}]
  /\ faults \in 0 .. MaxFaults

Init ==
  /\ status = [r \in Run |-> "none"]
  /\ claimedBy = [r \in Run |-> None]
  /\ cancelRequested = [r \in Run |-> FALSE]
  /\ summary = [r \in Run |-> None]
  /\ stale = [r \in Run |-> FALSE]
  /\ hostStatus = [r \in Run |-> [h \in Host |-> "pending"]]
  /\ alerts = [r \in Run |-> <<>>]
  /\ proc = [w \in Worker |-> "up"]
  /\ candidate = [w \in Worker |-> None]
  /\ toMark = [w \in Worker |-> {}]
  /\ exec = [w \in Worker |-> [r \in Run |-> "none"]]
  /\ task = [w \in Worker |-> [r \in Run |-> [h \in Host |-> "none"]]]
  /\ flags = [w \in Worker |-> [r \in Run |-> {}]]
  /\ failures = [w \in Worker |-> [r \in Run |-> 0]]
  /\ verdict = [w \in Worker |-> [r \in Run |-> None]]
  /\ cleanup = [r \in Run |-> None]
  /\ faults = 0

Fault == faults < MaxFaults /\ faults' = faults + 1

Alive(w) == proc[w] # "dead"

\* The map `active` of the worker: the executeRun promises not yet settled.
Active(w) == {r \in Run : exec[w][r] # "none"}

\* UPDATE ... SET status = to WHERE runId = r AND status IN from.
SetHosts(r, from, to) ==
  hostStatus' = [hostStatus EXCEPT ![r] =
    [h \in Host |-> IF @[h] \in from THEN to ELSE @[h]]]

\* WHERE id = r AND status = 'running' AND claimedBy = w.
Owned(w, r) == status[r] = "running" /\ claimedBy[r] = w

------------------------------------------------------------------------------
(* Submitting and claiming *)

\* insertRun, by a request or by the scheduler: the run and its host rows.
Submit(r) ==
  /\ status[r] = "none"
  /\ \A q \in Run : q < r => status[q] # "none"
  /\ status' = [status EXCEPT ![r] = "queued"]
  /\ UNCHANGED <<claimedBy, cancelRequested, summary, stale, hostStatus, alerts,
                 proc, local, cleanup, faults>>

Queued == {r \in Run : status[r] = "queued"}

\* workerTick and the findFirst of claimNextRun: the oldest queued run.
PickCandidate(w) ==
  /\ proc[w] = "up" /\ candidate[w] = None
  /\ Cardinality(Active(w)) < MaxRuns
  /\ \E r \in Queued :
       /\ \A q \in Queued : r <= q
       /\ candidate' = [candidate EXCEPT ![w] = r]
  /\ UNCHANGED <<rows, alerts, proc, toMark, exec, task, flags, failures, verdict,
                 cleanup, faults>>

\* Mutant: the claiming UPDATE forgets its status predicate.
ClaimableUnlessEnded(r) == status[r] \notin Ended

Claimable(r) == status[r] = "queued"

\* The claiming UPDATE, then launch.  The loser looks for another candidate.  If
\* only the reply is lost the run is claimed and nobody executes it.
Claim(w) ==
  /\ Alive(w) /\ candidate[w] # None
  /\ candidate' = [candidate EXCEPT ![w] = None]
  /\ LET r == candidate[w] IN
     \/ /\ Claimable(r)
        /\ status' = [status EXCEPT ![r] = "running"]
        /\ claimedBy' = [claimedBy EXCEPT ![r] = w]
        /\ stale' = [stale EXCEPT ![r] = FALSE]
        /\ \/ exec' = [exec EXCEPT ![w][r] = "claimed"] /\ UNCHANGED faults
           \/ Fault /\ UNCHANGED exec
     \/ ~Claimable(r) /\ UNCHANGED <<status, claimedBy, stale, exec, faults>>
  /\ UNCHANGED <<cancelRequested, summary, hostStatus, alerts, proc, toMark, task,
                 flags, failures, verdict, cleanup>>

------------------------------------------------------------------------------
(* executeRun *)

\* Nobody reads state.* of an execution any more, unless host tasks are left behind.
Forget(w, r) ==
  IF \A h \in Host : task[w][r][h] = "none"
    THEN flags' = [flags EXCEPT ![w][r] = {}] /\ failures' = [failures EXCEPT ![w][r] = 0]
    ELSE UNCHANGED <<flags, failures>>

\* executeRun(r) has settled in w: launch's finally takes it out of `active`.
Return(w, r) ==
  /\ exec' = [exec EXCEPT ![w][r] = "none"]
  /\ verdict' = [verdict EXCEPT ![w][r] = None]
  /\ Forget(w, r)

\* The run is loaded; a host task is made for every pending row.
Load(w, r) ==
  /\ Alive(w) /\ exec[w][r] = "claimed"
  /\ \/ /\ Owned(w, r)
        /\ exec' = [exec EXCEPT ![w][r] = "fanout"]
        /\ task' = [task EXCEPT ![w][r] = [h \in Host |->
             IF hostStatus[r][h] = "pending" THEN "waiting" ELSE "none"]]
        /\ UNCHANGED <<verdict, flags, failures>>
     \/ ~Owned(w, r) /\ Return(w, r) /\ UNCHANGED task
  /\ UNCHANGED <<rows, alerts, proc, candidate, toMark, cleanup, faults>>

Aborted(w, r) == flags[w][r] \cap {"cancelled", "lost", "shutdown"} # {}

Busy(w) == {rh \in Run \X Host : task[w][rh[1]][rh[2]] \in {"claiming", "remote"}}

\* perRun and globalSshLimit admit the task.
Admitted(w, r) ==
  /\ Cardinality({h \in Host : task[w][r][h] \in {"claiming", "remote"}}) < Concurrency
  /\ Cardinality(Busy(w)) < MaxSessions

\* Mutant: maxFailures is not looked at.
NeverStopped(w, r) == FALSE

Stopped(w, r) == "stopped" \in flags[w][r]

\* The head of runHost.  An aborted or stopped run settles the pending row at
\* once: the flags are never taken back, so nothing is lost by not splitting the
\* check from the update.
StartHost(w, r, h) ==
  /\ Alive(w) /\ task[w][r][h] = "waiting" /\ Admitted(w, r)
  /\ LET settled == IF Aborted(w, r) THEN "cancelled" ELSE "skipped" IN
     IF Aborted(w, r) \/ Stopped(w, r)
       THEN /\ task' = [task EXCEPT ![w][r][h] = "none"]
            /\ hostStatus' = [hostStatus EXCEPT ![r][h] =
                 IF @ = "pending" THEN settled ELSE @]
       ELSE /\ task' = [task EXCEPT ![w][r][h] = "claiming"]
            /\ UNCHANGED hostStatus
  /\ UNCHANGED <<status, claimedBy, cancelRequested, summary, stale, alerts, proc,
                 candidate, toMark, exec, flags, failures, verdict, cleanup, faults>>

\* The conditional update that takes the host; losing it ends the task.
ClaimHost(w, r, h) ==
  /\ Alive(w) /\ task[w][r][h] = "claiming"
  /\ LET won == hostStatus[r][h] = "pending" IN
     /\ task' = [task EXCEPT ![w][r][h] = IF won THEN "remote" ELSE "none"]
     /\ hostStatus' = [hostStatus EXCEPT ![r][h] = IF won THEN "running" ELSE @]
  /\ UNCHANGED <<status, claimedBy, cancelRequested, summary, stale, alerts, proc,
                 candidate, toMark, exec, flags, failures, verdict, cleanup, faults>>

\* Mutant: settleHost writes the outcome whatever the row says.
SettleAnyway(current, outcome) == outcome

settleHost(current, outcome) == IF current = "running" THEN outcome ELSE current

\* The remote command ends with some outcome, is stored if the row still says
\* running, and a failure counts towards maxFailures.
FinishHost(w, r, h, o) ==
  /\ Alive(w) /\ task[w][r][h] = "remote"
  /\ o = "cancelled" => Aborted(w, r)
  /\ task' = [task EXCEPT ![w][r][h] = "none"]
  /\ hostStatus' = [hostStatus EXCEPT ![r][h] = settleHost(@, o)]
  /\ LET bad == o \in {"failed", "timed_out"}
         n == IF bad THEN failures[w][r] + 1 ELSE failures[w][r] IN
     /\ failures' = [failures EXCEPT ![w][r] = n]
     /\ flags' = [flags EXCEPT ![w][r] =
          IF bad /\ n >= MaxFailures THEN @ \cup {"stopped"} ELSE @]
  /\ UNCHANGED <<status, claimedBy, cancelRequested, summary, stale, alerts, proc,
                 candidate, toMark, exec, verdict, cleanup, faults>>

\* Every task is done.  A run known to be lost belongs to the reaper.
JoinHosts(w, r) ==
  /\ Alive(w) /\ exec[w][r] = "fanout"
  /\ \A h \in Host : task[w][r][h] = "none"
  /\ IF "lost" \in flags[w][r]
       THEN Return(w, r)
       ELSE /\ exec' = [exec EXCEPT ![w][r] = "finalizing"]
            /\ UNCHANGED <<verdict, flags, failures>>
  /\ UNCHANGED <<rows, alerts, proc, candidate, toMark, task, cleanup, faults>>

\* Mutant: no failed row is taken for success, whatever timed out or was skipped.
VerdictByFailures(f, sum) ==
  IF "shutdown" \in f THEN "failed"
  ELSE IF "cancelled" \in f THEN "cancelled"
  ELSE IF sum["failed"] = 0 THEN "succeeded"
  ELSE "partially_failed"

\* The verdict of finalizeRun: shutdown, cancelled and stopped come first.
VerdictOf(f, sum) ==
  IF "shutdown" \in f THEN "failed"
  ELSE IF "cancelled" \in f THEN "cancelled"
  ELSE IF "stopped" \in f THEN "failed"
  ELSE IF sum["succeeded"] = Cardinality(Host) THEN "succeeded"
  ELSE IF sum["succeeded"] = 0 THEN "failed"
  ELSE "partially_failed"

\* finalizeRun reads the host rows.
Finalize(w, r) ==
  /\ Alive(w) /\ exec[w][r] = "finalizing"
  /\ LET sum == summarize(hostStatus[r]) IN
     verdict' = [verdict EXCEPT ![w][r] =
       [status |-> VerdictOf(flags[w][r], sum), summary |-> sum]]
  /\ exec' = [exec EXCEPT ![w][r] = "committing"]
  /\ Forget(w, r)
  /\ UNCHANGED <<rows, alerts, proc, candidate, toMark, task, cleanup, faults>>

\* Something in executeRun throws, or the parameters cannot be decrypted: launch
\* turns to failWholeRun.  Tasks that have started go on.
Throw(w, r) ==
  /\ Alive(w) /\ exec[w][r] \in {"claimed", "fanout", "finalizing"}
  /\ Fault
  /\ exec' = [exec EXCEPT ![w][r] = "failing"]
  /\ UNCHANGED <<rows, alerts, proc, candidate, toMark, task, flags, failures,
                 verdict, cleanup>>

\* failWholeRun throws as well: the run is left to the reaper.
GiveUp(w, r) ==
  /\ Alive(w) /\ exec[w][r] = "failing"
  /\ Fault
  /\ Return(w, r)
  /\ UNCHANGED <<rows, alerts, proc, candidate, toMark, task, cleanup>>

\* failWholeRun settles the host rows, whoever owns the run, and counts them.
FailHosts(w, r) ==
  /\ Alive(w) /\ exec[w][r] = "failing"
  /\ SetHosts(r, {"pending", "running"}, "failed")
  /\ verdict' = [verdict EXCEPT ![w][r] =
       [status |-> "failed", summary |-> summarize(hostStatus'[r])]]
  /\ exec' = [exec EXCEPT ![w][r] = "committing"]
  /\ UNCHANGED <<status, claimedBy, cancelRequested, summary, stale, alerts, proc,
                 candidate, toMark, task, flags, failures, cleanup, faults>>

\* Mutant: the final update is not conditional on owning the run.
CommitAnyway(w, r) == TRUE

MayCommit(w, r) == Owned(w, r)

\* The final update of finalizeRun and of failWholeRun.  Only the winner goes on
\* to afterRunFinished.
Commit(w, r) ==
  /\ Alive(w) /\ exec[w][r] = "committing"
  /\ \/ /\ MayCommit(w, r)
        /\ status' = [status EXCEPT ![r] = verdict[w][r].status]
        /\ summary' = [summary EXCEPT ![r] = verdict[w][r].summary]
        /\ \/ /\ exec' = [exec EXCEPT ![w][r] = "notifying"]
              /\ UNCHANGED <<verdict, flags, failures, faults>>
           \/ Fault /\ Return(w, r)       \* committed, but the reply is lost
     \/ /\ ~MayCommit(w, r)
        /\ Return(w, r)
        /\ UNCHANGED <<status, summary, faults>>
  /\ UNCHANGED <<claimedBy, cancelRequested, stale, hostStatus, alerts, proc,
                 candidate, toMark, task, cleanup>>

\* The alert of afterRunFinished: failures open the runbook's incident, success
\* closes it, a cancellation or a dry run says nothing.
Emit(r, ended) ==
  alerts' = [alerts EXCEPT ![r] =
    IF r \in DryRun \/ ended = "cancelled" THEN @
    ELSE Append(@, IF ended = "succeeded" THEN "resolve" ELSE "trigger")]

Notify(w, r) ==
  /\ Alive(w) /\ exec[w][r] = "notifying"
  /\ Return(w, r)
  /\ \/ Emit(r, verdict[w][r].status) /\ UNCHANGED faults
     \/ Fault /\ UNCHANGED alerts             \* emitAlert threw; logged
  /\ UNCHANGED <<rows, proc, candidate, toMark, task, cleanup>>

------------------------------------------------------------------------------
(* Heartbeats and cancellation *)

\* The interval timers run from the fan-out on; an answer may arrive after they
\* were cleared.
Timers(w, r) == Alive(w) /\ exec[w][r] \in {"fanout", "finalizing"}

Raise(w, r, f) == flags' = [flags EXCEPT ![w][r] = @ \cup {f}]

Heartbeat(w, r) ==
  /\ Timers(w, r)
  /\ \/ Owned(w, r) /\ stale' = [stale EXCEPT ![r] = FALSE] /\ UNCHANGED flags
     \/ ~Owned(w, r) /\ Raise(w, r, "lost") /\ UNCHANGED stale
  /\ UNCHANGED <<status, claimedBy, cancelRequested, summary, hostStatus, alerts,
                 proc, candidate, toMark, exec, task, failures, verdict, cleanup,
                 faults>>

CancelCheck(w, r) ==
  /\ Timers(w, r)
  /\ \/ ~Owned(w, r) /\ Raise(w, r, "lost")
     \/ Owned(w, r) /\ cancelRequested[r] /\ Raise(w, r, "cancelled")
  /\ UNCHANGED <<rows, alerts, proc, candidate, toMark, exec, task, failures,
                 verdict, cleanup, faults>>

\* No process is looking after the running run r.
Orphaned(r) == \A w \in Worker : ~(Alive(w) /\ r \in Active(w))

\* RUNBOOK_STALE_MS pass without a heartbeat.
GoStale(r) ==
  /\ status[r] = "running" /\ ~stale[r]
  /\ MayStall \/ Orphaned(r)
  /\ stale' = [stale EXCEPT ![r] = TRUE]
  /\ UNCHANGED <<status, claimedBy, cancelRequested, summary, hostStatus, alerts,
                 proc, local, cleanup, faults>>

\* cancelRun, served by w.  A waiting run ends here and its host rows follow; a
\* running one is only marked.
CancelRun(w, r) ==
  /\ proc[w] = "up"
  /\ \/ /\ status[r] = "queued"
        /\ status' = [status EXCEPT ![r] = "cancelled"]
        /\ cleanup' = [cleanup EXCEPT ![r] =
             [by |-> w, kind |-> "cancel", step |-> "hosts", summary |-> None,
              overtakes |-> FALSE]]
     \/ status[r] = "running" /\ ~cancelRequested[r] /\ UNCHANGED <<status, cleanup>>
  /\ cancelRequested' = [cancelRequested EXCEPT ![r] = TRUE]
  /\ UNCHANGED <<claimedBy, summary, stale, hostStatus, alerts, proc, local, faults>>

------------------------------------------------------------------------------
(* The reaper and shutdown end a run first and settle its host rows after.  *)

\* May some process still have host tasks of r?  (History, for ReaperSettles.)
BeingExecuted(r) == MayStall \/ \E v \in Worker, h \in Host : task[v][r][h] # "none"

Starts(r, w, k) ==
  cleanup' = [cleanup EXCEPT ![r] =
    [by |-> w, kind |-> k, step |-> "running", summary |-> None,
     overtakes |-> k = "reap" /\ BeingExecuted(r)]]

\* Mutant: a run being cancelled is left to its executor.
ReapableUnlessCancelling(r) ==
  status[r] = "running" /\ stale[r] /\ ~cancelRequested[r]

Reapable(r) == status[r] = "running" /\ stale[r]

\* reapRunbookRuns: a running run with a stale heartbeat fails.
Reap(w, r) ==
  /\ proc[w] = "up" /\ Reapable(r)
  /\ status' = [status EXCEPT ![r] = "failed"]
  /\ Starts(r, w, "reap")
  /\ UNCHANGED <<claimedBy, cancelRequested, summary, stale, hostStatus, alerts,
                 proc, local, faults>>

\* SIGTERM: stopRunbookWorker aborts the runs in flight and waits for them.
Shutdown(w) ==
  /\ proc[w] = "up" /\ w \notin Survivor
  /\ proc' = [proc EXCEPT ![w] = "stopping"]
  /\ flags' = [flags EXCEPT ![w] = [r \in Run |->
       IF exec[w][r] \in {"claimed", "fanout"} THEN @[r] \cup {"shutdown"} ELSE @[r]]]
  /\ UNCHANGED <<rows, alerts, candidate, toMark, exec, task, failures, verdict,
                 cleanup, faults>>

\* They have settled, or the grace period is over: markOwnRunsFailed lists what
\* is still held.
GraceOver(w) ==
  /\ proc[w] = "stopping"
  /\ proc' = [proc EXCEPT ![w] = "marking"]
  /\ toMark' = [toMark EXCEPT ![w] = {r \in Run : Owned(w, r)}]
  /\ UNCHANGED <<rows, alerts, candidate, exec, task, flags, failures, verdict,
                 cleanup, faults>>

Cleaning(w) ==
  {r \in Run : cleanup[r] # None /\ cleanup[r].by = w
                /\ cleanup[r].step \notin {"done", "abandoned"}}

MarkOwn(w, r) ==
  /\ proc[w] = "marking" /\ r \in toMark[w]
  /\ toMark' = [toMark EXCEPT ![w] = @ \ {r}]
  /\ \/ /\ Owned(w, r)
        /\ status' = [status EXCEPT ![r] = "failed"]
        /\ Starts(r, w, "shutdown")
     \/ ~Owned(w, r) /\ UNCHANGED <<status, cleanup>>
  /\ UNCHANGED <<claimedBy, cancelRequested, summary, stale, hostStatus, alerts,
                 proc, candidate, exec, task, flags, failures, verdict, faults>>

CleansAt(w, r, step) == Alive(w) /\ r \in Cleaning(w) /\ cleanup[r].step = step

Advance(r, step) == cleanup' = [cleanup EXCEPT ![r].step = step]

\* The host rows of a run cancelled before it started.
CancelHosts(w, r) ==
  /\ CleansAt(w, r, "hosts")
  /\ SetHosts(r, {"pending"}, "cancelled")
  /\ Advance(r, "done")
  /\ UNCHANGED <<status, claimedBy, cancelRequested, summary, stale, alerts, proc,
                 local, faults>>

LostStatus == "failed"

\* markHostsLost, first statement.
LoseRunning(w, r) ==
  /\ CleansAt(w, r, "running")
  /\ SetHosts(r, {"running"}, LostStatus)
  /\ Advance(r, "pending")
  /\ UNCHANGED <<status, claimedBy, cancelRequested, summary, stale, alerts, proc,
                 local, faults>>

\* Mutant: hosts that never started are forgotten.
LosePendingForgotten(w, r) ==
  /\ CleansAt(w, r, "pending")
  /\ Advance(r, "read")
  /\ UNCHANGED <<rows, alerts, proc, local, faults>>

\* markHostsLost, second statement.
LosePending(w, r) ==
  /\ CleansAt(w, r, "pending")
  /\ SetHosts(r, {"pending"}, "skipped")
  /\ Advance(r, "read")
  /\ UNCHANGED <<status, claimedBy, cancelRequested, summary, stale, alerts, proc,
                 local, faults>>

ReadHosts(w, r) ==
  /\ CleansAt(w, r, "read")
  /\ cleanup' = [cleanup EXCEPT ![r].summary = summarize(hostStatus[r]),
                                ![r].step = "store"]
  /\ UNCHANGED <<rows, alerts, proc, local, faults>>

\* The summary is stored; only the reaper tells anybody.
StoreSummary(w, r) ==
  /\ CleansAt(w, r, "store")
  /\ summary' = [summary EXCEPT ![r] = cleanup[r].summary]
  /\ Advance(r, IF cleanup[r].kind = "reap" THEN "alert" ELSE "done")
  /\ UNCHANGED <<status, claimedBy, cancelRequested, stale, hostStatus, alerts,
                 proc, local, faults>>

AlertLost(w, r) ==
  /\ CleansAt(w, r, "alert")
  /\ Emit(r, "failed")
  /\ Advance(r, "done")
  /\ UNCHANGED <<rows, proc, local, faults>>

\* A statement of the cleanup throws: the rest of it never happens.
CleanupFails(w, r) ==
  /\ Alive(w) /\ r \in Cleaning(w)
  /\ Fault
  /\ Advance(r, "abandoned")
  /\ UNCHANGED <<rows, alerts, proc, local>>

\* The process is gone: its locals, its executors, its unfinished cleanups.
Vanish(w) ==
  /\ proc' = [proc EXCEPT ![w] = "dead"]
  /\ candidate' = [candidate EXCEPT ![w] = None]
  /\ toMark' = [toMark EXCEPT ![w] = {}]
  /\ exec' = [exec EXCEPT ![w] = [r \in Run |-> "none"]]
  /\ task' = [task EXCEPT ![w] = [r \in Run |-> [h \in Host |-> "none"]]]
  /\ flags' = [flags EXCEPT ![w] = [r \in Run |-> {}]]
  /\ failures' = [failures EXCEPT ![w] = [r \in Run |-> 0]]
  /\ verdict' = [verdict EXCEPT ![w] = [r \in Run |-> None]]
  /\ cleanup' = [r \in Run |->
       IF r \in Cleaning(w) THEN [cleanup[r] EXCEPT !.step = "abandoned"]
       ELSE cleanup[r]]
  /\ UNCHANGED <<rows, alerts, faults>>

Exit(w) ==
  /\ proc[w] = "marking" /\ toMark[w] = {}
  /\ \A r \in Cleaning(w) : cleanup[r].kind # "shutdown"
  /\ Vanish(w)

Crash(w) == Alive(w) /\ w \notin Survivor /\ Vanish(w)

------------------------------------------------------------------------------
(* The specification *)

\* The steps of one executor, and of one worker on the queue or a cleanup.
ExecutorStep(w, r) ==
  \/ Load(w, r) \/ JoinHosts(w, r) \/ Finalize(w, r) \/ FailHosts(w, r)
  \/ Commit(w, r) \/ Notify(w, r)

HostStep(w, r, h) ==
  \/ StartHost(w, r, h) \/ ClaimHost(w, r, h)
  \/ \E o \in Outcome : FinishHost(w, r, h, o)

CleanupStepOf(w, r) ==
  \/ CancelHosts(w, r) \/ LoseRunning(w, r) \/ LosePending(w, r)
  \/ ReadHosts(w, r) \/ StoreSummary(w, r) \/ AlertLost(w, r)

Next ==
  \/ \E r \in Run : Submit(r) \/ GoStale(r)
  \/ \E w \in Worker :
       \/ PickCandidate(w) \/ Claim(w)
       \/ Shutdown(w) \/ GraceOver(w) \/ Exit(w) \/ Crash(w)
       \/ \E r \in Run :
            \/ ExecutorStep(w, r) \/ CleanupStepOf(w, r) \/ CleanupFails(w, r)
            \/ Throw(w, r) \/ GiveUp(w, r)
            \/ Heartbeat(w, r) \/ CancelCheck(w, r) \/ CancelRun(w, r)
            \/ Reap(w, r) \/ MarkOwn(w, r)
            \/ \E h \in Host : HostStep(w, r, h)

Spec == Init /\ [][Next]_vars

\* Timers fire, promises settle, a remote command ends (timeoutSec bounds it),
\* and a heartbeat nobody renews becomes stale.  Crashes, shutdowns, submissions
\* and cancellations are nobody's duty.
Fairness ==
  /\ \A r \in Run : WF_vars(Orphaned(r) /\ GoStale(r))
  /\ \A w \in Worker :
       /\ WF_vars(PickCandidate(w)) /\ WF_vars(Claim(w))
       /\ \A r \in Run :
            /\ WF_vars(ExecutorStep(w, r)) /\ WF_vars(Reap(w, r))
            /\ \A h \in Host : WF_vars(HostStep(w, r, h))

FairSpec == Spec /\ Fairness

------------------------------------------------------------------------------
(* Properties *)

\* Every step moves a run along its life cycle or leaves it where it is: it is
\* claimed once and its final status never changes, whoever loses a race.
Lifecycle == INSTANCE RunLifecycle
LifecycleSpec == Lifecycle!Spec

\* While its heartbeat is fresh enough not to be reaped, a running run is
\* executed by nobody but the worker whose name is on it
\* (runbook-executor.service.ts:302-306).
OneExecutor ==
  \A r \in Run, w, v \in Worker :
    /\ exec[w][r] \in {"fanout", "finalizing"} /\ Timers(v, r)
    => w = v

\* A host row that has ended keeps its status: no executor that lost its run, no
\* reaper and no cancellation rewrites a result.
HostResultsAreFinal ==
  [][\A r \in Run, h \in Host :
       hostStatus[r][h] \in HostEnded => hostStatus'[r][h] = hostStatus[r][h]]_vars

\* A run reported as succeeded succeeded on every one of its hosts, one reported
\* as partially failed on some of them, and its summary counts exactly its rows;
\* it raises at most one alert, the one its recorded status calls for, and a dry
\* run or a cancelled one none.
VerdictIsTrue(r) ==
  status[r] \in {"succeeded", "partially_failed"} =>
    LET won == {h \in Host : hostStatus[r][h] = "succeeded"} IN
    /\ won # {}
    /\ (status[r] = "succeeded") = (won = Host)
    /\ \A h \in Host : hostStatus[r][h] \in HostEnded
    /\ summary[r] = summarize(hostStatus[r])

AlertIsTrue(r) ==
  alerts[r] # <<>> =>
    /\ r \notin DryRun
    /\ \/ status[r] = "succeeded" /\ alerts[r] = <<"resolve">>
       \/ status[r] \in {"failed", "partially_failed"} /\ alerts[r] = <<"trigger">>

OutcomeIsTrue == \A r \in Run : VerdictIsTrue(r) /\ AlertIsTrue(r)

\* maxFailures limits the damage: beyond it only the hosts already started may
\* fail (runbook.ts: "Stop after this many failed hosts").
BlastRadius ==
  \A w \in Worker, r \in Run :
    failures[w][r] + Cardinality({h \in Host : task[w][r][h] = "remote"})
      <= MaxFailures - 1 + Concurrency

\* While one worker survives, every submitted run reaches a final status.
EveryRunEnds ==
  \A r \in Run : status[r] \in {"queued", "running"} ~> status[r] \in Ended

\* When the reaper is done with a run, all its host rows have ended, unless it had
\* taken the run for dead while some process was still at work on it: a host may
\* then start between its statements (runbook-executor.service.ts:711-712: "Its
\* hosts are marked EXECUTOR_LOST rather than retried").
ReaperSettles ==
  \A r \in Run :
    /\ cleanup[r] # None /\ ~cleanup[r].overtakes
    /\ cleanup[r].kind = "reap" /\ cleanup[r].step = "done"
    => \A h \in Host : hostStatus[r][h] \in HostEnded

\* The same without the exception.
LostMeansSettled ==
  \A r \in Run :
    cleanup[r] # None /\ cleanup[r].kind = "reap" /\ cleanup[r].step = "done"
      => \A h \in Host : hostStatus[r][h] \in HostEnded
==============================================================================
