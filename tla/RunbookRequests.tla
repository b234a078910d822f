---------------------------- MODULE RunbookRequests ----------------------------
(***************************************************************************)
(* The request side of runbook runs                                        *)
(* (apps/api/src/modules/runbooks/runbook.service.ts): requesting a run,   *)
(* approving, rejecting and cancelling it, expiring approvals, deleting    *)
(* the runbook; all of it against executors that claim what is queued.     *)
(*                                                                         *)
(* A request handler is a sequence of database statements; a user has one  *)
(* request in flight.  The handlers treat all host rows of a run alike, so *)
(* hosts[r] is one of them.                                                *)
(***************************************************************************)
EXTENDS Integers, FiniteSets

CONSTANTS
  Run,          \* ids, in insertion order
  User,
  Approver,     \* users whose role has runbook:approve and runbook:delete
  AsRoot,       \* does the runbook run as root?
  None

ASSUME RunAssumption == Run \subseteq Nat /\ IsFiniteSet(Run)
ASSUME UserAssumption == Approver \subseteq User /\ None \notin User
ASSUME AsRootAssumption == AsRoot \in BOOLEAN

VARIABLES
  \* the runbook
  requireApproval, deleted,
  \* its runs
  status, requestedBy, approvedBy, hosts,
  aged,         \* older than RUNBOOK_APPROVAL_TTL_HOURS
  \* the processes
  request,      \* request[u]: the handler u is waiting for, between two statements
  reaping,      \* the run the reaper has expired and whose rows it still skips
  \* history
  sensitive     \* the runbook, as the request saw it, called for a second person

vars == <<requireApproval, deleted, status, requestedBy, approvedBy, hosts, aged,
          request, reaping, sensitive>>

Ended == {"succeeded", "failed", "partially_failed", "cancelled"}
Waiting == {"pending_approval", "queued"}
RunStatus == {"none", "running", "rejected", "expired"} \cup Waiting \cup Ended
HostStatus == {"none", "pending", "running", "ended", "skipped", "cancelled"}

Idle == [op |-> "idle"]
InFlight ==
  {Idle}
  \cup [op : {"insert"}, need : BOOLEAN, second : BOOLEAN]
  \cup [op : {"approve", "expire", "skipHosts", "cancelHosts"}, run : Run]
  \cup [op : {"delete"}, ids : SUBSET Run]

TypeOK ==
  /\ requireApproval \in BOOLEAN /\ deleted \in BOOLEAN
  /\ status \in [Run -> RunStatus]
  /\ requestedBy \in [Run -> User \cup {None}]
  /\ approvedBy \in [Run -> User \cup {None}]
  /\ hosts \in [Run -> HostStatus]
  /\ aged \in [Run -> BOOLEAN]
  /\ request \in [User -> InFlight]
  /\ reaping \in Run \cup {None}
  /\ sensitive \in [Run -> BOOLEAN]

Init ==
  /\ requireApproval \in BOOLEAN /\ deleted = FALSE
  /\ status = [r \in Run |-> "none"]
  /\ requestedBy = [r \in Run |-> None]
  /\ approvedBy = [r \in Run |-> None]
  /\ hosts = [r \in Run |-> "none"]
  /\ aged = [r \in Run |-> FALSE]
  /\ request = [u \in User |-> Idle]
  /\ reaping = None
  /\ sensitive = [r \in Run |-> FALSE]

runRows == <<status, requestedBy, approvedBy, hosts, aged, sensitive>>
runbook == <<requireApproval, deleted>>

Continue(u, next) == request' = [request EXCEPT ![u] = next]

\* UPDATE runbook_host_result SET status = to WHERE runId IN R AND status = 'pending'.
SettleRows(R, to) ==
  hosts' = [r \in Run |-> IF r \in R /\ hosts[r] = "pending" THEN to ELSE hosts[r]]

------------------------------------------------------------------------------
(* Requesting *)

\* An admin switches requireApproval (updateRunbook).
EditRunbook ==
  /\ ~deleted
  /\ requireApproval' = ~requireApproval
  /\ UNCHANGED <<deleted, runRows, request, reaping>>

\* The rule the user guide states (USER_GUIDE.md:634-635); used by FourEyes only.
CallsForSecondPerson(u, dryRun) ==
  ~dryRun /\ (requireApproval \/ (AsRoot /\ u \notin Approver))

needsApproval(u, dryRun) ==
  CASE dryRun -> FALSE
    [] requireApproval -> TRUE
    [] OTHER -> AsRoot /\ u \notin Approver

\* requestRun (and rerunRun, which ends in it) loads the runbook and decides; the
\* license, the parameters and the targets are checked before it inserts.
RequestRun(u, dryRun) ==
  /\ request[u] = Idle /\ ~deleted
  /\ Continue(u, [op |-> "insert", need |-> needsApproval(u, dryRun),
                  second |-> CallsForSecondPerson(u, dryRun)])
  /\ UNCHANGED <<runbook, runRows, reaping>>

\* insertRun: the run and its pending rows, in one transaction.
InsertRun(u, r) ==
  /\ request[u].op = "insert"
  /\ status[r] = "none" /\ \A q \in Run : q < r => status[q] # "none"
  /\ status' = [status EXCEPT ![r] =
       IF request[u].need THEN "pending_approval" ELSE "queued"]
  /\ hosts' = [hosts EXCEPT ![r] = "pending"]
  /\ requestedBy' = [requestedBy EXCEPT ![r] = u]
  /\ sensitive' = [sensitive EXCEPT ![r] = request[u].second]
  /\ Continue(u, Idle)
  /\ UNCHANGED <<runbook, approvedBy, aged, reaping>>

------------------------------------------------------------------------------
(* Deciding *)

\* Mutant: the four-eyes check binds nobody.
ApprovableByAnyApprover(u, r) == u \in Approver /\ status[r] = "pending_approval"

Approvable(u, r) ==
  u \in Approver /\ status[r] = "pending_approval" /\ requestedBy[r] # u

\* approveRun loads the run and looks at the clock.
ApproveRun(u, r) ==
  /\ request[u] = Idle /\ Approvable(u, r)
  /\ Continue(u, [op |-> IF aged[r] THEN "expire" ELSE "approve", run |-> r])
  /\ UNCHANGED <<runbook, runRows, reaping>>

CommitApproval(u) ==
  /\ request[u].op = "approve"
  /\ LET r == request[u].run IN
     \/ /\ status[r] = "pending_approval"
        /\ status' = [status EXCEPT ![r] = "queued"]
        /\ approvedBy' = [approvedBy EXCEPT ![r] = u]
     \/ status[r] # "pending_approval" /\ UNCHANGED <<status, approvedBy>>
  /\ Continue(u, Idle)
  /\ UNCHANGED <<runbook, requestedBy, hosts, aged, sensitive, reaping>>

\* The late path of approveRun goes on to the host rows whether or not its update
\* of the run matched.
CommitLateExpiry(u) ==
  /\ request[u].op = "expire"
  /\ LET r == request[u].run IN
     /\ status' = [status EXCEPT ![r] = IF @ = "pending_approval" THEN "expired" ELSE @]
     /\ Continue(u, [op |-> "skipHosts", run |-> r])
  /\ UNCHANGED <<runbook, requestedBy, approvedBy, hosts, aged, sensitive, reaping>>

RejectRun(u, r) ==
  /\ request[u] = Idle /\ u \in Approver /\ status[r] = "pending_approval"
  /\ status' = [status EXCEPT ![r] = "rejected"]
  /\ Continue(u, [op |-> "skipHosts", run |-> r])
  /\ UNCHANGED <<runbook, requestedBy, approvedBy, hosts, aged, sensitive, reaping>>

\* cancelRun of a run that waits; a running one is the executor's.
CancelRun(u, r) ==
  /\ request[u] = Idle /\ status[r] \in Waiting
  /\ u = requestedBy[r] \/ u \in Approver
  /\ status' = [status EXCEPT ![r] = "cancelled"]
  /\ Continue(u, [op |-> "cancelHosts", run |-> r])
  /\ UNCHANGED <<runbook, requestedBy, approvedBy, hosts, aged, sensitive, reaping>>

RowStatus(op) == IF op = "skipHosts" THEN "skipped" ELSE "cancelled"

SettleHosts(u) ==
  /\ request[u].op \in {"skipHosts", "cancelHosts"}
  /\ SettleRows({request[u].run}, RowStatus(request[u].op))
  /\ Continue(u, Idle)
  /\ UNCHANGED <<runbook, status, requestedBy, approvedBy, aged, sensitive, reaping>>

\* The process dies or a statement throws between two statements of a handler.
LoseRequest(u) ==
  /\ request[u] # Idle
  /\ Continue(u, Idle)
  /\ UNCHANGED <<runbook, status, requestedBy, approvedBy, hosts, aged, sensitive,
                 reaping>>

------------------------------------------------------------------------------
(* Deleting the runbook: one transaction, read committed *)

\* deleteRunbook up to its findMany.
DeleteRunbook(u) ==
  /\ request[u] = Idle /\ u \in Approver /\ ~deleted
  /\ Continue(u, [op |-> "delete", ids |-> {r \in Run : status[r] \in Waiting}])
  /\ UNCHANGED <<runbook, runRows, reaping>>

\* Mutant: what was waiting when it was read is cancelled whatever happened since.
WithdrawnByDeleteRead(ids) == ids

WithdrawnByDelete(ids) == {r \in ids : status[r] \in Waiting}

\* Its updates and the commit.  The run update repeats the status test, the host
\* update does not.
CommitDelete(u) ==
  /\ request[u].op = "delete"
  /\ deleted' = TRUE
  /\ LET ids == request[u].ids IN
     /\ status' = [r \in Run |->
          IF r \in WithdrawnByDelete(ids) THEN "cancelled" ELSE status[r]]
     /\ SettleRows(ids, "cancelled")
  /\ Continue(u, Idle)
  /\ UNCHANGED <<requireApproval, requestedBy, approvedBy, aged, sensitive, reaping>>

------------------------------------------------------------------------------
(* The reaper's second half, time, and the executors *)

Age(r) ==
  /\ status[r] = "pending_approval" /\ ~aged[r]
  /\ aged' = [aged EXCEPT ![r] = TRUE]
  /\ UNCHANGED <<runbook, status, requestedBy, approvedBy, hosts, sensitive, request, reaping>>

\* Mutant: the reaper's update matches any run that is old enough.
ExpirableByAge(r) == aged[r] /\ status[r] \in Waiting

\* Mutant: the reaper looks for the wrong status.
ExpirableQueued(r) == aged[r] /\ status[r] = "queued"

Expirable(r) == aged[r] /\ status[r] = "pending_approval"

\* reapRunbookRuns: an approval nobody gave in time.
ExpireApproval(r) ==
  /\ reaping = None /\ Expirable(r)
  /\ status' = [status EXCEPT ![r] = "expired"]
  /\ reaping' = r
  /\ UNCHANGED <<runbook, requestedBy, approvedBy, hosts, aged, sensitive, request>>

ExpireHosts ==
  /\ reaping # None
  /\ SettleRows({reaping}, "skipped")
  /\ reaping' = None
  /\ UNCHANGED <<runbook, status, requestedBy, approvedBy, aged, sensitive, request>>

LoseReaper ==
  /\ reaping # None
  /\ reaping' = None
  /\ UNCHANGED <<runbook, status, requestedBy, approvedBy, hosts, aged, sensitive,
                 request>>

\* claimNextRun of some executor.
Claim(r) ==
  /\ status[r] = "queued"
  /\ status' = [status EXCEPT ![r] = "running"]
  /\ UNCHANGED <<runbook, requestedBy, approvedBy, hosts, aged, sensitive, request, reaping>>

\* The executor takes the rows that are still pending.
StartHosts(r) ==
  /\ status[r] = "running" /\ hosts[r] = "pending"
  /\ hosts' = [hosts EXCEPT ![r] = "running"]
  /\ UNCHANGED <<runbook, status, requestedBy, approvedBy, aged, sensitive, request, reaping>>

\* It (or, in its place, the reaper) ends the run; without a started host there
\* is no success.
FinishRun(r) ==
  /\ status[r] = "running"
  /\ \E s \in Ended :
       /\ s \in {"succeeded", "partially_failed"} => hosts[r] = "running"
       /\ status' = [status EXCEPT ![r] = s]
  /\ hosts' = [hosts EXCEPT ![r] = IF @ \in {"pending", "running"} THEN "ended" ELSE @]
  /\ UNCHANGED <<runbook, requestedBy, approvedBy, aged, sensitive,
                 request, reaping>>

------------------------------------------------------------------------------
(* The specification *)

Next ==
  \/ EditRunbook \/ ExpireHosts \/ LoseReaper
  \/ \E u \in User :
       \/ CommitApproval(u) \/ CommitLateExpiry(u) \/ SettleHosts(u)
       \/ LoseRequest(u) \/ DeleteRunbook(u) \/ CommitDelete(u)
       \/ \E dryRun \in BOOLEAN : RequestRun(u, dryRun)
       \/ \E r \in Run :
            InsertRun(u, r) \/ ApproveRun(u, r) \/ RejectRun(u, r) \/ CancelRun(u, r)
  \/ \E r \in Run :
       Age(r) \/ ExpireApproval(r) \/ Claim(r) \/ StartHosts(r) \/ FinishRun(r)

Spec == Init /\ [][Next]_vars

\* Time passes and the reaper runs every 30 seconds.
Fairness ==
  /\ WF_vars(ExpireHosts)
  /\ \A r \in Run : WF_vars(Age(r)) /\ WF_vars(ExpireApproval(r))

FairSpec == Spec /\ Fairness

------------------------------------------------------------------------------
(* Properties *)

\* Handlers, the reaper, deletion and executors together keep every run on its
\* life cycle: no decision overturns another.
Lifecycle == INSTANCE RunLifecycle
LifecycleSpec == Lifecycle!Spec

\* A run that called for a second person is never queued or executed unless an
\* approver other than the requester let it (runbook.service.ts:59-60, "four-eyes
\* means four eyes").
FourEyes ==
  \A r \in Run :
    sensitive[r] /\ status[r] \in {"queued", "running", "succeeded", "failed",
                                   "partially_failed"} =>
      approvedBy[r] \in Approver \ {requestedBy[r]}

\* Nobody waits for an approval for ever.
ApprovalsResolve ==
  \A r \in Run : status[r] = "pending_approval" ~> status[r] # "pending_approval"

\* A run that is queued still has all its rows to run
\* (runbook-run-factory.ts:88: "one `pending` host row per target").
QueuedRowsArePending ==
  \A r \in Run : status[r] = "queued" => hosts[r] = "pending"

\* Deleting a runbook ends the runs that have not started and leaves the others
\* alone (runbook.service.ts:417-418: "runs that have not started yet are
\* cancelled").
DeleteSparesStarted ==
  [][\A r \in Run : ~deleted /\ deleted' /\ status[r] = "running"
       => hosts'[r] = hosts[r]]_vars

\* After the runbook is deleted none of its runs is waiting to start.
DeletedRunsNothing ==
  deleted => \A r \in Run : status[r] \notin Waiting
==============================================================================
