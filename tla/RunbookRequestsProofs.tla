------------------------- MODULE RunbookRequestsProofs -------------------------
(***************************************************************************)
(* Four eyes, and the life cycle of a run, for any number of runs, users   *)
(* and approvers, whatever the handlers, the reaper and deletion do        *)
(* between each other's statements.                                        *)
(*                                                                         *)
(* FourEyes speaks of rows; what it rests on is what the handlers hold     *)
(* between two statements: an insertion carries the need for an approval   *)
(* with the run that calls for it, and an approval under way is that of an *)
(* approver who did not ask for the run (RequestsAreSound).                *)
(***************************************************************************)
EXTENDS RunbookRequests, TLAPS

USE RunAssumption, UserAssumption, AsRootAssumption

------------------------------------------------------------------------------

RequestsAreSound ==
  \A u \in User :
    /\ request[u].op = "insert" /\ request[u].second => request[u].need
    /\ request[u].op = "approve" =>
         /\ u \in Approver
         /\ status[request[u].run] # "none"
         /\ requestedBy[request[u].run] # u

RequestsInv == TypeOK /\ RequestsAreSound /\ FourEyes

\* What a request in flight carries.
LEMMA InFlightType ==
  ASSUME TypeOK, NEW u \in User
  PROVE  /\ request[u] \in InFlight
         /\ request[u].op = "insert" => request[u].need \in BOOLEAN /\ request[u].second \in BOOLEAN
         /\ request[u].op \in {"approve", "expire", "skipHosts", "cancelHosts"}
              => request[u].run \in Run
         /\ request[u].op = "delete" => request[u].ids \in SUBSET Run
BY DEF TypeOK, InFlight, Idle

\* What is put in flight keeps the type of `request`.
LEMMA ContinueType ==
  ASSUME TypeOK, NEW u \in User, NEW next \in InFlight, Continue(u, next)
  PROVE  /\ request' \in [User -> InFlight]
         /\ request'[u] = next
         /\ \A v \in User \ {u} : request'[v] = request[v]
BY DEF TypeOK, Continue

LEMMA RequestsInitInv == Init => RequestsInv
<1> SUFFICES ASSUME Init PROVE RequestsInv
    OBVIOUS
<1>1. Idle \in InFlight /\ Idle.op = "idle"
    BY DEF InFlight, Idle
<1>2. TypeOK
    BY <1>1 DEF Init, TypeOK, RunStatus, HostStatus
<1>3. RequestsAreSound
    BY <1>1 DEF Init, RequestsAreSound
<1>4. FourEyes
    BY DEF Init, FourEyes
<1> QED
    BY <1>2, <1>3, <1>4 DEF RequestsInv

------------------------------------------------------------------------------
(* Steps *)

Executed == {"queued", "running", "succeeded", "failed", "partially_failed"}

\* Nothing a handler holds or a row says is made unsound by a step that starts or
\* approves no run and puts neither an insertion nor an approval in flight.
LEMMA QuietStep ==
  ASSUME RequestsInv, TypeOK',
         UNCHANGED <<requestedBy, approvedBy, sensitive>>,
         \A r \in Run : status[r] # "none" => status'[r] # "none",
         \A r \in Run : status'[r] \in Executed => status[r] \in Executed,
         \A u \in User : request'[u] = request[u] \/ request'[u].op \notin {"insert", "approve"}
  PROVE  RequestsInv'
<1>1. RequestsAreSound'
  <2> SUFFICES ASSUME NEW u \in User,
                      request'[u] = request[u]
               PROVE  /\ request[u].op = "insert" /\ request[u].second => request[u].need
                      /\ request[u].op = "approve" =>
                           /\ u \in Approver
                           /\ status'[request[u].run] # "none"
                           /\ requestedBy[request[u].run] # u
      BY DEF RequestsAreSound
  <2>1. request[u].op = "approve" => request[u].run \in Run
      BY InFlightType DEF RequestsInv
  <2> QED
      BY <2>1 DEF RequestsInv, RequestsAreSound
<1>2. FourEyes'
    BY DEF RequestsInv, FourEyes, Executed
<1> QED
    BY <1>1, <1>2 DEF RequestsInv

LEMMA IdleType == Idle \in InFlight /\ Idle.op = "idle"
BY DEF InFlight, Idle

\* needsApproval decides as the rule says.
LEMMA RequestStep ==
  ASSUME RequestsInv, NEW u \in User, NEW dryRun \in BOOLEAN, RequestRun(u, dryRun)
  PROVE  RequestsInv'
<1> DEFINE next == [op |-> "insert", need |-> needsApproval(u, dryRun),
                    second |-> CallsForSecondPerson(u, dryRun)]
<1>1. /\ needsApproval(u, dryRun) \in BOOLEAN /\ CallsForSecondPerson(u, dryRun) \in BOOLEAN
      /\ CallsForSecondPerson(u, dryRun) => needsApproval(u, dryRun)
    BY DEF needsApproval, CallsForSecondPerson, RequestsInv, TypeOK
<1>2. next \in InFlight
    BY <1>1 DEF InFlight
<1>3. Continue(u, next)
    BY DEF RequestRun
<1> HIDE DEF next
<1>4. /\ request' \in [User -> InFlight] /\ request'[u] = next
      /\ \A v \in User \ {u} : request'[v] = request[v]
    BY <1>2, <1>3, ContinueType DEF RequestsInv
<1>5. TypeOK'
    BY <1>4 DEF RequestRun, runbook, runRows, RequestsInv, TypeOK
<1>6. RequestsAreSound'
    BY <1>1, <1>4 DEF next, RequestRun, runRows, RequestsInv, RequestsAreSound
<1>7. FourEyes'
    BY DEF RequestRun, runRows, RequestsInv, FourEyes
<1> QED
    BY <1>5, <1>6, <1>7 DEF RequestsInv

\* The approver who is let through is not the requester.
LEMMA ApproveStep ==
  ASSUME RequestsInv, NEW u \in User, NEW r \in Run, ApproveRun(u, r)
  PROVE  RequestsInv'
<1> DEFINE next == [op |-> IF aged[r] THEN "expire" ELSE "approve", run |-> r]
<1>2. next \in InFlight
    BY DEF InFlight, RequestsInv, TypeOK
<1>3. Continue(u, next)
    BY DEF ApproveRun
<1>0. next.op # "insert" /\ next.run = r
    OBVIOUS
<1> HIDE DEF next
<1>4. /\ request' \in [User -> InFlight] /\ request'[u] = next
      /\ \A v \in User \ {u} : request'[v] = request[v]
    BY <1>2, <1>3, ContinueType DEF RequestsInv
<1>5. TypeOK'
    BY <1>4 DEF ApproveRun, runbook, runRows, RequestsInv, TypeOK
<1>6. RequestsAreSound'
    BY <1>0, <1>4 DEF ApproveRun, Approvable, runRows, RequestsInv, RequestsAreSound
<1>7. FourEyes'
    BY DEF ApproveRun, runRows, RequestsInv, FourEyes
<1> QED
    BY <1>5, <1>6, <1>7 DEF RequestsInv

\* A run that calls for a second person is inserted to wait for one.
LEMMA InsertStep ==
  ASSUME RequestsInv, NEW u \in User, NEW r \in Run, InsertRun(u, r)
  PROVE  RequestsInv'
<1>1. /\ request[u].need \in BOOLEAN /\ request[u].second \in BOOLEAN
      /\ request[u].second => request[u].need
    BY InFlightType DEF InsertRun, RequestsInv, RequestsAreSound
<1>2. /\ request' \in [User -> InFlight] /\ request'[u] = Idle
      /\ \A v \in User \ {u} : request'[v] = request[v]
    BY IdleType, ContinueType DEF InsertRun, RequestsInv
<1>3. TypeOK'
    BY <1>1, <1>2 DEF InsertRun, runbook, RequestsInv, TypeOK, RunStatus, Waiting, HostStatus
<1>4. RequestsAreSound'
  <2> SUFFICES ASSUME NEW v \in User \ {u}
               PROVE  /\ request[v].op = "insert" /\ request[v].second => request[v].need
                      /\ request[v].op = "approve" =>
                           /\ v \in Approver
                           /\ status'[request[v].run] # "none"
                           /\ requestedBy'[request[v].run] # v
      BY <1>2, IdleType DEF RequestsAreSound
  <2>1. request[v].op = "approve" => request[v].run \in Run \ {r}
      BY InFlightType DEF InsertRun, RequestsInv, RequestsAreSound
  <2> QED
      BY <2>1 DEF InsertRun, RequestsInv, RequestsAreSound, TypeOK
<1>5. FourEyes'
    BY <1>1 DEF InsertRun, RequestsInv, FourEyes, TypeOK
<1> QED
    BY <1>3, <1>4, <1>5 DEF RequestsInv

\* What lets a run go on is the approval of another person.
LEMMA CommitStep ==
  ASSUME RequestsInv, NEW u \in User, CommitApproval(u)
  PROVE  RequestsInv'
<1> DEFINE r == request[u].run
<1>1. r \in Run /\ u \in Approver /\ requestedBy[r] # u
    BY InFlightType DEF CommitApproval, RequestsInv, RequestsAreSound
<1>2. /\ request' \in [User -> InFlight] /\ request'[u] = Idle
      /\ \A v \in User \ {u} : request'[v] = request[v]
    BY IdleType, ContinueType DEF CommitApproval, RequestsInv
<1>3. \/ status[r] = "pending_approval" /\ status' = [status EXCEPT ![r] = "queued"]
         /\ approvedBy' = [approvedBy EXCEPT ![r] = u]
      \/ status' = status /\ approvedBy' = approvedBy
    BY DEF CommitApproval
<1>4. requestedBy' = requestedBy /\ sensitive' = sensitive
    BY DEF CommitApproval
<1>5. TypeOK'
    BY <1>1, <1>2, <1>3 DEF CommitApproval, runbook, RequestsInv, TypeOK, RunStatus, Waiting
<1> HIDE DEF r
<1>6. RequestsAreSound'
  <2> SUFFICES ASSUME NEW v \in User \ {u}
               PROVE  /\ request[v].op = "insert" /\ request[v].second => request[v].need
                      /\ request[v].op = "approve" =>
                           /\ v \in Approver
                           /\ status'[request[v].run] # "none"
                           /\ requestedBy[request[v].run] # v
      BY <1>2, <1>4, IdleType DEF RequestsAreSound
  <2>1. request[v].op = "approve" => request[v].run \in Run
      BY InFlightType DEF RequestsInv
  <2> QED
      BY <1>1, <1>3, <2>1 DEF RequestsInv, RequestsAreSound, TypeOK
<1>7. FourEyes'
    BY <1>1, <1>3, <1>4 DEF RequestsInv, FourEyes, TypeOK
<1> QED
    BY <1>5, <1>6, <1>7 DEF RequestsInv

LEMMA RequestsStep == RequestsInv /\ [Next]_vars => RequestsInv'
<1> SUFFICES ASSUME RequestsInv, [Next]_vars PROVE RequestsInv'
    OBVIOUS
<1> USE DEF RequestsInv
<1>i. Idle \in InFlight /\ Idle.op = "idle"
    BY IdleType
<1>1. CASE UNCHANGED vars
  <2>1. TypeOK'
      BY <1>1 DEF vars, TypeOK
  <2> QED
      BY <1>1, <2>1, QuietStep DEF vars
<1>2. CASE EditRunbook
  <2>1. TypeOK'
      BY <1>2 DEF EditRunbook, runRows, TypeOK
  <2> QED
      BY <1>2, <2>1, QuietStep DEF EditRunbook, runRows
<1>3. CASE ExpireHosts
  <2>1. TypeOK'
      BY <1>3 DEF ExpireHosts, SettleRows, runbook, TypeOK, HostStatus
  <2> QED
      BY <1>3, <2>1, QuietStep DEF ExpireHosts
<1>4. CASE LoseReaper
  <2>1. TypeOK'
      BY <1>4 DEF LoseReaper, runbook, TypeOK
  <2> QED
      BY <1>4, <2>1, QuietStep DEF LoseReaper
<1>5. ASSUME NEW u \in User, CommitApproval(u) PROVE RequestsInv'
    BY <1>5, CommitStep
<1>6. ASSUME NEW u \in User, CommitLateExpiry(u) PROVE RequestsInv'
  <2> DEFINE r == request[u].run
             next == [op |-> "skipHosts", run |-> r]
  <2>1. r \in Run /\ next \in InFlight /\ next.op = "skipHosts"
      BY <1>6, InFlightType DEF CommitLateExpiry, InFlight
  <2>2. Continue(u, next)
      BY <1>6 DEF CommitLateExpiry
  <2>3. status' = [status EXCEPT ![r] = IF @ = "pending_approval" THEN "expired" ELSE @]
      BY <1>6 DEF CommitLateExpiry
  <2> HIDE DEF next, r
  <2>4. /\ request' \in [User -> InFlight] /\ request'[u] = next
        /\ \A v \in User \ {u} : request'[v] = request[v]
      BY <2>1, <2>2, ContinueType
  <2>5. TypeOK'
      BY <1>6, <2>1, <2>3, <2>4 DEF CommitLateExpiry, runbook, TypeOK, RunStatus
  <2> QED
      BY <1>6, <2>1, <2>3, <2>4, <2>5, QuietStep DEF CommitLateExpiry, TypeOK, Executed
<1>7. ASSUME NEW u \in User, SettleHosts(u) PROVE RequestsInv'
  <2>1. /\ request' \in [User -> InFlight] /\ request'[u] = Idle
        /\ \A v \in User \ {u} : request'[v] = request[v]
      BY <1>7, <1>i, ContinueType DEF SettleHosts
  <2>2. TypeOK'
      BY <1>7, <2>1 DEF SettleHosts, SettleRows, RowStatus, runbook, TypeOK, HostStatus
  <2> QED
      BY <1>7, <1>i, <2>1, <2>2, QuietStep DEF SettleHosts
<1>8. ASSUME NEW u \in User, LoseRequest(u) PROVE RequestsInv'
  <2>1. /\ request' \in [User -> InFlight] /\ request'[u] = Idle
        /\ \A v \in User \ {u} : request'[v] = request[v]
      BY <1>8, <1>i, ContinueType DEF LoseRequest
  <2>2. TypeOK'
      BY <1>8, <2>1 DEF LoseRequest, runbook, TypeOK
  <2> QED
      BY <1>8, <1>i, <2>1, <2>2, QuietStep DEF LoseRequest
<1>9. ASSUME NEW u \in User, DeleteRunbook(u) PROVE RequestsInv'
  <2> DEFINE next == [op |-> "delete", ids |-> {r \in Run : status[r] \in Waiting}]
  <2>1. next \in InFlight /\ next.op = "delete"
      BY DEF InFlight
  <2>2. Continue(u, next)
      BY <1>9 DEF DeleteRunbook
  <2> HIDE DEF next
  <2>3. /\ request' \in [User -> InFlight] /\ request'[u] = next
        /\ \A v \in User \ {u} : request'[v] = request[v]
      BY <2>1, <2>2, ContinueType
  <2>4. TypeOK'
      BY <1>9, <2>3 DEF DeleteRunbook, runbook, runRows, TypeOK
  <2> QED
      BY <1>9, <2>1, <2>3, <2>4, QuietStep DEF DeleteRunbook, runRows
<1>10. ASSUME NEW u \in User, CommitDelete(u) PROVE RequestsInv'
  <2>1. /\ request' \in [User -> InFlight] /\ request'[u] = Idle
        /\ \A v \in User \ {u} : request'[v] = request[v]
      BY <1>10, <1>i, ContinueType DEF CommitDelete
  <2>2. status' = [r \in Run |->
          IF r \in WithdrawnByDelete(request[u].ids) THEN "cancelled" ELSE status[r]]
      BY <1>10 DEF CommitDelete
  <2>3. TypeOK'
      BY <1>10, <2>1, <2>2 DEF CommitDelete, SettleRows, TypeOK, RunStatus, Ended, HostStatus
  <2> QED
      BY <1>10, <1>i, <2>1, <2>2, <2>3, QuietStep DEF CommitDelete, TypeOK, Executed
<1>11. ASSUME NEW u \in User, NEW dryRun \in BOOLEAN, RequestRun(u, dryRun) PROVE RequestsInv'
    BY <1>11, RequestStep
<1>12. ASSUME NEW u \in User, NEW r \in Run, InsertRun(u, r) PROVE RequestsInv'
    BY <1>12, InsertStep
<1>13. ASSUME NEW u \in User, NEW r \in Run, ApproveRun(u, r) PROVE RequestsInv'
    BY <1>13, ApproveStep
<1>14. ASSUME NEW u \in User, NEW r \in Run, RejectRun(u, r) \/ CancelRun(u, r)
       PROVE  RequestsInv'
  <2> PICK next \in {[op |-> "skipHosts", run |-> r], [op |-> "cancelHosts", run |-> r]},
           s \in {"rejected", "cancelled"} :
             Continue(u, next) /\ status' = [status EXCEPT ![r] = s]
      BY <1>14 DEF RejectRun, CancelRun
  <2>1. next \in InFlight /\ next.op \in {"skipHosts", "cancelHosts"}
      BY DEF InFlight
  <2>2. /\ request' \in [User -> InFlight] /\ request'[u] = next
        /\ \A v \in User \ {u} : request'[v] = request[v]
      BY <2>1, ContinueType
  <2>3. TypeOK'
      BY <1>14, <2>2 DEF RejectRun, CancelRun, runbook, TypeOK, RunStatus, Ended
  <2> QED
      BY <1>14, <2>1, <2>2, <2>3, QuietStep DEF RejectRun, CancelRun, TypeOK, Executed
<1>15. ASSUME NEW r \in Run, Age(r) PROVE RequestsInv'
  <2>1. TypeOK'
      BY <1>15 DEF Age, runbook, TypeOK
  <2> QED
      BY <1>15, <2>1, QuietStep DEF Age
<1>16. ASSUME NEW r \in Run, ExpireApproval(r) PROVE RequestsInv'
  <2>1. TypeOK'
      BY <1>16 DEF ExpireApproval, runbook, TypeOK, RunStatus
  <2> QED
      BY <1>16, <2>1, QuietStep DEF ExpireApproval, TypeOK, Executed
<1>17. ASSUME NEW r \in Run, Claim(r) PROVE RequestsInv'
  <2>1. TypeOK'
      BY <1>17 DEF Claim, runbook, TypeOK, RunStatus
  <2> QED
      BY <1>17, <2>1, QuietStep DEF Claim, TypeOK, Executed
<1>18. ASSUME NEW r \in Run, StartHosts(r) PROVE RequestsInv'
  <2>1. TypeOK'
      BY <1>18 DEF StartHosts, runbook, TypeOK, HostStatus
  <2> QED
      BY <1>18, <2>1, QuietStep DEF StartHosts
<1>19. ASSUME NEW r \in Run, FinishRun(r) PROVE RequestsInv'
  <2>1. TypeOK'
      BY <1>19 DEF FinishRun, runbook, TypeOK, RunStatus, Ended, HostStatus
  <2> QED
      BY <1>19, <2>1, QuietStep DEF FinishRun, Ended, TypeOK, Executed
<1> QED
    BY <1>1, <1>2, <1>3, <1>4, <1>5, <1>6, <1>7, <1>8, <1>9, <1>10, <1>11, <1>12, <1>13,
       <1>14, <1>15, <1>16, <1>17, <1>18, <1>19 DEF Next

------------------------------------------------------------------------------
(* The life cycle *)

\* Every step is one of the life cycle's, or none.
LEMMA LifecycleStep == TypeOK /\ [Next]_vars => [Lifecycle!Next]_status
<1> SUFFICES ASSUME TypeOK, [Next]_vars, status' # status PROVE Lifecycle!Next
    OBVIOUS
<1> USE DEF Lifecycle!Move
<1>1. ASSUME NEW u \in User, CommitApproval(u) PROVE Lifecycle!Next
  <2>1. request[u].run \in Run
      BY <1>1, InFlightType DEF CommitApproval
  <2>2. Lifecycle!Approve(request[u].run)
      BY <1>1 DEF CommitApproval, Lifecycle!Approve
  <2> QED
      BY <2>1, <2>2 DEF Lifecycle!Next
<1>2. ASSUME NEW u \in User, CommitLateExpiry(u) PROVE Lifecycle!Next
  <2> DEFINE r == request[u].run
  <2>1. r \in Run
      BY <1>2, InFlightType DEF CommitLateExpiry
  <2>2. status' = [status EXCEPT ![r] = IF @ = "pending_approval" THEN "expired" ELSE @]
      BY <1>2 DEF CommitLateExpiry
  <2>3. status[r] = "pending_approval" /\ status' = [status EXCEPT ![r] = "expired"]
      BY <2>1, <2>2 DEF TypeOK
  <2>4. Lifecycle!Refuse(r)
      BY <2>3 DEF Lifecycle!Refuse
  <2> QED
      BY <2>1, <2>4 DEF Lifecycle!Next
<1>3. ASSUME NEW u \in User, CommitDelete(u) PROVE Lifecycle!Next
  <2> DEFINE R == WithdrawnByDelete(request[u].ids)
  <2>1. request[u].ids \in SUBSET Run
      BY <1>3, InFlightType DEF CommitDelete
  <2>2. R \in SUBSET {r \in Run : status[r] \in Lifecycle!Waiting}
      BY <2>1 DEF WithdrawnByDelete, Waiting, Lifecycle!Waiting
  <2>3. status' = [r \in Run |-> IF r \in R THEN "cancelled" ELSE status[r]]
      BY <1>3 DEF CommitDelete
  <2> HIDE DEF R
  <2>4. Lifecycle!WithdrawMany
      BY <2>2, <2>3 DEF Lifecycle!WithdrawMany
  <2> QED
      BY <2>4 DEF Lifecycle!Next
<1>4. ASSUME NEW u \in User, NEW r \in Run, InsertRun(u, r) PROVE Lifecycle!Next
  <2>1. Lifecycle!Submit(r)
      BY <1>4 DEF InsertRun, Lifecycle!Submit, Lifecycle!Waiting
  <2> QED
      BY <2>1 DEF Lifecycle!Next
<1>5. ASSUME NEW u \in User, NEW r \in Run, RejectRun(u, r) PROVE Lifecycle!Next
  <2>1. Lifecycle!Refuse(r)
      BY <1>5 DEF RejectRun, Lifecycle!Refuse
  <2> QED
      BY <2>1 DEF Lifecycle!Next
<1>6. ASSUME NEW u \in User, NEW r \in Run, CancelRun(u, r) PROVE Lifecycle!Next
  <2>1. Lifecycle!Refuse(r) \/ Lifecycle!Withdraw(r)
      BY <1>6 DEF CancelRun, Waiting, Lifecycle!Refuse, Lifecycle!Withdraw
  <2> QED
      BY <2>1 DEF Lifecycle!Next
<1>7. ASSUME NEW r \in Run, ExpireApproval(r) PROVE Lifecycle!Next
  <2>1. Lifecycle!Refuse(r)
      BY <1>7 DEF ExpireApproval, Expirable, Lifecycle!Refuse
  <2> QED
      BY <2>1 DEF Lifecycle!Next
<1>8. ASSUME NEW r \in Run, Claim(r) PROVE Lifecycle!Next
  <2>1. Lifecycle!Claim(r)
      BY <1>8 DEF Claim, Lifecycle!Claim
  <2> QED
      BY <2>1 DEF Lifecycle!Next
<1>9. ASSUME NEW r \in Run, FinishRun(r) PROVE Lifecycle!Next
  <2>1. Lifecycle!Finish(r)
      BY <1>9 DEF FinishRun, Ended, Lifecycle!Finish
  <2> QED
      BY <2>1 DEF Lifecycle!Next
<1>10. \/ \E u \in User : CommitApproval(u) \/ CommitLateExpiry(u) \/ CommitDelete(u)
       \/ \E u \in User, r \in Run : InsertRun(u, r) \/ RejectRun(u, r) \/ CancelRun(u, r)
       \/ \E r \in Run : ExpireApproval(r) \/ Claim(r) \/ FinishRun(r)
    BY DEF Next, vars, EditRunbook, ExpireHosts, LoseReaper, SettleHosts, LoseRequest,
           DeleteRunbook, RequestRun, ApproveRun, Age, StartHosts, runRows
<1> QED
    BY <1>1, <1>2, <1>3, <1>4, <1>5, <1>6, <1>7, <1>8, <1>9, <1>10

------------------------------------------------------------------------------
(* Theorems *)

\* Every reachable state is well typed, and what is in flight is sound.
THEOREM RequestsInvariant == Spec => []RequestsInv
BY RequestsInitInv, RequestsStep, PTL DEF Spec

\* Four eyes mean four eyes: no run that called for a second person goes on without
\* the approval of another (approveRun and insertRun in runbook.service.ts).
THEOREM FourEyesHold == Spec => []FourEyes
<1>1. RequestsInv => FourEyes
    BY DEF RequestsInv
<1> QED
    BY <1>1, RequestsInvariant, PTL

\* Requests, approvals, refusals, deletion and expiry implement the life cycle of a
\* run (RUNBOOK_RUN_STATUSES): no decision overturns another.
THEOREM RequestsImplementLifecycle == Spec => LifecycleSpec
<1>1. Init => Lifecycle!Init
    BY DEF Init, Lifecycle!Init
<1>2. RequestsInv /\ [Next]_vars => [Lifecycle!Next]_status
    BY LifecycleStep DEF RequestsInv
<1> QED
    BY <1>1, <1>2, RequestsInvariant, PTL DEF Spec, LifecycleSpec, Lifecycle!Spec
================================================================================
