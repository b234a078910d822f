----------------------------- MODULE RunLifecycle -----------------------------
(***************************************************************************)
(* What the life of a runbook run promises, whoever moves it: the request  *)
(* handlers, the executors, the reaper.  A run is submitted once, claimed  *)
(* at most once, and reaches one final status, which it keeps              *)
(* (packages/shared/src/schemas/runbook.ts, runbookRunStatuses).           *)
(***************************************************************************)

CONSTANT Run

VARIABLE status

Waiting == {"pending_approval", "queued"}
Final == {"succeeded", "failed", "partially_failed", "cancelled",
          "expired", "rejected"}

Init == status = [r \in Run |-> "none"]

Move(r, from, to) ==
  /\ status[r] \in from
  /\ \E s \in to : status' = [status EXCEPT ![r] = s]

Submit(r) == Move(r, {"none"}, Waiting)

Approve(r) == Move(r, {"pending_approval"}, {"queued"})

\* Rejected, expired or cancelled before anybody may execute it.
Refuse(r) == Move(r, {"pending_approval"}, {"rejected", "expired", "cancelled"})

Withdraw(r) == Move(r, {"queued"}, {"cancelled"})

Claim(r) == Move(r, {"queued"}, {"running"})

Finish(r) ==
  Move(r, {"running"}, {"succeeded", "failed", "partially_failed", "cancelled"})

\* Several runs may be refused or withdrawn in one transaction.
WithdrawMany ==
  \E R \in SUBSET {r \in Run : status[r] \in Waiting} :
    status' = [r \in Run |-> IF r \in R THEN "cancelled" ELSE status[r]]

Next ==
  \/ WithdrawMany
  \/ \E r \in Run :
       Submit(r) \/ Approve(r) \/ Refuse(r) \/ Withdraw(r) \/ Claim(r) \/ Finish(r)

Spec == Init /\ [][Next]_status
==============================================================================
