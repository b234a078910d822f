------------------------------- MODULE JobLock -------------------------------
(***************************************************************************)
(* The database-backed lease that guards every background loop of the API  *)
(* (apps/api/src/services/job-lock.service.ts).  One job name, so one row  *)
(* of scheduler_lock; several API replicas, each with its own clock.       *)
(*                                                                         *)
(* Every statement of the service is two steps here: the process reads its *)
(* clock (`new Date()`) and, later, the database executes the statement    *)
(* with that timestamp.  Anything may happen in between.                   *)
(***************************************************************************)
EXTENDS Integers, FiniteSets

CONSTANTS
  Replica,          \* API processes; a restarted process is another replica
  TTL,              \* ttlMs, in clock units
  Offset,           \* Offset[r]: how far r's clock runs ahead of the slowest one
  MaxOffset,        \* bound on every Offset[r]
  HoldUntilExpiry,  \* the JobLockOptions flag of the job
  NoRow,            \* the job has never run: there is no row yet
  LastTick,          \* bound: the clock stops here
  MaxRenewals       \* bound: renewals of one replica in flight at once

ASSUME TTLAssumption == TTL \in Nat \ {0}
ASSUME OffsetAssumption ==
  /\ MaxOffset \in Nat
  /\ Offset \in [Replica -> 0 .. MaxOffset]
ASSUME HoldAssumption == HoldUntilExpiry \in BOOLEAN
ASSUME BoundAssumption == LastTick \in Nat /\ MaxRenewals \in Nat
ASSUME NoRowAssumption == NoRow \notin [holder : Replica, expiresAt : Nat]

VARIABLES
  now,       \* real time
  row,       \* the scheduler_lock row of the job, or NoRow
  pc,        \* where each replica is in withJobLock
  stamp,     \* the `now` its pending acquire or release statement carries
  renewals,  \* the `now`s of its renewal statements still in flight
  lease,     \* the deadline its last successful acquire or renewal wrote
  diedAt     \* when a crashed replica died (history, for FailoverBound)

lockVars == <<now, row, pc, stamp, renewals, lease, diedAt>>

Step == {"idle", "update", "probe", "insert", "running", "release", "crashed"}
Row == [holder : Replica, expiresAt : Nat]

LockTypeOK ==
  /\ now \in Nat
  /\ row \in Row \cup {NoRow}
  /\ pc \in [Replica -> Step]
  /\ stamp \in [Replica -> Nat]
  /\ renewals \in [Replica -> SUBSET Nat]
  /\ lease \in [Replica -> Nat]
  /\ diedAt \in [Replica -> Nat]

Clock(r) == now + Offset[r]

LockInit ==
  /\ now = 0
  /\ row = NoRow
  /\ pc = [r \in Replica |-> "idle"]
  /\ stamp = [r \in Replica |-> 0]
  /\ renewals = [r \in Replica |-> {}]
  /\ lease = [r \in Replica |-> 0]
  /\ diedAt = [r \in Replica |-> 0]

(***************************************************************************)
(* acquireJobLock: the conditional UPDATE, the existence probe, the INSERT.*)
(***************************************************************************)

\* The scheduler's overlap guard (`running`) admits one withJobLock at a time.
BeginTick(r) ==
  /\ pc[r] = "idle"
  /\ pc' = [pc EXCEPT ![r] = "update"]
  /\ stamp' = [stamp EXCEPT ![r] = Clock(r)]
  /\ UNCHANGED <<now, row, renewals, lease, diedAt>>

\* Mutant: the expiry test is forgotten.
TakeableAlways(r) == row # NoRow

\* The WHERE clause of the acquiring UPDATE: the expiry test and nothing else.
Takeable(r) == row # NoRow /\ row.expiresAt <= stamp[r]

TakeLease(r) ==
  /\ row' = [holder |-> r, expiresAt |-> stamp[r] + TTL]
  /\ lease' = [lease EXCEPT ![r] = stamp[r] + TTL]
  /\ pc' = [pc EXCEPT ![r] = "running"]

AcquireUpdate(r) ==
  /\ pc[r] = "update"
  /\ \/ Takeable(r) /\ TakeLease(r)
     \/ /\ ~Takeable(r)
        /\ pc' = [pc EXCEPT ![r] = "probe"]
        /\ UNCHANGED <<row, lease>>
  /\ UNCHANGED <<now, stamp, renewals, diedAt>>

AcquireProbe(r) ==
  /\ pc[r] = "probe"
  /\ pc' = [pc EXCEPT ![r] = IF row = NoRow THEN "insert" ELSE "idle"]
  /\ UNCHANGED <<now, row, stamp, renewals, lease, diedAt>>

\* The unique index on `name` decides: the loser gets P2002 and skips its tick.
AcquireInsert(r) ==
  /\ pc[r] = "insert"
  /\ \/ row = NoRow /\ TakeLease(r)
     \/ /\ row # NoRow
        /\ pc' = [pc EXCEPT ![r] = "idle"]
        /\ UNCHANGED <<row, lease>>
  /\ UNCHANGED <<now, stamp, renewals, diedAt>>

\* A statement throws: it never ran, or it ran and the reply was lost.  The
\* tick's catch logs it and the next tick starts over.
AcquireError(r) ==
  /\ pc[r] \in {"update", "probe", "insert"}
  /\ pc' = [pc EXCEPT ![r] = "idle"]
  /\ \/ UNCHANGED row
     \/ /\ \/ pc[r] = "update" /\ Takeable(r)
           \/ pc[r] = "insert" /\ row = NoRow
        /\ row' = [holder |-> r, expiresAt |-> stamp[r] + TTL]
  /\ UNCHANGED <<now, stamp, renewals, lease, diedAt>>

(***************************************************************************)
(* The heartbeat of withJobLock: renewJobLock every TTL/3 while fn runs.   *)
(* clearInterval stops new renewals, not one that is already in flight.    *)
(***************************************************************************)

FireHeartbeat(r) ==
  /\ pc[r] = "running"
  /\ Cardinality(renewals[r]) < MaxRenewals
  /\ renewals' = [renewals EXCEPT ![r] = @ \cup {Clock(r)}]
  /\ UNCHANGED <<now, row, pc, stamp, lease, diedAt>>

\* The WHERE clause of the renewal: still ours, and not lapsed when it was sent.
Renewable(r, t) == row # NoRow /\ row.holder = r /\ row.expiresAt > t

\* Mutant: the renewal adds TTL to the deadline it finds, not to its own clock.
RenewedFromDeadline(t) == [row EXCEPT !.expiresAt = @ + TTL]

Renewed(t) == [row EXCEPT !.expiresAt = t + TTL]

ExecRenew(r, t) ==
  /\ t \in renewals[r]
  /\ renewals' = [renewals EXCEPT ![r] = @ \ {t}]
  /\ \/ /\ Renewable(r, t)
        /\ row' = Renewed(t)
        /\ lease' = [lease EXCEPT ![r] = t + TTL]
     \/ ~Renewable(r, t) /\ UNCHANGED <<row, lease>>
  /\ UNCHANGED <<now, pc, stamp, diedAt>>

\* A renewal that fails in the database is logged; the interval goes on.
LoseRenew(r, t) ==
  /\ t \in renewals[r]
  /\ renewals' = [renewals EXCEPT ![r] = @ \ {t}]
  /\ UNCHANGED <<now, row, pc, stamp, lease, diedAt>>

(***************************************************************************)
(* The `finally` of withJobLock, whether fn returned or threw.             *)
(***************************************************************************)

Finish(r) ==
  /\ pc[r] = "running"
  /\ IF HoldUntilExpiry
       THEN pc' = [pc EXCEPT ![r] = "idle"] /\ UNCHANGED stamp
       ELSE /\ pc' = [pc EXCEPT ![r] = "release"]
            /\ stamp' = [stamp EXCEPT ![r] = Clock(r)]
  /\ UNCHANGED <<now, row, renewals, lease, diedAt>>

\* Conditional on the holder only: a lease already taken over is not touched.
Releasable(r) == row # NoRow /\ row.holder = r

ExecRelease(r) ==
  /\ pc[r] = "release"
  /\ pc' = [pc EXCEPT ![r] = "idle"]
  /\ \/ Releasable(r) /\ row' = [row EXCEPT !.expiresAt = stamp[r]]
     \/ UNCHANGED row     \* not ours any more, or the statement failed
  /\ UNCHANGED <<now, stamp, renewals, lease, diedAt>>

(***************************************************************************)
(* The environment: processes die, time passes.                            *)
(***************************************************************************)

Crash(r) ==
  /\ pc[r] # "crashed"
  /\ pc' = [pc EXCEPT ![r] = "crashed"]
  /\ diedAt' = [diedAt EXCEPT ![r] = now]
  /\ UNCHANGED <<now, row, stamp, renewals, lease>>

PassTime ==
  /\ now < LastTick
  /\ now' = now + 1
  /\ UNCHANGED <<row, pc, stamp, renewals, lease, diedAt>>

LockNext ==
  \/ PassTime
  \/ \E r \in Replica :
       \/ BeginTick(r) \/ AcquireUpdate(r) \/ AcquireProbe(r) \/ AcquireInsert(r)
       \/ AcquireError(r) \/ FireHeartbeat(r) \/ Finish(r) \/ ExecRelease(r)
       \/ Crash(r)
       \/ \E t \in renewals[r] : ExecRenew(r, t) \/ LoseRenew(r, t)

LockSpec == LockInit /\ [][LockNext]_lockVars

------------------------------------------------------------------------------
(***************************************************************************)
(* Properties                                                              *)
(***************************************************************************)

\* r is inside fn and the deadline it last wrote has passed on no clock.
HoldsLease(r) == pc[r] = "running" /\ now + MaxOffset < lease[r]

\* Two replicas are never inside the same job while each of them still has a
\* lease that no replica's clock sees as expired: overlap needs a holder that
\* let its own lease lapse (job-lock.service.ts:43-60: the acquisition is one
\* conditional statement, the expiry test is evaluated under the row's lock).
OneCoveredJob ==
  \A r, s \in Replica : HoldsLease(r) /\ HoldsLease(s) => r = s

\* A dead holder blocks the job for at most TTL after its death, measured on its
\* own clock, even if renewals it had sent reach the database later
\* (job-lock.service.ts:154-157).
FailoverBound ==
  \A r \in Replica :
    pc[r] = "crashed" /\ row # NoRow /\ row.holder = r
      => row.expiresAt <= diedAt[r] + Offset[r] + TTL

\* While a replica is between jobs, no statement of its own pushes its lease
\* into the future: what it gave back stays free (job-lock.service.ts:153-154,
\* "so a throwing job frees it immediately
\* rather than blocking the next tick for the rest of the TTL").
ReleaseIsFinal ==
  [][\A r \in Replica :
       /\ pc[r] = "idle" /\ pc'[r] = "idle"
       /\ row # NoRow /\ row.holder = r /\ row.expiresAt <= Clock(r)
       /\ row' # NoRow /\ row'.holder = r
       => row'.expiresAt <= Clock(r)]_lockVars

------------------------------------------------------------------------------
(***************************************************************************)
(* The inductive invariant behind OneCoveredJob and FailoverBound.         *)
(***************************************************************************)

\* No timestamp in flight is ahead of the clock of the replica that sent it,
\* nor, if that replica has died, ahead of the moment of its death.
LastClock(r) == IF pc[r] = "crashed" THEN diedAt[r] + Offset[r] ELSE Clock(r)

StampsArePast ==
  \A r \in Replica :
    /\ stamp[r] <= LastClock(r)
    /\ \A t \in renewals[r] : t <= LastClock(r)
    /\ diedAt[r] <= now

\* The row never promises more than TTL beyond the last clock of its holder.
RowIsBounded == row # NoRow => row.expiresAt <= LastClock(row.holder) + TTL

\* A replica inside fn either still owns the row, with the deadline it wrote,
\* or that deadline has passed on the fastest clock.
LeaseOrLapsed ==
  \A r \in Replica :
    pc[r] = "running" =>
      \/ row # NoRow /\ row.holder = r /\ row.expiresAt = lease[r]
      \/ lease[r] <= now + MaxOffset

LockIInv == LockTypeOK /\ StampsArePast /\ RowIsBounded /\ LeaseOrLapsed
==============================================================================
