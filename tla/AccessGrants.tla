------------------------------ MODULE AccessGrants ------------------------------
(***************************************************************************)
(* One temporary access grant (apps/api/src/services/access-grant.service  *)
(* .ts) and the sweeper that takes it away (access-grant-sweeper.ts): an   *)
(* account or an SSH key on a managed host, and the database row that      *)
(* records it.  Grants do not share state, so one is enough.               *)
(*                                                                         *)
(* The row and the host are two systems: every handler is a sequence of    *)
(* database statements and remote scripts, a script may fail after it has  *)
(* taken effect, and a process may die between any two steps.              *)
(***************************************************************************)
EXTENDS Integers

CONSTANTS
  Person,       \* requests of people; the grant's creator is one
  Creator,
  Sweeper,      \* replicas sweeping (the lease may be lost: several at a time)
  Kinds,        \* the kinds of grant considered
  MaxAttempts,  \* ACCESS_GRANT_MAX_REVOKE_ATTEMPTS
  MaxExtends,   \* bound: extensions that reach the host
  MaxCrashes    \* bound: processes that die

ASSUME ProcessAssumption == Creator \in Person /\ Person \cap Sweeper = {}
ASSUME KindAssumption == Kinds \subseteq {"ssh_key", "os_user"}
ASSUME BoundAssumption ==
  MaxAttempts \in Nat \ {0} /\ MaxExtends \in Nat /\ MaxCrashes \in Nat

VARIABLES
  kind,         \* the grant's: it never changes
  status, expired, attempts,   \* the row (status "absent": no row)
  access,       \* does the access work on the host?
  proc,         \* proc[p]: where process p is, how its script ended, and the
                \* row it read before it claimed
  incident,     \* is the alert rackmap:access:<id> open?
  \* history and bounds
  alertLost,    \* an alert of this grant was never delivered to the queue
  extends, crashes

row == <<status, expired, attempts>>
bounds == <<kind, extends, crashes>>
vars == <<kind, status, expired, attempts, access, proc, incident, alertLost,
          extends, crashes>>

Process == Person \cup Sweeper
Status == {"absent", "active", "expired_pending", "revoked", "failed"}
Label == {"idle", "creating", "created", "locking", "gone",
          "swept", "due", "read", "revoking", "revokeEnded", "triggering", "resolving",
          "extendRead", "extending", "extendEnded"}
ProcessState == [at : Label, answer : {"none", "ok", "error", "unknown"},
                 prior : [status : Status, attempts : 0..MaxAttempts]]
At(p) == proc[p].at
Answer(p) == proc[p].answer
Prior(p) == proc[p].prior
Nothing == [status |-> "absent", attempts |-> 0]
Idle == [at |-> "idle", answer |-> "none", prior |-> Nothing]

TypeOK ==
  /\ kind \in Kinds
  /\ status \in Status /\ expired \in BOOLEAN /\ attempts \in 0..MaxAttempts
  /\ access \in BOOLEAN
  /\ proc \in [Process -> ProcessState]
  /\ incident \in BOOLEAN /\ alertLost \in BOOLEAN
  /\ extends \in 0..MaxExtends /\ crashes \in 0..MaxCrashes

(* A key's row is written before the host is touched, because the key line *)
(* carries its id; an account's row is written after.                      *)
Init ==
  /\ kind \in Kinds
  /\ status = IF kind = "ssh_key" THEN "active" ELSE "absent"
  /\ expired = FALSE /\ attempts = 0 /\ access = FALSE
  /\ proc = [p \in Process |-> IF p = Creator THEN [Idle EXCEPT !.at = "creating"] ELSE Idle]
  /\ incident = FALSE /\ alertLost = FALSE /\ extends = 0 /\ crashes = 0

(* A process between two requests, or that goes on to the next, remembers  *)
(* nothing of the last.                                                    *)
Goto(p, l) ==
  proc' = [proc EXCEPT ![p] = IF l \in {"idle", "gone"} THEN [Idle EXCEPT !.at = l]
                                                        ELSE [@ EXCEPT !.at = l]]
Holds(p) == At(p) \in {"revoking", "revokeEnded", "extending", "extendEnded"}

(* An UPDATE by id alone: it fails (and the handler throws) on no row.     *)
SetStatus(s) == status' = IF status = "absent" THEN "absent" ELSE s

-----------------------------------------------------------------------------
(* Remote scripts.                                                         *)

(* A script that fails may nevertheless have changed the host: a timeout,  *)
(* a lost channel, or a later command of it that fails.                    *)
Outcomes(before, after) ==
  {[end |-> "ok", access |-> after]}
  \cup [end : {"error"}, access : {before}]
  \cup [end : {"unknown"}, access : {before, after}]
CertainOutcomes(before, after) == {o \in Outcomes(before, after) : o.end # "unknown"}

RunScript(p, next, outcomes) ==
  \E o \in outcomes :
    /\ access' = o.access
    /\ proc' = [proc EXCEPT ![p] = IF next = "gone" THEN [Idle EXCEPT !.at = next]
                                   ELSE [@ EXCEPT !.at = next, !.answer = o.end]]
    /\ UNCHANGED <<row, incident, alertLost, bounds>>

-----------------------------------------------------------------------------
(* Creating the grant.                                                     *)

(* runGrantScript(add), or createOsUser                                    *)
CreateScript == At(Creator) = "creating" /\ RunScript(Creator, "created", Outcomes(access, TRUE))

(* grantTemporaryKey after the script: a failure deletes the row again,    *)
(* or, if the outcome is unknown, expires it; an error of this clean-up is *)
(* only logged.                                                            *)
FinishKey ==
  /\ kind = "ssh_key" /\ At(Creator) = "created"
  /\ Goto(Creator, "idle")
  /\ CASE Answer(Creator) = "ok" -> UNCHANGED row
       [] Answer(Creator) = "unknown" ->
            /\ expired' \in {expired, TRUE}
            /\ UNCHANGED <<status, attempts>>
       [] OTHER ->
            /\ status' \in {status, "absent"}
            /\ UNCHANGED <<expired, attempts>>
  /\ UNCHANGED <<access, incident, alertLost, bounds>>

(* createTemporaryUser after createOsUser: an error ends the request; else *)
(* the row is inserted, and if that fails the account is locked again.     *)
FinishAccount ==
  /\ kind = "os_user" /\ At(Creator) = "created"
  /\ \/ Answer(Creator) # "ok" /\ Goto(Creator, "gone") /\ UNCHANGED status
     \/ Answer(Creator) = "ok" /\ Goto(Creator, "idle") /\ status' = "active"
     \/ Answer(Creator) = "ok" /\ Goto(Creator, "locking") /\ UNCHANGED status
  /\ UNCHANGED <<expired, attempts, access, incident, alertLost, bounds>>

LockScript == At(Creator) = "locking" /\ RunScript(Creator, "gone", Outcomes(access, FALSE))

-----------------------------------------------------------------------------
(* The sweeper.                                                            *)

(* A claim older than STALE_CLAIM_MS (15 min).  A script ends within 2 min *)
(* (5 for an account's deletion), so by then its owner has died.           *)
AnyClaim == status = "expired_pending"
NoClaim == FALSE
StaleClaim == status = "expired_pending" /\ \A p \in Process : ~Holds(p)

(* runAccessGrantSweep, first statement: release the claims of dead        *)
(* processes                                                               *)
Release(p) ==
  /\ p \in Sweeper /\ At(p) = "idle"
  /\ Goto(p, "swept")
  /\ status' = IF StaleClaim THEN "active" ELSE status
  /\ UNCHANGED <<expired, attempts, access, incident, alertLost, bounds>>

(* ... then pick what is due.  (A retry's backoff only delays this.)       *)
PickDue(p) ==
  /\ At(p) = "swept"
  /\ Goto(p, IF status = "active" /\ expired THEN "due" ELSE "idle")
  /\ UNCHANGED <<row, access, incident, alertLost, bounds>>

-----------------------------------------------------------------------------
(* revokeGrant.                                                            *)

Claimable(p) == IF p \in Sweeper THEN {"active"} ELSE {"active", "failed"}

ReadPrior(p) ==
  /\ At(p) = IF p \in Sweeper THEN "due" ELSE "idle"
  /\ IF status \in Claimable(p)
     THEN proc' = [proc EXCEPT ![p].at = "read",
                               ![p].prior = [status |-> status, attempts |-> attempts]]
     ELSE p \in Sweeper /\ Goto(p, "idle")
  /\ UNCHANGED <<row, access, incident, alertLost, bounds>>

(* The claim: UPDATE ... WHERE status = prior.status                       *)
Claim(p) ==
  /\ At(p) = "read"
  /\ IF status = Prior(p).status
     THEN status' = "expired_pending" /\ Goto(p, "revoking")
     ELSE Goto(p, "idle") /\ UNCHANGED status
  /\ UNCHANGED <<expired, attempts, access, incident, alertLost, bounds>>

(* revokeOnHost: removing what is no longer there succeeds.  Of an account *)
(* to be deleted the lock may work and the deletion fail: "unknown".       *)
RevokeScript(p) == At(p) = "revoking" /\ RunScript(p, "revokeEnded", Outcomes(access, FALSE))

AlertedAfterOne(p) == Prior(p).attempts > 0
AlertedBefore(p) == Prior(p).status = "failed" \/ Prior(p).attempts >= MaxAttempts

(* attempts is capped at the maximum: no code tells more apart.            *)
CountAttempt == IF attempts = MaxAttempts THEN attempts ELSE attempts + 1

SucceededOrUnknown(p) == Answer(p) \in {"ok", "unknown"}
Succeeded(p) == Answer(p) = "ok"

FailRevoke(p) ==
  /\ At(p) = "revokeEnded" /\ ~Succeeded(p)
  /\ LET exhausted == CountAttempt >= MaxAttempts IN
     /\ SetStatus(IF exhausted THEN "failed" ELSE "active")
     /\ attempts' = CountAttempt
     /\ Goto(p, IF exhausted /\ ~AlertedBefore(p) /\ status # "absent"
                THEN "triggering" ELSE "idle")
  /\ UNCHANGED <<expired, access, incident, alertLost, bounds>>

FinishRevoke(p) ==
  /\ At(p) = "revokeEnded" /\ Succeeded(p)
  /\ SetStatus("revoked")
  /\ Goto(p, IF AlertedBefore(p) /\ status # "absent" THEN "resolving" ELSE "idle")
  /\ UNCHANGED <<expired, attempts, access, incident, alertLost, bounds>>

(* safeEmit: an error is logged and the alert is lost                      *)
Emit(p) ==
  /\ At(p) \in {"triggering", "resolving"}
  /\ Goto(p, "idle")
  /\ \/ incident' = (At(p) = "triggering") /\ UNCHANGED alertLost
     \/ alertLost' = TRUE /\ UNCHANGED incident
  /\ UNCHANGED <<row, access, bounds>>

-----------------------------------------------------------------------------
(* extendGrant.                                                            *)

(* grantPermissions: the handler takes its clock and reads the row         *)
ExtendRead(p) ==
  /\ p \in Person /\ At(p) = "idle" /\ extends < MaxExtends
  /\ status = "active" /\ ~expired
  /\ Goto(p, "extendRead")
  /\ UNCHANGED <<row, access, incident, alertLost, bounds>>

ExtendableUnlessClaimed == status \in {"active", "revoked", "failed"}
Extendable == status = "active"

(* ... WHERE status = 'active' AND expiresAt > now: now is ExtendRead's,   *)
(* and every expiry written since then lies after it.                      *)
ExtendClaim(p) ==
  /\ At(p) = "extendRead" /\ extends < MaxExtends
  /\ IF Extendable
     THEN /\ status' = "expired_pending" /\ extends' = extends + 1
          /\ Goto(p, "extending")
     ELSE Goto(p, "idle") /\ UNCHANGED <<status, extends>>
  /\ UNCHANGED <<expired, attempts, access, incident, alertLost, kind, crashes>>

(* The scripts change an expiry date: of a key's line if it is there, of   *)
(* an account even if it is locked.  Of a locked account that lifts one    *)
(* half of the lock, the expiry of day 1; the password stays locked and    *)
(* the account without access.                                             *)
ExtendScript(p) ==
  /\ At(p) = "extending"
  /\ RunScript(p, "extendEnded",
               {o \in CertainOutcomes(access, access) :
                  o.end = "ok" => access \/ kind = "os_user"})

(* Both updates are by id alone: they rely on the claim.                   *)
FinishExtend(p) ==
  /\ At(p) = "extendEnded"
  /\ SetStatus("active")
  /\ IF Answer(p) = "ok" THEN expired' = FALSE /\ attempts' = 0
                         ELSE UNCHANGED <<expired, attempts>>
  /\ Goto(p, "idle")
  /\ UNCHANGED <<access, incident, alertLost, bounds>>

-----------------------------------------------------------------------------
(* The environment.                                                        *)

(* The grant's time runs out.                                              *)
Expire ==
  /\ status # "absent" /\ ~expired
  /\ expired' = TRUE
  /\ UNCHANGED <<status, attempts, access, proc, incident, alertLost, bounds>>

(* A process dies, and forgets the request or sweep it was running; an     *)
(* alert it was about to raise is lost.                                    *)
Crash(p) ==
  /\ crashes < MaxCrashes /\ At(p) \notin {"idle", "gone"}
  /\ crashes' = crashes + 1
  /\ Goto(p, IF p = Creator /\ kind = "os_user" /\ status = "absent" THEN "gone" ELSE "idle")
  /\ alertLost' = (alertLost \/ At(p) \in {"triggering", "resolving"})
  /\ UNCHANGED <<row, access, incident, kind, extends>>

Revoke(p) ==
  \/ ReadPrior(p) \/ Claim(p) \/ RevokeScript(p)
  \/ FailRevoke(p) \/ FinishRevoke(p) \/ Emit(p)
Extend(p) == ExtendRead(p) \/ ExtendClaim(p) \/ ExtendScript(p) \/ FinishExtend(p)
Create == CreateScript \/ FinishKey \/ FinishAccount \/ LockScript

Next ==
  \/ Create \/ Expire
  \/ \E p \in Process : Release(p) \/ PickDue(p) \/ Revoke(p) \/ Extend(p) \/ Crash(p)

Spec == Init /\ [][Next]_vars

(* Fairness: the sweeper's timer fires again and again, and what a process *)
(* has begun it goes on with.  Nobody need press a button, and the clock   *)
(* is the environment's.                                                   *)
Proceed(p) ==
  \/ Claim(p) \/ RevokeScript(p) \/ FailRevoke(p) \/ FinishRevoke(p) \/ Emit(p)
  \/ ExtendClaim(p) \/ ExtendScript(p) \/ FinishExtend(p)
FairSpec ==
  /\ Spec
  /\ WF_vars(Create)
  /\ \A p \in Process : WF_vars(Proceed(p))
  /\ \A p \in Sweeper : WF_vars(Release(p) \/ PickDue(p) \/ ReadPrior(p))

-----------------------------------------------------------------------------
(* Properties.                                                             *)

(* Of any number of concurrent revokers and extenders at most one touches  *)
(* the host, and while it does the row says so (or is gone): the claim is  *)
(* never stolen from a process that is still running.                      *)
OneToucher ==
  /\ \A p, q \in Process : Holds(p) /\ Holds(q) => p = q
  /\ (\E p \in Process : Holds(p)) => status \in {"expired_pending", "absent"}

(* "revoked -- access removed from the host" (schemas/access-grant.ts).    *)
RevokedAccountIsGone == kind = "os_user" /\ status = "revoked" => ~access
RevokedKeyIsGone == kind = "ssh_key" /\ status = "revoked" => ~access

(* What makes the two inductive: a revoker about to claim has read a       *)
(* claimable row; an account's row does not exist before the account is    *)
(* made and nobody works on it until it does; and a revocation that was    *)
(* answered "ok" has removed an account's access for good.                 *)
ReadersMayClaim ==
  \A p \in Process : At(p) = "read" => Prior(p).status \in {"active", "failed"}
AccountBeforeRow ==
  kind = "os_user" =>
    /\ status = "absent" => \A p \in Process : ~Holds(p)
    /\ At(Creator) \in {"creating", "created", "locking"} => status = "absent"
RevocationsHold ==
  kind = "os_user" =>
    /\ status = "revoked" => ~access
    /\ \A p \in Process : At(p) = "revokeEnded" /\ Answer(p) = "ok" => ~access

(* The inductive invariant (proved in AccessGrantsProofs).                 *)
IInv == TypeOK /\ OneToucher /\ ReadersMayClaim /\ AccountBeforeRow /\ RevocationsHold

(* A revoked grant stays revoked: no extension and no released claim       *)
(* brings the row back.  (Only a failed creation may delete it.)           *)
RevokedIsFinal == [][status = "revoked" => status' \in {"revoked", "absent"}]_vars

(* A grant the sweeper has given up on has an open incident, or one about  *)
(* to be raised; the exceptions are an alert that was lost, and none else. *)
FailedIsAlerted ==
  status = "failed" =>
    incident \/ alertLost \/ \E p \in Process : At(p) = "triggering"

(* An expired grant is revoked, or given up on, whatever fails or dies on  *)
(* the way: claims of dead processes are released, retries are counted.    *)
(* (An extension that began before the expiry may still win.)              *)
ExpiryIsSettled ==
  (status = "active" /\ expired)
    ~> (status \in {"revoked", "failed", "absent"} \/ ~expired)

(* "Close the incident the failure opened, whoever finally revoked it":    *)
(* once everybody is idle a revoked grant has no open incident.            *)
IncidentIsClosed ==
  (/\ status = "revoked" /\ ~alertLost
   /\ \A p \in Process : At(p) \notin {"triggering", "resolving"})
    => ~incident

(* "active grants whose expiresAt has passed are revoked": the sweeper     *)
(* claims no other.                                                        *)
SweepsOnlyExpired ==
  [][\A p \in Sweeper : At(p) = "read" /\ proc'[p].at = "revoking" => expired]_vars

(* "no untracked account outlives the request": once the creator has its   *)
(* answer, access without a row is gone.                                   *)
NoUntrackedAccount == status = "absent" /\ At(Creator) = "gone" => ~access
=============================================================================
