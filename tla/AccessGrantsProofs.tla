-------------------------- MODULE AccessGrantsProofs --------------------------
(***************************************************************************)
(* IInv is inductive, for every number of people, sweepers, attempts and   *)
(* crashes; OneToucher, RevokedIsFinal and RevokedAccountIsGone follow     *)
(* from it.  FailedIsAlerted needs more: nobody closes the incident before *)
(* the grant is over, and who takes it up again after it was given up on   *)
(* has read that it was (AlertsSound).                                     *)
(***************************************************************************)
EXTENDS AccessGrants, TLAPS

USE ProcessAssumption, KindAssumption, BoundAssumption

\* A process that remembers nothing is well typed, wherever it is.
LEMMA IdleType ==
  /\ Idle \in ProcessState
  /\ \A l \in Label : [Idle EXCEPT !.at = l] \in ProcessState
<1>1. 0 \in 0..MaxAttempts
    OBVIOUS
<1>2. Nothing \in [status : Status, attempts : 0..MaxAttempts]
    BY <1>1 DEF Nothing, Status
<1> QED
    BY <1>2 DEF Idle, ProcessState, Label

\* The initial state satisfies the invariant.
LEMMA InitIInv == Init => IInv
<1> SUFFICES ASSUME Init PROVE IInv
    OBVIOUS
<1> USE DEF Init, Process, At, Answer, Prior, Idle, Nothing, Holds
<1>1. \A p \in Process : At(p) = IF p = Creator THEN "creating" ELSE "idle"
    OBVIOUS
<1>2. TypeOK
  <2>1. "creating" \in Label
      BY DEF Label
  <2>2. proc \in [Process -> ProcessState]
      BY <2>1, IdleType
  <2>3. 0 \in 0..MaxAttempts /\ 0 \in 0..MaxExtends /\ 0 \in 0..MaxCrashes
      OBVIOUS
  <2> QED
      BY <2>2, <2>3 DEF TypeOK, Status
<1>3. \A p \in Process : ~Holds(p) /\ At(p) \notin {"read", "revokeEnded"}
    BY <1>1
<1>4. OneToucher /\ ReadersMayClaim /\ AccountBeforeRow /\ RevocationsHold
    BY <1>3 DEF OneToucher, ReadersMayClaim, AccountBeforeRow, RevocationsHold
<1> QED
    BY <1>2, <1>4 DEF IInv

\* Moving one process keeps the types.
LEMMA GotoType ==
  ASSUME TypeOK, NEW p \in Process, NEW l \in Label, Goto(p, l)
  PROVE  proc' \in [Process -> ProcessState]
<1>1. [proc[p] EXCEPT !.at = l] \in ProcessState
    BY DEF TypeOK, ProcessState
<1> QED
    BY <1>1, IdleType DEF TypeOK, Goto

\* A remote script that ends somehow keeps the types.
LEMMA ScriptType ==
  ASSUME TypeOK, NEW p \in Process, NEW next \in Label, NEW outcomes,
         \A o \in outcomes : /\ o.end \in {"none", "ok", "error", "unknown"}
                             /\ o.access \in BOOLEAN,
         RunScript(p, next, outcomes)
  PROVE  TypeOK'
<1>1. PICK o \in outcomes : /\ access' = o.access
                            /\ proc' = [proc EXCEPT ![p] =
                                          IF next = "gone" THEN [Idle EXCEPT !.at = next]
                                          ELSE [@ EXCEPT !.at = next, !.answer = o.end]]
    BY DEF RunScript
<1>2. [proc[p] EXCEPT !.at = next, !.answer = o.end] \in ProcessState
    BY DEF TypeOK, ProcessState
<1>3. proc' \in [Process -> ProcessState]
    BY <1>1, <1>2, IdleType DEF TypeOK
<1>4. access' \in BOOLEAN
    BY <1>1
<1>5. UNCHANGED <<kind, status, expired, attempts, incident, alertLost, extends, crashes>>
    BY DEF RunScript, row, bounds
<1> QED
    BY <1>3, <1>4, <1>5 DEF TypeOK

\* What a script may answer.
LEMMA OutcomeType ==
  ASSUME NEW before \in BOOLEAN, NEW after \in BOOLEAN
  PROVE  /\ CertainOutcomes(before, after) \subseteq Outcomes(before, after)
         /\ \A o \in Outcomes(before, after) :
              /\ o.end \in {"none", "ok", "error", "unknown"}
              /\ o.access \in BOOLEAN
              /\ o.access \in {before, after}
              /\ o.end = "ok" => o.access = after
BY DEF Outcomes, CertainOutcomes

\* Every step keeps the types.
LEMMA TypeStep == TypeOK /\ [Next]_vars => TypeOK'
<1> SUFFICES ASSUME TypeOK, [Next]_vars PROVE TypeOK'
    OBVIOUS
<1>a. \A p \in Process, l \in Label : Goto(p, l) => proc' \in [Process -> ProcessState]
    BY GotoType
<1>b. Creator \in Process
    BY DEF Process
<1> USE <1>a, <1>b DEF TypeOK, Status, Label, row, bounds
<1>1. CASE CreateScript
    BY <1>1, ScriptType, OutcomeType DEF CreateScript
<1>2. CASE FinishKey
    BY <1>2 DEF FinishKey
<1>3. CASE FinishAccount
    BY <1>3 DEF FinishAccount
<1>4. CASE LockScript
    BY <1>4, ScriptType, OutcomeType DEF LockScript
<1>5. CASE Expire
    BY <1>5 DEF Expire
<1>6. ASSUME NEW p \in Process, Release(p) PROVE TypeOK'
    BY <1>6 DEF Release
<1>7. ASSUME NEW p \in Process, PickDue(p) PROVE TypeOK'
    BY <1>7 DEF PickDue
<1>8. ASSUME NEW p \in Process, ReadPrior(p) PROVE TypeOK'
  <2>1. CASE status \in Claimable(p)
    <3>1. [proc[p] EXCEPT !.at = "read",
                          !.prior = [status |-> status, attempts |-> attempts]] \in ProcessState
        BY DEF ProcessState
    <3>2. proc' \in [Process -> ProcessState]
        BY <1>8, <2>1, <3>1 DEF ReadPrior
    <3> QED
        BY <1>8, <3>2 DEF ReadPrior
  <2>2. CASE status \notin Claimable(p)
      BY <1>8, <2>2 DEF ReadPrior
  <2> QED
      BY <2>1, <2>2
<1>9. ASSUME NEW p \in Process, Claim(p) PROVE TypeOK'
    BY <1>9 DEF Claim
<1>10. ASSUME NEW p \in Process, RevokeScript(p) PROVE TypeOK'
    BY <1>10, ScriptType, OutcomeType DEF RevokeScript
<1>11. ASSUME NEW p \in Process, FailRevoke(p) PROVE TypeOK'
    BY <1>11 DEF FailRevoke, SetStatus, CountAttempt
<1>12. ASSUME NEW p \in Process, FinishRevoke(p) PROVE TypeOK'
    BY <1>12 DEF FinishRevoke, SetStatus
<1>13. ASSUME NEW p \in Process, Emit(p) PROVE TypeOK'
  <2>1. incident' \in BOOLEAN /\ alertLost' \in BOOLEAN
      BY <1>13, Zenon DEF Emit, TypeOK
  <2> QED
      BY <1>13, <2>1 DEF Emit
<1>14. ASSUME NEW p \in Process, ExtendRead(p) PROVE TypeOK'
    BY <1>14 DEF ExtendRead
<1>15. ASSUME NEW p \in Process, ExtendClaim(p) PROVE TypeOK'
    BY <1>15 DEF ExtendClaim
<1>16. ASSUME NEW p \in Process, ExtendScript(p) PROVE TypeOK'
    BY <1>16, ScriptType, OutcomeType DEF ExtendScript
<1>17. ASSUME NEW p \in Process, FinishExtend(p) PROVE TypeOK'
  <2>1. proc' \in [Process -> ProcessState]
      BY <1>17 DEF FinishExtend
  <2>a. 0 \in 0..MaxAttempts
      OBVIOUS
  <2>b. \/ expired' = FALSE /\ attempts' = 0
        \/ expired' = expired /\ attempts' = attempts
      BY <1>17 DEF FinishExtend
  <2>2. attempts' \in 0..MaxAttempts /\ expired' \in BOOLEAN
      BY <2>a, <2>b
  <2>3. status' \in Status
      BY <1>17 DEF FinishExtend, SetStatus
  <2> QED
      BY <1>17, <2>1, <2>2, <2>3 DEF FinishExtend
<1>18. ASSUME NEW p \in Process, Crash(p) PROVE TypeOK'
  <2>1. alertLost' \in BOOLEAN
      BY <1>18, Zenon DEF Crash, TypeOK
  <2> QED
      BY <1>18, <2>1 DEF Crash
<1>19. CASE UNCHANGED vars
    BY <1>19 DEF vars
<1> QED
    BY <1>1, <1>2, <1>3, <1>4, <1>5, <1>6, <1>7, <1>8, <1>9, <1>10, <1>11, <1>12,
       <1>13, <1>14, <1>15, <1>16, <1>17, <1>18, <1>19
       DEF Next, Create, Revoke, Extend

\* No step breaks the claim, or lets a revoker work on what was never created.
LEMMA ClaimStep ==
  IInv /\ [Next]_vars => (OneToucher /\ ReadersMayClaim /\ AccountBeforeRow)'
<1> SUFFICES ASSUME IInv, [Next]_vars
             PROVE  (OneToucher /\ ReadersMayClaim /\ AccountBeforeRow)'
    OBVIOUS
<1> DEFINE Goal == OneToucher /\ ReadersMayClaim /\ AccountBeforeRow
<1> USE DEF IInv, TypeOK, ProcessState, OneToucher, ReadersMayClaim, AccountBeforeRow, Process,
            Holds, At, Answer, Prior, Idle, Nothing, Goto, row, bounds
<1>1. CASE CreateScript
    BY <1>1 DEF CreateScript, RunScript
<1>2. CASE FinishKey
    BY <1>2 DEF FinishKey
<1>3. CASE FinishAccount
    BY <1>3 DEF FinishAccount
<1>4. CASE LockScript
    BY <1>4 DEF LockScript, RunScript
<1>5. CASE Expire
    BY <1>5 DEF Expire
<1>6. ASSUME NEW p \in Process, Release(p) PROVE Goal'
    BY <1>6 DEF Release, StaleClaim
<1>7. ASSUME NEW p \in Process, PickDue(p) PROVE Goal'
    BY <1>7 DEF PickDue
<1>8. ASSUME NEW p \in Process, ReadPrior(p) PROVE Goal'
    BY <1>8 DEF ReadPrior, Claimable
<1>9. ASSUME NEW p \in Process, Claim(p) PROVE Goal'
    BY <1>9 DEF Claim
<1>10. ASSUME NEW p \in Process, RevokeScript(p) PROVE Goal'
    BY <1>10 DEF RevokeScript, RunScript
<1>11. ASSUME NEW p \in Process, FailRevoke(p) PROVE Goal'
    BY <1>11 DEF FailRevoke, SetStatus
<1>12. ASSUME NEW p \in Process, FinishRevoke(p) PROVE Goal'
    BY <1>12 DEF FinishRevoke, SetStatus
<1>13. ASSUME NEW p \in Process, Emit(p) PROVE Goal'
    BY <1>13 DEF Emit
<1>14. ASSUME NEW p \in Process, ExtendRead(p) PROVE Goal'
    BY <1>14 DEF ExtendRead
<1>15. ASSUME NEW p \in Process, ExtendClaim(p) PROVE Goal'
    BY <1>15 DEF ExtendClaim, Extendable
<1>16. ASSUME NEW p \in Process, ExtendScript(p) PROVE Goal'
    BY <1>16 DEF ExtendScript, RunScript
<1>17. ASSUME NEW p \in Process, FinishExtend(p) PROVE Goal'
    BY <1>17 DEF FinishExtend, SetStatus
<1>18. ASSUME NEW p \in Process, Crash(p) PROVE Goal'
    BY <1>18 DEF Crash
<1>19. CASE UNCHANGED vars
    BY <1>19 DEF vars
<1> QED
    BY <1>1, <1>2, <1>3, <1>4, <1>5, <1>6, <1>7, <1>8, <1>9, <1>10, <1>11, <1>12,
       <1>13, <1>14, <1>15, <1>16, <1>17, <1>18, <1>19
       DEF Next, Create, Revoke, Extend

\* A grant does not change its kind.
LEMMA KindStep == [Next]_vars => kind' = kind
<1> SUFFICES ASSUME [Next]_vars PROVE kind' = kind
    OBVIOUS
<1>1. CASE Create
    BY <1>1 DEF Create, CreateScript, FinishKey, FinishAccount, LockScript, RunScript, bounds
<1>2. ASSUME NEW p \in Process, Revoke(p) PROVE kind' = kind
    BY <1>2 DEF Revoke, ReadPrior, Claim, RevokeScript, FailRevoke, FinishRevoke, Emit,
                RunScript, bounds
<1>3. ASSUME NEW p \in Process, Extend(p) PROVE kind' = kind
    BY <1>3 DEF Extend, ExtendRead, ExtendClaim, ExtendScript, FinishExtend, RunScript, bounds
<1>4. ASSUME NEW p \in Process, Release(p) \/ PickDue(p) \/ Crash(p) PROVE kind' = kind
    BY <1>4 DEF Release, PickDue, Crash, bounds
<1>5. CASE Expire \/ UNCHANGED vars
    BY <1>5 DEF Expire, bounds, vars
<1> QED
    BY <1>1, <1>2, <1>3, <1>4, <1>5 DEF Next

\* No step gives an account's access back once a revocation has removed it.
LEMMA RevocationStep == IInv /\ [Next]_vars => RevocationsHold'
<1> SUFFICES ASSUME IInv, [Next]_vars, kind = "os_user"
             PROVE  RevocationsHold'
    BY KindStep DEF RevocationsHold
<1> USE DEF IInv, TypeOK, ProcessState, OneToucher, AccountBeforeRow, RevocationsHold,
            Process, Holds, At, Answer, Prior, Idle, Nothing, Goto, row, bounds
<1>1. CASE CreateScript
    BY <1>1 DEF CreateScript, RunScript
<1>2. CASE FinishKey
    BY <1>2 DEF FinishKey
<1>3. CASE FinishAccount
    BY <1>3 DEF FinishAccount
<1>4. CASE LockScript
    BY <1>4 DEF LockScript, RunScript
<1>5. CASE Expire
    BY <1>5 DEF Expire
<1>6. ASSUME NEW p \in Process, Release(p) PROVE RevocationsHold'
    BY <1>6 DEF Release, StaleClaim
<1>7. ASSUME NEW p \in Process, PickDue(p) PROVE RevocationsHold'
    BY <1>7 DEF PickDue
<1>8. ASSUME NEW p \in Process, ReadPrior(p) PROVE RevocationsHold'
    BY <1>8 DEF ReadPrior
<1>9. ASSUME NEW p \in Process, Claim(p) PROVE RevocationsHold'
    BY <1>9 DEF Claim
<1>10. ASSUME NEW p \in Process, RevokeScript(p) PROVE RevocationsHold'
  <2>1. PICK o \in Outcomes(access, FALSE) :
          access' = o.access /\ proc' = [proc EXCEPT ![p].at = "revokeEnded", ![p].answer = o.end]
      BY <1>10 DEF RevokeScript, RunScript
  <2>2. /\ o.end = "ok" => ~access'
        /\ access' \in {access, FALSE}
      BY <2>1, OutcomeType
  <2>3. UNCHANGED status
      BY <1>10 DEF RevokeScript, RunScript
  <2>4. status' = "revoked" => ~access'
      BY <2>2, <2>3
  <2>5. ASSUME NEW q \in Process, At(q)' = "revokeEnded", Answer(q)' = "ok" PROVE ~access'
      BY <2>1, <2>2, <2>5
  <2> QED
      BY <2>4, <2>5
<1>11. ASSUME NEW p \in Process, FailRevoke(p) PROVE RevocationsHold'
    BY <1>11 DEF FailRevoke, SetStatus
<1>12. ASSUME NEW p \in Process, FinishRevoke(p) PROVE RevocationsHold'
    BY <1>12 DEF FinishRevoke, SetStatus, Succeeded
<1>13. ASSUME NEW p \in Process, Emit(p) PROVE RevocationsHold'
    BY <1>13 DEF Emit
<1>14. ASSUME NEW p \in Process, ExtendRead(p) PROVE RevocationsHold'
    BY <1>14 DEF ExtendRead
<1>15. ASSUME NEW p \in Process, ExtendClaim(p) PROVE RevocationsHold'
    BY <1>15 DEF ExtendClaim, Extendable
<1>16. ASSUME NEW p \in Process, ExtendScript(p) PROVE RevocationsHold'
    BY <1>16, OutcomeType DEF ExtendScript, RunScript
<1>17. ASSUME NEW p \in Process, FinishExtend(p) PROVE RevocationsHold'
    BY <1>17 DEF FinishExtend, SetStatus
<1>18. ASSUME NEW p \in Process, Crash(p) PROVE RevocationsHold'
    BY <1>18 DEF Crash
<1>19. CASE UNCHANGED vars
    BY <1>19 DEF vars
<1> QED
    BY <1>1, <1>2, <1>3, <1>4, <1>5, <1>6, <1>7, <1>8, <1>9, <1>10, <1>11, <1>12,
       <1>13, <1>14, <1>15, <1>16, <1>17, <1>18, <1>19
       DEF Next, Create, Revoke, Extend

\* No step leads out of "revoked", except a failed creation that deletes the row.
LEMMA RevokedStep ==
  IInv /\ [Next]_vars /\ status = "revoked" => status' \in {"revoked", "absent"}
<1> SUFFICES ASSUME IInv, [Next]_vars, status = "revoked"
             PROVE  status' \in {"revoked", "absent"}
    OBVIOUS
<1>1. \A p \in Process : ~Holds(p)
    BY DEF IInv, OneToucher
<1> USE DEF row
<1>2. CASE Create
    BY <1>2 DEF Create, CreateScript, FinishKey, FinishAccount, LockScript, RunScript,
                IInv, AccountBeforeRow
<1>3. ASSUME NEW p \in Process, Release(p) \/ PickDue(p) \/ Crash(p)
      PROVE  status' = "revoked"
    BY <1>3 DEF Release, StaleClaim, PickDue, Crash
<1>4. ASSUME NEW p \in Process, Revoke(p) PROVE status' = "revoked"
    BY <1>1, <1>4 DEF Revoke, ReadPrior, Claim, RevokeScript, RunScript, FailRevoke,
                      FinishRevoke, Emit, Holds, IInv, ReadersMayClaim
<1>5. ASSUME NEW p \in Process, Extend(p) PROVE status' = "revoked"
    BY <1>1, <1>5 DEF Extend, ExtendRead, ExtendClaim, Extendable, ExtendScript,
                      RunScript, FinishExtend, Holds
<1>6. CASE Expire \/ UNCHANGED vars
    BY <1>6 DEF Expire, vars
<1> QED
    BY <1>2, <1>3, <1>4, <1>5, <1>6 DEF Next

-----------------------------------------------------------------------------
(* The incident *)

Over == status \in {"revoked", "absent"}
Alerted == incident \/ alertLost \/ \E p \in Process : At(p) = "triggering"
TakesUp(p) == At(p) \in {"read", "revoking", "revokeEnded"}

\* What has been given up on has been alerted, and who takes it up again, knowing
\* that, may rely on it; nobody closes the incident before the grant is over.
AlertsSound ==
  /\ \A p \in Process : At(p) = "resolving" => Over
  /\ kind = "os_user" /\ status = "absent" =>
       attempts = 0 /\ \A p \in Process : At(p) \notin {"read", "resolving"}
  /\ ~Over /\ (status = "failed" \/ attempts >= MaxAttempts) => Alerted
  /\ \A p \in Process : TakesUp(p) /\ AlertedBefore(p) /\ ~Over => Alerted

\* A step in which the grant stays what it is for the incident: nobody new takes it
\* up or resolves it, and what was alerted stays so.
LEMMA AlertsStay ==
  ASSUME TypeOK, TypeOK', AlertsSound, kind' = kind,
         Over' \/ (~Over /\ (status' # "failed" \/ status = "failed")),
         status' = "absent" /\ kind = "os_user" => status = "absent",
         attempts' = attempts \/ attempts' < MaxAttempts,
         kind = "os_user" /\ status = "absent" => attempts' = attempts,
         Over \/ (Alerted => Alerted'),
         \A p \in Process : At(p)' = "resolving" => At(p) = "resolving",
         Over => Over',
         \A p \in Process : TakesUp(p)' =>
           TakesUp(p) /\ proc'[p].prior = proc[p].prior /\ (At(p)' = "read" => At(p) = "read")
  PROVE  AlertsSound'
<1>1. \A p \in Process : At(p)' = "resolving" => Over'
    BY DEF AlertsSound
<1>2. kind' = "os_user" /\ status' = "absent" =>
        attempts' = 0 /\ \A p \in Process : At(p)' \notin {"read", "resolving"}
    BY DEF AlertsSound, TakesUp
<1>3. ~Over' /\ (status' = "failed" \/ attempts' >= MaxAttempts) => Alerted'
    BY BoundAssumption DEF AlertsSound, TypeOK
<1>4. \A p \in Process : TakesUp(p)' /\ AlertedBefore(p)' /\ ~Over' => Alerted'
    BY DEF AlertsSound, AlertedBefore, Prior
<1> QED
    BY <1>1, <1>2, <1>3, <1>4 DEF AlertsSound

\* What the steps before the grant is over do to the incident.
LEMMA AlertsStep == IInv /\ AlertsSound /\ [Next]_vars => AlertsSound'
<1> SUFFICES ASSUME IInv, AlertsSound, [Next]_vars PROVE AlertsSound'
    OBVIOUS
<1>a. TypeOK /\ TypeOK' /\ kind' = kind
    BY TypeStep, KindStep DEF IInv
<1>b. attempts \in Nat /\ attempts' \in Nat /\ MaxAttempts \in Nat \ {0} /\ attempts <= MaxAttempts
    BY <1>a, BoundAssumption DEF TypeOK
<1> USE <1>a, <1>b DEF ProcessState, Process, At, Answer, Prior, Idle, Nothing, Goto, Over, Alerted,
                       TakesUp, row, bounds
<1>1. CASE CreateScript
  <2>1. UNCHANGED <<status, attempts, incident, alertLost>>
      BY <1>1 DEF CreateScript, RunScript
  <2>2. \A p \in Process : At(p)' = IF p = Creator THEN "created" ELSE At(p)
      BY <1>1 DEF CreateScript, RunScript, TypeOK
  <2>3. \A p \in Process \ {Creator} : proc'[p] = proc[p]
      BY <1>1 DEF CreateScript, RunScript, TypeOK
  <2> QED
      BY <1>1, <2>1, <2>2, <2>3, AlertsStay DEF CreateScript
<1>2. CASE FinishKey
    BY <1>2, AlertsStay DEF FinishKey, TypeOK
<1>3. CASE FinishAccount
  <2>1. status = "absent" /\ kind = "os_user" /\ \A p \in Process : ~Holds(p)
      BY <1>3 DEF FinishAccount, IInv, AccountBeforeRow
  <2>2. attempts' = 0 /\ \A p \in Process : At(p) \notin {"read", "resolving"}
      BY <1>3, <2>1 DEF FinishAccount, AlertsSound
  <2>3. \A p \in Process : At(p)' = At(p) \/ At(p)' \in {"idle", "gone", "locking"}
      BY <1>3 DEF FinishAccount, TypeOK
  <2>4. \A p \in Process : ~TakesUp(p)' /\ At(p)' # "resolving"
      BY <2>1, <2>2, <2>3 DEF Holds
  <2>5. status' \in {"absent", "active"}
      BY <1>3, <2>1 DEF FinishAccount
  <2> QED
      BY <2>2, <2>4, <2>5 DEF AlertsSound
<1>4. CASE LockScript
    BY <1>4, AlertsStay DEF LockScript, RunScript, TypeOK
<1>5. CASE Expire
    BY <1>5, AlertsStay DEF Expire
<1>6. ASSUME NEW p \in Process, Release(p) PROVE AlertsSound'
    BY <1>6, AlertsStay DEF Release, StaleClaim, TypeOK
<1>7. ASSUME NEW p \in Process, PickDue(p) PROVE AlertsSound'
    BY <1>7, AlertsStay DEF PickDue, TypeOK
<1>8. ASSUME NEW p \in Process, ReadPrior(p) PROVE AlertsSound'
  <2>1. UNCHANGED <<status, attempts, incident, alertLost>>
      BY <1>8 DEF ReadPrior
  <2>2. \A q \in Process \ {p} : proc'[q] = proc[q]
      BY <1>8 DEF ReadPrior, TypeOK
  <2>3. At(p) \notin {"triggering", "resolving"}
      BY <1>8 DEF ReadPrior
  <2>4. Alerted' <=> Alerted \/ At(p)' = "triggering"
      BY <2>1, <2>2, <2>3
  <2>5. CASE status \in Claimable(p)
    <3>1. At(p)' = "read" /\ Prior(p)' = [status |-> status, attempts |-> attempts]
        BY <1>8, <2>5 DEF ReadPrior, TypeOK
    <3>2. status \in {"active", "failed"}
        BY <2>5 DEF Claimable
    <3>3. AlertedBefore(p)' => Alerted'
        BY <2>4, <3>1, <3>2 DEF AlertedBefore, AlertsSound
    <3> QED
        BY <2>1, <2>2, <2>4, <3>1, <3>2, <3>3 DEF AlertsSound, AlertedBefore
  <2>6. CASE status \notin Claimable(p)
    <3>1. At(p)' = "idle"
        BY <1>8, <2>6 DEF ReadPrior, TypeOK
    <3> QED
        BY <2>1, <2>2, <2>4, <3>1, AlertsStay
  <2> QED
      BY <2>5, <2>6
<1>9. ASSUME NEW p \in Process, Claim(p) PROVE AlertsSound'
  <2>1. status = Prior(p).status => status \in {"active", "failed"}
      BY <1>9 DEF Claim, IInv, ReadersMayClaim
  <2> QED
      BY <1>9, <2>1, AlertsStay DEF Claim, TypeOK
<1>10. ASSUME NEW p \in Process, RevokeScript(p) PROVE AlertsSound'
    BY <1>10, AlertsStay DEF RevokeScript, RunScript, TypeOK
<1>11. ASSUME NEW p \in Process, FailRevoke(p) \/ FinishRevoke(p) PROVE AlertsSound'
  <2>1. Holds(p) /\ status \in {"expired_pending", "absent"} /\ At(p) = "revokeEnded"
      BY <1>11 DEF FailRevoke, FinishRevoke, Holds, IInv, OneToucher
  <2>2. kind = "os_user" => status # "absent"
      BY <2>1 DEF IInv, AccountBeforeRow
  <2>3. \A q \in Process \ {p} : proc'[q] = proc[q]
      BY <1>11 DEF FailRevoke, FinishRevoke, TypeOK
  <2>4. At(p)' \in {"triggering", "resolving", "idle"} /\ UNCHANGED <<incident, alertLost>>
      BY <1>11 DEF FailRevoke, FinishRevoke, TypeOK
  <2>5. Alerted => Alerted'
      BY <2>1, <2>3, <2>4
  <2>6. CASE FinishRevoke(p)
    <3>1. status' = IF status = "absent" THEN "absent" ELSE "revoked"
        BY <2>6 DEF FinishRevoke, SetStatus
    <3> QED
        BY <2>2, <3>1 DEF AlertsSound
  <2>7. CASE FailRevoke(p) /\ status = "absent"
    <3>1. status' = "absent" /\ At(p)' = "idle"
        BY <2>7 DEF FailRevoke, SetStatus, TypeOK
    <3> QED
        BY <2>2, <2>7, <3>1 DEF AlertsSound
  <2>8. CASE FailRevoke(p) /\ status = "expired_pending"
    <3> DEFINE exhausted == CountAttempt >= MaxAttempts
    <3>1. status' = IF exhausted THEN "failed" ELSE "active"
        BY <2>8 DEF FailRevoke, SetStatus
    <3>2. exhausted <=> attempts' >= MaxAttempts
        BY <2>8 DEF FailRevoke
    <3>3. At(p)' = IF exhausted /\ ~AlertedBefore(p) THEN "triggering" ELSE "idle"
        BY <2>8 DEF FailRevoke, TypeOK
    <3> HIDE DEF exhausted
    <3>4. exhausted => Alerted'
      <4>1. CASE AlertedBefore(p)
          BY <2>1, <2>5, <2>8, <4>1 DEF AlertsSound
      <4>2. CASE ~AlertedBefore(p)
          BY <3>3, <4>2
      <4> QED
          BY <4>1, <4>2
    <3>5. ~exhausted => attempts' < MaxAttempts /\ status' # "failed"
        BY <3>1, <3>2
    <3>6. \A q \in Process : TakesUp(q)' /\ AlertedBefore(q)' => Alerted'
        BY <2>3, <2>4, <2>5, <2>8 DEF AlertsSound, AlertedBefore
    <3>7. \A q \in Process : At(q)' # "resolving"
        BY <2>3, <2>8, <3>3 DEF AlertsSound
    <3>8. status' # "absent"
        BY <3>1
    <3> QED
        BY <3>2, <3>4, <3>5, <3>6, <3>7, <3>8 DEF AlertsSound
  <2> QED
      BY <1>11, <2>1, <2>6, <2>7, <2>8
<1>13. ASSUME NEW p \in Process, Emit(p) PROVE AlertsSound'
  <2>1. /\ UNCHANGED <<status, attempts>> /\ At(p)' = "idle"
        /\ \A q \in Process \ {p} : proc'[q] = proc[q]
      BY <1>13 DEF Emit, TypeOK
  <2>2. CASE At(p) = "triggering"
    <3>1. incident' = TRUE \/ alertLost' = TRUE
        BY <1>13, <2>2, Zenon DEF Emit
    <3> QED
        BY <2>1, <3>1, AlertsStay
  <2>3. CASE At(p) = "resolving"
    <3>1. Over
        BY <2>3 DEF AlertsSound
    <3> QED
        BY <2>1, <3>1, AlertsStay
  <2> QED
      BY <1>13, <2>2, <2>3 DEF Emit
<1>14. ASSUME NEW p \in Process, ExtendRead(p) PROVE AlertsSound'
    BY <1>14, AlertsStay DEF ExtendRead, TypeOK
<1>15. ASSUME NEW p \in Process, ExtendClaim(p) PROVE AlertsSound'
    BY <1>15, AlertsStay DEF ExtendClaim, Extendable, TypeOK
<1>16. ASSUME NEW p \in Process, ExtendScript(p) PROVE AlertsSound'
    BY <1>16, AlertsStay DEF ExtendScript, RunScript, TypeOK
<1>17. ASSUME NEW p \in Process, FinishExtend(p) PROVE AlertsSound'
  <2>1. Holds(p) /\ status \in {"expired_pending", "absent"}
      BY <1>17 DEF FinishExtend, Holds, IInv, OneToucher
  <2>2. kind = "os_user" => status # "absent"
      BY <2>1 DEF IInv, AccountBeforeRow
  <2>3. status' = IF status = "absent" THEN "absent" ELSE "active"
      BY <1>17 DEF FinishExtend, SetStatus
  <2>4. attempts' = attempts \/ attempts' = 0
      BY <1>17 DEF FinishExtend
  <2>5. UNCHANGED <<incident, alertLost>>
      BY <1>17 DEF FinishExtend
  <2>6. At(p)' = "idle" /\ \A q \in Process \ {p} : proc'[q] = proc[q]
      BY <1>17 DEF FinishExtend, TypeOK
  <2>7. Alerted => Alerted'
      BY <1>17, <2>5, <2>6 DEF FinishExtend
  <2> QED
      BY <2>1, <2>2, <2>3, <2>4, <2>6, <2>7, AlertsStay
<1>18. ASSUME NEW p \in Process, Crash(p) PROVE AlertsSound'
    BY <1>18, AlertsStay DEF Crash, TypeOK
<1>19. CASE UNCHANGED vars
    BY <1>19, AlertsStay DEF vars
<1> QED
    BY <1>1, <1>2, <1>3, <1>4, <1>5, <1>6, <1>7, <1>8, <1>9, <1>10, <1>11,
       <1>13, <1>14, <1>15, <1>16, <1>17, <1>18, <1>19
       DEF Next, Create, Revoke, Extend

-----------------------------------------------------------------------------
\* IInv holds in every reachable state.
THEOREM Inductive == Spec => []IInv
<1>1. IInv /\ [Next]_vars => IInv'
    BY TypeStep, ClaimStep, RevocationStep DEF IInv
<1> QED
    BY InitIInv, <1>1, PTL DEF Spec

\* Every reachable state is well typed.
THEOREM TypeCorrect == Spec => []TypeOK
<1>1. IInv => TypeOK
    BY DEF IInv
<1> QED
    BY Inductive, <1>1, PTL

\* Of any number of concurrent revokers and extenders one touches the host.
THEOREM OneTouches == Spec => []OneToucher
<1>1. IInv => OneToucher
    BY DEF IInv
<1> QED
    BY Inductive, <1>1, PTL

\* A grant that was revoked is never taken up again.
THEOREM RevocationIsFinal == Spec => RevokedIsFinal
<1>1. IInv /\ [Next]_vars =>
        [status = "revoked" => status' \in {"revoked", "absent"}]_vars
    BY RevokedStep
<1> QED
    BY Inductive, <1>1, PTL DEF Spec, RevokedIsFinal

\* The access of an account whose grant is "revoked" is gone from the host.
\* (For a key this fails: see the run that overlaps revoking and adding.)
THEOREM AccountIsGone == Spec => []RevokedAccountIsGone
<1>1. IInv => RevokedAccountIsGone
    BY DEF IInv, RevocationsHold, RevokedAccountIsGone
<1> QED
    BY Inductive, <1>1, PTL

\* What the sweeper has given up on has an open incident, or one about to be raised,
\* unless that alert was lost (revokeGrant, access-grant.service.ts:865-888).
THEOREM GivingUpIsAlerted == Spec => []FailedIsAlerted
<1>1. Init => AlertsSound
  <2> SUFFICES ASSUME Init PROVE AlertsSound
      OBVIOUS
  <2>1. \A p \in Process : At(p) \in {"idle", "creating"}
      BY DEF Init, Process, At, Idle
  <2> QED
      BY <2>1 DEF Init, AlertsSound, TakesUp, Over
<1>2. IInv /\ AlertsSound => FailedIsAlerted
    BY DEF AlertsSound, Over, Alerted, FailedIsAlerted
<1> QED
    BY Inductive, AlertsStep, <1>1, <1>2, PTL DEF Spec
===============================================================================
