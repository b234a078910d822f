-------------------------- MODULE AlertDispatchProofs --------------------------
(***************************************************************************)
(* OneSender and SendsAreCounted of AlertDispatch, for any number of       *)
(* replicas, deliveries, attempts, faults and stalls.                      *)
(*                                                                         *)
(* The invariant is about one delivery at a time, since a step concerns    *)
(* one row (RowInv).  A process that has the delivery in hand is paid for  *)
(* by the lease of the row or else by a stall: a claim takes a lease that  *)
(* was free or has lapsed, and a lease that lapses under its holder is a   *)
(* stall.  A send is paid for by the attempt its holder will record, and   *)
(* where the holder has lost the row by the same stall.                    *)
(***************************************************************************)
EXTENDS AlertDispatch, FiniteSetTheorems, TLAPS

InHand == {"claimed", "sending", "answered"}
Holder(d) == {p \in Process : At(p, d) \in InHand}
Answered(d) == {p \in Process : At(p, d) = "answered"}

\* Somebody has d in hand under the lease that stands.
Leased(d) ==
  ~lapsed[d] /\ \E p \in Holder(d) : work[p][d].lockedUntil = lockedUntil[d]

lease(d) == IF Leased(d) THEN 1 ELSE 0

\* A stamp names one claim: only the row's own holder has the row's stamp, and who
\* read a lapsed lease finds it lapsed as long as the stamp is the same.
StampsSound(d) ==
  /\ status[d] # "sending" => lockedUntil[d] = 0
  /\ \A p \in Holder(d) :
       /\ work[p][d].lockedUntil # 0
       /\ work[p][d].lockedUntil = lockedUntil[d] => lockedBy[d] = p /\ status[d] = "sending"
  /\ \A p \in Process :
       At(p, d) = "queued" /\ work[p][d].status = "sending" /\ status[d] = "sending"
         /\ work[p][d].lockedUntil = lockedUntil[d] => lapsed[d]

\* What is not settled has an attempt left; what is not queued has all of them, and
\* no lease.
AttemptsLeft(d) ==
  /\ attempts[d] <= maxAttempts(d)
  /\ status[d] \notin Outcome => attempts[d] < maxAttempts(d)
  /\ status[d] = "none" => attempts[d] = 0 /\ ~lapsed[d]

\* The tester has only its tests in hand.
TesterTests(d) ==
  At(Tester, d) # "idle" => d \in tests /\ At(Tester, d) \in {"sending", "answered"}

HoldersPaid(d) == Cardinality(Holder(d)) <= stalls + lease(d)

SendsPaid(d) ==
  (d \in tests => stalls = 0) =>
    sends[d] + Cardinality(Holder(d))
      <= attempts[d] + faults + stalls + Cardinality(Answered(d)) + lease(d)

RowInv(d) == StampsSound(d) /\ AttemptsLeft(d) /\ HoldersPaid(d) /\ SendsPaid(d)

DispatchInv == TypeOK /\ \A d \in Delivery : RowInv(d) /\ TesterTests(d)

------------------------------------------------------------------------------
(* Counting *)

LEMMA ProcessIsFinite ==
  /\ IsFiniteSet(Process)
  /\ \A d \in Delivery :
       /\ IsFiniteSet(Holder(d)) /\ Cardinality(Holder(d)) \in Nat
       /\ IsFiniteSet(Answered(d)) /\ Cardinality(Answered(d)) \in Nat
PROOF
  <1>1. IsFiniteSet(Process)
    BY ReplicaAssumption, FS_AddElement DEF Process
  <1>2. \A S \in SUBSET Process : IsFiniteSet(S) /\ Cardinality(S) \in Nat
    BY <1>1, FS_Subset, FS_CardinalityType
  <1>3. \A d \in Delivery : Holder(d) \in SUBSET Process /\ Answered(d) \in SUBSET Process
    BY DEF Holder, Answered
  <1> QED
    BY <1>1, <1>2, <1>3

LEMMA ProcessIsFiniteThen ==
  \A d \in Delivery :
    /\ IsFiniteSet(Holder(d)') /\ Cardinality(Holder(d)') \in Nat
    /\ IsFiniteSet(Answered(d)') /\ Cardinality(Answered(d)') \in Nat
PROOF
  <1>1. \A S \in SUBSET Process : IsFiniteSet(S) /\ Cardinality(S) \in Nat
    BY ProcessIsFinite, FS_Subset, FS_CardinalityType
  <1>2. \A d \in Delivery : Holder(d)' \in SUBSET Process /\ Answered(d)' \in SUBSET Process
    BY DEF Holder, Answered
  <1> QED
    BY <1>1, <1>2

LEMMA NumbersAreNumbers ==
  ASSUME TypeOK, NEW d \in Delivery
  PROVE  /\ stalls \in Nat /\ faults \in Nat /\ sends[d] \in Nat /\ attempts[d] \in Nat
         /\ lease(d) \in {0, 1} /\ lockedUntil[d] \in Stamp /\ maxAttempts(d) \in Nat
         /\ SendBound \in Nat
PROOF
  <1>1. MaxAttempts \in Nat /\ MaxFaults \in Nat /\ MaxStalls \in Nat
    BY BoundAssumption
  <1>2. SendBound \in Nat
    BY <1>1 DEF SendBound
  <1> QED
    BY <1>1, <1>2 DEF TypeOK, lease, maxAttempts

\* A new claim's stamp is nobody's: there are more stamps than processes.
LEMMA FreshIsFresh ==
  ASSUME TypeOK, NEW d \in Delivery,
         \/ lockedUntil[d] = 0
         \/ \E p \in Process : At(p, d) # "idle" /\ work[p][d].lockedUntil = lockedUntil[d]
  PROVE  /\ FreshStamp(d) \in Stamp \ {0}
         /\ FreshStamp(d) # lockedUntil[d]
         /\ \A p \in Process : At(p, d) # "idle" => work[p][d].lockedUntil # FreshStamp(d)
PROOF
  <1> DEFINE N == Cardinality(Process)
             Taken(n) == \E p \in Process : At(p, d) # "idle" /\ work[p][d].lockedUntil = n
  <1>1. N \in Nat /\ IsFiniteSet(Process)
    BY ProcessIsFinite, FS_CardinalityType
  <1>2. Stamp \ {0} = 1 .. N + 1
    BY <1>1 DEF Stamp
  <1>3. \E n \in 1 .. N + 1 : ~Taken(n)
    <2> SUFFICES ASSUME \A n \in 1 .. N + 1 : Taken(n) PROVE FALSE
      OBVIOUS
    <2> DEFINE f == [n \in 1 .. N + 1 |->
                       CHOOSE p \in Process : At(p, d) # "idle" /\ work[p][d].lockedUntil = n]
    <2>1. \A n \in 1 .. N + 1 : f[n] \in Process /\ work[f[n]][d].lockedUntil = n
      OBVIOUS
    <2>2. f \in [1 .. N + 1 -> Process]
      BY <2>1
    <2>3. IsFiniteSet(1 .. N + 1) /\ Cardinality(1 .. N + 1) = N + 1
      BY <1>1, FS_Interval
    <2> HIDE DEF f
    <2>4. N < N + 1
      BY <1>1
    <2>5. \E m, n \in 1 .. N + 1 : m # n /\ f[m] = f[n]
      BY <1>1, <2>2, <2>3, <2>4, FS_PigeonHole
    <2> QED
      BY <2>1, <2>5
  <1>4. PICK n \in Stamp \ {0} : ~Taken(n)
    BY <1>2, <1>3
  <1>5. n # lockedUntil[d]
    BY <1>4
  <1> QED
    BY <1>4, <1>5 DEF FreshStamp

------------------------------------------------------------------------------
(* How a row stays sound *)

\* The row stays, and nobody takes it into his hand or lets go of it.
LEMMA Quiet ==
  ASSUME TypeOK, TypeOK', NEW d \in Delivery, RowInv(d),
         status'[d] = status[d] \/ (status[d] = "none" /\ status'[d] # "sending"),
         /\ attempts'[d] = attempts[d]
         /\ lockedBy'[d] = lockedBy[d] /\ lockedUntil'[d] = lockedUntil[d]
         /\ lapsed'[d] = lapsed[d] /\ sends'[d] = sends[d],
         d \in tests' <=> d \in tests,
         faults' >= faults, stalls' >= stalls,
         \A p \in Process :
           \/ work'[p][d] = work[p][d]
           \/ /\ At(p, d) \notin InHand /\ At(p, d)' \notin InHand
              /\ At(p, d)' = "queued" /\ work'[p][d].status = "sending" => lapsed[d]
  PROVE  RowInv(d)'
PROOF
  <1>1. Holder(d)' = Holder(d) /\ Answered(d)' = Answered(d)
    BY DEF Holder, Answered, At, InHand
  <1>2. \A p \in Holder(d) : work'[p][d] = work[p][d]
    BY DEF Holder
  <1>3. StampsSound(d)'
    <2>1. \A p \in Process :
            At(p, d)' = "queued" /\ work'[p][d].status = "sending" /\ status[d] = "sending"
              /\ work'[p][d].lockedUntil = lockedUntil[d] => lapsed[d]
      BY DEF RowInv, StampsSound, At
    <2> QED
      BY <1>1, <1>2, <2>1 DEF RowInv, StampsSound
  <1>4. AttemptsLeft(d)'
    <2>1. maxAttempts(d) \in Nat \ {0} /\ maxAttempts(d)' = maxAttempts(d)
      BY BoundAssumption DEF maxAttempts
    <2> QED
      BY <2>1, NumbersAreNumbers DEF RowInv, AttemptsLeft
  <1>5. lease(d)' = lease(d)
    BY <1>1, <1>2 DEF lease, Leased
  <1>6. /\ Cardinality(Holder(d)) \in Nat /\ Cardinality(Answered(d)) \in Nat
        /\ stalls \in Nat /\ faults \in Nat /\ sends[d] \in Nat /\ attempts[d] \in Nat
        /\ stalls' \in Nat /\ faults' \in Nat /\ lease(d) \in {0, 1}
    BY ProcessIsFinite, NumbersAreNumbers, BoundAssumption DEF TypeOK
  <1>7. HoldersPaid(d)'
    BY <1>1, <1>5, <1>6 DEF RowInv, HoldersPaid
  <1>8. SendsPaid(d)'
    BY <1>1, <1>5, <1>6 DEF RowInv, SendsPaid
  <1> QED
    BY <1>3, <1>4, <1>7, <1>8 DEF RowInv

\* p takes the row into its hand, with a new stamp.
LEMMA Takes ==
  ASSUME TypeOK, TypeOK', NEW d \in Delivery, RowInv(d), ~Leased(d),
         NEW p \in Process, p \notin Holder(d), p \notin Answered(d)',
         FreshStamp(d) \in Stamp \ {0},
         \A q \in Process : At(q, d) # "idle" => work[q][d].lockedUntil # FreshStamp(d),
         /\ status'[d] = "sending" /\ lockedBy'[d] = p /\ lockedUntil'[d] = FreshStamp(d)
         /\ ~lapsed'[d] /\ attempts'[d] = attempts[d] /\ sends'[d] = sends[d],
         status[d] \notin Outcome, attempts[d] < maxAttempts(d)',
         d \in tests => d \in tests',
         faults' = faults, stalls' = stalls,
         At(p, d)' \in InHand, work'[p][d].lockedUntil = FreshStamp(d),
         \A q \in Process \ {p} : work'[q][d] = work[q][d]
  PROVE  RowInv(d)'
PROOF
  <1>1. Holder(d)' = Holder(d) \cup {p}
    BY DEF Holder, At
  <1>2. Answered(d)' = Answered(d)
    BY DEF Holder, Answered, At, InHand
  <1>3. Cardinality(Holder(d)') = Cardinality(Holder(d)) + 1
    BY <1>1, ProcessIsFinite, FS_AddElement
  <1>4. StampsSound(d)'
    <2>1. FreshStamp(d) # 0
      OBVIOUS
    <2>2. \A q \in Holder(d) \ {p} :
            work'[q][d].lockedUntil # 0 /\ work'[q][d].lockedUntil # FreshStamp(d)
      BY DEF RowInv, StampsSound, Holder, InHand
    <2>3. \A q \in Process \ {p} : At(q, d)' = "queued" => work'[q][d].lockedUntil # FreshStamp(d)
      BY DEF At
    <2>4. At(p, d)' # "queued"
      BY DEF InHand
    <2> QED
      BY <1>1, <2>1, <2>2, <2>3, <2>4 DEF StampsSound
  <1>5. AttemptsLeft(d)'
    <2>1. maxAttempts(d)' \in Nat /\ attempts[d] \in Nat
      BY NumbersAreNumbers, BoundAssumption DEF maxAttempts
    <2> QED
      BY <2>1 DEF AttemptsLeft
  <1>6. lease(d) = 0 /\ lease(d)' = 1
    BY <1>1 DEF lease, Leased
  <1>7. /\ Cardinality(Holder(d)) \in Nat /\ Cardinality(Answered(d)) \in Nat
        /\ stalls \in Nat /\ faults \in Nat /\ sends[d] \in Nat /\ attempts[d] \in Nat
    BY ProcessIsFinite, NumbersAreNumbers
  <1>8. HoldersPaid(d)'
    BY <1>3, <1>6, <1>7 DEF RowInv, HoldersPaid
  <1>9. SendsPaid(d)'
    BY <1>2, <1>3, <1>6, <1>7 DEF RowInv, SendsPaid
  <1> QED
    BY <1>4, <1>5, <1>8, <1>9 DEF RowInv

\* p lets go of the row.  Its answer, if it had one, is paid for by an attempt or a
\* fault, or p had lost the row.
LEMMA LetsGo ==
  ASSUME TypeOK, TypeOK', NEW d \in Delivery, RowInv(d),
         NEW p \in Holder(d), At(p, d)' = "idle",
         \A q \in Process \ {p} : work'[q][d] = work[q][d],
         StampsSound(d)', AttemptsLeft(d)',
         sends'[d] = sends[d], attempts'[d] >= attempts[d],
         d \in tests' <=> d \in tests,
         faults' >= faults, stalls' = stalls,
         \/ At(p, d) # "answered"
         \/ attempts'[d] > attempts[d] \/ faults' > faults
         \/ lease(d)' >= lease(d)
         \/ d \in tests /\ stalls # 0
  PROVE  RowInv(d)'
PROOF
  <1>1. Holder(d)' = Holder(d) \ {p}
    BY DEF Holder, At, InHand
  <1>2. Cardinality(Holder(d)') = Cardinality(Holder(d)) - 1
    BY <1>1, ProcessIsFinite, FS_RemoveElement
  <1>3. Answered(d)' = Answered(d) \ {p}
    BY DEF Answered, At
  <1>4. Cardinality(Answered(d)') =
          IF At(p, d) = "answered" THEN Cardinality(Answered(d)) - 1
                                   ELSE Cardinality(Answered(d))
    <2>1. IsFiniteSet(Answered(d)) /\ p \in Process
      BY ProcessIsFinite DEF Holder
    <2>2. CASE At(p, d) = "answered"
      <3>1. p \in Answered(d)
        BY <2>1, <2>2 DEF Answered
      <3> QED
        BY <1>3, <2>1, <2>2, <3>1, FS_RemoveElement
    <2>3. CASE At(p, d) # "answered"
      <3>1. Answered(d)' = Answered(d)
        BY <1>3, <2>3 DEF Answered
      <3> QED
        BY <2>3, <3>1
    <2> QED
      BY <2>2, <2>3
  <1>5. /\ Cardinality(Holder(d)) \in Nat /\ Cardinality(Answered(d)) \in Nat
        /\ stalls \in Nat /\ faults \in Nat /\ sends[d] \in Nat /\ attempts[d] \in Nat
        /\ faults' \in Nat /\ attempts'[d] \in Nat /\ lease(d) \in {0, 1}
    BY ProcessIsFinite, NumbersAreNumbers, BoundAssumption DEF TypeOK
  <1>6. lease(d)' \in {0, 1}
    BY DEF lease
  <1>7. HoldersPaid(d)'
    BY <1>2, <1>5, <1>6 DEF RowInv, HoldersPaid
  <1>8. SendsPaid(d)'
    <2> SUFFICES ASSUME d \in tests => stalls = 0
                 PROVE  sends[d] + Cardinality(Holder(d)')
                          <= attempts'[d] + faults' + stalls + Cardinality(Answered(d)')
                             + lease(d)'
      BY DEF SendsPaid
    <2>1. sends[d] + Cardinality(Holder(d))
            <= attempts[d] + faults + stalls + Cardinality(Answered(d)) + lease(d)
      BY DEF RowInv, SendsPaid
    <2>2. CASE At(p, d) # "answered"
      BY <1>2, <1>4, <1>5, <1>6, <2>1, <2>2
    <2>3. CASE At(p, d) = "answered"
      BY <1>2, <1>4, <1>5, <1>6, <2>1, <2>3
    <2> QED
      BY <2>2, <2>3
  <1> QED
    BY <1>7, <1>8 DEF RowInv

------------------------------------------------------------------------------
(* Types *)

LEMMA DoesTyped ==
  ASSUME TypeOK, NEW r \in Process, NEW d \in Delivery, NEW w, Does(r, d, w)
  PROVE  /\ w \in Working => work' \in [Process -> [Delivery -> Working]]
         /\ work'[r][d] = w
         /\ \A q \in Process \ {r} : work'[q] = work[q]
         /\ \A q \in Process, e \in Delivery \ {d} : work'[q][e] = work[q][e]
PROOF
  BY DEF TypeOK, Does

LEMMA FinalizeTyped ==
  ASSUME TypeOK, NEW r \in Process, NEW d \in Delivery, NEW s \in Status,
         NEW isDue \in BOOLEAN, NEW n, Owns(r, d) => n \in 0 .. MaxAttempts,
         Finalize(r, d, s, isDue, n)
  PROVE  /\ status' \in [Delivery -> Status]
         /\ attempts' \in [Delivery -> 0 .. MaxAttempts]
         /\ due' \in [Delivery -> BOOLEAN] /\ lapsed' \in [Delivery -> BOOLEAN]
         /\ lockedBy' \in [Delivery -> Process \cup {None}]
         /\ lockedUntil' \in [Delivery -> Stamp]
PROOF
  <1>1. 0 \in Stamp
    BY ProcessIsFinite, FS_CardinalityType DEF Stamp
  <1>2. CASE Owns(r, d)
    <2>1. /\ status' = [status EXCEPT ![d] = s] /\ due' = [due EXCEPT ![d] = isDue]
          /\ attempts' = [attempts EXCEPT ![d] = n]
          /\ lockedBy' = [lockedBy EXCEPT ![d] = None]
          /\ lockedUntil' = [lockedUntil EXCEPT ![d] = 0]
          /\ lapsed' = [lapsed EXCEPT ![d] = FALSE]
      BY <1>2 DEF Finalize
    <2>2. lapsed' \in [Delivery -> BOOLEAN] /\ due' \in [Delivery -> BOOLEAN]
      BY <2>1 DEF TypeOK
    <2>3. status' \in [Delivery -> Status] /\ lockedBy' \in [Delivery -> Process \cup {None}]
      BY <2>1 DEF TypeOK
    <2>4. attempts' \in [Delivery -> 0 .. MaxAttempts]
      BY <1>2, <2>1 DEF TypeOK
    <2>5. lockedUntil' \in [Delivery -> Stamp]
      BY <1>1, <2>1 DEF TypeOK
    <2> QED
      BY <2>2, <2>3, <2>4, <2>5
  <1>3. CASE ~Owns(r, d)
    BY <1>3 DEF Finalize, TypeOK, table
  <1> QED
    BY <1>2, <1>3

\* A row somebody owns can be charged once more.
LEMMA ChargeTyped ==
  ASSUME DispatchInv, NEW r \in Process, NEW d \in Delivery, Owns(r, d)
  PROVE  /\ attempts[d] \in 0 .. MaxAttempts /\ Counted(d) \in 0 .. MaxAttempts
         /\ attempts[d] < maxAttempts(d)
PROOF
  <1>1. attempts[d] < maxAttempts(d)
    BY DEF DispatchInv, RowInv, AttemptsLeft, Owns, Outcome
  <1>2. attempts[d] \in 0 .. MaxAttempts /\ MaxAttempts \in Nat \ {0}
    BY BoundAssumption DEF DispatchInv, TypeOK
  <1> QED
    BY <1>1, <1>2 DEF Counted, maxAttempts

LEMMA InitTyped == Init => TypeOK
PROOF
  <1>1. 0 \in Stamp
    BY ProcessIsFinite, FS_CardinalityType DEF Stamp
  <1>2. 0 \in 0 .. MaxAttempts /\ 0 \in 0 .. MaxFaults /\ 0 \in 0 .. MaxStalls /\ 0 \in 0 .. SendBound
    BY BoundAssumption DEF SendBound
  <1>3. "none" \in Status /\ Idle \in Working
    BY DEF Status, Working
  <1> SUFFICES ASSUME Init PROVE TypeOK
    OBVIOUS
  <1>4. /\ tests \subseteq events /\ events \subseteq Delivery /\ aged \subseteq Delivery
        /\ enabled \in BOOLEAN /\ incident \in BOOLEAN
    BY DEF Init
  <1>5. due \in [Delivery -> BOOLEAN] /\ lapsed \in [Delivery -> BOOLEAN]
    BY DEF Init
  <1>6. status \in [Delivery -> Status] /\ lockedBy \in [Delivery -> Process \cup {None}]
    BY <1>3 DEF Init
  <1>7. work \in [Process -> [Delivery -> Working]]
    BY <1>3 DEF Init
  <1>8. /\ attempts \in [Delivery -> 0 .. MaxAttempts] /\ lockedUntil \in [Delivery -> Stamp]
        /\ sends \in [Delivery -> 0 .. SendBound] /\ faults \in 0 .. MaxFaults
        /\ stalls \in 0 .. MaxStalls
    BY <1>1, <1>2 DEF Init
  <1> QED
    BY <1>4, <1>5, <1>6, <1>7, <1>8 DEF TypeOK

LEMMA TypePreserved == DispatchInv /\ [Next]_vars => TypeOK'
PROOF
  <1> SUFFICES ASSUME DispatchInv, [Next]_vars PROVE TypeOK'
    OBVIOUS
  <1>1. TypeOK
    BY DEF DispatchInv
  <1>2. Idle \in Working /\ 0 \in Stamp
    BY ProcessIsFinite, FS_CardinalityType DEF Working, Stamp
  <1>3. MaxAttempts \in Nat \ {0} /\ MaxFaults \in Nat /\ MaxStalls \in Nat
    BY BoundAssumption
  <1>4. \A d \in Delivery :
          (\/ lockedUntil[d] = 0
           \/ \E p \in Process : At(p, d) # "idle" /\ work[p][d].lockedUntil = lockedUntil[d])
          => FreshStamp(d) \in Stamp
    BY <1>1, FreshIsFresh
  <1>5. CASE SwitchChannel
    BY <1>1, <1>5 DEF SwitchChannel, TypeOK, table
  <1>6. ASSUME NEW d \in Delivery,
               EmitEvent(d) \/ FanOut(d) \/ BackoffEnds(d) \/ LeaseLapses(d) \/ Age(d)
        PROVE  TypeOK'
    <2>1. CASE EmitEvent(d) \/ Age(d)
      BY <1>1, <2>1 DEF EmitEvent, Age, TypeOK, table
    <2>2. CASE FanOut(d)
      <3>1. faults' \in 0 .. MaxFaults
        BY <1>1, <1>3, <2>2 DEF FanOut, TypeOK
      <3>2. status' \in [Delivery -> Status]
        <4>1. \E s \in {"pending", "suppressed", "unqueued"} : status' = [status EXCEPT ![d] = s]
          <5>1. CASE enabled
            BY <2>2, <5>1 DEF FanOut
          <5>2. CASE ~enabled
            BY <2>2, <5>2 DEF FanOut
          <5> QED
            BY <5>1, <5>2
        <4>2. \A s \in {"pending", "suppressed", "unqueued"} : s \in Status
          BY DEF Status, Outcome
        <4> QED
          BY <1>1, <4>1, <4>2 DEF TypeOK
      <3> QED
        BY <1>1, <2>2, <3>1, <3>2 DEF FanOut, TypeOK
    <2>3. CASE BackoffEnds(d)
      BY <1>1, <2>3 DEF BackoffEnds, TypeOK
    <2>4. CASE LeaseLapses(d)
      <3>1. stalls' \in 0 .. MaxStalls
        BY <1>1, <1>3, <2>4 DEF LeaseLapses, TypeOK
      <3> QED
        BY <1>1, <2>4, <3>1 DEF LeaseLapses, TypeOK
    <2> QED
      BY <1>6, <2>1, <2>2, <2>3, <2>4
  <1>7. ASSUME NEW d \in Delivery, TestClaim(d) PROVE TypeOK'
    <2>1. lockedUntil[d] = 0
      BY <1>7 DEF TestClaim, DispatchInv, RowInv, StampsSound
    <2>2. FreshStamp(d) \in Stamp /\ Tester \in Process
      BY <1>4, <2>1 DEF Process
    <2>3. [at |-> "sending", lockedUntil |-> FreshStamp(d)] \in Working
      BY <2>2 DEF Working
    <2>4. work' \in [Process -> [Delivery -> Working]]
      BY <1>1, <1>7, <2>2, <2>3, DoesTyped DEF TestClaim
    <2> QED
      BY <1>1, <1>7, <2>2, <2>4 DEF TestClaim, TypeOK, Status
  <1>8. ASSUME NEW d \in Delivery, TestRecord(d) PROVE TypeOK'
    <2>1. work' \in [Process -> [Delivery -> Working]]
      BY <1>1, <1>2, <1>8, DoesTyped DEF TestRecord, Process
    <2> QED
      BY <1>1, <1>2, <1>3, <1>8, <2>1 DEF TestRecord, TypeOK, Status, Outcome
  <1>9. ASSUME NEW r \in Process, ReadBatch(r) PROVE TypeOK'
    <2>1. \A d \in Delivery :
            Due(d) => [at |-> "queued", status |-> status[d],
                       lockedUntil |-> IF status[d] = "sending" THEN lockedUntil[d] ELSE 0]
                        \in Working
      BY <1>1, <1>2 DEF Due, Working, TypeOK
    <2>2. work' \in [Process -> [Delivery -> Working]]
      BY <1>1, <1>2, <1>9, <2>1 DEF ReadBatch, TypeOK
    <2> QED
      BY <1>1, <1>9, <2>2 DEF ReadBatch, TypeOK, table
  <1>10. ASSUME NEW r \in Process, Crash(r) PROVE TypeOK'
    <2>1. faults' \in 0 .. MaxFaults
      BY <1>1, <1>3, <1>10 DEF Crash, TypeOK
    <2> QED
      BY <1>1, <1>2, <1>10, <2>1 DEF Crash, TypeOK, table
  <1>11. ASSUME NEW r \in Process, NEW d \in Delivery, Claim(r, d) PROVE TypeOK'
    <2>1. CASE AsRead(r, d)
      <3>1. \/ lockedUntil[d] = 0
            \/ At(r, d) # "idle" /\ work[r][d].lockedUntil = lockedUntil[d]
        BY <1>11, <2>1 DEF Claim, AsRead, DispatchInv, RowInv, StampsSound
      <3>2. FreshStamp(d) \in Stamp
        BY <1>4, <3>1
      <3>3. [at |-> "claimed", lockedUntil |-> FreshStamp(d)] \in Working
        BY <3>2 DEF Working
      <3>4. Does(r, d, [at |-> "claimed", lockedUntil |-> FreshStamp(d)])
        BY <1>11, <2>1 DEF Claim
      <3>5. work' \in [Process -> [Delivery -> Working]]
        BY <1>1, <3>3, <3>4, DoesTyped
      <3> QED
        BY <1>1, <1>11, <2>1, <3>2, <3>5 DEF Claim, TypeOK, Status
    <2>2. CASE ~AsRead(r, d)
      <3>1. work' \in [Process -> [Delivery -> Working]]
        BY <1>1, <1>2, <1>11, <2>2, DoesTyped DEF Claim
      <3> QED
        BY <1>1, <1>11, <2>2, <3>1 DEF Claim, TypeOK
    <2> QED
      BY <2>1, <2>2
  <1>12. ASSUME NEW r \in Process, NEW d \in Delivery,
                SettleUnsent(r, d) \/ Record(r, d) \/ Hiccup(r, d)
         PROVE  TypeOK'
    <2>1. work' \in [Process -> [Delivery -> Working]]
      BY <1>1, <1>2, <1>12, DoesTyped DEF SettleUnsent, Record, Hiccup
    <2>2. faults' \in 0 .. MaxFaults
      <3>1. CASE SettleUnsent(r, d) \/ Record(r, d)
        BY <1>1, <3>1 DEF SettleUnsent, Record, TypeOK
      <3>2. CASE Hiccup(r, d)
        BY <1>1, <1>3, <3>2 DEF Hiccup, TypeOK
      <3> QED
        BY <1>12, <3>1, <3>2
    <2>3. \/ UNCHANGED table
          \/ \E s \in Status, isDue \in BOOLEAN, n \in {attempts[d], Counted(d)} :
               Finalize(r, d, s, isDue, n)
      BY <1>1, <1>12 DEF SettleUnsent, Record, Hiccup, Status, Outcome, TypeOK
    <2> DEFINE RowsTyped ==
          /\ status' \in [Delivery -> Status]
          /\ attempts' \in [Delivery -> 0 .. MaxAttempts]
          /\ due' \in [Delivery -> BOOLEAN] /\ lapsed' \in [Delivery -> BOOLEAN]
          /\ lockedBy' \in [Delivery -> Process \cup {None}]
          /\ lockedUntil' \in [Delivery -> Stamp]
    <2>4. RowsTyped
      <3>1. CASE UNCHANGED table
        BY <1>1, <3>1 DEF table, TypeOK
      <3>2. ASSUME NEW s \in Status, NEW isDue \in BOOLEAN,
                   NEW n \in {attempts[d], Counted(d)}, Finalize(r, d, s, isDue, n)
            PROVE  RowsTyped
        <4>1. Owns(r, d) => n \in 0 .. MaxAttempts
          BY ChargeTyped
        <4> QED
          BY <1>1, <3>2, <4>1, FinalizeTyped
      <3> QED
        BY <2>3, <3>1, <3>2
    <2> QED
      BY <1>1, <1>12, <2>1, <2>2, <2>4 DEF SettleUnsent, Record, Hiccup, TypeOK
  <1>13. ASSUME NEW r \in Process, NEW d \in Delivery, StartSend(r, d) PROVE TypeOK'
    <2>1. [work[r][d] EXCEPT !.at = "sending"] \in Working
      BY <1>1, <1>13 DEF StartSend, At, TypeOK, Working, Idle
    <2> QED
      BY <1>1, <1>13, <2>1, DoesTyped DEF StartSend, TypeOK, table
  <1>14. ASSUME NEW r \in Process, NEW d \in Delivery, Send(r, d) PROVE TypeOK'
    <2>1. PICK answer \in {"ok", "retryable", "fatal"}, arrives \in BOOLEAN :
            /\ Does(r, d, [at |-> "answered", lockedUntil |-> work[r][d].lockedUntil,
                           answer |-> answer])
            /\ incident' = IF arrives /\ d \notin tests THEN d \in Trigger ELSE incident
      BY <1>14 DEF Send
    <2>2. work[r][d].lockedUntil \in Stamp
      BY <1>1, <1>14 DEF Send, At, TypeOK, Working, Idle
    <2>3. [at |-> "answered", lockedUntil |-> work[r][d].lockedUntil, answer |-> answer] \in Working
      BY <2>2 DEF Working
    <2>4. work' \in [Process -> [Delivery -> Working]]
      BY <1>1, <2>1, <2>3, DoesTyped
    <2>5. incident' \in BOOLEAN
      <3>1. CASE arrives /\ d \notin tests
        BY <2>1, <3>1
      <3>2. CASE ~(arrives /\ d \notin tests)
        BY <1>1, <2>1, <3>2 DEF TypeOK
      <3> QED
        BY <3>1, <3>2
    <2>6. sends' \in [Delivery -> 0 .. SendBound]
      <3>1. sends[d] \in 0 .. SendBound /\ SendBound \in Nat
        BY <1>1, NumbersAreNumbers DEF TypeOK
      <3> DEFINE n == IF sends[d] = SendBound THEN sends[d] ELSE sends[d] + 1
      <3>2. sends' = [sends EXCEPT ![d] = n]
        BY <1>14 DEF Send
      <3>3. n \in 0 .. SendBound
        BY <3>1
      <3> QED
        BY <1>1, <3>2, <3>3 DEF TypeOK
    <2> QED
      BY <1>1, <1>14, <2>4, <2>5, <2>6 DEF Send, TypeOK, table
  <1>15. CASE UNCHANGED vars
    BY <1>1, <1>15 DEF vars, TypeOK
  <1> QED
    BY <1>5, <1>6, <1>7, <1>8, <1>9, <1>10, <1>11, <1>12, <1>13, <1>14, <1>15
    DEF Next, Dispatch
------------------------------------------------------------------------------
(* Soundness of the rows, step by step *)

\* The row but for what counts as work.
RowStays(d) ==
  /\ status'[d] = status[d] /\ attempts'[d] = attempts[d] /\ lockedBy'[d] = lockedBy[d]
  /\ lockedUntil'[d] = lockedUntil[d] /\ lapsed'[d] = lapsed[d]

\* A settlement leaves the other rows alone.
LEMMA FinalizeElsewhere ==
  ASSUME TypeOK, NEW r \in Process, NEW e \in Delivery, NEW d \in Delivery \ {e},
         NEW s, NEW isDue, NEW n, Finalize(r, e, s, isDue, n)
  PROVE  RowStays(d)
PROOF
  <1>1. CASE Owns(r, e)
    BY <1>1 DEF Finalize, RowStays, TypeOK
  <1>2. CASE ~Owns(r, e)
    BY <1>2 DEF Finalize, RowStays, table
  <1> QED
    BY <1>1, <1>2

\* A settlement of its own row keeps the row sound.
LEMMA SettlesSoundly ==
  ASSUME TypeOK, NEW d \in Delivery, RowInv(d), NEW p \in Process, At(p, d)' = "idle",
         \A q \in Process \ {p} : work'[q][d] = work[q][d], tests' = tests,
         NEW s \in Outcome \cup {"pending", "retrying"}, NEW isDue,
         NEW n \in {attempts[d], attempts[d] + 1},
         s \in Outcome \/ n < maxAttempts(d),
         Finalize(p, d, s, isDue, n)
  PROVE  /\ StampsSound(d)' /\ AttemptsLeft(d)' /\ attempts'[d] >= attempts[d]
         /\ n > attempts[d] => attempts'[d] > attempts[d] \/ lease(d)' >= lease(d)
PROOF
  <1>1. /\ attempts[d] \in Nat /\ maxAttempts(d) \in Nat /\ maxAttempts(d)' = maxAttempts(d)
        /\ n \in Nat
    BY NumbersAreNumbers DEF maxAttempts
  <1>2. \A q \in Holder(d)' :
          q \in Process /\ q \in Holder(d) /\ work'[q][d] = work[q][d]
    BY DEF Holder, At, InHand
  <1>3. \A q \in Process : At(q, d)' = "queued" => work'[q][d] = work[q][d]
    BY DEF At
  <1>4. CASE Owns(p, d)
    <2>1. /\ status'[d] = s /\ attempts'[d] = n /\ lockedUntil'[d] = 0
      BY <1>4 DEF Finalize, TypeOK
    <2>2. s # "sending" /\ s # "none"
      BY DEF Outcome
    <2>3. StampsSound(d)'
      BY <1>2, <2>1, <2>2 DEF StampsSound, RowInv, Holder
    <2>4. n <= maxAttempts(d)
      BY <1>1, <1>4 DEF RowInv, AttemptsLeft, Owns, Outcome
    <2>5. AttemptsLeft(d)'
      BY <1>1, <2>1, <2>2, <2>4 DEF AttemptsLeft
    <2> QED
      BY <1>1, <2>1, <2>3, <2>5
  <1>5. CASE ~Owns(p, d)
    <2>1. /\ status'[d] = status[d] /\ attempts'[d] = attempts[d] /\ lockedBy'[d] = lockedBy[d]
          /\ lockedUntil'[d] = lockedUntil[d] /\ lapsed'[d] = lapsed[d]
      BY <1>5 DEF Finalize, table
    <2>2. StampsSound(d)'
      <3>1. \A q \in Holder(d)' : /\ work'[q][d].lockedUntil # 0
                                  /\ work'[q][d].lockedUntil = lockedUntil'[d]
                                     => lockedBy'[d] = q /\ status'[d] = "sending"
        BY <1>2, <2>1 DEF StampsSound, RowInv
      <3>2. \A q \in Process : At(q, d)' = "queued" => work'[q][d] = work[q][d] /\ At(q, d) = "queued"
        BY <1>3 DEF At
      <3>3. \A q \in Process :
              At(q, d)' = "queued" /\ work'[q][d].status = "sending" /\ status'[d] = "sending"
                /\ work'[q][d].lockedUntil = lockedUntil'[d] => lapsed'[d]
        BY <2>1, <3>2 DEF StampsSound, RowInv
      <3> QED
        BY <2>1, <3>1, <3>3 DEF StampsSound, RowInv
    <2>3. AttemptsLeft(d)'
      BY <1>1, <2>1 DEF AttemptsLeft, RowInv
    <2>4. Leased(d) => Leased(d)'
      <3> SUFFICES ASSUME Leased(d) PROVE Leased(d)'
        OBVIOUS
      <3>1. PICK q \in Holder(d) : work[q][d].lockedUntil = lockedUntil[d]
        BY DEF Leased
      <3>2. q # p
        BY <1>5, <3>1 DEF RowInv, StampsSound, Owns
      <3>3. q \in Holder(d)' /\ work'[q][d] = work[q][d]
        BY <3>2 DEF Holder, At
      <3> QED
        BY <2>1, <3>1, <3>3 DEF Leased
    <2>5. lease(d)' >= lease(d)
      BY <2>4 DEF lease
    <2> QED
      BY <1>1, <2>1, <2>2, <2>3, <2>5
  <1> QED
    BY <1>4, <1>5

\* What a replica does when it lets go: settle, put off, or leave the row as it is.
LEMMA LettingGoIsSound ==
  ASSUME DispatchInv, TypeOK', NEW d \in Delivery, NEW r \in Process,
         SettleUnsent(r, d) \/ Record(r, d) \/ Hiccup(r, d)
  PROVE  RowInv(d)'
PROOF
  <1>1. TypeOK /\ RowInv(d)
    BY DEF DispatchInv
  <1>2. /\ r \in Holder(d) /\ At(r, d)' = "idle" /\ Idle = [at |-> "idle"]
        /\ \A q \in Process \ {r} : work'[q][d] = work[q][d]
    <2>1. Does(r, d, Idle) /\ At(r, d) \in InHand
      BY DEF SettleUnsent, Record, Hiccup, InHand
    <2>2. work'[r][d] = Idle /\ \A q \in Process \ {r} : work'[q] = work[q]
      BY <1>1, <2>1, DoesTyped
    <2> QED
      BY <2>1, <2>2 DEF Holder, At, Idle
  <1>3. faults \in Nat /\ attempts[d] \in Nat /\ maxAttempts(d) \in Nat /\ lease(d) \in {0, 1}
    BY <1>1, NumbersAreNumbers
  <1>4. tests' = tests /\ sends' = sends /\ stalls' = stalls /\ faults' >= faults
    <2>1. CASE SettleUnsent(r, d) \/ Record(r, d)
      <3>1. faults' = faults /\ tests' = tests /\ sends' = sends /\ stalls' = stalls
        BY <2>1, Zenon DEF SettleUnsent, Record
      <3>2. faults' >= faults
        BY <1>3, <3>1
      <3> QED
        BY <3>1, <3>2, Zenon
    <2>2. CASE Hiccup(r, d)
      <3>1. faults' = faults + 1 /\ tests' = tests /\ sends' = sends /\ stalls' = stalls
        BY <2>2, Zenon DEF Hiccup
      <3>2. faults' >= faults
        BY <1>3, <3>1
      <3> QED
        BY <3>1, <3>2, Zenon
    <2> QED
      BY <2>1, <2>2
  <1>5. CASE Record(r, d)
    <2>1. \E s \in Outcome \cup {"pending", "retrying"}, isDue \in BOOLEAN :
            /\ s \in Outcome \/ attempts[d] + 1 < maxAttempts(d)
            /\ Finalize(r, d, s, isDue, attempts[d] + 1)
      BY <1>1, <1>5 DEF Record, WorthRetrying, Counted, Outcome, TypeOK
    <2>2. PICK s \in Outcome \cup {"pending", "retrying"}, isDue \in BOOLEAN :
            /\ s \in Outcome \/ attempts[d] + 1 < maxAttempts(d)
            /\ Finalize(r, d, s, isDue, attempts[d] + 1)
      BY <2>1
    <2>3. /\ StampsSound(d)' /\ AttemptsLeft(d)' /\ attempts'[d] >= attempts[d]
          /\ attempts[d] + 1 > attempts[d] =>
               attempts'[d] > attempts[d] \/ lease(d)' >= lease(d)
      BY <1>1, <1>2, <1>4, <2>2, SettlesSoundly
    <2> QED
      BY <1>1, <1>2, <1>3, <1>4, <2>3, LetsGo
  <1>6. ASSUME SettleUnsent(r, d) \/ Hiccup(r, d),
               At(r, d) # "answered" \/ faults' > faults
        PROVE  RowInv(d)'
    <2>1. CASE UNCHANGED table
      <3>1. StampsSound(d)'
        BY <1>1, <1>2, <2>1 DEF table, RowInv, StampsSound, Holder, At, InHand
      <3>2. AttemptsLeft(d)' /\ attempts'[d] >= attempts[d]
        BY <1>1, <1>3, <1>4, <2>1 DEF table, RowInv, AttemptsLeft, maxAttempts
      <3> QED
        BY <1>1, <1>2, <1>4, <1>6, <3>1, <3>2, LetsGo
    <2>2. CASE ~UNCHANGED table
      <3>1. Owns(r, d)
        BY <1>6, <2>2 DEF SettleUnsent, Hiccup, Finalize
      <3>2. attempts[d] < maxAttempts(d)
        BY <1>1, <3>1 DEF RowInv, AttemptsLeft, Owns, Outcome
      <3>3. \E s \in Outcome \cup {"pending", "retrying"}, isDue \in BOOLEAN,
               n \in {attempts[d], attempts[d] + 1} :
              /\ s \in Outcome \/ n < maxAttempts(d)
              /\ Finalize(r, d, s, isDue, n)
        <4>1. CASE Hiccup(r, d)
          BY <2>2, <3>2, <4>1 DEF Hiccup, Outcome
        <4>2. CASE SettleUnsent(r, d)
          <5>1. due[d] \in BOOLEAN
            BY <1>1 DEF TypeOK
          <5>2. {"expired", "suppressed", "failed"} \subseteq Outcome
            BY DEF Outcome
          <5>3. (IF attempts[d] > 0 THEN "retrying" ELSE "pending") \in {"pending", "retrying"}
            OBVIOUS
          <5> QED
            BY <2>2, <3>1, <3>2, <4>2, <5>1, <5>2, <5>3 DEF SettleUnsent, Counted
        <4> QED
          BY <1>6, <4>1, <4>2
      <3>4. StampsSound(d)' /\ AttemptsLeft(d)' /\ attempts'[d] >= attempts[d]
        BY <1>1, <1>2, <1>4, <3>3, SettlesSoundly
      <3> QED
        BY <1>1, <1>2, <1>4, <1>6, <3>4, LetsGo
    <2> QED
      BY <2>1, <2>2
  <1>7. CASE SettleUnsent(r, d)
    BY <1>6, <1>7 DEF SettleUnsent
  <1>8. CASE Hiccup(r, d)
    <2>1. faults' = faults + 1
      BY <1>8, Zenon DEF Hiccup
    <2> QED
      BY <1>3, <1>6, <1>8, <2>1
  <1> QED
    BY <1>5, <1>7, <1>8
\* Stamps do not collide: a new claim finds a stamp of its own, and nobody has the row.
LEMMA ClaimIsSound ==
  ASSUME DispatchInv, TypeOK', NEW d \in Delivery, NEW r \in Process, Claim(r, d)
  PROVE  RowInv(d)'
PROOF
  <1>1. TypeOK /\ RowInv(d)
    BY DEF DispatchInv
  <1>2. At(r, d) = "queued" /\ r \notin Holder(d) /\ r \notin Answered(d)
    BY DEF Claim, Holder, Answered, InHand
  <1>3. /\ tests' = tests /\ sends' = sends /\ stalls' = stalls /\ faults' = faults
        /\ attempts' = attempts
    BY DEF Claim
  <1>4. faults \in Nat /\ stalls \in Nat
    BY <1>1, NumbersAreNumbers
  <1>5. CASE AsRead(r, d)
    <2>1. work[r][d].status \in {"pending", "retrying", "sending"}
      <3>1. work[r][d] \in Working /\ work[r][d].at = "queued"
        BY <1>1, <1>2 DEF TypeOK, At
      <3> QED
        BY <3>1 DEF Working, Idle
    <2>2. status[d] \in {"pending", "retrying", "sending"}
      BY <1>5, <2>1 DEF AsRead
    <2>3. \/ status[d] # "sending" /\ lockedUntil[d] = 0
          \/ status[d] = "sending" /\ work[r][d].lockedUntil = lockedUntil[d]
             /\ work[r][d].status = "sending" /\ lapsed[d]
      BY <1>1, <1>2, <1>5 DEF AsRead, RowInv, StampsSound
    <2>4. ~Leased(d)
      BY <1>1, <2>3 DEF Leased, RowInv, StampsSound
    <2>5. /\ FreshStamp(d) \in Stamp \ {0}
          /\ \A q \in Process : At(q, d) # "idle" => work[q][d].lockedUntil # FreshStamp(d)
      BY <1>1, <1>2, <2>3, FreshIsFresh
    <2>6. /\ status'[d] = "sending" /\ lockedBy'[d] = r /\ lockedUntil'[d] = FreshStamp(d)
          /\ ~lapsed'[d]
      BY <1>1, <1>5 DEF Claim, TypeOK
    <2>7. Does(r, d, [at |-> "claimed", lockedUntil |-> FreshStamp(d)])
      BY <1>5 DEF Claim
    <2>8. /\ work'[r][d] = [at |-> "claimed", lockedUntil |-> FreshStamp(d)]
          /\ \A q \in Process \ {r} : work'[q] = work[q]
      BY <1>1, <2>7, DoesTyped
    <2>9. /\ At(r, d)' \in InHand /\ r \notin Answered(d)'
          /\ work'[r][d].lockedUntil = FreshStamp(d)
      BY <2>8 DEF At, InHand, Answered
    <2>10. status[d] \notin Outcome /\ attempts[d] < maxAttempts(d)'
      BY <1>1, <1>3, <2>2 DEF RowInv, AttemptsLeft, Outcome, maxAttempts
    <2> QED
      BY <1>1, <1>2, <1>3, <2>4, <2>5, <2>6, <2>8, <2>9, <2>10, Takes
  <1>6. CASE ~AsRead(r, d)
    <2>1. Does(r, d, Idle) /\ UNCHANGED <<status, lockedBy, lockedUntil, lapsed>>
      BY <1>6 DEF Claim
    <2>2. work'[r][d] = Idle /\ \A q \in Process \ {r} : work'[q] = work[q]
      BY <1>1, <2>1, DoesTyped
    <2>3. At(r, d) \notin InHand /\ At(r, d)' \notin InHand /\ At(r, d)' # "queued"
      BY <1>2, <2>2 DEF At, InHand, Idle
    <2> QED
      BY <1>1, <1>3, <1>4, <2>1, <2>2, <2>3, Quiet
  <1> QED
    BY <1>5, <1>6

LEMMA TestClaimIsSound ==
  ASSUME DispatchInv, TypeOK', NEW d \in Delivery, TestClaim(d)
  PROVE  RowInv(d)'
PROOF
  <1>1. TypeOK /\ RowInv(d) /\ Tester \in Process
    BY DEF DispatchInv, Process
  <1>2. d \notin tests /\ d \in tests' /\ status[d] = "none" /\ At(Tester, d) = "idle"
    BY <1>1 DEF TestClaim, TypeOK
  <1>3. /\ sends' = sends /\ stalls' = stalls /\ faults' = faults
        /\ attempts' = attempts /\ lapsed' = lapsed
    BY DEF TestClaim
  <1>4. lockedUntil[d] = 0 /\ attempts[d] = 0 /\ ~lapsed[d]
    BY <1>1, <1>2 DEF RowInv, StampsSound, AttemptsLeft
  <1>5. ~Leased(d)
    BY <1>1, <1>4 DEF Leased, RowInv, StampsSound
  <1>6. /\ FreshStamp(d) \in Stamp \ {0}
        /\ \A q \in Process : At(q, d) # "idle" => work[q][d].lockedUntil # FreshStamp(d)
    BY <1>1, <1>4, FreshIsFresh
  <1>7. Does(Tester, d, [at |-> "sending", lockedUntil |-> FreshStamp(d)])
    BY DEF TestClaim
  <1>8. /\ work'[Tester][d] = [at |-> "sending", lockedUntil |-> FreshStamp(d)]
        /\ \A q \in Process \ {Tester} : work'[q] = work[q]
    BY <1>1, <1>7, DoesTyped
  <1>9. /\ At(Tester, d)' \in InHand /\ Tester \notin Answered(d)'
        /\ work'[Tester][d].lockedUntil = FreshStamp(d) /\ Tester \notin Holder(d)
    BY <1>2, <1>8 DEF At, InHand, Answered, Holder
  <1>10. status[d] \notin Outcome /\ attempts[d] < maxAttempts(d)'
    BY <1>2, <1>4 DEF Outcome, maxAttempts
  <1>11. /\ status'[d] = "sending" /\ lockedBy'[d] = Tester /\ lockedUntil'[d] = FreshStamp(d)
    BY <1>1 DEF TestClaim, TypeOK
  <1> QED
    BY <1>1, <1>2, <1>3, <1>4, <1>5, <1>6, <1>8, <1>9, <1>10, <1>11, Takes

LEMMA TestRecordIsSound ==
  ASSUME DispatchInv, TypeOK', NEW d \in Delivery, TestRecord(d)
  PROVE  RowInv(d)'
PROOF
  <1>1. TypeOK /\ RowInv(d) /\ Tester \in Process
    BY DEF DispatchInv, Process
  <1>2. d \in tests /\ tests' = tests /\ sends' = sends /\ stalls' = stalls /\ faults' = faults
    BY DEF TestRecord, DispatchInv, TesterTests
  <1>3. /\ Tester \in Holder(d) /\ At(Tester, d)' = "idle"
        /\ \A q \in Process \ {Tester} : work'[q][d] = work[q][d]
    <2>1. Does(Tester, d, Idle) /\ At(Tester, d) \in InHand
      BY DEF TestRecord, InHand
    <2>2. work'[Tester][d] = Idle /\ \A q \in Process \ {Tester} : work'[q] = work[q]
      BY <1>1, <2>1, DoesTyped
    <2> QED
      BY <1>1, <2>1, <2>2 DEF Holder, At, Idle
  <1>4. status'[d] \in {"succeeded", "failed"} /\ attempts'[d] = 1 /\ lockedUntil'[d] = 0
    BY <1>1 DEF TestRecord, TypeOK
  <1>5. \A q \in Holder(d)' : q \in Holder(d) /\ work'[q][d] = work[q][d]
    BY <1>3 DEF Holder, At, InHand
  <1>6. StampsSound(d)'
    BY <1>1, <1>4, <1>5 DEF StampsSound, RowInv
  <1>7. maxAttempts(d) = 1 /\ maxAttempts(d)' = 1
    BY <1>2 DEF maxAttempts
  <1>8. attempts[d] \in {0, 1}
    BY <1>1, <1>7, NumbersAreNumbers DEF RowInv, AttemptsLeft
  <1>9. AttemptsLeft(d)'
    BY <1>4, <1>7 DEF AttemptsLeft, Outcome
  <1>10. faults \in Nat /\ stalls \in Nat
    BY <1>1, NumbersAreNumbers
  <1>11. ASSUME stalls = 0 PROVE attempts[d] = 0
    <2>1. Cardinality(Holder(d)) <= lease(d) /\ Cardinality(Holder(d)) \in Nat
      BY <1>1, <1>11, ProcessIsFinite, NumbersAreNumbers DEF RowInv, HoldersPaid
    <2>2. Cardinality(Holder(d)) # 0
      BY <1>3, ProcessIsFinite, FS_EmptySet
    <2>3. Leased(d) /\ Cardinality(Holder(d)) <= 1
      BY <2>1, <2>2 DEF lease
    <2>4. PICK q \in Holder(d) : work[q][d].lockedUntil = lockedUntil[d]
      BY <2>3 DEF Leased
    <2>5. status[d] = "sending"
      BY <1>1, <2>4 DEF RowInv, StampsSound
    <2> QED
      BY <1>1, <1>7, <1>8, <2>5 DEF RowInv, AttemptsLeft, Outcome
  <1>12. attempts'[d] >= attempts[d] /\ faults' >= faults
    BY <1>2, <1>4, <1>8, <1>10
  <1>13. attempts'[d] > attempts[d] \/ (d \in tests /\ stalls # 0)
    BY <1>2, <1>4, <1>11
  <1> QED
    BY <1>1, <1>2, <1>3, <1>6, <1>9, <1>12, <1>13, LetsGo

\* A send is paid for by the answer in hand.
LEMMA SendIsSound ==
  ASSUME DispatchInv, TypeOK', NEW d \in Delivery, NEW r \in Process,
         StartSend(r, d) \/ Send(r, d)
  PROVE  RowInv(d)'
PROOF
  <1>1. TypeOK /\ RowInv(d)
    BY DEF DispatchInv
  <1>2. /\ RowStays(d) /\ tests' = tests /\ stalls' = stalls /\ faults' = faults
    BY DEF StartSend, Send, RowStays, table
  <1>3. /\ r \in Holder(d) \ Answered(d) /\ At(r, d)' \in {"sending", "answered"}
        /\ work'[r][d].lockedUntil = work[r][d].lockedUntil
        /\ \A q \in Process \ {r} : work'[q][d] = work[q][d]
    <2>1. CASE StartSend(r, d)
      <3>1. At(r, d) = "claimed" /\ Does(r, d, [work[r][d] EXCEPT !.at = "sending"])
        BY <2>1 DEF StartSend
      <3>2. work[r][d] \in [at : {"claimed", "sending"}, lockedUntil : Stamp]
        BY <1>1, <3>1 DEF TypeOK, Working, Idle, At
      <3>3. /\ work'[r][d] = [work[r][d] EXCEPT !.at = "sending"]
            /\ \A q \in Process \ {r} : work'[q] = work[q]
        BY <1>1, <3>1, DoesTyped
      <3> QED
        BY <3>1, <3>2, <3>3 DEF Holder, Answered, At, InHand
    <2>2. CASE Send(r, d)
      <3>1. PICK answer \in {"ok", "retryable", "fatal"} :
              Does(r, d, [at |-> "answered", lockedUntil |-> work[r][d].lockedUntil,
                          answer |-> answer])
        BY <2>2 DEF Send
      <3>2. At(r, d) = "sending"
        BY <2>2 DEF Send
      <3>3. /\ work'[r][d] = [at |-> "answered", lockedUntil |-> work[r][d].lockedUntil,
                              answer |-> answer]
            /\ \A q \in Process \ {r} : work'[q] = work[q]
        BY <1>1, <3>1, DoesTyped
      <3> QED
        BY <3>2, <3>3 DEF Holder, Answered, At, InHand
    <2> QED
      BY <2>1, <2>2
  <1>4. Holder(d)' = Holder(d)
    BY <1>3 DEF Holder, At, InHand
  <1>5. \A q \in Process :
          /\ q \in Holder(d) => work'[q][d].lockedUntil = work[q][d].lockedUntil
          /\ At(q, d)' = "queued" => work'[q][d] = work[q][d] /\ At(q, d) = "queued"
    BY <1>3 DEF At
  <1>6. StampsSound(d)'
    <2>1. \A q \in Holder(d)' : /\ work'[q][d].lockedUntil # 0
                                /\ work'[q][d].lockedUntil = lockedUntil'[d]
                                     => lockedBy'[d] = q /\ status'[d] = "sending"
      BY <1>1, <1>2, <1>4, <1>5 DEF StampsSound, RowInv, RowStays, Holder
    <2>2. \A q \in Process :
            At(q, d)' = "queued" /\ work'[q][d].status = "sending" /\ status'[d] = "sending"
              /\ work'[q][d].lockedUntil = lockedUntil'[d] => lapsed'[d]
      BY <1>1, <1>2, <1>5 DEF StampsSound, RowInv, RowStays
    <2> QED
      BY <1>1, <1>2, <2>1, <2>2 DEF StampsSound, RowInv, RowStays
  <1>7. AttemptsLeft(d)'
    BY <1>1, <1>2 DEF AttemptsLeft, RowInv, RowStays, maxAttempts
  <1>8. lease(d)' = lease(d)
    BY <1>2, <1>4, <1>5 DEF lease, Leased, RowStays, Holder
  <1>9. Answered(d)' = IF At(r, d)' = "answered" THEN Answered(d) \cup {r} ELSE Answered(d)
    BY <1>3 DEF Answered, At, Holder
  <1>10. Cardinality(Answered(d)') =
           IF At(r, d)' = "answered" THEN Cardinality(Answered(d)) + 1
                                     ELSE Cardinality(Answered(d))
    BY <1>3, <1>9, ProcessIsFinite, FS_AddElement
  <1>11. /\ Cardinality(Holder(d)) \in Nat /\ Cardinality(Answered(d)) \in Nat
         /\ stalls \in Nat /\ faults \in Nat /\ sends[d] \in Nat /\ attempts[d] \in Nat
         /\ lease(d) \in {0, 1}
    BY <1>1, ProcessIsFinite, NumbersAreNumbers
  <1>12. /\ sends'[d] \in {sends[d], sends[d] + 1}
         /\ At(r, d)' # "answered" => sends'[d] = sends[d]
    <2>1. CASE StartSend(r, d)
      BY <2>1 DEF StartSend
    <2>2. CASE Send(r, d)
      <3>1. sends' = [sends EXCEPT ![d] = IF sends[d] = SendBound THEN sends[d] ELSE sends[d] + 1]
        BY <2>2 DEF Send
      <3>2. At(r, d)' = "answered"
        BY <1>1, <2>2, DoesTyped DEF Send, At
      <3> QED
        BY <1>1, <3>1, <3>2 DEF TypeOK
    <2> QED
      BY <2>1, <2>2
  <1>13. HoldersPaid(d)'
    BY <1>1, <1>2, <1>4, <1>8 DEF RowInv, HoldersPaid
  <1>14. SendsPaid(d)'
    BY <1>1, <1>2, <1>4, <1>8, <1>10, <1>11, <1>12 DEF RowInv, SendsPaid, RowStays
  <1> QED
    BY <1>6, <1>7, <1>13, <1>14 DEF RowInv

\* A lease that lapses under its holder is a stall.
LEMMA LapseIsSound ==
  ASSUME DispatchInv, TypeOK', NEW d \in Delivery, LeaseLapses(d)
  PROVE  RowInv(d)'
PROOF
  <1>1. TypeOK /\ RowInv(d)
    BY DEF DispatchInv
  <1>2. /\ status[d] = "sending" /\ ~lapsed[d] /\ lapsed'[d]
        /\ UNCHANGED <<tests, status, attempts, lockedBy, lockedUntil, work, sends, faults>>
    BY <1>1 DEF LeaseLapses, TypeOK
  <1>3. Holder(d)' = Holder(d) /\ Answered(d)' = Answered(d)
    BY <1>2 DEF Holder, Answered, At
  <1>4. LiveClaim(d) <=> Leased(d)
    BY <1>2 DEF LiveClaim, Leased, Holder, InHand
  <1>5. lease(d)' = 0
    BY <1>2 DEF lease, Leased
  <1>6. stalls' = stalls + lease(d)
    <2>1. stalls \in Nat
      BY <1>1, NumbersAreNumbers
    <2> QED
      BY <1>4, <2>1 DEF LeaseLapses, lease
  <1>7. StampsSound(d)'
    BY <1>1, <1>2, <1>3 DEF RowInv, StampsSound, At
  <1>8. AttemptsLeft(d)'
    BY <1>1, <1>2 DEF RowInv, AttemptsLeft, maxAttempts
  <1>9. /\ Cardinality(Holder(d)) \in Nat /\ Cardinality(Answered(d)) \in Nat
        /\ stalls \in Nat /\ faults \in Nat /\ sends[d] \in Nat /\ attempts[d] \in Nat
        /\ lease(d) \in {0, 1}
    BY <1>1, ProcessIsFinite, NumbersAreNumbers
  <1>10. HoldersPaid(d)'
    BY <1>1, <1>3, <1>5, <1>6, <1>9 DEF RowInv, HoldersPaid
  <1>11. SendsPaid(d)'
    BY <1>1, <1>2, <1>3, <1>5, <1>6, <1>9 DEF RowInv, SendsPaid
  <1> QED
    BY <1>7, <1>8, <1>10, <1>11 DEF RowInv

\* A crash lets go of everything the process had in hand, and is a fault.
LEMMA CrashIsSound ==
  ASSUME DispatchInv, TypeOK', NEW d \in Delivery, NEW r \in Process, Crash(r)
  PROVE  RowInv(d)'
PROOF
  <1>1. TypeOK /\ RowInv(d)
    BY DEF DispatchInv
  <1>2. /\ RowStays(d) /\ tests' = tests /\ sends' = sends /\ stalls' = stalls
        /\ faults' = faults + 1
    BY DEF Crash, RowStays, table
  <1>3. work'[r][d] = Idle /\ \A q \in Process \ {r} : work'[q][d] = work[q][d]
    BY <1>1 DEF Crash, TypeOK
  <1>4. /\ faults \in Nat /\ stalls \in Nat /\ attempts[d] \in Nat
    BY <1>1, NumbersAreNumbers
  <1>5. CASE r \in Holder(d)
    <2>1. At(r, d)' = "idle"
      BY <1>3 DEF At, Idle
    <2>2. \A q \in Holder(d)' : q \in Holder(d) /\ work'[q][d] = work[q][d]
      BY <1>3, <2>1 DEF Holder, At, InHand
    <2>3. \A q \in Process : At(q, d)' = "queued" => work'[q][d] = work[q][d] /\ At(q, d) = "queued"
      BY <1>3, <2>1 DEF At
    <2>4. StampsSound(d)'
      <3>1. \A q \in Holder(d)' : /\ work'[q][d].lockedUntil # 0
                                  /\ work'[q][d].lockedUntil = lockedUntil'[d]
                                       => lockedBy'[d] = q /\ status'[d] = "sending"
        BY <1>1, <1>2, <2>2 DEF StampsSound, RowInv, RowStays
      <3>2. \A q \in Process :
              At(q, d)' = "queued" /\ work'[q][d].status = "sending" /\ status'[d] = "sending"
                /\ work'[q][d].lockedUntil = lockedUntil'[d] => lapsed'[d]
        BY <1>1, <1>2, <2>3 DEF StampsSound, RowInv, RowStays
      <3> QED
        BY <1>1, <1>2, <3>1, <3>2 DEF StampsSound, RowInv, RowStays
    <2>5. AttemptsLeft(d)' /\ attempts'[d] >= attempts[d] /\ faults' > faults /\ faults' >= faults
      BY <1>1, <1>2, <1>4 DEF AttemptsLeft, RowInv, RowStays, maxAttempts
    <2> QED
      BY <1>1, <1>2, <1>3, <1>5, <2>1, <2>4, <2>5, LetsGo
  <1>6. CASE r \notin Holder(d)
    <2>1. At(r, d) \notin InHand /\ At(r, d)' \notin InHand /\ At(r, d)' # "queued"
      BY <1>3, <1>6 DEF Holder, At, Idle, InHand
    <2>2. faults' >= faults /\ stalls' >= stalls
      BY <1>2, <1>4
    <2> QED
      BY <1>1, <1>2, <1>3, <2>1, <2>2, Quiet DEF RowStays
  <1> QED
    BY <1>5, <1>6

\* Whoever reads a claimed row into a batch finds its lease lapsed.
LEMMA ReadIsSound ==
  ASSUME DispatchInv, TypeOK', NEW d \in Delivery, NEW r \in Process, ReadBatch(r)
  PROVE  RowInv(d)'
PROOF
  <1>1. TypeOK /\ RowInv(d)
    BY DEF DispatchInv
  <1>2. /\ RowStays(d) /\ tests' = tests /\ sends' = sends /\ stalls' = stalls
        /\ faults' = faults
    BY DEF ReadBatch, RowStays, table
  <1>3. \A q \in Process \ {r} : work'[q][d] = work[q][d]
    BY <1>1 DEF ReadBatch, TypeOK
  <1>4. work'[r][d] = IF Due(d)
                      THEN [at |-> "queued", status |-> status[d],
                            lockedUntil |-> IF status[d] = "sending" THEN lockedUntil[d] ELSE 0]
                      ELSE Idle
    BY <1>1 DEF ReadBatch, TypeOK
  <1>5. At(r, d) = "idle"
    BY DEF ReadBatch
  <1>6. /\ At(r, d) \notin InHand /\ At(r, d)' \notin InHand
        /\ At(r, d)' = "queued" /\ work'[r][d].status = "sending" => lapsed[d]
    BY <1>4, <1>5 DEF At, Idle, InHand, Due
  <1>7. faults' >= faults /\ stalls' >= stalls
    BY <1>1, <1>2, NumbersAreNumbers
  <1> QED
    BY <1>1, <1>2, <1>3, <1>6, <1>7, Quiet DEF RowStays

\* What is done about one delivery is not done to another.
LEMMA ElsewhereIsSound ==
  ASSUME DispatchInv, TypeOK', NEW e \in Delivery, NEW d \in Delivery \ {e},
         \/ TestClaim(e) \/ TestRecord(e) \/ LeaseLapses(e)
         \/ \E r \in Process : Dispatch(r, e) \/ Hiccup(r, e)
  PROVE  RowInv(d)'
PROOF
  <1>1. TypeOK /\ RowInv(d) /\ faults \in Nat /\ stalls \in Nat
    BY NumbersAreNumbers DEF DispatchInv
  <1> DEFINE Same == /\ RowStays(d) /\ sends'[d] = sends[d] /\ (d \in tests' <=> d \in tests)
                     /\ faults' >= faults /\ stalls' >= stalls
                     /\ \A q \in Process : work'[q][d] = work[q][d]
  <1>2. Same => RowInv(d)'
    BY <1>1, Quiet DEF RowStays
  <1> HIDE DEF Same
  <1>3. CASE TestClaim(e)
    <2>1. \A q \in Process : work'[q][d] = work[q][d]
      BY <1>1, <1>3, DoesTyped DEF TestClaim, Process
    <2> QED
      BY <1>1, <1>2, <1>3, <2>1 DEF Same, TestClaim, RowStays, TypeOK
  <1>4. CASE TestRecord(e)
    <2>1. \A q \in Process : work'[q][d] = work[q][d]
      BY <1>1, <1>4, DoesTyped DEF TestRecord, Process
    <2> QED
      BY <1>1, <1>2, <1>4, <2>1 DEF Same, TestRecord, RowStays, TypeOK
  <1>5. CASE LeaseLapses(e)
    BY <1>1, <1>2, <1>5 DEF Same, LeaseLapses, RowStays, TypeOK
  <1>6. ASSUME NEW r \in Process, Claim(r, e) PROVE RowInv(d)'
    <2>1. \A q \in Process : work'[q][d] = work[q][d]
      BY <1>1, <1>6, DoesTyped DEF Claim
    <2> QED
      BY <1>1, <1>2, <1>6, <2>1 DEF Same, Claim, RowStays, TypeOK
  <1>7. ASSUME NEW r \in Process, StartSend(r, e) PROVE RowInv(d)'
    <2>1. \A q \in Process : work'[q][d] = work[q][d]
      BY <1>1, <1>7, DoesTyped DEF StartSend
    <2> QED
      BY <1>1, <1>2, <1>7, <2>1 DEF Same, StartSend, RowStays, table
  <1>8. ASSUME NEW r \in Process, Send(r, e) PROVE RowInv(d)'
    <2>1. \A q \in Process : work'[q][d] = work[q][d]
      BY <1>1, <1>8, DoesTyped DEF Send
    <2>2. sends'[d] = sends[d] /\ tests' = tests /\ faults' = faults /\ stalls' = stalls
      BY <1>1, <1>8 DEF Send, TypeOK
    <2>3. RowStays(d)
      BY <1>8 DEF Send, RowStays, table
    <2> QED
      BY <1>1, <1>2, <2>1, <2>2, <2>3 DEF Same
  <1>9. ASSUME NEW r \in Process, SettleUnsent(r, e) \/ Record(r, e) \/ Hiccup(r, e)
        PROVE  RowInv(d)'
    <2>1. Does(r, e, Idle)
      BY <1>9 DEF SettleUnsent, Record, Hiccup
    <2>2. \A q \in Process : work'[q][d] = work[q][d]
      BY <1>1, <2>1, DoesTyped
    <2>3. tests' = tests /\ sends' = sends /\ stalls' = stalls /\ faults' \in {faults, faults + 1}
      <3>1. CASE SettleUnsent(r, e) \/ Record(r, e)
        BY <3>1 DEF SettleUnsent, Record
      <3>2. CASE Hiccup(r, e)
        BY <3>2 DEF Hiccup
      <3> QED
        BY <1>9, <3>1, <3>2
    <2>4. RowStays(d)
      <3>1. UNCHANGED table => RowStays(d)
        BY DEF table, RowStays
      <3>2. \A s, isDue, n : Finalize(r, e, s, isDue, n) => RowStays(d)
        BY <1>1, FinalizeElsewhere
      <3> QED
        BY <1>9, <3>1, <3>2 DEF SettleUnsent, Record, Hiccup
    <2>5. faults' >= faults
      BY <1>1, <2>3
    <2> QED
      BY <1>1, <1>2, <2>2, <2>3, <2>4, <2>5 DEF Same
  <1> QED
    BY <1>3, <1>4, <1>5, <1>6, <1>7, <1>8, <1>9 DEF Dispatch

LEMMA RowsPreserved ==
  ASSUME DispatchInv, TypeOK', [Next]_vars, NEW d \in Delivery
  PROVE  RowInv(d)'
PROOF
  <1>1. TypeOK /\ RowInv(d) /\ faults \in Nat /\ stalls \in Nat
    BY NumbersAreNumbers DEF DispatchInv
  <1>2. CASE SwitchChannel \/ UNCHANGED vars
    BY <1>1, <1>2, Quiet DEF SwitchChannel, vars, table
  <1>3. ASSUME NEW e \in Delivery, EmitEvent(e) \/ Age(e) PROVE RowInv(d)'
    BY <1>1, <1>3, Quiet DEF EmitEvent, Age, table
  <1>4. ASSUME NEW e \in Delivery, FanOut(e) PROVE RowInv(d)'
    <2>1. faults' >= faults
      BY <1>1, <1>4 DEF FanOut
    <2>2. status'[d] = status[d] \/ (status[d] = "none" /\ status'[d] # "sending")
      <3>1. \E s \in {"pending", "suppressed", "unqueued"} : status' = [status EXCEPT ![e] = s]
        <4>1. CASE enabled
          BY <1>4, <4>1 DEF FanOut
        <4>2. CASE ~enabled
          BY <1>4, <4>2 DEF FanOut
        <4> QED
          BY <4>1, <4>2
      <3>2. status[e] = "none"
        BY <1>4 DEF FanOut
      <3> QED
        BY <1>1, <3>1, <3>2 DEF TypeOK
    <2>3. UNCHANGED <<tests, attempts, lockedBy, lockedUntil, lapsed, work, sends, stalls>>
      BY <1>4 DEF FanOut
    <2> QED
      BY <1>1, <2>1, <2>2, <2>3, Quiet
  <1>5. ASSUME NEW e \in Delivery, BackoffEnds(e) PROVE RowInv(d)'
    BY <1>1, <1>5, Quiet DEF BackoffEnds
  <1>6. ASSUME NEW r \in Process, ReadBatch(r) \/ Crash(r) PROVE RowInv(d)'
    BY <1>6, ReadIsSound, CrashIsSound
  <1>7. ASSUME NEW e \in Delivery,
               \/ TestClaim(e) \/ TestRecord(e) \/ LeaseLapses(e)
               \/ \E r \in Process : Dispatch(r, e) \/ Hiccup(r, e)
        PROVE  RowInv(d)'
    <2>1. CASE e = d
      BY <1>7, <2>1, TestClaimIsSound, TestRecordIsSound, LapseIsSound, ClaimIsSound, SendIsSound,
         LettingGoIsSound DEF Dispatch
    <2>2. CASE e # d
      BY <1>7, <2>2, ElsewhereIsSound
    <2> QED
      BY <2>1, <2>2
  <1> QED
    BY <1>2, <1>3, <1>4, <1>5, <1>6, <1>7 DEF Next

LEMMA TesterPreserved ==
  ASSUME DispatchInv, [Next]_vars, NEW d \in Delivery
  PROVE  TesterTests(d)'
PROOF
  <1>1. TypeOK /\ TesterTests(d) /\ Tester \in Process /\ Tester \notin Replica
    BY ReplicaAssumption DEF DispatchInv, Process
  <1>2. tests \subseteq tests'
    <2>1. CASE SwitchChannel \/ UNCHANGED vars
      BY <2>1 DEF SwitchChannel, vars
    <2>2. ASSUME NEW e \in Delivery, EmitEvent(e) \/ FanOut(e) \/ TestClaim(e) \/ TestRecord(e)
          PROVE  tests \subseteq tests'
      BY <2>2 DEF EmitEvent, FanOut, TestClaim, TestRecord
    <2>3. ASSUME NEW e \in Delivery, BackoffEnds(e) \/ LeaseLapses(e) \/ Age(e)
          PROVE  tests \subseteq tests'
      BY <2>3 DEF BackoffEnds, LeaseLapses, Age
    <2>4. ASSUME NEW r \in Process, ReadBatch(r) \/ Crash(r) PROVE tests \subseteq tests'
      BY <2>4 DEF ReadBatch, Crash
    <2>5. ASSUME NEW r \in Process, NEW e \in Delivery, Claim(r, e) \/ StartSend(r, e) \/ Send(r, e)
          PROVE  tests \subseteq tests'
      BY <2>5 DEF Claim, StartSend, Send
    <2>6. ASSUME NEW r \in Process, NEW e \in Delivery,
                 SettleUnsent(r, e) \/ Record(r, e) \/ Hiccup(r, e)
          PROVE  tests' = tests
      BY <2>6, Zenon DEF SettleUnsent, Record, Hiccup
    <2> QED
      BY <2>1, <2>2, <2>3, <2>4, <2>5, <2>6 DEF Next, Dispatch
  <1>3. CASE work'[Tester][d] = work[Tester][d] \/ work'[Tester][d] = Idle
    BY <1>1, <1>2, <1>3 DEF TesterTests, At, Idle
  <1>4. CASE SwitchChannel \/ UNCHANGED vars
    BY <1>3, <1>4 DEF SwitchChannel, vars
  <1>5. ASSUME NEW e \in Delivery,
               EmitEvent(e) \/ FanOut(e) \/ BackoffEnds(e) \/ LeaseLapses(e) \/ Age(e)
        PROVE  TesterTests(d)'
    BY <1>3, <1>5 DEF EmitEvent, FanOut, BackoffEnds, LeaseLapses, Age
  <1>6. ASSUME NEW e \in Delivery, TestClaim(e) PROVE TesterTests(d)'
    <2>1. Does(Tester, e, [at |-> "sending", lockedUntil |-> FreshStamp(e)])
      BY <1>6 DEF TestClaim
    <2>2. CASE e = d
      BY <1>1, <1>6, <2>1, <2>2, DoesTyped DEF TestClaim, TesterTests, At
    <2>3. CASE e # d
      BY <1>1, <1>3, <2>1, <2>3, DoesTyped
    <2> QED
      BY <2>2, <2>3
  <1>7. ASSUME NEW r \in Process, ReadBatch(r) PROVE TesterTests(d)'
    <2>1. r # Tester
      BY <1>1, <1>7 DEF ReadBatch
    <2> QED
      BY <1>1, <1>3, <1>7, <2>1 DEF ReadBatch, TypeOK
  <1>8. ASSUME NEW r \in Process, Crash(r) PROVE TesterTests(d)'
    BY <1>1, <1>3, <1>8 DEF Crash, TypeOK
  <1>9. ASSUME NEW r \in Process, NEW e \in Delivery, NEW w, Does(r, e, w)
        PROVE  r # Tester \/ e # d \/ w = Idle => TesterTests(d)'
    BY <1>1, <1>3, <1>9, DoesTyped
  <1>10. ASSUME NEW e \in Delivery, TestRecord(e) PROVE TesterTests(d)'
    BY <1>1, <1>9, <1>10 DEF TestRecord
  <1>11. ASSUME NEW r \in Process, NEW e \in Delivery,
                SettleUnsent(r, e) \/ Record(r, e) \/ Hiccup(r, e)
         PROVE  TesterTests(d)'
    BY <1>9, <1>11 DEF SettleUnsent, Record, Hiccup
  <1>12. ASSUME NEW r \in Process, NEW e \in Delivery, Claim(r, e) \/ StartSend(r, e)
         PROVE  TesterTests(d)'
    <2>1. r # Tester \/ e # d
      BY <1>1, <1>12 DEF TesterTests, Claim, StartSend
    <2>2. \E w : Does(r, e, w)
      BY <1>12 DEF Claim, StartSend
    <2> QED
      BY <1>9, <2>1, <2>2
  <1>13. ASSUME NEW r \in Process, NEW e \in Delivery, Send(r, e) PROVE TesterTests(d)'
    <2>1. PICK answer \in {"ok", "retryable", "fatal"} :
            Does(r, e, [at |-> "answered", lockedUntil |-> work[r][e].lockedUntil,
                        answer |-> answer])
      BY <1>13 DEF Send
    <2>2. CASE r = Tester /\ e = d
      <3>1. d \in tests'
        BY <1>1, <1>2, <1>13, <2>2 DEF Send, TesterTests
      <3>2. At(Tester, d)' = "answered"
        BY <1>1, <2>1, <2>2, DoesTyped DEF At
      <3> QED
        BY <3>1, <3>2 DEF TesterTests
    <2> QED
      BY <1>9, <2>1, <2>2
  <1> QED
    BY <1>4, <1>5, <1>6, <1>7, <1>8, <1>10, <1>11, <1>12, <1>13 DEF Next, Dispatch

LEMMA InitInv == Init => DispatchInv
PROOF
  <1> SUFFICES ASSUME Init, NEW d \in Delivery PROVE RowInv(d) /\ TesterTests(d)
    BY InitTyped DEF DispatchInv
  <1>1. \A p \in Process : At(p, d) = "idle"
    BY DEF Init, At, Idle
  <1>2. Holder(d) = {} /\ Answered(d) = {}
    BY <1>1 DEF Holder, Answered, InHand
  <1>3. Cardinality(Holder(d)) = 0 /\ Cardinality(Answered(d)) = 0 /\ lease(d) = 0
    BY <1>2, FS_EmptySet DEF lease, Leased
  <1>4. StampsSound(d) /\ TesterTests(d)
    BY <1>1, <1>2 DEF Init, StampsSound, TesterTests, Process
  <1>5. AttemptsLeft(d)
    BY BoundAssumption DEF Init, AttemptsLeft, maxAttempts
  <1>6. HoldersPaid(d) /\ SendsPaid(d)
    BY <1>3 DEF Init, HoldersPaid, SendsPaid
  <1> QED
    BY <1>4, <1>5, <1>6 DEF RowInv

------------------------------------------------------------------------------
(* Theorems *)

\* Each delivery row stays sound, whatever the replicas, the tester, crashes and
\* stalls do (alerting/dispatcher.ts, services/alert-channel.service.ts).
THEOREM DispatchInvariant == Spec => []DispatchInv
PROOF
  <1>1. Init => DispatchInv
    BY InitInv
  <1>2. DispatchInv /\ [Next]_vars => DispatchInv'
    BY TypePreserved, RowsPreserved, TesterPreserved DEF DispatchInv
  <1> QED
    BY <1>1, <1>2, PTL DEF Spec

\* However many replicas claim, one of them has a delivery in hand, and one more for
\* every lease that lapsed under its holder (claimDelivery, finalize).
THEOREM OneSenderAtATime == Spec => []OneSender
PROOF
  <1>1. DispatchInv => OneSender
    <2> SUFFICES ASSUME DispatchInv, NEW d \in Delivery
                 PROVE  Cardinality(Holder(d)) <= 1 + stalls
      BY DEF OneSender, Holder, InHand
    <2> QED
      BY ProcessIsFinite, NumbersAreNumbers DEF DispatchInv, RowInv, HoldersPaid
  <1> QED
    BY <1>1, DispatchInvariant, PTL

\* Every send is charged to the attempts of its row, but for the faults and the stalls
\* (recordFailure, deliverClaimed): maxAttempts bounds what a receiver gets.
THEOREM SendsAreBounded == Spec => []SendsAreCounted
PROOF
  <1>1. DispatchInv => SendsAreCounted
    <2> SUFFICES ASSUME DispatchInv, NEW d \in Delivery, d \in tests => stalls = 0
                 PROVE  sends[d] <= attempts[d] + faults + stalls + Cardinality(Answered(d))
      BY DEF SendsAreCounted, OneWriter, Answered
    <2>1. RowInv(d) /\ TypeOK
      BY DEF DispatchInv
    <2>2. sends[d] + Cardinality(Holder(d))
            <= attempts[d] + faults + stalls + Cardinality(Answered(d)) + lease(d)
      BY <2>1 DEF RowInv, SendsPaid
    <2>3. Cardinality(Holder(d)) >= lease(d)
      <3>1. CASE Leased(d)
        BY <3>1, ProcessIsFinite, FS_EmptySet DEF lease, Leased
      <3>2. CASE ~Leased(d)
        BY <3>2, ProcessIsFinite DEF lease
      <3> QED
        BY <3>1, <3>2
    <2> QED
      BY <2>1, <2>2, <2>3, ProcessIsFinite, NumbersAreNumbers
  <1> QED
    BY <1>1, DispatchInvariant, PTL
==============================================================================
