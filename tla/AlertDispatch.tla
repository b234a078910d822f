----------------------------- MODULE AlertDispatch -----------------------------
(***************************************************************************)
(* The alert outbox of one channel: emitAlert (services/alerting/emit.ts)  *)
(* records an event and queues a delivery, dispatchDue                     *)
(* (services/alerting/dispatcher.ts) claims and sends what is due from any *)
(* replica, and testChannel (services/alert-channel.service.ts) sends one  *)
(* message at once.                                                        *)
(*                                                                         *)
(* The events are those of one incident, in the order they are raised.     *)
(* Times appear as what they decide: a row is due, a lease has lapsed, an  *)
(* event has aged past ALERT_MAX_EVENT_AGE_MS.                             *)
(***************************************************************************)
EXTENDS Integers, FiniteSets

CONSTANTS
  Delivery,     \* the deliveries' ids: one per event, in order of emission
  Trigger,      \* those whose event opens the incident (the others resolve it)
  Replica,
  Tester,       \* the process that runs testChannel
  MaxAttempts,  \* maxAttempts of a row, unless it is a test's
  MaxFaults,    \* bound: crashes and database errors
  MaxStalls,    \* bound: leases that lapse under a replica still at work
  None

ASSUME DeliveryAssumption ==
  /\ Delivery \subseteq Nat /\ IsFiniteSet(Delivery)
  /\ Trigger \subseteq Delivery
ASSUME ReplicaAssumption ==
  IsFiniteSet(Replica) /\ Tester \notin Replica /\ None \notin Replica \cup {Tester}
ASSUME BoundAssumption ==
  MaxAttempts \in Nat \ {0} /\ MaxFaults \in Nat /\ MaxStalls \in Nat

VARIABLES
  events,       \* recorded alert_event rows
  tests,        \* those recorded by testChannel
  status, attempts, due, lockedBy, lockedUntil, lapsed,   \* the delivery rows
  aged,         \* events older than ALERT_MAX_EVENT_AGE_MS
  enabled,      \* the channel's switch
  work,         \* work[r][d]: what replica r does with d in its current batch
  incident,     \* is the incident open at the receiver?
  \* history and bounds
  sends,        \* sends[d]: times d was sent
  faults, stalls

table == <<status, attempts, due, lockedBy, lockedUntil, lapsed>>
vars == <<events, tests, status, attempts, due, lockedBy, lockedUntil, lapsed, aged, enabled,
          work, incident, sends, faults, stalls>>

Process == Replica \cup {Tester}
Outcome == {"succeeded", "failed", "expired", "suppressed"}
Status == {"none", "unqueued", "pending", "retrying", "sending"} \cup Outcome
(* lockedUntil: a claim's timestamp differs from every one still remembered *)
Stamp == 0..Cardinality(Process) + 1
SendBound == MaxAttempts + MaxFaults + MaxStalls + 1

Idle == [at |-> "idle"]
Working ==
  {Idle}
  \cup [at : {"queued"}, status : {"pending", "retrying", "sending"}, lockedUntil : Stamp]
  \cup [at : {"claimed", "sending"}, lockedUntil : Stamp]
  \cup [at : {"answered"}, lockedUntil : Stamp, answer : {"ok", "retryable", "fatal"}]

TypeOK ==
  /\ tests \subseteq events /\ events \subseteq Delivery
  /\ status \in [Delivery -> Status]
  /\ attempts \in [Delivery -> 0..MaxAttempts]
  /\ due \in [Delivery -> BOOLEAN] /\ lapsed \in [Delivery -> BOOLEAN]
  /\ lockedBy \in [Delivery -> Process \cup {None}]
  /\ lockedUntil \in [Delivery -> Stamp]
  /\ aged \subseteq Delivery /\ enabled \in BOOLEAN
  /\ work \in [Process -> [Delivery -> Working]]
  /\ incident \in BOOLEAN
  /\ sends \in [Delivery -> 0..SendBound] /\ faults \in 0..MaxFaults
  /\ stalls \in 0..MaxStalls

Init ==
  /\ events = {} /\ tests = {}
  /\ status = [d \in Delivery |-> "none"] /\ attempts = [d \in Delivery |-> 0]
  /\ due = [d \in Delivery |-> TRUE] /\ lockedBy = [d \in Delivery |-> None]
  /\ lockedUntil = [d \in Delivery |-> 0] /\ lapsed = [d \in Delivery |-> FALSE]
  /\ aged = {} /\ enabled = TRUE
  /\ work = [r \in Process |-> [d \in Delivery |-> Idle]]
  /\ incident = FALSE /\ sends = [d \in Delivery |-> 0] /\ faults = 0 /\ stalls = 0

At(r, d) == work[r][d].at
Does(r, d, w) == work' = [work EXCEPT ![r][d] = w]
maxAttempts(d) == IF d \in tests THEN 1 ELSE MaxAttempts
FreshStamp(d) ==
  CHOOSE n \in Stamp \ {0} :
    /\ n # lockedUntil[d]
    /\ \A r \in Process : At(r, d) # "idle" => work[r][d].lockedUntil # n

-----------------------------------------------------------------------------
(* emitAlert: the event first, then its delivery.                          *)

EmitEvent(d) ==
  /\ d \notin events
  /\ \A e \in Delivery : e < d => e \in events
  /\ events' = events \cup {d}
  /\ UNCHANGED <<tests, table, aged, enabled, work, incident, sends, faults, stalls>>

(* A disabled channel gets no row, an unlicensed one a suppressed row.     *)
FanOut(d) ==
  /\ d \in events \ tests /\ status[d] = "none"
  /\ \/ /\ \E s \in IF enabled THEN {"pending", "suppressed"} ELSE {"unqueued"} :
             status' = [status EXCEPT ![d] = s]
        /\ UNCHANGED faults
     \/ /\ faults < MaxFaults    \* the process dies, or the error is only logged
        /\ faults' = faults + 1
        /\ status' = [status EXCEPT ![d] = "unqueued"]
  /\ UNCHANGED <<events, tests, attempts, due, lockedBy, lockedUntil, lapsed, aged, enabled,
                 work, incident, sends, stalls>>

-----------------------------------------------------------------------------
(* dispatchDue.                                                            *)

DueUnlessSending(d) == due[d] /\ status[d] \in {"pending", "retrying"}
Due(d) ==
  /\ due[d]
  /\ status[d] \in {"pending", "retrying"} \/ (status[d] = "sending" /\ lapsed[d])

(* tick's overlap guard: a replica reads a batch when the last is done     *)
ReadBatch(r) ==
  /\ r \in Replica /\ \A d \in Delivery : At(r, d) = "idle"
  /\ \E d \in Delivery : Due(d)
  /\ work' = [work EXCEPT ![r] = [d \in Delivery |->
       IF Due(d) THEN [at |-> "queued", status |-> status[d],
                       lockedUntil |-> IF status[d] = "sending" THEN lockedUntil[d] ELSE 0]
                 ELSE Idle]]
  /\ UNCHANGED <<events, tests, table, aged, enabled, incident, sends, faults, stalls>>

(* The claim's predicate: the row is still as the batch saw it             *)
AsReadById(r, d) == status[d] \notin Outcome
AsRead(r, d) ==
  /\ status[d] = work[r][d].status /\ due[d]
  /\ status[d] = "sending" => lockedUntil[d] = work[r][d].lockedUntil

Claim(r, d) ==
  /\ At(r, d) = "queued"
  /\ IF AsRead(r, d)
     THEN LET t == FreshStamp(d) IN
          /\ status' = [status EXCEPT ![d] = "sending"]
          /\ lockedBy' = [lockedBy EXCEPT ![d] = r]
          /\ lockedUntil' = [lockedUntil EXCEPT ![d] = t]
          /\ lapsed' = [lapsed EXCEPT ![d] = FALSE]
          /\ Does(r, d, [at |-> "claimed", lockedUntil |-> t])
     ELSE /\ Does(r, d, Idle)
          /\ UNCHANGED <<status, lockedBy, lockedUntil, lapsed>>
  /\ UNCHANGED <<events, tests, attempts, due, aged, enabled, incident, sends, faults, stalls>>

(* finalize: UPDATE ... WHERE lockedBy = me AND status = 'sending'         *)
Owns(r, d) == lockedBy[d] = r /\ status[d] = "sending"

NotCounted(d) == attempts[d]
Counted(d) == attempts[d] + 1

Finalize(r, d, s, isDue, n) ==
  IF Owns(r, d)
  THEN /\ status' = [status EXCEPT ![d] = s]
       /\ due' = [due EXCEPT ![d] = isDue]
       /\ attempts' = [attempts EXCEPT ![d] = n]
       /\ lockedBy' = [lockedBy EXCEPT ![d] = None]
       /\ lockedUntil' = [lockedUntil EXCEPT ![d] = 0]
       /\ lapsed' = [lapsed EXCEPT ![d] = FALSE]
  ELSE UNCHANGED table

(* deliverClaimed up to the send: everything that settles or puts off the  *)
(* delivery without sending it.                                            *)
SettleUnsent(r, d) ==
  /\ At(r, d) = "claimed"
  /\ \/ ~Owns(r, d) /\ UNCHANGED table
     \/ d \in aged /\ Finalize(r, d, "expired", due[d], attempts[d])
     \/ d \notin aged /\ ~enabled /\ Finalize(r, d, "suppressed", due[d], attempts[d])
     \* no license, or the formatter skips the event
     \/ d \notin aged /\ Finalize(r, d, "suppressed", due[d], attempts[d])
     \* the secret or the message is broken
     \/ d \notin aged /\ enabled /\ Finalize(r, d, "failed", due[d], Counted(d))
     \* the channel's token bucket is empty
     \/ /\ d \notin aged /\ enabled
        /\ Finalize(r, d, IF attempts[d] > 0 THEN "retrying" ELSE "pending", FALSE, attempts[d])
  /\ Does(r, d, Idle)
  /\ UNCHANGED <<events, tests, aged, enabled, incident, sends, faults, stalls>>

StartSend(r, d) ==
  /\ At(r, d) = "claimed" /\ Owns(r, d) /\ d \notin aged /\ enabled
  /\ Does(r, d, [work[r][d] EXCEPT !.at = "sending"])
  /\ UNCHANGED <<events, tests, table, aged, enabled, incident, sends, faults, stalls>>

(* A timeout or a lost answer is retryable though the receiver has acted.  *)
Send(r, d) ==
  /\ At(r, d) = "sending"
  /\ sends' = [sends EXCEPT ![d] = IF @ = SendBound THEN @ ELSE @ + 1]
  /\ \E answer \in {"ok", "retryable", "fatal"}, arrives \in BOOLEAN :
       /\ answer = "ok" => arrives
       /\ answer = "fatal" => ~arrives
       /\ Does(r, d, [at |-> "answered", lockedUntil |-> work[r][d].lockedUntil,
                      answer |-> answer])
       /\ incident' = IF arrives /\ d \notin tests THEN d \in Trigger ELSE incident
  /\ UNCHANGED <<events, tests, table, aged, enabled, faults, stalls>>

WorthRetrying(r, d) == work[r][d].answer = "retryable" /\ attempts[d] + 1 < maxAttempts(d)
Sent(answer) == answer = "ok"

Record(r, d) ==
  /\ r \in Replica /\ At(r, d) = "answered"
  /\ IF Sent(work[r][d].answer)
     THEN Finalize(r, d, "succeeded", due[d], Counted(d))
     ELSE IF WorthRetrying(r, d)
     THEN Finalize(r, d, "retrying", FALSE, Counted(d))
     ELSE Finalize(r, d, "failed", due[d], Counted(d))
  /\ Does(r, d, Idle)
  /\ UNCHANGED <<events, tests, aged, enabled, incident, sends, faults, stalls>>

(* A database error mid-delivery: the claim is released for a later retry, *)
(* and the attempt, if one was made, is not counted; if the release fails  *)
(* too the row stays claimed.                                              *)
Hiccup(r, d) ==
  /\ r \in Replica /\ At(r, d) \in {"claimed", "answered"} /\ faults < MaxFaults
  /\ faults' = faults + 1
  /\ Finalize(r, d, "retrying", FALSE, attempts[d]) \/ UNCHANGED table
  /\ Does(r, d, Idle)
  /\ UNCHANGED <<events, tests, aged, enabled, incident, sends, stalls>>

-----------------------------------------------------------------------------
(* testChannel: the row is created claimed, sent once, and updated by id.  *)

TestClaim(d) ==
  /\ d \notin events /\ status[d] = "none" /\ At(Tester, d) = "idle"
  /\ LET t == FreshStamp(d) IN
     /\ status' = [status EXCEPT ![d] = "sending"]
     /\ lockedBy' = [lockedBy EXCEPT ![d] = Tester]
     /\ lockedUntil' = [lockedUntil EXCEPT ![d] = t]
     /\ Does(Tester, d, [at |-> "sending", lockedUntil |-> t])
  /\ events' = events \cup {d} /\ tests' = tests \cup {d}
  /\ UNCHANGED <<attempts, due, lapsed, aged, enabled, incident, sends, faults, stalls>>

TestRecord(d) ==
  /\ At(Tester, d) = "answered"
  /\ status' = [status EXCEPT ![d] =
                 IF Sent(work[Tester][d].answer) THEN "succeeded" ELSE "failed"]
  /\ attempts' = [attempts EXCEPT ![d] = 1]
  /\ lockedBy' = [lockedBy EXCEPT ![d] = None]
  /\ lockedUntil' = [lockedUntil EXCEPT ![d] = 0]
  /\ Does(Tester, d, Idle)
  /\ UNCHANGED <<events, tests, due, lapsed, aged, enabled, incident, sends, faults, stalls>>

-----------------------------------------------------------------------------
(* The environment.                                                        *)

(* nextAttemptAt passes.                                                   *)
BackoffEnds(d) ==
  /\ status[d] \in {"pending", "retrying"} /\ ~due[d]
  /\ due' = [due EXCEPT ![d] = TRUE]
  /\ UNCHANGED <<events, tests, status, attempts, lockedBy, lockedUntil, lapsed, aged, enabled,
                 work, incident, sends, faults, stalls>>

(* lockedUntil passes.  The lease outlasts a worst-case send (claimLeaseMs), *)
(* so its holder has died, or was suspended meanwhile: a stall.            *)
LiveClaim(d) == \E r \in Process : /\ At(r, d) \in {"claimed", "sending", "answered"}
                                  /\ work[r][d].lockedUntil = lockedUntil[d]
LeaseLapses(d) ==
  /\ status[d] = "sending" /\ ~lapsed[d]
  /\ IF LiveClaim(d) THEN stalls < MaxStalls /\ stalls' = stalls + 1
                     ELSE UNCHANGED stalls
  /\ lapsed' = [lapsed EXCEPT ![d] = TRUE]
  /\ UNCHANGED <<events, tests, status, attempts, due, lockedBy, lockedUntil, aged, enabled,
                 work, incident, sends, faults>>

Age(d) ==
  /\ d \in events \ aged
  /\ aged' = aged \cup {d}
  /\ UNCHANGED <<events, tests, table, enabled, work, incident, sends, faults, stalls>>

SwitchChannel ==
  /\ enabled' = ~enabled
  /\ UNCHANGED <<events, tests, table, aged, work, incident, sends, faults, stalls>>

Crash(r) ==
  /\ faults < MaxFaults /\ \E d \in Delivery : At(r, d) # "idle"
  /\ faults' = faults + 1
  /\ work' = [work EXCEPT ![r] = [d \in Delivery |-> Idle]]
  /\ UNCHANGED <<events, tests, table, aged, enabled, incident, sends, stalls>>

Dispatch(r, d) ==
  Claim(r, d) \/ SettleUnsent(r, d) \/ StartSend(r, d) \/ Send(r, d) \/ Record(r, d)
Next ==
  \/ SwitchChannel
  \/ \E d \in Delivery : \/ EmitEvent(d) \/ FanOut(d) \/ TestClaim(d) \/ TestRecord(d)
                         \/ BackoffEnds(d) \/ LeaseLapses(d) \/ Age(d)
  \/ \E r \in Process : \/ ReadBatch(r) \/ Crash(r)
                        \/ \E d \in Delivery : Dispatch(r, d) \/ Hiccup(r, d)

Spec == Init /\ [][Next]_vars

(* Every replica's loop goes on, its sends end, and time passes: leases    *)
(* lapse, back-offs end, events age.  No crash, error or request is owed.  *)
FairSpec ==
  /\ Spec
  /\ \A r \in Process : WF_vars(ReadBatch(r))
  /\ \A r \in Process, d \in Delivery : WF_vars(Dispatch(r, d))
  /\ \A d \in Delivery :
       WF_vars(TestRecord(d)) /\ WF_vars(BackoffEnds(d)) /\ WF_vars(LeaseLapses(d)) /\ WF_vars(Age(d))

-----------------------------------------------------------------------------
(* Properties.                                                             *)

(* However many replicas read a delivery in a batch, one has it in hand,   *)
(* and one more for every lease that lapsed under its holder.              *)
OneSender ==
  \A d \in Delivery :
    Cardinality({p \in Process : At(p, d) \in {"claimed", "sending", "answered"}}) <= 1 + stalls

(* testChannel updates its row by id: a test whose tester stalls past its  *)
(* lease has two writers, and the property below excepts it.               *)
OneWriter == {d \in Delivery : d \in tests => stalls = 0}

(* Every send is charged to the row's attempts, except one whose process   *)
(* died, stalled, or failed to record it: maxAttempts bounds the sends.    *)
SendsAreCounted ==
  \A d \in OneWriter :
    sends[d] <= attempts[d] + faults + stalls
                + Cardinality({r \in Process : At(r, d) = "answered"})

(* Whatever is queued is settled in the end.                               *)
DeliveriesEnd ==
  \A d \in Delivery : status[d] \in {"pending", "retrying", "sending"} ~> status[d] \in Outcome

(* "resolve" closes the incident: when all is delivered, what was raised   *)
(* last is what the receiver shows.                                        *)
LastEventWins ==
  LET raised == events \ tests IN
  (\A d \in raised : status[d] = "succeeded")
    => (incident <=> \E d \in raised \cap Trigger : \A e \in raised : e <= d)

(* "A crash between here and the send loses nothing": an event raised for  *)
(* an enabled channel gets a delivery row.                                 *)
EventsAreQueued == [][\A d \in Delivery : enabled /\ status[d] = "none"
                                           => status'[d] # "unqueued"]_vars

(* "Never retried": a test message is sent at most once.                   *)
TestsAreSentOnce == \A d \in tests : sends[d] <= 1
=============================================================================
