-------------------------- MODULE ScheduledWorkProofs --------------------------
(***************************************************************************)
(* The runbook schedule, the drift of a server, a monitored crontab line,  *)
(* the deadline of a job's heartbeat and the text of a crontab: five       *)
(* inductive invariants, each of a module of its own.                      *)
(***************************************************************************)
EXTENDS RunbookSchedule, CronMonitor, CronDeadlines, Drift, Crontab,
        FiniteSetTheorems, SequenceTheorems, WellFoundedInduction, TLAPS

------------------------------------------------------------------------------
(***************************************************************************)
(* OncePerOccurrence of RunbookSchedule, for any number of replicas and    *)
(* editors, any period and any length of time.                             *)
(*                                                                         *)
(* An occurrence is won when a tick has moved the row past it and is on    *)
(* its way to insert the run, or has inserted it.  The property follows    *)
(* from where the row then stands: strictly behind every occurrence won,   *)
(* unless a save took it back.                                             *)
(***************************************************************************)


\* Replica w's tick has won occurrence o and not yet inserted its run.
Carries(w, o) ==
  tick[w] # None /\ tick[w].step \in {"count", "insert"} /\ tick[w].seen = o

Won(o) == fired[o] > 0 \/ \E w \in Replica : Carries(w, o)

\* What a tick has read was due, and was read in the past.
TicksArePast ==
  \A w \in Replica : tick[w] # None => tick[w].seen <= tick[w].at /\ tick[w].at <= now

\* The row is past every occurrence won.
RowIsPast ==
  \A o \in Occurrence \ pendingAgain :
    Won(o) => o <= now /\ (nextAt = None \/ nextAt > o)

\* An occurrence is won by one tick.
OneWinner ==
  \A o \in Occurrence \ pendingAgain :
    /\ fired[o] <= 1
    /\ fired[o] > 0 => \A w \in Replica : ~Carries(w, o)
    /\ \A v, w \in Replica : Carries(v, o) /\ Carries(w, o) => v = w

ScheduleInv == ScheduleTypeOK /\ TicksArePast /\ RowIsPast /\ OneWinner

------------------------------------------------------------------------------
(* Arithmetic *)

\* computeNextScheduledAt is strictly after t, and within a period of it.
LEMMA NextIsAfter ==
  ASSUME NEW t \in 0 .. MaxTime
  PROVE  /\ computeNextScheduledAt(t) \in Occurrence
         /\ computeNextScheduledAt(t) > t
PROOF
  <1> DEFINE q == t \div Period
             r == t % Period
  <1>1. t \in Nat /\ MaxTime \in Nat /\ Period \in Nat \ {0}
    BY BoundAssumption, PeriodAssumption
  <1>2. t = Period * q + r /\ 0 <= r /\ r < Period
    BY <1>1, Z3
  <1>3. q \in Int /\ r \in Int
    BY <1>1
  <1> HIDE DEF q, r
  <1>4. (q + 1) * Period = Period * q + Period
    BY <1>1, <1>3, Z3
  <1>5. Period * q \in Int
    BY <1>1, <1>3
  <1>6. t < (q + 1) * Period /\ (q + 1) * Period <= t + Period
    BY <1>1, <1>2, <1>3, <1>4, <1>5
  <1>7. (q + 1) * Period \in Int
    BY <1>1, <1>3
  <1> QED
    BY <1>1, <1>6, <1>7 DEF computeNextScheduledAt, Occurrence, q

------------------------------------------------------------------------------
(* Every step preserves the invariant *)

LEMMA InitInv == ScheduleInit => ScheduleInv
PROOF
  <1> SUFFICES ASSUME ScheduleInit PROVE ScheduleInv
    OBVIOUS
  <1>1. 0 \in 0 .. MaxTime
    BY BoundAssumption
  <1>2. ScheduleTypeOK
    <2>1. computeNextScheduledAt(0) \in Occurrence
      BY <1>1, NextIsAfter
    <2>2. 0 \in 0 .. MaxActive /\ 0 \in 0 .. MaxFired
      BY BoundAssumption
    <2>3. nextAt \in Occurrence \cup {None}
      BY <2>1 DEF ScheduleInit
    <2> QED
      BY <1>1, <2>2, <2>3 DEF ScheduleInit, ScheduleTypeOK
  <1>3. \A o \in Occurrence : ~Won(o)
    BY DEF ScheduleInit, Won, Carries
  <1> QED
    BY <1>2, <1>3 DEF ScheduleInit, ScheduleInv, TicksArePast, RowIsPast, OneWinner, Won

LEMMA TypePreserved == ScheduleInv /\ [ScheduleNext]_scheduleVars => ScheduleTypeOK'
PROOF
  <1> SUFFICES ASSUME ScheduleInv, [ScheduleNext]_scheduleVars PROVE ScheduleTypeOK'
    OBVIOUS
  <1> USE DEF ScheduleInv, ScheduleTypeOK
  <1>1. CASE DeleteRunbook \/ RunByHand \/ RunEnds \/ PassTime
    <2>1. CASE DeleteRunbook
      BY <2>1 DEF DeleteRunbook
    <2>2. CASE RunByHand
      BY <2>2, BoundAssumption DEF RunByHand, runbook
    <2>3. CASE RunEnds
      BY <2>3, BoundAssumption DEF RunEnds, runbook
    <2>4. CASE PassTime
      BY <2>4, BoundAssumption DEF PassTime, runbook
    <2> QED
      BY <1>1, <2>1, <2>2, <2>3, <2>4
  <1>2. ASSUME NEW w \in Replica, ReadDue(w) PROVE ScheduleTypeOK'
    BY <1>2 DEF ReadDue, runbook, TickState
  <1>3. ASSUME NEW w \in Replica, Advance(w) PROVE ScheduleTypeOK'
    <2>1. tick[w] \in TickState
      BY <1>3 DEF Advance
    <2>2. computeNextScheduledAt(tick[w].at) \in Occurrence
      BY <2>1, NextIsAfter DEF TickState
    <2>3. [tick[w] EXCEPT !.step = "count"] \in TickState
      BY <2>1 DEF TickState
    <2> QED
      BY <1>3, <2>2, <2>3 DEF Advance
  <1>4. ASSUME NEW w \in Replica, CountActive(w) PROVE ScheduleTypeOK'
    <2>1. [tick[w] EXCEPT !.step = "insert"] \in TickState
      BY <1>4 DEF CountActive, TickState
    <2> QED
      BY <1>4, <2>1 DEF CountActive, runbook
  <1>5. ASSUME NEW w \in Replica, InsertScheduled(w) PROVE ScheduleTypeOK'
    <2>1. tick[w].seen \in Occurrence
      BY <1>5 DEF InsertScheduled, TickState
    <2> QED
      BY <1>5, <2>1, BoundAssumption DEF InsertScheduled, runbook
  <1>6. ASSUME NEW w \in Replica, SkipOccurrence(w) PROVE ScheduleTypeOK'
    BY <1>6 DEF SkipOccurrence, runbook
  <1>7. ASSUME NEW e \in Editor, LoadRunbook(e) PROVE ScheduleTypeOK'
    BY <1>7 DEF LoadRunbook, runbook, LoadedEdit
  <1>8. ASSUME NEW e \in Editor, NEW on \in BOOLEAN, SaveRunbook(e, on)
        PROVE  ScheduleTypeOK'
    <2>1. edit[e] \in LoadedEdit
      BY <1>8 DEF SaveRunbook
    <2>2. NextOnSave(edit[e], on) \in Occurrence \cup {None}
      BY <2>1, NextIsAfter DEF NextOnSave, LoadedEdit
    <2> QED
      BY <1>8, <2>2 DEF SaveRunbook
  <1>9. CASE UNCHANGED scheduleVars
    BY <1>9 DEF scheduleVars
  <1> QED
    BY <1>1, <1>2, <1>3, <1>4, <1>5, <1>6, <1>7, <1>8, <1>9 DEF ScheduleNext

LEMMA PastPreserved == ScheduleInv /\ [ScheduleNext]_scheduleVars => TicksArePast'
PROOF
  <1> SUFFICES ASSUME ScheduleInv, [ScheduleNext]_scheduleVars PROVE TicksArePast'
    OBVIOUS
  <1> USE DEF ScheduleInv, TicksArePast
  <1>1. now \in Int /\ \A w \in Replica : tick[w] # None => tick[w].at \in Int
    BY BoundAssumption DEF ScheduleTypeOK, TickState
  <1>2. ASSUME NEW w \in Replica, ReadDue(w) PROVE TicksArePast'
    BY <1>2, <1>1 DEF ReadDue, runbook, ScheduleTypeOK
  <1>3. ASSUME NEW w \in Replica, Advance(w) PROVE TicksArePast'
    BY <1>3 DEF Advance, ScheduleTypeOK, TickState
  <1>4. ASSUME NEW w \in Replica, CountActive(w) PROVE TicksArePast'
    BY <1>4 DEF CountActive, ScheduleTypeOK, TickState
  <1>5. ASSUME NEW w \in Replica, InsertScheduled(w) \/ SkipOccurrence(w)
        PROVE  TicksArePast'
    BY <1>5 DEF InsertScheduled, SkipOccurrence, ScheduleTypeOK
  <1>6. CASE PassTime
    BY <1>6, <1>1 DEF PassTime
  <1>7. CASE \/ DeleteRunbook \/ RunByHand \/ RunEnds \/ UNCHANGED scheduleVars
             \/ \E e \in Editor : LoadRunbook(e) \/ \E on \in BOOLEAN : SaveRunbook(e, on)
    BY <1>7 DEF DeleteRunbook, RunByHand, RunEnds, scheduleVars, LoadRunbook, SaveRunbook
  <1> QED
    BY <1>2, <1>3, <1>4, <1>5, <1>6, <1>7 DEF ScheduleNext

\* A step that neither wins an occurrence nor moves the row back.
LEMMA QuietStep ==
  ASSUME ScheduleInv, ScheduleTypeOK', now' >= now, pendingAgain' = pendingAgain,
         fired' = fired, nextAt' = nextAt \/ nextAt' = None,
         \A w \in Replica, o \in Occurrence : Carries(w, o)' => Carries(w, o)
  PROVE  RowIsPast' /\ OneWinner'
PROOF
  <1>1. Occurrence \subseteq Int /\ now \in Int /\ now' \in Int
    BY BoundAssumption, PeriodAssumption DEF ScheduleInv, ScheduleTypeOK, Occurrence
  <1>2. \A o \in Occurrence : Won(o)' => Won(o)
    BY DEF Won
  <1>3. RowIsPast'
    BY <1>1, <1>2 DEF ScheduleInv, RowIsPast
  <1>4. OneWinner'
    BY DEF ScheduleInv, OneWinner
  <1> QED
    BY <1>3, <1>4

LEMMA WinnerPreserved ==
  ScheduleInv /\ [ScheduleNext]_scheduleVars => RowIsPast' /\ OneWinner'
PROOF
  <1> SUFFICES ASSUME ScheduleInv, [ScheduleNext]_scheduleVars
               PROVE  RowIsPast' /\ OneWinner'
    OBVIOUS
  <1>1. ScheduleTypeOK'
    BY TypePreserved
  <1>2. /\ Occurrence \subseteq Int /\ now \in Int
        /\ tick \in [Replica -> TickState \cup {None}]
        /\ fired \in [Occurrence -> 0 .. MaxFired] /\ MaxFired \in Nat
        /\ nextAt \in Occurrence \cup {None}
    BY BoundAssumption, PeriodAssumption DEF ScheduleInv, ScheduleTypeOK, Occurrence
  <1>3. CASE DeleteRunbook \/ RunByHand \/ RunEnds \/ PassTime \/ UNCHANGED scheduleVars
    <2>1. /\ now' >= now /\ pendingAgain' = pendingAgain /\ fired' = fired
          /\ nextAt' = nextAt \/ nextAt' = None
          /\ tick' = tick
      BY <1>3, <1>2 DEF DeleteRunbook, RunByHand, RunEnds, PassTime, scheduleVars, runbook
    <2> QED
      BY <1>1, <2>1, QuietStep DEF Carries
  <1>4. ASSUME NEW w \in Replica, ReadDue(w) \/ CountActive(w) \/ SkipOccurrence(w)
        PROVE  RowIsPast' /\ OneWinner'
    <2>1. /\ now' = now /\ pendingAgain' = pendingAgain /\ fired' = fired
          /\ nextAt' = nextAt
      BY <1>4 DEF ReadDue, CountActive, SkipOccurrence, runbook
    <2>2. \A v \in Replica, o \in Occurrence : Carries(v, o)' => Carries(v, o)
      BY <1>4, <1>2 DEF ReadDue, CountActive, SkipOccurrence, Carries, TickState
    <2> QED
      BY <1>1, <1>2, <2>1, <2>2, QuietStep
  <1>5. ASSUME NEW w \in Replica, Advance(w) PROVE RowIsPast' /\ OneWinner'
    <2> DEFINE s == tick[w].seen
    <2>1. /\ tick[w] \in TickState /\ s \in Occurrence /\ tick[w].step = "advance"
          /\ tick[w].at \in 0 .. MaxTime /\ s <= tick[w].at /\ tick[w].at <= now
      BY <1>5, <1>2 DEF Advance, ScheduleInv, TicksArePast, TickState
    <2>2. now' = now /\ fired' = fired /\ pendingAgain' = pendingAgain
      BY <1>5 DEF Advance
    <2>3. CASE ~Wins(s)
      <3>1. nextAt' = nextAt /\ tick' = [tick EXCEPT ![w] = None]
        BY <1>5, <2>3 DEF Advance
      <3> QED
        BY <1>1, <1>2, <2>2, <3>1, QuietStep DEF Carries
    <2>4. CASE Wins(s)
      <3>1. nextAt = s /\ nextAt' = computeNextScheduledAt(tick[w].at)
        BY <1>5, <2>4 DEF Advance, Wins
      <3>2. nextAt' \in Int /\ nextAt' > s /\ nextAt' > nextAt
        <4>1. /\ computeNextScheduledAt(tick[w].at) \in Occurrence
              /\ computeNextScheduledAt(tick[w].at) > tick[w].at
          BY <2>1, NextIsAfter
        <4>2. s \in Int
          BY <1>2, <2>1
        <4>3. tick[w].at \in Int
          BY <2>1
        <4>4. nextAt' \in Int
          BY <1>2, <3>1, <4>1
        <4> QED
          BY <2>1, <3>1, <4>1, <4>2, <4>3, <4>4
      <3>3. \A v \in Replica, o \in Occurrence :
              Carries(v, o)' => Carries(v, o) \/ (v = w /\ o = s)
        BY <1>5, <1>2, <2>1 DEF Advance, Carries, TickState
      <3>0. nextAt # None
        BY <2>1, <3>1, NoneAssumption, BoundAssumption, PeriodAssumption DEF Occurrence
      <3>4. s \notin pendingAgain => ~Won(s)
        <4>1. s \in Int
          BY <1>2, <2>1
        <4>2. \A i \in Int : ~(i > i)
          OBVIOUS
        <4> QED
          BY <2>1, <3>0, <3>1, <4>1, <4>2 DEF ScheduleInv, RowIsPast
      <3>5. \A o \in Occurrence : Won(o)' => Won(o) \/ o = s
        BY <2>2, <3>3 DEF Won
      <3>7. RowIsPast'
        <4> SUFFICES ASSUME NEW o \in Occurrence, o \notin pendingAgain, Won(o)'
                     PROVE  o <= now /\ nextAt' > o
          BY <2>2 DEF RowIsPast
        <4>1. CASE o = s
          BY <4>1, <1>2, <2>1, <3>2
        <4>2. CASE o # s
          <5>1. o <= now /\ nextAt > o
            BY <4>2, <3>0, <3>5 DEF ScheduleInv, RowIsPast
          <5> QED
            BY <5>1, <1>2, <2>1, <3>1, <3>2
        <4> QED
          BY <4>1, <4>2
      <3>8. OneWinner'
        <4> SUFFICES ASSUME NEW o \in Occurrence, o \notin pendingAgain
                     PROVE  /\ fired[o] <= 1
                            /\ fired[o] > 0 => \A v \in Replica : ~Carries(v, o)'
                            /\ \A u, v \in Replica :
                                 Carries(u, o)' /\ Carries(v, o)' => u = v
          BY <2>2 DEF OneWinner
        <4>1. CASE o = s
          <5>1. ~(fired[o] > 0) /\ \A v \in Replica : ~Carries(v, o)
            BY <4>1, <3>4 DEF Won
          <5> QED
            BY <5>1, <1>2, <3>3
        <4>2. CASE o # s
          BY <4>2, <3>3 DEF ScheduleInv, OneWinner
        <4> QED
          BY <4>1, <4>2
      <3> QED
        BY <3>7, <3>8
    <2> QED
      BY <2>3, <2>4
  <1>6. ASSUME NEW w \in Replica, InsertScheduled(w) PROVE RowIsPast' /\ OneWinner'
    <2> DEFINE s == tick[w].seen
    <2>1. tick[w] \in TickState /\ s \in Occurrence /\ Carries(w, s)
      BY <1>6, <1>2 DEF InsertScheduled, TickState, Carries
    <2>2. /\ now' = now /\ nextAt' = nextAt /\ pendingAgain' = pendingAgain
          /\ fired' = [fired EXCEPT ![s] = @ + 1] /\ tick' = [tick EXCEPT ![w] = None]
      BY <1>6 DEF InsertScheduled, runbook
    <2>3. \A v \in Replica, o \in Occurrence : Carries(v, o)' => Carries(v, o) /\ v # w
      BY <1>2, <2>2 DEF Carries
    <2>4. /\ fired'[s] = fired[s] + 1
          /\ \A o \in Occurrence : o # s => fired'[o] = fired[o]
      BY <1>2, <2>1, <2>2
    <2>5. \A o \in Occurrence : Won(o)' => Won(o)
      BY <2>1, <2>3, <2>4 DEF Won
    <2>6. RowIsPast'
      BY <2>2, <2>5 DEF ScheduleInv, RowIsPast
    <2>7. OneWinner'
      <3> SUFFICES ASSUME NEW o \in Occurrence, o \notin pendingAgain
                   PROVE  /\ fired'[o] <= 1
                          /\ fired'[o] > 0 => \A v \in Replica : ~Carries(v, o)'
                          /\ \A u, v \in Replica :
                               Carries(u, o)' /\ Carries(v, o)' => u = v
        BY <2>2 DEF OneWinner
      <3>1. CASE o = s
        <4>1. ~(fired[s] > 0) /\ \A v \in Replica : Carries(v, s) => v = w
          BY <3>1, <2>1 DEF ScheduleInv, OneWinner
        <4>2. fired[s] = 0
          <5>1. fired[s] \in 0 .. MaxFired
            BY <1>2, <2>1
          <5> QED
            BY <4>1, <5>1, <1>2
        <4> QED
          BY <3>1, <4>1, <4>2, <2>3, <2>4
      <3>2. CASE o # s
        BY <3>2, <2>3, <2>4 DEF ScheduleInv, OneWinner
      <3> QED
        BY <3>1, <3>2
    <2> QED
      BY <2>6, <2>7
  <1>7. ASSUME NEW e \in Editor, LoadRunbook(e) PROVE RowIsPast' /\ OneWinner'
    <2>1. /\ now' = now /\ pendingAgain' = pendingAgain /\ fired' = fired
          /\ nextAt' = nextAt /\ tick' = tick
      BY <1>7 DEF LoadRunbook, runbook
    <2> QED
      BY <1>1, <1>2, <2>1, QuietStep DEF Carries
  <1>8. ASSUME NEW e \in Editor, NEW on \in BOOLEAN, SaveRunbook(e, on)
        PROVE  RowIsPast' /\ OneWinner'
    <2>1. /\ now' = now /\ fired' = fired /\ tick' = tick
          /\ nextAt' = NextOnSave(edit[e], on)
          /\ pendingAgain \subseteq pendingAgain'
      BY <1>8 DEF SaveRunbook
    <2>2. \A o \in Occurrence :
            /\ Won(o)' <=> Won(o)
            /\ \A v \in Replica : Carries(v, o)' <=> Carries(v, o)
      BY <2>1 DEF Won, Carries
    <2>3. OneWinner'
      BY <2>1, <2>2 DEF ScheduleInv, OneWinner
    <2>4. RowIsPast'
      <3> SUFFICES ASSUME NEW o \in Occurrence, o \notin pendingAgain', Won(o)
                   PROVE  o <= now /\ (nextAt' = None \/ nextAt' > o)
        BY <2>1, <2>2 DEF RowIsPast
      <3>1. o <= now /\ (nextAt = None \/ nextAt > o)
        BY <2>1 DEF ScheduleInv, RowIsPast
      <3> SUFFICES ASSUME nextAt' # None PROVE nextAt' > o
        BY <3>1
      <3>2. nextAt' \in Int
        BY <1>1, <1>2 DEF ScheduleTypeOK
      <3>3. ~(nextAt' <= o /\ IF nextAt = None THEN edit[e].nextAt # None ELSE o < nextAt)
        BY <1>8 DEF SaveRunbook
      <3>4. CASE nextAt # None
        BY <3>1, <3>2, <3>3, <3>4, <1>2
      <3>5. CASE nextAt = None /\ edit[e].nextAt # None
        BY <3>1, <3>2, <3>3, <3>5, <1>2
      <3>6. CASE edit[e].nextAt = None
        <4>1. nextAt' = computeNextScheduledAt(now)
          BY <3>6, <2>1 DEF NextOnSave
        <4>2. nextAt' > now
          BY <4>1, NextIsAfter DEF ScheduleInv, ScheduleTypeOK
        <4> QED
          BY <4>2, <3>1, <3>2, <1>2
      <3> QED
        BY <3>4, <3>5, <3>6
    <2> QED
      BY <2>3, <2>4
  <1> QED
    BY <1>3, <1>4, <1>5, <1>6, <1>7, <1>8 DEF ScheduleNext

------------------------------------------------------------------------------
(* Theorems *)

\* The invariant behind OncePerOccurrence: a tick works from the past, the row
\* has moved past whatever a tick won, and one tick wins an occurrence
\* (runbook-scheduler.ts:61-80).
THEOREM ScheduleInvariant == ScheduleSpec => []ScheduleInv
PROOF
  <1>1. ScheduleInv /\ [ScheduleNext]_scheduleVars => ScheduleInv'
    BY TypePreserved, PastPreserved, WinnerPreserved DEF ScheduleInv
  <1> QED
    BY InitInv, <1>1, PTL DEF ScheduleSpec

\* An occurrence starts at most one run unless a save made it pending again.
THEOREM EveryOccurrenceOnce == ScheduleSpec => []OncePerOccurrence
PROOF
  <1>1. ScheduleInv => OncePerOccurrence
    BY DEF ScheduleInv, OneWinner, OncePerOccurrence
  <1> QED
    BY ScheduleInvariant, <1>1, PTL

------------------------------------------------------------------------------
(***************************************************************************)
(* DriftIsOnRecord for any number of scans, requests and categories.       *)
(*                                                                         *)
(* A scan skips what the one before it has shown against the same          *)
(* baseline.  That is sound since every snapshot stored had each of its    *)
(* differences on record, its own or an earlier scan's, and no step takes  *)
(* anything off the record.                                                *)
(***************************************************************************)

\* Snapshots are numbered as they are taken, and the next scan finds the two it
\* compares with.
SnapshotsAreKept ==
  /\ DOMAIN snaps \subseteq 1 .. taken
  /\ baseline = 0 <=> taken = 0
  /\ taken # 0 => baseline \in DOMAIN snaps /\ taken \in DOMAIN snaps

\* What the latest snapshot shows against the baseline has been recorded.
Recorded(c) ==
  \E e \in events :
    /\ e.category = c /\ e.at > baseline
    /\ e.fingerprint = Fingerprint(snaps[baseline], snaps[taken], c)
LatestIsRecorded ==
  ~rewound /\ taken # 0 => \A c \in Differs(snaps[baseline], snaps[taken]) : Recorded(c)

DriftInv == DriftTypeOK /\ SnapshotsAreKept /\ LatestIsRecorded

SnapsType(f) == f \in [DOMAIN f -> Data] /\ DOMAIN f \subseteq 1 .. MaxSnaps

LEMMA SnapsTyped ==
  ASSUME NEW f
  PROVE  SnapsType(f) <=> f \in UNION {[D -> Data] : D \in SUBSET (1 .. MaxSnaps)}
<1>1. ASSUME SnapsType(f) PROVE f \in UNION {[D -> Data] : D \in SUBSET (1 .. MaxSnaps)}
    BY <1>1 DEF SnapsType
<1>2. ASSUME f \in UNION {[D -> Data] : D \in SUBSET (1 .. MaxSnaps)} PROVE SnapsType(f)
  <2>1. PICK D \in SUBSET (1 .. MaxSnaps) : f \in [D -> Data]
      BY <1>2
  <2>2. DOMAIN f = D
      BY <2>1
  <2> QED
      BY <2>1, <2>2 DEF SnapsType
<1> QED
    BY <1>1, <1>2

\* The latest snapshot is the one taken last: pruning spares it.
LEMMA LatestTaken ==
  ASSUME taken \in Nat, SnapshotsAreKept, taken # 0
  PROVE  Latest = taken
<1> DEFINE S == {0} \cup DOMAIN snaps
<1>1. taken \in S /\ \A i \in S : i \in Int /\ taken >= i
    BY DEF SnapshotsAreKept
<1>2. \A x \in S : (\A y \in S : x >= y) => x = taken
    BY <1>1
<1>3. Latest = CHOOSE x \in S : \A y \in S : x >= y
    BY DEF Latest, Max
<1> HIDE DEF S
<1> QED
    BY <1>1, <1>2, <1>3

LEMMA RestingType ==
  /\ Resting.data \in Data /\ Resting.event = {}
  /\ \A pc \in {"idle", "store", "ack", "trigger", "resolve"} :
       [Resting EXCEPT !.pc = pc] \in
         [pc : {"idle", "store", "ack", "trigger", "resolve"}, data : Data, event : SUBSET Event]
BY DEF Resting, NoData, Data

LEMMA DriftInitInv == DriftInit => DriftInv
<1> SUFFICES ASSUME DriftInit PROVE DriftInv
    OBVIOUS
<1>1. DOMAIN snaps = {} /\ snaps \in [{} -> Data]
    BY DEF DriftInit
<1>2. snaps \in UNION {[D -> Data] : D \in SUBSET (1 .. MaxSnaps)}
    BY <1>1, SnapsTyped DEF SnapsType
<1>3. Resting \in [pc : {"idle", "store", "ack", "trigger", "resolve"}, data : Data,
                   event : SUBSET Event]
    BY RestingType DEF Resting
<1>4. 0 \in 0 .. MaxSnaps /\ 0 \in 0 .. MaxChanges /\ 0 \in 0 .. MaxLost
    BY DriftBoundAssumption DEF DriftBoundAssumption
<1>5. DriftTypeOK
    BY <1>2, <1>3, <1>4 DEF DriftInit, DriftTypeOK
<1>6. SnapshotsAreKept /\ LatestIsRecorded
    BY <1>1 DEF DriftInit, SnapshotsAreKept, LatestIsRecorded
<1> QED
    BY <1>5, <1>6 DEF DriftInv

\* An actor that goes on.
LEMMA GoToType ==
  ASSUME DriftTypeOK, NEW a \in Actor,
         NEW pc \in {"idle", "store", "ack", "trigger", "resolve"}, GoTo(a, pc)
  PROVE  actor' \in [Actor -> [pc : {"idle", "store", "ack", "trigger", "resolve"},
                               data : Data, event : SUBSET Event]]
BY RestingType DEF GoTo, DriftTypeOK

\* A step that leaves snapshots and baseline alone, and the record as complete as it was.
LEMMA RecordStays ==
  ASSUME DriftInv, UNCHANGED <<snaps, baseline, taken, rewound>>,
         \A e \in events : \E f \in events' :
           f.category = e.category /\ f.at = e.at /\ f.fingerprint = e.fingerprint
  PROVE  SnapshotsAreKept' /\ LatestIsRecorded'
<1>1. SnapshotsAreKept'
    BY DEF DriftInv, SnapshotsAreKept
<1>2. LatestIsRecorded'
  <2> SUFFICES ASSUME ~rewound, taken # 0, NEW c \in Differs(snaps[baseline], snaps[taken])
               PROVE  Recorded(c)'
      BY DEF LatestIsRecorded, Differs
  <2>1. PICK e \in events : /\ e.category = c /\ e.at > baseline
                            /\ e.fingerprint = Fingerprint(snaps[baseline], snaps[taken], c)
      BY DEF DriftInv, LatestIsRecorded, Recorded
  <2>2. PICK f \in events' : f.category = e.category /\ f.at = e.at
                             /\ f.fingerprint = e.fingerprint
      OBVIOUS
  <2> QED
      BY <2>1, <2>2 DEF Recorded, Fingerprint
<1> QED
    BY <1>1, <1>2

\* To close some events takes nothing off the record.
Closed(E, C) == {[e EXCEPT !.open = FALSE] : e \in C} \cup (E \ C)

LEMMA EventsStay ==
  ASSUME NEW E \in SUBSET Event, NEW C \in SUBSET E
  PROVE  /\ Closed(E, C) \subseteq Event
         /\ \A e \in E : \E f \in Closed(E, C) :
              f.category = e.category /\ f.at = e.at /\ f.fingerprint = e.fingerprint
<1>1. \A e \in C : /\ [e EXCEPT !.open = FALSE] \in Event
                   /\ [e EXCEPT !.open = FALSE].category = e.category
                   /\ [e EXCEPT !.open = FALSE].at = e.at
                   /\ [e EXCEPT !.open = FALSE].fingerprint = e.fingerprint
    BY DEF Event
<1>2. Closed(E, C) \subseteq Event
    BY <1>1 DEF Closed
<1>3. ASSUME NEW e \in E
      PROVE  \E f \in Closed(E, C) :
               f.category = e.category /\ f.at = e.at /\ f.fingerprint = e.fingerprint
  <2>1. CASE e \in C
      BY <1>1, <2>1 DEF Closed
  <2>2. CASE e \notin C
      BY <2>2 DEF Closed
  <2> QED
      BY <2>1, <2>2
<1> QED
    BY <1>2, <1>3

LEMMA EventsDetached ==
  ASSUME NEW E \in SUBSET Event, NEW gone
  PROVE  /\ Detached(E, gone) \subseteq Event
         /\ \A e \in E : \E f \in Detached(E, gone) :
              f.category = e.category /\ f.at = e.at /\ f.fingerprint = e.fingerprint
<1>1. \A e \in E :
        LET f == [e EXCEPT !.snap = IF e.snap \in gone THEN 0 ELSE e.snap] IN
        /\ f \in Event
        /\ f.category = e.category /\ f.at = e.at /\ f.fingerprint = e.fingerprint
    BY DriftBoundAssumption DEF Event, DriftBoundAssumption
<1> QED
    BY <1>1 DEF Detached

\* The newest snapshot and the baseline are never stale.
LEMMA NeverStale ==
  ASSUME NEW ids, NEW base, NEW last \in ids, \A i \in ids : i \in Int /\ i =< last
  PROVE  base \notin Stale(ids, base) /\ last \notin Stale(ids, base)
<1>1. {j \in ids \ {base} : j > last} = {}
    OBVIOUS
<1>2. Cardinality({j \in ids \ {base} : j > last}) = 0
    BY <1>1, FS_EmptySet
<1> QED
    BY <1>2, DriftKeepAssumption DEF Stale, DriftKeepAssumption

LEMMA StoreStep ==
  ASSUME DriftInv, NEW a \in Actor, Store(a)
  PROVE  DriftInv'
<1> DEFINE data == actor[a].data
           ids == DOMAIN snaps \cup {taken'}
           gone == Stale(ids, baseline')
           new == NewEvents(taken', data)
<1>1. /\ taken \in Nat /\ taken' = taken + 1 /\ taken' \in 1 .. MaxSnaps
      /\ data \in Data /\ events \subseteq Event
      /\ snaps \in [DOMAIN snaps -> Data] /\ DOMAIN snaps \subseteq 1 .. taken
  <2>1. taken \in 0 .. MaxSnaps /\ taken < MaxSnaps /\ taken' = taken + 1
      BY DEF DriftInv, DriftTypeOK, Store
  <2>2. data \in Data /\ events \subseteq Event
      BY DEF DriftInv, DriftTypeOK
  <2>3. SnapsType(snaps)
      BY SnapsTyped DEF DriftInv, DriftTypeOK
  <2> QED
      BY <2>1, <2>2, <2>3, DriftBoundAssumption
      DEF SnapsType, DriftInv, SnapshotsAreKept, DriftBoundAssumption
<1>2. /\ baseline' = IF baseline = 0 THEN taken' ELSE baseline
      /\ snaps' = [i \in ids \ gone |-> IF i = taken' THEN data ELSE snaps[i]]
      /\ events' = Detached(events \cup new, gone)
      /\ GoTo(a, "idle") \/ GoTo(a, "trigger")
      /\ UNCHANGED <<host, incident, rewound, changes, lost>>
    BY DEF Store
<1>3. baseline = 0 <=> taken = 0
    BY DEF DriftInv, SnapshotsAreKept
<1>4. taken' \in ids /\ baseline' \in ids /\ \A i \in ids : i \in Int /\ i =< taken'
    BY <1>1, <1>2, <1>3 DEF DriftInv, SnapshotsAreKept
<1>5. baseline' \notin gone /\ taken' \notin gone
    BY <1>4, NeverStale
<1>6. /\ DOMAIN snaps' = ids \ gone
      /\ baseline' \in DOMAIN snaps' /\ taken' \in DOMAIN snaps'
      /\ snaps'[taken'] = data
      /\ baseline # 0 => baseline' = baseline /\ baseline \in 1 .. taken
                         /\ snaps'[baseline'] = snaps[baseline]
  <2>1. DOMAIN snaps' = ids \ gone /\ baseline' \in ids \ gone /\ taken' \in ids \ gone
      BY <1>2, <1>4, <1>5
  <2>2. snaps'[taken'] = data
      BY <1>2, <2>1
  <2>3. ASSUME baseline # 0
        PROVE  baseline' = baseline /\ baseline \in 1 .. taken
               /\ snaps'[baseline'] = snaps[baseline]
    <3>1. baseline' = baseline /\ baseline \in 1 .. taken
        BY <1>1, <1>2, <1>3, <2>3 DEF DriftInv, SnapshotsAreKept
    <3>2. baseline # taken'
        BY <1>1, <3>1
    <3> QED
        BY <1>2, <2>1, <3>1, <3>2
  <2> QED
      BY <2>1, <2>2, <2>3
<1>7. SnapshotsAreKept'
  <2>1. DOMAIN snaps' \subseteq 1 .. taken'
      BY <1>1, <1>6
  <2>2. baseline' # 0 /\ taken' # 0
      BY <1>1, <1>2
  <2> QED
      BY <1>6, <2>1, <2>2 DEF SnapshotsAreKept
<1>8. new \subseteq Event
  <2> SUFFICES ASSUME baseline # 0, NEW c \in Differs(snaps[baseline], data)
               PROVE  [category |-> c, fingerprint |-> Fingerprint(snaps[baseline], data, c),
                       snap |-> taken', at |-> taken', open |-> TRUE] \in Event
      BY DEF NewEvents
  <2>1. snaps[baseline] \in Data
      BY <1>1, <1>3 DEF DriftInv, SnapshotsAreKept
  <2>2. c \in Category /\ snaps[baseline][c] \in Content /\ data[c] \in Content
      BY <1>1, <2>1 DEF Differs, Data
  <2>3. Fingerprint(snaps[baseline], data, c) \in Content \X Content
      BY <2>2 DEF Fingerprint
  <2>4. taken' \in 0 .. MaxSnaps /\ taken' \in 1 .. MaxSnaps
      BY <1>1
  <2> HIDE DEF data
  <2> QED
      BY <2>2, <2>3, <2>4 DEF Event
<1>9. /\ events' \subseteq Event
      /\ \A e \in events \cup new : \E f \in events' :
           f.category = e.category /\ f.at = e.at /\ f.fingerprint = e.fingerprint
    BY <1>1, <1>2, <1>8, EventsDetached
<1>10. DriftTypeOK'
  <2>1. baseline' \in 0 .. MaxSnaps /\ taken' \in 0 .. MaxSnaps
    <3>1. baseline \in 0 .. MaxSnaps
        BY DEF DriftInv, DriftTypeOK
    <3> QED
        BY <1>1, <1>2, <3>1
  <2>2. snaps' \in UNION {[D -> Data] : D \in SUBSET (1 .. MaxSnaps)}
    <3>1. \A i \in ids \ gone : (IF i = taken' THEN data ELSE snaps[i]) \in Data
        BY <1>1
    <3>2. snaps' \in [ids \ gone -> Data]
        BY <1>2, <3>1
    <3>3. ids \ gone \subseteq 1 .. MaxSnaps
      <4>1. taken \in Nat /\ MaxSnaps \in Nat /\ taken + 1 =< MaxSnaps
          BY <1>1, DriftBoundAssumption DEF DriftBoundAssumption
      <4>2. 1 .. taken \subseteq 1 .. MaxSnaps
          BY <4>1
      <4> QED
          BY <1>1, <4>2
    <3> QED
        BY <1>6, <3>2, <3>3, SnapsTyped DEF SnapsType
  <2>3. actor' \in [Actor -> [pc : {"idle", "store", "ack", "trigger", "resolve"},
                              data : Data, event : SUBSET Event]]
      BY <1>2, GoToType DEF DriftInv
  <2> QED
      BY <1>2, <1>9, <2>1, <2>2, <2>3 DEF DriftInv, DriftTypeOK
<1>11. LatestIsRecorded'
  <2> SUFFICES ASSUME ~rewound', NEW c \in Differs(snaps'[baseline'], snaps'[taken'])
               PROVE  Recorded(c)'
      BY DEF LatestIsRecorded, Differs
  <2>1. baseline # 0
      BY <1>2, <1>6 DEF Differs
  <2>2. /\ baseline' = baseline /\ baseline \in 1 .. taken /\ taken # 0
        /\ snaps'[baseline'] = snaps[baseline] /\ snaps'[taken'] = data
      BY <1>3, <1>6, <2>1
  <2>3. c \in Differs(snaps[baseline], data)
      BY <2>2
  <2>4. Latest = taken
      BY <1>1, <2>2, LatestTaken DEF DriftInv
  <2>5. SUFFICES \E e \in events \cup new :
                   /\ e.category = c /\ e.at > baseline
                   /\ e.fingerprint = Fingerprint(snaps[baseline], data, c)
    <3>1. PICK e \in events \cup new :
                   /\ e.category = c /\ e.at > baseline
                   /\ e.fingerprint = Fingerprint(snaps[baseline], data, c)
        BY <2>5
    <3>2. PICK f \in events' :
            f.category = e.category /\ f.at = e.at /\ f.fingerprint = e.fingerprint
        BY <1>9
    <3>3. Fingerprint(snaps[baseline], data, c)
            = Fingerprint(snaps'[baseline'], snaps'[taken'], c)
        BY <2>2
    <3> QED
        BY <2>2, <3>1, <3>2, <3>3 DEF Recorded, Fingerprint
  <2>6. CASE Repeated(data, c)
    <3>1. c \in Differs(snaps[baseline], snaps[taken])
          /\ Fingerprint(snaps[baseline], snaps[taken], c) = Fingerprint(snaps[baseline], data, c)
        BY <2>4, <2>6 DEF Repeated
    <3>2. Recorded(c)
        BY <1>2, <2>2, <3>1 DEF DriftInv, LatestIsRecorded
    <3> QED
        BY <3>1, <3>2 DEF Recorded
  <2>7. CASE ~Repeated(data, c)
    <3> DEFINE e == [category |-> c, fingerprint |-> Fingerprint(snaps[baseline], data, c),
                     snap |-> taken', at |-> taken', open |-> TRUE]
    <3>1. e \in new
        BY <2>1, <2>3, <2>7 DEF NewEvents
    <3>2. e.category = c /\ e.at = taken'
          /\ e.fingerprint = Fingerprint(snaps[baseline], data, c)
        OBVIOUS
    <3>3. taken' > baseline
        BY <1>1, <2>2
    <3> QED
        BY <3>1, <3>2, <3>3
  <2> QED
      BY <2>6, <2>7
<1> QED
    BY <1>7, <1>10, <1>11 DEF DriftInv

LEMMA AcceptStep ==
  ASSUME DriftInv, NEW a \in Actor, Accept(a)
  PROVE  DriftInv'
<1>1. PICK chosen \in DOMAIN snaps :
        /\ baseline' = chosen /\ rewound' = (chosen # Latest)
        /\ events' = Closed(events, Covered(chosen))
        /\ GoTo(a, "resolve") \/ GoTo(a, "idle")
    BY DEF Accept, Closed
<1>2. UNCHANGED <<host, snaps, incident, taken, changes, lost>>
    BY DEF Accept
<1>3. taken \in Nat /\ chosen \in 1 .. taken /\ events \subseteq Event
      /\ chosen \in 1 .. MaxSnaps
  <2>1. SnapsType(snaps)
      BY SnapsTyped DEF DriftInv, DriftTypeOK
  <2> QED
      BY <2>1 DEF DriftInv, DriftTypeOK, SnapshotsAreKept, SnapsType
<1>4. Covered(chosen) \subseteq events
    BY DEF Covered, Open
<1>5. events' \subseteq Event
    BY <1>1, <1>3, <1>4, EventsStay
<1>6. SnapshotsAreKept'
    BY <1>1, <1>2, <1>3 DEF DriftInv, SnapshotsAreKept
<1>7. LatestIsRecorded'
  <2>1. Latest = taken
      BY <1>3, LatestTaken DEF DriftInv
  <2>2. ~rewound' => baseline' = taken' /\ snaps'[baseline'] = snaps'[taken']
      BY <1>1, <1>2, <2>1
  <2> QED
      BY <2>2 DEF LatestIsRecorded, Differs
<1>8. actor' \in [Actor -> [pc : {"idle", "store", "ack", "trigger", "resolve"},
                            data : Data, event : SUBSET Event]]
    BY <1>1, GoToType DEF DriftInv
<1>9. baseline' \in 0 .. MaxSnaps /\ rewound' \in BOOLEAN
    BY <1>1, <1>3
<1>10. DriftTypeOK'
    BY <1>2, <1>5, <1>8, <1>9 DEF DriftInv, DriftTypeOK
<1> QED
    BY <1>6, <1>7, <1>10 DEF DriftInv

LEMMA DriftStep == DriftInv /\ [DriftNext]_driftVars => DriftInv'
<1> SUFFICES ASSUME DriftInv, [DriftNext]_driftVars PROVE DriftInv'
    OBVIOUS
<1> DEFINE Steps == [Actor -> [pc : {"idle", "store", "ack", "trigger", "resolve"},
                               data : Data, event : SUBSET Event]]
<1>a. DriftTypeOK
    BY DEF DriftInv
<1>1. ASSUME UNCHANGED <<snaps, baseline, events, rewound, taken>>, DriftTypeOK'
      PROVE  DriftInv'
    BY <1>1, RecordStays DEF DriftInv
<1>2. CASE HostChanges
  <2>1. host' \in [Category -> Content]
      BY <1>a, <1>2 DEF HostChanges, DriftTypeOK
  <2>2. changes' \in 0 .. MaxChanges
      BY <1>a, <1>2, DriftBoundAssumption DEF HostChanges, DriftTypeOK, DriftBoundAssumption
  <2>3. UNCHANGED <<snaps, baseline, events, incident, actor, rewound, taken, lost>>
      BY <1>2 DEF HostChanges
  <2>4. DriftTypeOK'
      BY <1>a, <2>1, <2>2, <2>3 DEF DriftTypeOK
  <2> QED
      BY <1>1, <2>3, <2>4
<1>3. ASSUME NEW a \in Actor, Collect(a) PROVE DriftInv'
  <2>1. PICK U \in SUBSET Category :
          actor' = [actor EXCEPT ![a] =
            [pc |-> "store", event |-> {},
             data |-> [c \in Category |-> IF c \in U THEN Unread ELSE host[c]]]]
      BY <1>3 DEF Collect
  <2>2. [c \in Category |-> IF c \in U THEN Unread ELSE host[c]] \in Data
      BY <1>a DEF Data, DriftTypeOK
  <2>3. actor' \in Steps
      BY <1>a, <2>1, <2>2 DEF DriftTypeOK
  <2>4. UNCHANGED <<host, snaps, baseline, events, incident, rewound, taken, changes, lost>>
      BY <1>3 DEF Collect
  <2>5. DriftTypeOK'
      BY <1>a, <2>3, <2>4 DEF DriftTypeOK
  <2> QED
      BY <1>1, <2>4, <2>5
<1>4. ASSUME NEW a \in Actor, Store(a) PROVE DriftInv'
    BY <1>4, StoreStep
<1>5. ASSUME NEW a \in Actor, Accept(a) PROVE DriftInv'
    BY <1>5, AcceptStep
<1>6. ASSUME NEW a \in Actor, ReadEvent(a) PROVE DriftInv'
  <2>1. PICK e \in Open :
          actor' = [actor EXCEPT ![a] = [pc |-> "ack", data |-> NoData, event |-> {e}]]
      BY <1>6 DEF ReadEvent
  <2>2. {e} \in SUBSET Event
      BY <1>a, <2>1 DEF Open, DriftTypeOK
  <2>3. NoData \in Data
      BY DEF NoData, Data
  <2>4. actor' \in Steps
      BY <1>a, <2>1, <2>2, <2>3 DEF DriftTypeOK
  <2>5. UNCHANGED <<host, snaps, baseline, events, incident, rewound, taken, changes, lost>>
      BY <1>6 DEF ReadEvent
  <2>6. DriftTypeOK'
      BY <1>a, <2>4, <2>5 DEF DriftTypeOK
  <2> QED
      BY <1>1, <2>5, <2>6
<1>7. ASSUME NEW a \in Actor, Acknowledge(a) PROVE DriftInv'
  <2> DEFINE mine == {e \in Open : \E f \in actor[a].event : SameEvent(e, f)}
  <2>1. /\ events' = Closed(events, mine)
        /\ GoTo(a, "resolve") \/ GoTo(a, "idle")
        /\ UNCHANGED <<host, snaps, baseline, incident, rewound, taken, changes, lost>>
      BY <1>7 DEF Acknowledge, Closed
  <2>2. mine \subseteq events /\ events \subseteq Event
      BY <1>a DEF Open, DriftTypeOK
  <2>3. /\ events' \subseteq Event
        /\ \A e \in events : \E f \in events' :
             f.category = e.category /\ f.at = e.at /\ f.fingerprint = e.fingerprint
    <3>1. PICK C \in SUBSET events : events' = Closed(events, C)
        BY <2>1, <2>2
    <3> QED
        BY <2>2, <3>1, EventsStay
  <2>4. actor' \in Steps
      BY <1>a, <2>1, GoToType
  <2>5. DriftTypeOK'
      BY <1>a, <2>1, <2>3, <2>4 DEF DriftTypeOK
  <2> QED
      BY <2>1, <2>3, <2>5, RecordStays DEF DriftInv
<1>8. ASSUME NEW a \in Actor, Emit(a) \/ EmitLost(a) PROVE DriftInv'
  <2>1. /\ GoTo(a, "idle") /\ UNCHANGED <<host, snaps, baseline, events, rewound, taken, changes>>
      BY <1>8 DEF Emit, EmitLost
  <2>2. incident' \in BOOLEAN
      BY <1>a, <1>8 DEF Emit, EmitLost, AtStep, DriftTypeOK
  <2>3. lost' \in 0 .. MaxLost
      BY <1>a, <1>8, DriftBoundAssumption DEF Emit, EmitLost, DriftTypeOK, DriftBoundAssumption
  <2>4. actor' \in Steps
      BY <1>a, <2>1, GoToType
  <2>5. DriftTypeOK'
      BY <1>a, <2>1, <2>2, <2>3, <2>4 DEF DriftTypeOK
  <2> QED
      BY <1>1, <2>1, <2>5
<1>9. CASE UNCHANGED driftVars
  <2>1. DriftTypeOK'
      BY <1>a, <1>9 DEF driftVars, DriftTypeOK
  <2> QED
      BY <1>1, <1>9, <2>1 DEF driftVars
<1> QED
    BY <1>2, <1>3, <1>4, <1>5, <1>6, <1>7, <1>8, <1>9 DEF DriftNext

\* The snapshots a scan compares with are kept, and what the latest one shows is on
\* record, for any number of scans, requests and categories.
THEOREM DriftInvariant == DriftSpec => []DriftInv
BY DriftInitInv, DriftStep, PTL DEF DriftSpec

\* Whatever the latest snapshot shows against the baseline has been reported: skipping
\* what the scan before already said loses nothing, however many scans, acceptances and
\* acknowledgements come in between.
THEOREM NothingGoesUnreported == DriftSpec => []DriftIsOnRecord
<1>1. DriftInv => DriftIsOnRecord
  <2> SUFFICES ASSUME DriftInv PROVE DriftIsOnRecord
      OBVIOUS
  <2>1. baseline # 0 <=> taken # 0
      BY DEF DriftInv, SnapshotsAreKept
  <2>2. taken # 0 => Latest = taken
      BY LatestTaken DEF DriftInv, DriftTypeOK
  <2>3. taken # 0 => {baseline, taken} \subseteq DOMAIN snaps
      BY DEF DriftInv, SnapshotsAreKept
  <2>4. ASSUME taken # 0, ~rewound, NEW c \in Differs(snaps[baseline], snaps[Latest])
        PROVE  \E e \in events :
                 /\ e.category = c /\ e.at > baseline
                 /\ e.fingerprint = Fingerprint(snaps[baseline], snaps[Latest], c)
      BY <2>2, <2>4 DEF DriftInv, LatestIsRecorded, Recorded
  <2> QED
      BY <2>1, <2>3, <2>4 DEF DriftIsOnRecord
<1> QED
    BY DriftInvariant, <1>1, PTL

------------------------------------------------------------------------------
(***************************************************************************)
(* MonitorIsWhole of CronMonitor, for any number of requests, rows, tokens *)
(* and edits.                                                              *)
(*                                                                         *)
(* Every token belongs to the row it was made for, and a line carries the  *)
(* token of the row it is marked with.  While nothing is tangled each      *)
(* request has a row to itself and knows whether its own token is on the   *)
(* line: so what it does last, keep the row, remove it or put the old      *)
(* token back, leaves row and line agreeing.  Until then a row that is not *)
(* pinged, or a line that is not accepted, has a request that sees to it.  *)
(***************************************************************************)

\* f carries the token of the row it is marked with, or neither.
FileOwned(own, f) ==
  \/ f.tok = 0 /\ f.mark = 0
  \/ f.tok # 0 /\ f.mark # 0 /\ own[f.tok] = f.mark

\* The request r has a token of its own to put on the line.
Changes(r) == r.kind \in {"monitor", "rotate"} /\ r.pc \notin {"create", "update"}

Phase(r) ==
  \/ r.kind = "none" /\ r = Idle
  \/ r.kind = "monitor" /\ r.pc \in {"create", "check", "write", "readback", "rollback"}
  \/ r.kind = "unmonitor" /\ r.pc \in {"check", "write", "unlink"}
  \/ r.kind = "rotate" /\ r.pc \in {"update", "find", "check", "write", "readback", "rollback"}

\* A request r and its script s go together, and whatever token they hold is of the
\* row they are for.
Request(own, r, s) ==
  /\ Phase(r)
  /\ FileOwned(own, r.snap) /\ FileOwned(own, s.base) /\ FileOwned(own, s.new)
  /\ r.kind = "monitor" => r.snap.tok = 0
  /\ r.pc = "create" => r.id = 0
  /\ r.kind = "rotate" => /\ r.id # 0 /\ r.old # 0 /\ own[r.old] = r.id
                          /\ r.pc \in {"check", "write"} => r.snap.mark = r.id
  /\ r.kind = "unmonitor" => r.want.tok = 0 /\ r.want.mark = 0
  /\ Changes(r) => /\ r.id # 0 /\ r.want.tok # 0 /\ own[r.want.tok] = r.id
                   /\ r.pc \in {"check", "write"} => r.want.mark = r.id
  /\ r.pc = "write" => s.state # "none" /\ s.base = r.snap /\ s.new = r.want
  /\ r.pc \in {"create", "update", "find", "check", "unlink"} => s.state = "none"

Written(r, s) == r.pc = "write" /\ s.state = "written"
Cleared(r, s) == r.kind = "unmonitor" /\ (r.pc = "unlink" \/ Written(r, s))

\* Where a request stands to the line c and to its row of h, while nothing is tangled.
Standing(r, s, c, h) ==
  /\ r.kind = "monitor" /\ r.pc # "create" =>
       h[r.id] = [token |-> r.want.tok, linked |-> TRUE, state |-> "active"]
  /\ r.kind = "rotate" =>
       /\ h[r.id].state # "gone" /\ h[r.id].linked
       /\ h[r.id].token = IF r.pc = "update" THEN r.old ELSE r.want.tok
       /\ h[r.id].state = "active" => c.tok = r.old \/ (r.pc # "update" /\ c.tok = r.want.tok)
  /\ Changes(r) =>
       /\ r.pc \in {"find", "check", "rollback"} => c.tok # r.want.tok
       /\ r.pc = "write" => (c.tok = r.want.tok <=> s.state = "written")
  /\ r.kind = "unmonitor" =>
       /\ r.id # 0
       /\ r.pc \in {"check", "write"} => r.snap.mark = r.id
       /\ Cleared(r, s) => c.mark # r.id

\* own[t] is the row token t was made for, 0 while it is not in use.
Owners(own) ==
  /\ own \in [1 .. MaxTokens -> 0 .. rows]
  /\ \A t \in 1 .. MaxTokens : t > tokens => own[t] = 0
  /\ \A i \in 1 .. MaxRows : Exists(i) => hb[i].token # 0 /\ own[hb[i].token] = i
  /\ FileOwned(own, content)
  /\ \A o \in Operator : Request(own, op[o], script[o])

\* The rotation r will put the row's old token back, unless its own gets to the line.
PutsBack(r, c) ==
  r.kind = "rotate" /\ r.pc # "update" /\ r.id = c.mark /\ r.old = c.tok

\* The token on the line is one RackMap accepts, or will accept again.
Accepted ==
  content.tok # 0 =>
    /\ Exists(content.mark) /\ hb[content.mark].linked
    /\ \/ hb[content.mark].token = content.tok
       \/ \E o \in Operator : PutsBack(op[o], content)

SeesTo(r, s, i) ==
  r.id = i /\ (r.kind \in {"monitor", "rotate"} \/ Cleared(r, s))

\* An active heartbeat is pinged by the line, or a request is seeing to it.
Pinged ==
  \A i \in 1 .. MaxRows : hb[i].state = "active" /\ hb[i].linked =>
    \/ content.tok = hb[i].token
    \/ \E o \in Operator : SeesTo(op[o], script[o], i)

Apart == \A o, p \in Operator : o # p /\ op[o].id # 0 => op[o].id # op[p].id

RowsInv ==
  /\ \A i \in 1 .. MaxRows : i > rows => hb[i] = NoRow
  /\ \A o \in Operator : op[o].id <= rows

Untangled ==
  /\ Apart /\ Accepted /\ Pinged
  /\ \A o \in Operator : Standing(op[o], script[o], content, hb)

CronInv ==
  /\ CronTypeOK /\ RowsInv
  /\ \E own : Owners(own)
  /\ ~tangled => Untangled

Requests == [kind : {"none", "monitor", "unmonitor", "rotate"},
             pc : {"idle", "create", "update", "find", "check", "write", "readback",
                   "rollback", "unlink"},
             snap : File, want : File, id : 0 .. MaxRows, old : 0 .. MaxTokens]
Scripts == [state : {"none", "sent", "checked", "written", "conflict", "failed"},
            base : File, new : File]

LEMMA CronTyped ==
  CronTypeOK <=>
    /\ content \in File /\ hb \in [1 .. MaxRows -> Row]
    /\ rows \in 0 .. MaxRows /\ tokens \in 0 .. MaxTokens
    /\ op \in [Operator -> Requests] /\ script \in [Operator -> Scripts]
    /\ unknown \in 0 .. MaxUnknown /\ tangled \in BOOLEAN
BY DEF CronTypeOK, Requests, Scripts

LEMMA CronConstants ==
  /\ Plain \in File /\ Idle \in Requests /\ NoScript \in Scripts /\ NoRow \in Row
  /\ MaxRows \in Nat /\ MaxTokens \in Nat
  /\ \A own : Request(own, Idle, NoScript)
BY CronMonitorAssumption
   DEF CronMonitorAssumption, Plain, File, Idle, Requests, NoScript, Scripts, NoRow, Row,
       Request, Phase, FileOwned, Changes

LEMMA CronInitInv == CronInit => CronInv
<1> SUFFICES ASSUME CronInit PROVE CronInv
  OBVIOUS
<1> USE DEF CronInit
<1>1. CronTypeOK
  <2>1. rows \in 0 .. MaxRows /\ tokens \in 0 .. MaxTokens /\ unknown \in 0 .. MaxUnknown
    BY CronMonitorAssumption DEF CronMonitorAssumption
  <2>2. /\ content \in File /\ hb \in [1 .. MaxRows -> Row] /\ tangled \in BOOLEAN
        /\ op \in [Operator -> Requests] /\ script \in [Operator -> Scripts]
    BY CronConstants
  <2> QED
    BY <2>1, <2>2, CronTyped
<1>2. RowsInv
  BY CronConstants DEF RowsInv, Idle
<1> DEFINE own == [t \in 1 .. MaxTokens |-> 0]
<1>3. Owners(own)
  <2>1. own \in [1 .. MaxTokens -> 0 .. rows] /\ FileOwned(own, content)
    BY CronConstants DEF FileOwned, Plain
  <2>2. \A i \in 1 .. MaxRows : ~Exists(i)
    BY DEF Exists, NoRow
  <2>3. \A o \in Operator : Request(own, op[o], script[o])
    <3> HIDE DEF own
    <3> QED
      BY CronConstants
  <2> QED
    BY <2>1, <2>2, <2>3 DEF Owners
<1>4. Untangled
  <2>1. \A o \in Operator : op[o] = Idle /\ Idle.id = 0 /\ Idle.kind = "none"
    BY DEF Idle
  <2>2. content.tok = 0 /\ \A i \in 1 .. MaxRows : hb[i].state = "gone"
    BY DEF Plain, NoRow
  <2>3. \A o \in Operator : Standing(op[o], script[o], content, hb)
    BY <2>1 DEF Standing, Changes, Cleared
  <2> QED
    BY <2>1, <2>2, <2>3 DEF Untangled, Apart, Accepted, Pinged
<1> QED
  BY <1>1, <1>2, <1>3, <1>4 DEF CronInv

(* A request moves on, the line and the rows being as they were *)

Fits(o, r, s) ==
  /\ Standing(r, s, content, hb)
  /\ r.id = 0 \/ \A p \in Operator \ {o} : op[p].id # r.id
  /\ PutsBack(op[o], content) => PutsBack(r, content) \/ hb[content.mark].token = content.tok
  /\ \A i \in 1 .. MaxRows :
       hb[i].state = "active" /\ hb[i].linked /\ SeesTo(op[o], script[o], i) =>
         SeesTo(r, s, i) \/ content.tok = hb[i].token

LEMMA MovesOn ==
  ASSUME CronInv, NEW o \in Operator, NEW r \in Requests, NEW s \in Scripts,
         op' = [op EXCEPT ![o] = r], script' = [script EXCEPT ![o] = s],
         content' = content, hb' = hb, rows' = rows, tokens' = tokens,
         unknown' \in 0 .. MaxUnknown, tangled' \in BOOLEAN, ~tangled' => ~tangled,
         r.id <= rows,
         \A own : Owners(own) => Request(own, r, s),
         ~tangled' => Fits(o, r, s)
  PROVE  CronInv'
<1>1. /\ content \in File /\ hb \in [1 .. MaxRows -> Row]
      /\ rows \in 0 .. MaxRows /\ tokens \in 0 .. MaxTokens
      /\ op \in [Operator -> Requests] /\ script \in [Operator -> Scripts]
  BY CronTyped DEF CronInv
<1>2. /\ op'[o] = r /\ script'[o] = s
      /\ \A p \in Operator \ {o} : op'[p] = op[p] /\ script'[p] = script[p]
      /\ op' \in [Operator -> Requests] /\ script' \in [Operator -> Scripts]
  BY <1>1
<1>3. CronTypeOK'
  BY <1>1, <1>2 DEF CronTypeOK, Requests, Scripts
<1>4. RowsInv'
  BY <1>2 DEF CronInv, RowsInv
<1>5. (\E own : Owners(own))'
  <2>1. PICK own : Owners(own)
    BY DEF CronInv
  <2>2. \A p \in Operator : Request(own, op'[p], script'[p])
    BY <1>2, <2>1 DEF Owners
  <2>3. Owners(own)'
    BY <2>1, <2>2 DEF Owners, Exists
  <2> QED
    BY <2>3
<1>6. ASSUME ~tangled' PROVE Untangled'
  <2>1. Untangled /\ Fits(o, r, s)
    BY <1>6 DEF CronInv
  <2>2. Apart'
    BY <1>2, <2>1 DEF Untangled, Apart, Fits
  <2>3. \A p \in Operator : Standing(op'[p], script'[p], content', hb')
    BY <1>2, <2>1 DEF Untangled, Fits
  <2>4. Accepted'
    <3> SUFFICES ASSUME content.tok # 0
                 PROVE  /\ Exists(content.mark) /\ hb[content.mark].linked
                        /\ \/ hb[content.mark].token = content.tok
                           \/ \E p \in Operator : PutsBack(op'[p], content)
      BY DEF Accepted, Exists
    <3>1. CASE hb[content.mark].token = content.tok
      BY <2>1, <3>1 DEF Untangled, Accepted
    <3>2. CASE \E p \in Operator : PutsBack(op[p], content)
      BY <1>2, <2>1, <3>2 DEF Untangled, Accepted, Fits
    <3> QED
      BY <2>1, <3>1, <3>2 DEF Untangled, Accepted
  <2>5. Pinged'
    <3> SUFFICES ASSUME NEW i \in 1 .. MaxRows, hb[i].state = "active" /\ hb[i].linked,
                        content.tok # hb[i].token
                 PROVE  \E p \in Operator : SeesTo(op'[p], script'[p], i)
      BY DEF Pinged
    <3>1. PICK p \in Operator : SeesTo(op[p], script[p], i)
      BY <2>1 DEF Untangled, Pinged
    <3>2. CASE p = o
      BY <1>2, <2>1, <3>1, <3>2 DEF Fits
    <3>3. CASE p # o
      BY <1>2, <3>1, <3>3
    <3> QED
      BY <3>2, <3>3
  <2> QED
    BY <2>2, <2>3, <2>4, <2>5 DEF Untangled
<1> QED
  BY <1>3, <1>4, <1>5, <1>6 DEF CronInv

LEMMA AtRequest ==
  ASSUME CronInv, NEW o \in Operator
  PROVE  /\ op \in [Operator -> Requests] /\ script \in [Operator -> Scripts]
         /\ op[o] \in Requests /\ script[o] \in Scripts /\ op[o].id <= rows
         /\ \A own : Owners(own) => Request(own, op[o], script[o])
         /\ \E own : Owners(own)
         /\ ~tangled => /\ Untangled /\ Standing(op[o], script[o], content, hb)
                        /\ op[o].id = 0 \/ \A p \in Operator \ {o} : op[p].id # op[o].id
BY CronTyped DEF CronInv, RowsInv, Owners, Untangled, Apart

\* The fields of a request that only goes to another step, of one that is over, and of a
\* script that stays.
LEMMA Going ==
  ASSUME op \in [Operator -> Requests], NEW o \in Operator,
         NEW pc \in {"check", "write", "readback", "rollback", "unlink"}
  PROVE  /\ [op[o] EXCEPT !.pc = pc] \in Requests
         /\ LET r == [op[o] EXCEPT !.pc = pc] IN
              /\ r.kind = op[o].kind /\ r.pc = pc /\ r.snap = op[o].snap
              /\ r.want = op[o].want /\ r.id = op[o].id /\ r.old = op[o].old
              /\ Go(o, pc) => op' = [op EXCEPT ![o] = r]
BY DEF Requests, Go

LEMMA Staying ==
  ASSUME script \in [Operator -> Scripts], NEW o \in Operator
  PROVE  script = [script EXCEPT ![o] = script[o]]
OBVIOUS

LEMMA IdleFields ==
  /\ Idle.kind = "none" /\ Idle.pc = "idle" /\ Idle.id = 0
  /\ Idle.snap = Plain /\ Idle.want = Plain /\ NoScript.state = "none"
  /\ NoScript.base = Plain /\ NoScript.new = Plain /\ Plain.tok = 0 /\ Plain.mark = 0
BY DEF Idle, NoScript, Plain

LineStays ==
  /\ content' = content /\ hb' = hb /\ rows' = rows /\ tokens' = tokens
  /\ unknown' \in 0 .. MaxUnknown

\* The script is gone, or stays as it is.
Leaves(o, s) == s = NoScript \/ s = script[o]

LEMMA DoneStep ==
  ASSUME CronInv, NEW o \in Operator, NEW s \in Scripts, Leaves(o, s), LineStays, Done(o),
         script' = [script EXCEPT ![o] = s], tangled' \in BOOLEAN, ~tangled' => ~tangled,
         ~tangled' =>
           /\ PutsBack(op[o], content) => hb[content.mark].token = content.tok
           /\ \A i \in 1 .. MaxRows :
                hb[i].state = "active" /\ hb[i].linked /\ SeesTo(op[o], script[o], i) =>
                  content.tok = hb[i].token
  PROVE  CronInv'
<1>1. /\ op \in [Operator -> Requests] /\ op' = [op EXCEPT ![o] = Idle] /\ rows \in Nat
      /\ \A own : Owners(own) => Request(own, op[o], script[o])
  BY AtRequest, CronTyped DEF Done, CronInv
<1>2. \A own : Owners(own) => Request(own, Idle, s)
  BY <1>1, IdleFields DEF Request, Leaves, Phase, FileOwned, Changes
<1>3. Standing(Idle, s, content, hb)
  BY IdleFields DEF Standing, Changes, Cleared
<1>4. ~tangled' => Fits(o, Idle, s)
  BY <1>3, IdleFields DEF Fits
<1>5. Idle \in Requests /\ Idle.id <= rows
  BY <1>1, CronConstants, IdleFields
<1> QED
  BY <1>1, <1>2, <1>4, <1>5, MovesOn DEF LineStays

LEMMA FailedStep ==
  ASSUME CronInv, NEW o \in Operator, NEW s \in Scripts, Leaves(o, s), LineStays, Failed(o),
         script' = [script EXCEPT ![o] = s], tangled' = tangled,
         op[o].pc \in {"find", "check", "write", "readback"}, ~Written(op[o], script[o]),
         op[o].pc = "readback" => content.tok # op[o].want.tok
  PROVE  CronInv'
<1>1. /\ op \in [Operator -> Requests] /\ op[o] \in Requests /\ op[o].id <= rows
      /\ \A own : Owners(own) => Request(own, op[o], script[o])
      /\ \E own : Owners(own) /\ Request(own, op[o], script[o])
      /\ tangled' \in BOOLEAN
      /\ ~tangled => /\ Standing(op[o], script[o], content, hb)
                     /\ op[o].id = 0 \/ \A p \in Operator \ {o} : op[p].id # op[o].id
  BY AtRequest DEF CronInv, CronTypeOK
<1>2. Phase(op[o])
  BY <1>1 DEF Request
<1>3. CASE op[o].kind = "unmonitor"
  <2>1. Done(o)
    BY <1>3 DEF Failed
  <2>2. ~PutsBack(op[o], content)
    BY <1>3 DEF PutsBack
  <2>3. \A i \in 1 .. MaxRows : ~SeesTo(op[o], script[o], i)
    BY <1>3 DEF SeesTo, Cleared
  <2> QED
    BY <1>1, <2>1, <2>2, <2>3, DoneStep
<1>4. CASE op[o].kind # "unmonitor"
  <2> DEFINE r == [op[o] EXCEPT !.pc = "rollback"]
  <2>1. /\ r \in Requests /\ r.kind = op[o].kind /\ r.pc = "rollback" /\ r.snap = op[o].snap
        /\ r.want = op[o].want /\ r.id = op[o].id /\ r.old = op[o].old
        /\ op' = [op EXCEPT ![o] = r]
    BY <1>1, <1>4, Going DEF Failed
  <2> HIDE DEF r
  <2>2. op[o].kind \in {"monitor", "rotate"} /\ Changes(op[o]) /\ Changes(r)
    BY <1>2, <1>4, <2>1, IdleFields DEF Phase, Changes
  <2>3. \A own : Owners(own) => Request(own, r, s)
    BY <1>1, <2>1, <2>2, IdleFields DEF Request, Leaves, Phase, FileOwned, Changes
  <2>4. ASSUME ~tangled PROVE Standing(r, s, content, hb)
    <3>1. content.tok # op[o].want.tok
      BY <1>1, <2>2, <2>4 DEF Standing, Written
    <3>2. /\ op[o].kind = "monitor" => op[o].pc # "create"
          /\ op[o].kind = "rotate" => op[o].pc # "update"
      BY <2>2 DEF Changes
    <3> QED
      BY <1>1, <2>1, <2>2, <2>4, <3>1, <3>2 DEF Standing
  <2>5. PutsBack(op[o], content) => PutsBack(r, content)
    BY <2>1, <2>2 DEF PutsBack, Changes
  <2>6. \A i \in 1 .. MaxRows : SeesTo(op[o], script[o], i) => SeesTo(r, s, i)
    BY <2>1, <2>2 DEF SeesTo, Cleared
  <2>7. ~tangled' => Fits(o, r, s)
    BY <1>1, <2>1, <2>4, <2>5, <2>6 DEF Fits
  <2> QED
    BY <1>1, <2>1, <2>3, <2>7, MovesOn DEF LineStays
<1> QED
  BY <1>3, <1>4

LEMMA SucceededStep ==
  ASSUME CronInv, NEW o \in Operator, NEW s \in Scripts, Leaves(o, s), LineStays, Succeeded(o),
         script' = [script EXCEPT ![o] = s], tangled' = tangled,
         \/ Written(op[o], script[o]) /\ s = NoScript
         \/ op[o].pc = "readback" /\ content.tok = op[o].want.tok
  PROVE  CronInv'
<1>1. /\ op \in [Operator -> Requests] /\ op[o] \in Requests /\ op[o].id <= rows
      /\ \A own : Owners(own) => Request(own, op[o], script[o])
      /\ \E own : Owners(own) /\ Request(own, op[o], script[o])
      /\ tangled' \in BOOLEAN
      /\ ~tangled => /\ Standing(op[o], script[o], content, hb)
                     /\ op[o].id = 0 \/ \A p \in Operator \ {o} : op[p].id # op[o].id
  BY AtRequest DEF CronInv, CronTypeOK
<1>2. Phase(op[o])
  BY <1>1 DEF Request
<1>3. CASE op[o].kind = "unmonitor"
  <2> DEFINE r == [op[o] EXCEPT !.pc = "unlink"]
  <2>1. /\ r \in Requests /\ r.kind = op[o].kind /\ r.pc = "unlink" /\ r.snap = op[o].snap
        /\ r.want = op[o].want /\ r.id = op[o].id /\ r.old = op[o].old
        /\ op' = [op EXCEPT ![o] = r]
    BY <1>1, <1>3, Going DEF Succeeded
  <2> HIDE DEF r
  <2>2. Written(op[o], script[o]) /\ s = NoScript
    BY <1>2, <1>3, IdleFields DEF Phase
  <2>3. \A own : Owners(own) => Request(own, r, s)
    BY <1>1, <1>3, <2>1, <2>2, IdleFields DEF Request, Phase, FileOwned, Changes
  <2>4. ASSUME ~tangled PROVE Standing(r, s, content, hb)
    BY <1>1, <1>3, <2>1, <2>2, <2>4 DEF Standing, Cleared, Changes
  <2>5. ~PutsBack(op[o], content)
    BY <1>3 DEF PutsBack
  <2>6. \A i \in 1 .. MaxRows : SeesTo(op[o], script[o], i) => SeesTo(r, s, i)
    BY <1>3, <2>1 DEF SeesTo, Cleared
  <2>7. ~tangled' => Fits(o, r, s)
    BY <1>1, <2>1, <2>4, <2>5, <2>6 DEF Fits
  <2> QED
    BY <1>1, <2>1, <2>3, <2>7, MovesOn DEF LineStays
<1>4. CASE op[o].kind # "unmonitor"
  <2>1. Done(o)
    BY <1>4 DEF Succeeded
  <2>2. op[o].kind \in {"monitor", "rotate"} /\ Changes(op[o]) /\ op[o].pc \in {"write", "readback"}
    BY <1>2, <1>4, IdleFields DEF Phase, Changes, Written
  <2>3. ASSUME ~tangled PROVE content.tok = op[o].want.tok /\ hb[op[o].id].token = content.tok
    <3>1. content.tok = op[o].want.tok
      BY <1>1, <2>2, <2>3 DEF Standing, Written
    <3>2. hb[op[o].id].token = op[o].want.tok
      BY <1>1, <2>2, <2>3 DEF Standing, Changes
    <3> QED
      BY <3>1, <3>2
  <2>4. ~tangled' =>
          /\ PutsBack(op[o], content) => hb[content.mark].token = content.tok
          /\ \A i \in 1 .. MaxRows :
               hb[i].state = "active" /\ hb[i].linked /\ SeesTo(op[o], script[o], i) =>
                 content.tok = hb[i].token
    BY <2>3 DEF PutsBack, SeesTo
  <2> QED
    BY <1>1, <2>1, <2>4, DoneStep
<1> QED
  BY <1>3, <1>4

LEMMA AmbiguousStep ==
  ASSUME CronInv, NEW o \in Operator, NEW s \in Scripts, Leaves(o, s), LineStays, Ambiguous(o),
         script' = [script EXCEPT ![o] = s], op[o].pc = "write"
  PROVE  CronInv'
<1>1. /\ op \in [Operator -> Requests] /\ op[o] \in Requests /\ op[o].id <= rows
      /\ \A own : Owners(own) => Request(own, op[o], script[o])
      /\ \E own : Owners(own) /\ Request(own, op[o], script[o])
      /\ tangled \in BOOLEAN
      /\ ~tangled => /\ Standing(op[o], script[o], content, hb)
                     /\ op[o].id = 0 \/ \A p \in Operator \ {o} : op[p].id # op[o].id
  BY AtRequest DEF CronInv, CronTypeOK
<1>2. Phase(op[o])
  BY <1>1 DEF Request
<1>3. CASE op[o].kind = "unmonitor"
  BY <1>3, DoneStep DEF Ambiguous
<1>4. CASE op[o].kind # "unmonitor"
  <2> DEFINE r == [op[o] EXCEPT !.pc = "readback"]
  <2>1. /\ r \in Requests /\ r.kind = op[o].kind /\ r.pc = "readback" /\ r.snap = op[o].snap
        /\ r.want = op[o].want /\ r.id = op[o].id /\ r.old = op[o].old
        /\ op' = [op EXCEPT ![o] = r] /\ tangled' = tangled
    BY <1>1, <1>4, Going DEF Ambiguous
  <2> HIDE DEF r
  <2>2. op[o].kind \in {"monitor", "rotate"} /\ Changes(op[o]) /\ Changes(r)
    BY <1>2, <1>4, <2>1, IdleFields DEF Phase, Changes
  <2>3. \A own : Owners(own) => Request(own, r, s)
    BY <1>1, <2>1, <2>2, IdleFields DEF Request, Leaves, Phase, FileOwned, Changes
  <2>4. ASSUME ~tangled PROVE Standing(r, s, content, hb)
    BY <1>1, <2>1, <2>2, <2>4 DEF Standing
  <2>5. PutsBack(op[o], content) => PutsBack(r, content)
    BY <2>1, <2>2 DEF PutsBack, Changes
  <2>6. \A i \in 1 .. MaxRows : SeesTo(op[o], script[o], i) => SeesTo(r, s, i)
    BY <2>1, <2>2 DEF SeesTo, Cleared
  <2>7. ~tangled' => Fits(o, r, s)
    BY <1>1, <2>1, <2>4, <2>5, <2>6 DEF Fits
  <2> QED
    BY <1>1, <2>1, <2>3, <2>7, MovesOn DEF LineStays
<1> QED
  BY <1>3, <1>4

(* Requests begin *)

LEMMA Beginning ==
  ASSUME CronInv, NEW o \in Operator, Free(o), NEW r \in Requests,
         op' = [op EXCEPT ![o] = r], script' = script, LineStays,
         tangled' \in BOOLEAN, ~tangled' => ~tangled, r.id <= rows,
         \A own : Owners(own) => Request(own, r, NoScript),
         ~tangled' => /\ Standing(r, NoScript, content, hb)
                      /\ r.id = 0 \/ \A p \in Operator \ {o} : op[p].id # r.id
  PROVE  CronInv'
<1>1. /\ script \in [Operator -> Scripts] /\ script[o] \in Scripts /\ script[o].state = "none"
      /\ \A own : Owners(own) => Request(own, op[o], script[o])
      /\ \E own : Owners(own) /\ Request(own, op[o], script[o])
  BY AtRequest DEF Free
<1>2. op[o] = Idle
  BY <1>1 DEF Free, At, Request, Phase
<1>3. script' = [script EXCEPT ![o] = script[o]]
  BY <1>1, Staying
<1>4. \A own : Owners(own) => Request(own, r, script[o])
  BY <1>1, IdleFields DEF Request
<1>5. ASSUME ~tangled' PROVE Fits(o, r, script[o])
  <2>1. Standing(r, script[o], content, hb)
    BY <1>1, <1>5, IdleFields DEF Standing, Cleared, Written
  <2>2. ~PutsBack(op[o], content) /\ \A i \in 1 .. MaxRows : ~SeesTo(op[o], script[o], i)
    BY <1>2, IdleFields DEF PutsBack, SeesTo, Cleared
  <2> QED
    BY <1>5, <2>1, <2>2 DEF Fits
<1> QED
  BY <1>1, <1>3, <1>4, <1>5, MovesOn DEF LineStays

LEMMA MonitorStep ==
  ASSUME CronInv, NEW o \in Operator, Monitor(o)
  PROVE  CronInv'
<1> DEFINE r == [Idle EXCEPT !.kind = "monitor", !.pc = "create", !.snap = content]
<1>1. content \in File /\ rows \in Nat /\ unknown \in 0 .. MaxUnknown /\ tangled \in BOOLEAN
  BY DEF CronInv, CronTypeOK
<1>2. /\ r \in Requests /\ r.kind = "monitor" /\ r.pc = "create" /\ r.snap = content
      /\ r.want = Plain /\ r.id = 0
  BY <1>1, CronConstants DEF Idle, Requests
<1>3. /\ Free(o) /\ content.tok = 0 /\ op' = [op EXCEPT ![o] = r] /\ script' = script
      /\ LineStays /\ tangled' = tangled
  BY <1>1 DEF Monitor, LineStays
<1> HIDE DEF r
<1>4. \A own : Owners(own) => Request(own, r, NoScript)
  BY <1>2, <1>3, IdleFields DEF Owners, Request, Phase, FileOwned, Changes
<1>5. Standing(r, NoScript, content, hb)
  BY <1>2, IdleFields DEF Standing, Changes
<1>6. r.id <= rows /\ tangled' \in BOOLEAN /\ (~tangled' => ~tangled)
  BY <1>1, <1>2, <1>3
<1> QED
  BY <1>2, <1>3, <1>4, <1>5, <1>6, Beginning, Zenon

LEMMA RotateStep ==
  ASSUME CronInv, NEW o \in Operator, Rotate(o)
  PROVE  CronInv'
<1>1. /\ content \in File /\ rows \in Nat /\ unknown \in 0 .. MaxUnknown
      /\ tangled \in BOOLEAN /\ hb \in [1 .. MaxRows -> Row] /\ op \in [Operator -> Requests]
  BY CronTyped DEF CronInv, CronTypeOK
<1>2. PICK i \in 1 .. MaxRows :
        /\ Exists(i) /\ hb[i].linked
        /\ op' = [op EXCEPT ![o] = [Idle EXCEPT !.kind = "rotate", !.pc = "update",
                                               !.id = i, !.old = hb[i].token]]
  BY DEF Rotate
<1> DEFINE r == [Idle EXCEPT !.kind = "rotate", !.pc = "update", !.id = i, !.old = hb[i].token]
<1>11. i \in 0 .. MaxRows /\ hb[i].token \in 0 .. MaxTokens
  BY <1>1 DEF Row
<1>3. /\ r \in Requests /\ r.kind = "rotate" /\ r.pc = "update" /\ r.snap = Plain
      /\ r.want = Plain /\ r.id = i /\ r.old = hb[i].token
  BY <1>11, CronConstants DEF Idle, Requests
<1>4. op' = [op EXCEPT ![o] = r]
  BY <1>2
<1> HIDE DEF r
<1>5. Free(o) /\ script' = script /\ LineStays /\ TakesOn(o)
  BY <1>1 DEF Rotate, LineStays
<1>6. i # 0 /\ i <= rows
  BY <1>1, <1>2 DEF CronInv, RowsInv, Exists, NoRow
<1>7. op'[o] = r /\ \A p \in Operator \ {o} : op'[p] = op[p]
  BY <1>1, <1>4
<1>8. /\ tangled' \in BOOLEAN /\ (~tangled' => ~tangled)
      /\ ~tangled' => \A p \in Operator \ {o} : op[p].id # i
  BY <1>3, <1>5, <1>6, <1>7 DEF TakesOn
<1>9. \A own : Owners(own) => Request(own, r, NoScript)
  BY <1>2, <1>3, <1>6, IdleFields DEF Owners, Request, Phase, FileOwned, Changes
<1>10. ASSUME ~tangled' PROVE Standing(r, NoScript, content, hb)
  <2>1. op[o] = Idle
    <3>1. \E own : Owners(own) /\ Request(own, op[o], script[o])
      BY AtRequest
    <3> QED
      BY <1>5, <3>1 DEF Free, At, Request, Phase
  <2>2. ASSUME hb[i].state = "active" PROVE content.tok = hb[i].token
    <3>1. \A p \in Operator : ~SeesTo(op[p], script[p], i)
      BY <1>6, <1>8, <1>10, <2>1, IdleFields DEF SeesTo
    <3>2. Pinged
      BY <1>8, <1>10, AtRequest, Zenon DEF Untangled
    <3> QED
      BY <1>2, <2>2, <3>1, <3>2 DEF Pinged
  <2> QED
    BY <1>2, <1>3, <2>2 DEF Standing, Changes, Exists
<1>12. ~tangled' => /\ Standing(r, NoScript, content, hb)
                    /\ r.id = 0 \/ \A p \in Operator \ {o} : op[p].id # r.id
  BY <1>3, <1>8, <1>10
<1>13. r.id <= rows
  BY <1>3, <1>6
<1> QED
  BY <1>3, <1>4, <1>5, <1>8, <1>9, <1>12, <1>13, Beginning, Zenon

LEMMA UnmonitorStep ==
  ASSUME CronInv, NEW o \in Operator, Unmonitor(o)
  PROVE  CronInv'
<1>1. /\ content \in File /\ rows \in Nat /\ unknown \in 0 .. MaxUnknown
      /\ tangled \in BOOLEAN /\ op \in [Operator -> Requests]
  BY CronTyped DEF CronInv, CronTypeOK
<1> DEFINE ids == IF Linked(content) = {} THEN {0} ELSE Linked(content)
           want == [Plain EXCEPT !.rest = content.rest]
<1>2. PICK i \in ids :
        op' = [op EXCEPT ![o] = [Idle EXCEPT !.kind = "unmonitor", !.pc = "check", !.id = i,
                                             !.snap = content, !.want = want]]
  BY DEF Unmonitor
<1> DEFINE r == [Idle EXCEPT !.kind = "unmonitor", !.pc = "check", !.id = i, !.snap = content,
                             !.want = want]
<1>3. want \in File /\ want.tok = 0 /\ want.mark = 0
  BY <1>1, CronConstants DEF Plain, File
<1>4. i \in 0 .. MaxRows /\ (i # 0 => Exists(i)) /\ (Linked(content) # {} => i \in Linked(content))
  BY CronConstants DEF Linked, ByToken, ByMark
<1> HIDE DEF want, ids
<1>5. /\ r \in Requests /\ r.kind = "unmonitor" /\ r.pc = "check" /\ r.snap = content
      /\ r.want = want /\ r.id = i
  BY <1>1, <1>3, <1>4, CronConstants DEF Idle, Requests
<1>6. op' = [op EXCEPT ![o] = r]
  BY <1>2
<1> HIDE DEF r
<1>7. /\ Free(o) /\ script' = script /\ LineStays /\ TakesOn(o)
      /\ content.tok # 0 \/ content.mark # 0
  BY <1>1 DEF Unmonitor, LineStays
<1>8. i <= rows
  BY <1>1, <1>4 DEF CronInv, RowsInv, Exists, NoRow
<1>9. op'[o] = r /\ \A p \in Operator \ {o} : op'[p] = op[p]
  BY <1>1, <1>6
<1>10. /\ tangled' \in BOOLEAN /\ (~tangled' => ~tangled)
       /\ ~tangled' => i = 0 \/ \A p \in Operator \ {o} : op[p].id # i
  BY <1>5, <1>7, <1>9 DEF TakesOn
<1>11. \A own : Owners(own) => Request(own, r, NoScript)
  BY <1>3, <1>5, IdleFields DEF Owners, Request, Phase, FileOwned, Changes
<1>12. ASSUME ~tangled' PROVE Standing(r, NoScript, content, hb)
  <2>1. PICK own : Owners(own)
    BY DEF CronInv
  <2>2. content.tok # 0 /\ content.mark # 0 /\ own[content.tok] = content.mark
    BY <1>7, <2>1 DEF Owners, FileOwned
  <2>3. Exists(content.mark) /\ hb[content.mark].linked
    <3>1. Accepted
      BY <1>10, <1>12, AtRequest, Zenon DEF Untangled
    <3> QED
      BY <2>2, <3>1 DEF Accepted
  <2>4. content.mark \in 1 .. MaxRows
    BY <1>1, <2>2, CronConstants DEF File
  <2>5. ByMark(content) = {content.mark}
    BY <2>3, <2>4 DEF ByMark
  <2>6. \A j \in ByToken(content) : j = content.mark
    BY <2>1, <2>2 DEF ByToken, Owners
  <2>7. i = content.mark
    BY <1>4, <2>5, <2>6 DEF Linked
  <2> QED
    BY <1>5, <2>2, <2>7, IdleFields DEF Standing, Changes, Cleared, Written
<1>13. ~tangled' => /\ Standing(r, NoScript, content, hb)
                    /\ r.id = 0 \/ \A p \in Operator \ {o} : op[p].id # r.id
  BY <1>5, <1>10, <1>12
<1>14. r.id <= rows
  BY <1>5, <1>8
<1> QED
  BY <1>5, <1>6, <1>7, <1>10, <1>11, <1>13, <1>14, Beginning, Zenon

(* The line is looked up, the hash checked *)

LEMMA FindLineStep ==
  ASSUME CronInv, NEW o \in Operator, FindLine(o)
  PROVE  CronInv'
<1>1. /\ op \in [Operator -> Requests] /\ op[o] \in Requests /\ op[o].id <= rows
      /\ script \in [Operator -> Scripts] /\ script[o] \in Scripts
      /\ \A own : Owners(own) => Request(own, op[o], script[o])
      /\ \E own : Owners(own) /\ Request(own, op[o], script[o])
      /\ tangled \in BOOLEAN /\ unknown \in 0 .. MaxUnknown /\ content \in File
      /\ ~tangled => /\ Standing(op[o], script[o], content, hb)
                     /\ op[o].id = 0 \/ \A p \in Operator \ {o} : op[p].id # op[o].id
  BY AtRequest DEF CronInv, CronTypeOK
<1>2. /\ op[o].pc = "find" /\ LineStays /\ tangled' = tangled
      /\ script' = [script EXCEPT ![o] = script[o]]
  BY <1>1, Staying DEF FindLine, At, LineStays
<1>3. op[o].kind = "rotate" /\ Changes(op[o])
  BY <1>1, <1>2, IdleFields DEF Request, Phase, Changes
<1>4. CASE ~RotationLine(content, op[o].id, op[o].old)
  <2>1. Failed(o)
    BY <1>3, <1>4 DEF FindLine, Failed
  <2> QED
    BY <1>1, <1>2, <2>1, FailedStep DEF Leaves, Written
<1>5. CASE RotationLine(content, op[o].id, op[o].old)
  <2> DEFINE want == [content EXCEPT !.tok = op[o].want.tok, !.mark = op[o].id]
             r == [kind |-> "rotate", pc |-> "check", snap |-> content, want |-> want,
                   id |-> op[o].id, old |-> op[o].old]
  <2>1. want \in File /\ want.tok = op[o].want.tok /\ want.mark = op[o].id
    BY <1>1 DEF Requests, File
  <2>2. op' = [op EXCEPT ![o] = r]
    BY <1>1, <1>3, <1>5 DEF FindLine, Requests
  <2> HIDE DEF want
  <2>3. r \in Requests
    BY <1>1, <2>1 DEF Requests
  <2>4. /\ r.kind = "rotate" /\ r.pc = "check" /\ r.snap = content /\ r.want = want
        /\ r.id = op[o].id /\ r.old = op[o].old
    OBVIOUS
  <2> HIDE DEF r
  <2>5. Changes(r)
    BY <2>4 DEF Changes
  <2>6. ASSUME NEW own, Owners(own) PROVE Request(own, r, script[o])
    <3>1. Request(own, op[o], script[o]) /\ FileOwned(own, content)
      BY <1>1, <2>6 DEF Owners
    <3>2. content.mark = op[o].id
      BY <1>3, <1>5, <3>1 DEF RotationLine, Request, FileOwned
    <3> QED
      BY <1>2, <1>3, <2>1, <2>4, <2>5, <3>1, <3>2 DEF Request, Phase
  <2>7. ASSUME ~tangled PROVE Standing(r, script[o], content, hb)
    BY <1>1, <1>2, <1>3, <2>1, <2>4, <2>5, <2>7 DEF Standing
  <2>8. PutsBack(op[o], content) => PutsBack(r, content)
    BY <2>4 DEF PutsBack
  <2>9. \A i \in 1 .. MaxRows : SeesTo(op[o], script[o], i) => SeesTo(r, script[o], i)
    BY <2>4 DEF SeesTo
  <2>10. ~tangled' => Fits(o, r, script[o])
    BY <1>1, <1>2, <2>4, <2>7, <2>8, <2>9 DEF Fits
  <2> QED
    BY <1>1, <1>2, <2>2, <2>3, <2>4, <2>6, <2>10, MovesOn DEF LineStays
<1> QED
  BY <1>4, <1>5

LEMMA CheckHashStep ==
  ASSUME CronInv, NEW o \in Operator, CheckHash(o)
  PROVE  CronInv'
<1>1. /\ op \in [Operator -> Requests] /\ op[o] \in Requests /\ op[o].id <= rows
      /\ script \in [Operator -> Scripts] /\ script[o] \in Scripts
      /\ \A own : Owners(own) => Request(own, op[o], script[o])
      /\ \E own : Owners(own) /\ Request(own, op[o], script[o])
      /\ tangled \in BOOLEAN /\ unknown \in 0 .. MaxUnknown /\ content \in File
      /\ ~tangled => /\ Standing(op[o], script[o], content, hb)
                     /\ op[o].id = 0 \/ \A p \in Operator \ {o} : op[p].id # op[o].id
  BY AtRequest DEF CronInv, CronTypeOK
<1>2. op[o].pc = "check" /\ LineStays /\ tangled' = tangled
  BY <1>1 DEF CheckHash, At, LineStays
<1>3. CASE content # op[o].snap
  <2>1. Failed(o) /\ script' = [script EXCEPT ![o] = script[o]]
    BY <1>1, <1>3, Staying DEF CheckHash
  <2> QED
    BY <1>1, <1>2, <2>1, FailedStep DEF Leaves, Written
<1>4. CASE content = op[o].snap
  <2> DEFINE r == [op[o] EXCEPT !.pc = "write"]
             s == [state |-> "sent", base |-> op[o].snap, new |-> op[o].want]
  <2>1. /\ r \in Requests /\ r.kind = op[o].kind /\ r.pc = "write" /\ r.snap = op[o].snap
        /\ r.want = op[o].want /\ r.id = op[o].id /\ r.old = op[o].old
        /\ op' = [op EXCEPT ![o] = r]
    BY <1>1, <1>4, Going DEF CheckHash
  <2> HIDE DEF r
  <2>2. s \in Scripts /\ script' = [script EXCEPT ![o] = s]
    BY <1>1, <1>4 DEF CheckHash, Scripts, Requests
  <2>3. s.state = "sent" /\ s.base = op[o].snap /\ s.new = op[o].want
    OBVIOUS
  <2> HIDE DEF s
  <2>4. Changes(r) <=> Changes(op[o])
    BY <1>2, <2>1 DEF Changes
  <2>5. ASSUME NEW own, Owners(own) PROVE Request(own, r, s)
    <3>1. Request(own, op[o], script[o])
      BY <1>1, <2>5
    <3>2. op[o].kind = "unmonitor" \/ Changes(op[o])
      BY <1>2, <3>1, IdleFields DEF Request, Phase, Changes
    <3>3. FileOwned(own, op[o].want)
      BY <1>2, <3>1, <3>2 DEF Request, FileOwned
    <3>4. Phase(r)
      BY <1>2, <2>1, <3>1, IdleFields DEF Request, Phase
    <3> QED
      BY <1>2, <2>1, <2>3, <2>4, <3>1, <3>3, <3>4 DEF Request
  <2>6. ASSUME ~tangled PROVE Standing(r, s, content, hb)
    BY <1>1, <1>2, <2>1, <2>3, <2>4, <2>6 DEF Standing, Cleared, Written
  <2>7. PutsBack(op[o], content) => PutsBack(r, content)
    BY <1>2, <2>1 DEF PutsBack
  <2>8. \A i \in 1 .. MaxRows : SeesTo(op[o], script[o], i) => SeesTo(r, s, i)
    BY <1>2, <2>1 DEF SeesTo, Cleared, Written
  <2>9. ~tangled' => Fits(o, r, s)
    BY <1>1, <1>2, <2>1, <2>6, <2>7, <2>8 DEF Fits
  <2> QED
    BY <1>1, <1>2, <2>1, <2>2, <2>5, <2>9, MovesOn DEF LineStays
<1> QED
  BY <1>3, <1>4

LEMMA OutcomeStep ==
  ASSUME CronInv, NEW o \in Operator,
         \/ FindFails(o) \/ NeverStarted(o) \/ ScriptAnswers(o) \/ AnswerLost(o)
         \/ ReadBack(o) \/ ReadBackFails(o)
  PROVE  CronInv'
<1>1. /\ op \in [Operator -> Requests] /\ op[o] \in Requests
      /\ script \in [Operator -> Scripts] /\ script[o] \in Scripts
      /\ \E own : Owners(own) /\ Request(own, op[o], script[o])
      /\ tangled \in BOOLEAN /\ unknown \in 0 .. MaxUnknown
      /\ NoScript \in Scripts
  BY AtRequest, CronConstants DEF CronInv, CronTypeOK
<1>2. unknown < MaxUnknown /\ unknown' = unknown + 1 => unknown' \in 0 .. MaxUnknown
  BY <1>1, CronMonitorAssumption DEF CronMonitorAssumption
<1>3. script' = script => script' = [script EXCEPT ![o] = script[o]]
  BY <1>1, Staying
<1>4. CASE FindFails(o)
  <2>1. op[o].pc = "find" /\ LineStays /\ script' = script /\ tangled' = tangled
    BY <1>2, <1>4 DEF FindFails, At, LineStays
  <2>2. Failed(o)
    BY <1>1, <1>4, <2>1, IdleFields DEF FindFails, Failed, Request, Phase
  <2> QED
    BY <1>1, <1>3, <2>1, <2>2, FailedStep DEF Leaves, Written
<1>5. CASE NeverStarted(o)
  <2>1. op[o].pc = "check" /\ LineStays /\ script' = script /\ tangled' = tangled /\ Failed(o)
    BY <1>2, <1>5 DEF NeverStarted, At, LineStays
  <2> QED
    BY <1>1, <1>3, <2>1, FailedStep DEF Leaves, Written
<1>6. CASE ScriptAnswers(o)
  <2>1. op[o].pc = "write" /\ LineStays /\ script' = [script EXCEPT ![o] = NoScript]
    BY <1>1, <1>6 DEF ScriptAnswers, At, LineStays
  <2>2. CASE script[o].state = "written" /\ Succeeded(o) /\ tangled' = tangled
    BY <1>1, <2>1, <2>2, SucceededStep DEF Leaves, Written
  <2>3. CASE script[o].state \in {"conflict", "failed"} /\ Failed(o) /\ tangled' = tangled
    BY <1>1, <2>1, <2>3, FailedStep DEF Leaves, Written
  <2>4. CASE script[o].state = "failed" /\ Ambiguous(o)
    BY <1>1, <2>1, <2>4, AmbiguousStep DEF Leaves
  <2> QED
    BY <1>6, <2>2, <2>3, <2>4 DEF ScriptAnswers
<1>7. CASE AnswerLost(o)
  <2>1. op[o].pc = "write" /\ LineStays /\ Ambiguous(o)
    BY <1>2, <1>7 DEF AnswerLost, At, LineStays
  <2>2. CASE script' = script
    BY <1>1, <1>3, <2>1, <2>2, AmbiguousStep DEF Leaves
  <2>3. CASE script' = [script EXCEPT ![o] = NoScript]
    BY <1>1, <2>1, <2>3, AmbiguousStep DEF Leaves
  <2> QED
    BY <1>7, <2>2, <2>3 DEF AnswerLost
<1>8. CASE ReadBack(o)
  <2>1. op[o].pc = "readback" /\ LineStays /\ script' = script /\ tangled' = tangled
    BY <1>1, <1>8 DEF ReadBack, At, LineStays
  <2>2. CASE content.tok = op[o].want.tok
    <3>1. Succeeded(o)
      BY <1>8, <2>2 DEF ReadBack
    <3> QED
      BY <1>1, <1>3, <2>1, <2>2, <3>1, SucceededStep DEF Leaves
  <2>3. CASE content.tok # op[o].want.tok
    <3>1. Failed(o)
      BY <1>8, <2>3 DEF ReadBack
    <3> QED
      BY <1>1, <1>3, <2>1, <2>3, <3>1, FailedStep DEF Leaves, Written
  <2> QED
    BY <2>2, <2>3
<1>9. CASE ReadBackFails(o)
  <2>1. LineStays /\ script' = script /\ tangled' = TRUE /\ Done(o)
    BY <1>2, <1>9 DEF ReadBackFails, LineStays
  <2> QED
    BY <1>1, <1>3, <2>1, DoneStep DEF Leaves
<1> QED
  BY <1>4, <1>5, <1>6, <1>7, <1>8, <1>9

(* The script on the host *)

LEMMA ScriptTurns ==
  ASSUME CronInv, NEW o \in Operator, NEW s \in Scripts, LineStays, tangled' = tangled,
         op' = op, script' = [script EXCEPT ![o] = s],
         \/ /\ script[o].state \in {"sent", "checked"}
            /\ s.state \in {"checked", "conflict", "failed"}
            /\ s.base = script[o].base /\ s.new = script[o].new
         \/ s = NoScript /\ op[o].pc # "write"
  PROVE  CronInv'
<1>1. /\ op \in [Operator -> Requests] /\ op[o] \in Requests /\ op[o].id <= rows
      /\ \A own : Owners(own) => Request(own, op[o], script[o])
      /\ tangled \in BOOLEAN
      /\ ~tangled => /\ Standing(op[o], script[o], content, hb)
                     /\ op[o].id = 0 \/ \A p \in Operator \ {o} : op[p].id # op[o].id
  BY AtRequest DEF CronInv, CronTypeOK
<1>2. op' = [op EXCEPT ![o] = op[o]]
  BY <1>1
<1>3. \A own : Owners(own) => Request(own, op[o], s)
  BY <1>1, IdleFields DEF Request, FileOwned
<1>4. ASSUME ~tangled PROVE Standing(op[o], s, content, hb)
  BY <1>1, <1>4 DEF Standing, Cleared, Written
<1>5. \A i \in 1 .. MaxRows : SeesTo(op[o], script[o], i) => SeesTo(op[o], s, i)
  BY DEF SeesTo, Cleared, Written
<1>6. ~tangled' => Fits(o, op[o], s)
  BY <1>1, <1>4, <1>5 DEF Fits
<1> QED
  BY <1>1, <1>2, <1>3, <1>6, MovesOn DEF LineStays

\* A request is not concerned by a line of another's row, nor by another row.
LEMMA AnotherLine ==
  ASSUME NEW own, NEW r \in Requests, NEW s \in Scripts, NEW c \in File, NEW d \in File, NEW h,
         Request(own, r, s), Standing(r, s, c, h), FileOwned(own, c), FileOwned(own, d),
         r.id # 0 => c.mark # r.id /\ d.mark # r.id
  PROVE  Standing(r, s, d, h)
<1>1. r.kind \in {"rotate", "unmonitor"} \/ Changes(r) => r.id # 0
  BY DEF Request, Standing
<1>2. Changes(r) => c.tok # r.want.tok /\ d.tok # r.want.tok
  BY <1>1 DEF Request, FileOwned
<1>3. r.kind = "rotate" => c.tok # r.old /\ d.tok # r.old
  BY <1>1 DEF Request, FileOwned
<1>4. r.kind = "rotate" => h[r.id].state # "active"
  BY <1>2, <1>3, IdleFields DEF Standing, Request, Phase, Changes
<1>5. r.kind = "unmonitor" => d.mark # r.id
  BY <1>1
<1> QED
  BY <1>2, <1>4, <1>5 DEF Standing

LEMMA AnotherRow ==
  ASSUME NEW own, NEW r, NEW s, NEW c, NEW h, NEW g,
         Request(own, r, s), Standing(r, s, c, h), r.id # 0 => g[r.id] = h[r.id]
  PROVE  Standing(r, s, c, g)
<1>1. r.kind = "monitor" /\ r.pc # "create" => r.id # 0
  BY DEF Request, Changes, Phase
<1>2. r.kind = "rotate" => r.id # 0
  BY DEF Request
<1> QED
  BY <1>1, <1>2 DEF Standing

LEMMA HostWritesStep ==
  ASSUME CronInv, NEW o \in Operator, script[o].state = "checked",
         script' = [script EXCEPT ![o].state = "written"], content' = script[o].new,
         tangled' = (tangled \/ ~At(o, "write") \/ content # script[o].base),
         UNCHANGED <<hb, rows, tokens, op, unknown>>
  PROVE  CronInv'
<1> DEFINE r == op[o]
           s == [script[o] EXCEPT !.state = "written"]
<1>1. /\ op \in [Operator -> Requests] /\ script \in [Operator -> Scripts]
      /\ r \in Requests /\ script[o] \in Scripts /\ content \in File
      /\ hb \in [1 .. MaxRows -> Row] /\ rows \in 0 .. MaxRows /\ tokens \in 0 .. MaxTokens
      /\ unknown \in 0 .. MaxUnknown /\ tangled \in BOOLEAN
  BY CronTyped DEF CronInv
<1>2. /\ s \in Scripts /\ s.state = "written" /\ s.base = script[o].base /\ s.new = script[o].new
      /\ script' = [script EXCEPT ![o] = s]
  BY <1>1 DEF Scripts
<1> HIDE DEF s
<1>3. /\ script'[o] = s /\ \A p \in Operator \ {o} : script'[p] = script[p]
      /\ script' \in [Operator -> Scripts]
  BY <1>1, <1>2
<1>4. content' \in File /\ tangled' \in BOOLEAN
  BY <1>1 DEF Scripts
<1>5. CronTypeOK'
  BY <1>1, <1>3, <1>4 DEF CronTypeOK, Requests, Scripts
<1>6. RowsInv'
  BY DEF CronInv, RowsInv
<1>7. PICK own : Owners(own)
  BY DEF CronInv
<1>8. \A p \in Operator : Request(own, op[p], script[p])
  BY <1>7 DEF Owners
<1>9. FileOwned(own, content) /\ FileOwned(own, content')
  BY <1>7, <1>8 DEF Owners, Request
<1>10. Request(own, r, s)
  BY <1>2, <1>8 DEF Request
<1>11. Owners(own)'
  BY <1>3, <1>7, <1>8, <1>9, <1>10 DEF Owners, Exists
<1>12. ASSUME ~tangled' PROVE Untangled'
  <2>1. /\ Untangled /\ r.pc = "write" /\ content = r.snap /\ content' = r.want
        /\ Standing(r, script[o], content, hb) /\ Apart
    BY <1>8, <1>12 DEF CronInv, Untangled, At, Request
  <2>2. /\ r.kind \in {"monitor", "unmonitor", "rotate"} /\ r.id # 0
        /\ r.kind # "unmonitor" => Changes(r) /\ r.want.mark = r.id
    BY <1>8, <2>1, IdleFields DEF Request, Phase, Changes, Standing
  <2>3. content.mark \in {0, r.id} /\ content'.mark \in {0, r.id}
    BY <1>8, <1>9, <2>1, <2>2 DEF Request, Standing, FileOwned
  <2>4. \A p \in Operator \ {o} : op[p].id # r.id
    BY <2>1, <2>2 DEF Apart
  <2>5. ASSUME NEW p \in Operator \ {o} PROVE Standing(op[p], script[p], content', hb)
    <3>1. op[p] \in Requests /\ script[p] \in Scripts /\ Standing(op[p], script[p], content, hb)
      BY <1>1, <2>1 DEF Untangled
    <3>2. op[p].id # 0 => content.mark # op[p].id /\ content'.mark # op[p].id
      BY <2>3, <2>4
    <3> QED
      BY <1>1, <1>4, <1>8, <1>9, <3>1, <3>2, AnotherLine
  <2>6. Standing(r, s, content', hb)
    BY <1>2, <1>8, <2>1, <2>2 DEF Standing, Request, Cleared, Written
  <2>7. Accepted'
    <3> SUFFICES ASSUME content'.tok # 0
                 PROVE  /\ Exists(content'.mark) /\ hb[content'.mark].linked
                        /\ hb[content'.mark].token = content'.tok
      BY DEF Accepted, Exists
    <3>1. Changes(r) /\ content'.mark = r.id /\ r.kind \in {"monitor", "rotate"}
      BY <1>8, <2>1, <2>2 DEF Request
    <3> QED
      BY <2>1, <3>1 DEF Standing, Exists, Changes
  <2>8. Pinged'
    <3> SUFFICES ASSUME NEW i \in 1 .. MaxRows, hb[i].state = "active", hb[i].linked
                 PROVE  \E p \in Operator : SeesTo(op[p], script'[p], i)
      BY DEF Pinged
    <3>1. CASE i = r.id
      BY <1>2, <1>3, <2>1, <2>2, <3>1 DEF SeesTo, Cleared, Written
    <3>2. CASE i # r.id
      <4>1. own[hb[i].token] = i /\ hb[i].token # 0 /\ i # 0
        BY <1>7 DEF Owners, Exists
      <4>2. content.tok # hb[i].token
        BY <1>9, <2>3, <3>2, <4>1 DEF FileOwned
      <4>3. PICK p \in Operator : SeesTo(op[p], script[p], i)
        BY <2>1, <4>2 DEF Untangled, Pinged
      <4>4. p # o
        BY <3>2, <4>3 DEF SeesTo
      <4> QED
        BY <1>3, <4>3, <4>4
    <3> QED
      BY <3>1, <3>2
  <2>9. Apart'
    BY <2>1 DEF Apart
  <2>10. \A p \in Operator : Standing(op[p], script'[p], content', hb)
    BY <1>3, <2>5, <2>6
  <2> QED
    BY <2>7, <2>8, <2>9, <2>10 DEF Untangled
<1> QED
  BY <1>5, <1>6, <1>11, <1>12 DEF CronInv

LEMMA ScriptStep ==
  ASSUME CronInv, NEW o \in Operator, HostCompares(o) \/ HostWrites(o) \/ ScriptGone(o)
  PROVE  CronInv'
<1>1. /\ script \in [Operator -> Scripts] /\ script[o] \in Scripts
      /\ unknown \in 0 .. MaxUnknown /\ NoScript \in Scripts
  BY AtRequest, CronConstants DEF CronInv, CronTypeOK
<1>2. ASSUME NEW st \in {"checked", "conflict", "failed"},
             script' = [script EXCEPT ![o].state = st]
      PROVE  \E s \in Scripts :
               /\ s.state = st /\ s.base = script[o].base /\ s.new = script[o].new
               /\ script' = [script EXCEPT ![o] = s]
  <2>1. [script[o] EXCEPT !.state = st] \in Scripts
    BY <1>1 DEF Scripts
  <2>2. script' = [script EXCEPT ![o] = [script[o] EXCEPT !.state = st]]
    BY <1>1, <1>2
  <2>3. LET s == [script[o] EXCEPT !.state = st] IN
          s.state = st /\ s.base = script[o].base /\ s.new = script[o].new
    BY <1>1 DEF Scripts
  <2> QED
    BY <2>1, <2>2, <2>3
<1>3. CASE HostCompares(o)
  <2>1. /\ LineStays /\ tangled' = tangled /\ op' = op /\ script[o].state = "sent"
        /\ \E st \in {"checked", "conflict"} : script' = [script EXCEPT ![o].state = st]
    BY <1>1, <1>3 DEF HostCompares, LineStays
  <2> QED
    BY <1>2, <2>1, ScriptTurns
<1>4. CASE HostWrites(o)
  <2>1. script[o].state = "checked" /\ UNCHANGED <<hb, rows, tokens, op, unknown>>
    BY <1>4 DEF HostWrites
  <2>2. CASE script' = [script EXCEPT ![o].state = "failed"] /\ UNCHANGED <<content, tangled>>
    <3>1. LineStays /\ tangled' = tangled /\ op' = op
      BY <1>1, <2>1, <2>2 DEF LineStays
    <3> QED
      BY <1>2, <2>1, <2>2, <3>1, ScriptTurns
  <2> QED
    BY <1>4, <2>1, <2>2, HostWritesStep DEF HostWrites
<1>5. CASE ScriptGone(o)
  <2>1. LineStays /\ tangled' = tangled /\ op' = op /\ op[o].pc # "write"
    BY <1>1, <1>5 DEF ScriptGone, At, LineStays
  <2> QED
    BY <1>1, <1>5, <2>1, ScriptTurns DEF ScriptGone
<1> QED
  BY <1>3, <1>4, <1>5

LEMMA EditStep ==
  ASSUME CronInv, Edit
  PROVE  CronInv'
<1>1. /\ content' \in File /\ content'.tok = content.tok /\ content'.mark = content.mark
      /\ UNCHANGED <<hb, rows, tokens, op, script, unknown, tangled>>
  <2>1. content.rest + 1 \in 0 .. MaxEdits
    BY CronMonitorAssumption DEF CronMonitorAssumption, CronInv, CronTypeOK, File, Edit
  <2> QED
    BY <2>1 DEF CronInv, CronTypeOK, File, Edit
<1>2. CronTypeOK' /\ RowsInv'
  BY <1>1 DEF CronInv, CronTypeOK, RowsInv
<1>3. (\E own : Owners(own))'
  <2>1. PICK own : Owners(own)
    BY DEF CronInv
  <2>2. Owners(own)'
    BY <1>1, <2>1 DEF Owners, FileOwned, Exists
  <2> QED
    BY <2>2
<1>4. ASSUME ~tangled' PROVE Untangled'
  <2>1. Untangled
    BY <1>1, <1>4 DEF CronInv
  <2>2. \A p \in Operator : Standing(op[p], script[p], content', hb)
    BY <1>1, <2>1 DEF Untangled, Standing
  <2>3. \A p \in Operator : PutsBack(op[p], content) => PutsBack(op[p], content')
    BY <1>1 DEF PutsBack
  <2>4. Accepted'
    BY <1>1, <2>1, <2>3 DEF Untangled, Accepted, Exists
  <2>5. Apart' /\ Pinged'
    BY <1>1, <2>1 DEF Untangled, Apart, Pinged
  <2> QED
    BY <1>1, <2>2, <2>4, <2>5 DEF Untangled
<1> QED
  BY <1>2, <1>3, <1>4 DEF CronInv

(* A row changes, and with it the request that changes it *)

\* own may go on to own2: tokens that are in use keep their rows.
Extends(own, own2) == \A t \in 1 .. MaxTokens : own[t] # 0 => own2[t] = own[t]

LEMMA FileExtends ==
  ASSUME NEW own, NEW own2, Extends(own, own2), NEW f \in File, FileOwned(own, f)
  PROVE  FileOwned(own2, f)
<1>1. f.tok \in 0 .. MaxTokens
  BY DEF File
<1>2. f.tok # 0 => f.tok \in 1 .. MaxTokens
  BY <1>1, CronConstants
<1> QED
  BY <1>2 DEF FileOwned, Extends

LEMMA RequestExtends ==
  ASSUME NEW own, NEW own2, Extends(own, own2), NEW r \in Requests, NEW s \in Scripts,
         Request(own, r, s)
  PROVE  Request(own2, r, s)
<1>1. /\ r.snap \in File /\ r.want \in File /\ s.base \in File /\ s.new \in File
      /\ r.old \in 0 .. MaxTokens
  BY DEF Requests, Scripts
<1>2. FileOwned(own2, r.snap) /\ FileOwned(own2, s.base) /\ FileOwned(own2, s.new)
  BY <1>1, FileExtends DEF Request
<1>3. r.old # 0 => r.old \in 1 .. MaxTokens
  BY <1>1, CronConstants
<1>4. r.want.tok # 0 => r.want.tok \in 1 .. MaxTokens
  BY <1>1, CronConstants DEF File
<1>5. r.kind = "rotate" => own2[r.old] = r.id
  BY <1>3 DEF Request, Extends
<1>6. Changes(r) => own2[r.want.tok] = r.id
  BY <1>4 DEF Request, Extends
<1> QED
  BY <1>2, <1>5, <1>6 DEF Request

\* What a change of row j by request o has to leave in order.
RowFits(o, j, row, r) ==
  /\ r.id = 0 \/ \A p \in Operator \ {o} : op[p].id # r.id
  /\ \A p \in Operator \ {o} : op[p].id # j
  /\ content.tok # 0 /\ content.mark = j =>
       /\ row.state # "gone" /\ row.linked
       /\ row.token = content.tok \/ PutsBack(r, content)
  /\ content.mark # j => ~PutsBack(op[o], content)
  /\ row.state = "active" /\ row.linked => content.tok = row.token \/ SeesTo(r, script[o], j)
  /\ \A i \in 1 .. MaxRows \ {j} : ~SeesTo(op[o], script[o], i)

LEMMA RowStep ==
  ASSUME CronInv, NEW o \in Operator, NEW j \in 1 .. MaxRows, NEW row \in Row, NEW r \in Requests,
         hb' = [hb EXCEPT ![j] = row], op' = [op EXCEPT ![o] = r],
         script' = script, content' = content, unknown' = unknown, tangled' = tangled,
         rows' \in 0 .. MaxRows, rows <= rows', j <= rows', r.id <= rows',
         tokens' \in 0 .. MaxTokens, tokens <= tokens',
         \A own : Owners(own) =>
           \E own2 \in [1 .. MaxTokens -> 0 .. rows'] :
             /\ \A t \in 1 .. MaxTokens : t > tokens' => own2[t] = 0
             /\ Extends(own, own2)
             /\ row.state # "gone" => row.token # 0 /\ own2[row.token] = j
             /\ Request(own2, r, script[o]),
         ~tangled => RowFits(o, j, row, r) /\ Standing(r, script[o], content, hb')
  PROVE  CronInv'
<1>1. /\ content \in File /\ hb \in [1 .. MaxRows -> Row]
      /\ rows \in 0 .. MaxRows /\ tokens \in 0 .. MaxTokens
      /\ op \in [Operator -> Requests] /\ script \in [Operator -> Scripts]
      /\ unknown \in 0 .. MaxUnknown /\ tangled \in BOOLEAN
  BY CronTyped DEF CronInv
<1>2. /\ op'[o] = r /\ \A p \in Operator \ {o} : op'[p] = op[p]
      /\ op' \in [Operator -> Requests]
  BY <1>1
<1>3. /\ hb'[j] = row /\ \A i \in 1 .. MaxRows \ {j} : hb'[i] = hb[i]
      /\ hb' \in [1 .. MaxRows -> Row]
  BY <1>1
<1>4. CronTypeOK'
  BY <1>1, <1>2, <1>3 DEF CronTypeOK, Requests, Scripts
<1>5. RowsInv'
  <2>1. \A i \in 1 .. MaxRows : i > rows' => i # j /\ i > rows
    BY <1>1
  <2>2. \A i \in 1 .. MaxRows : i > rows' => hb'[i] = NoRow
    BY <1>3, <2>1 DEF CronInv, RowsInv
  <2>3. \A p \in Operator : op[p] \in Requests /\ op[p].id \in Nat /\ op[p].id <= rows
    BY <1>1 DEF CronInv, RowsInv, Requests
  <2>4. \A p \in Operator \ {o} : op[p].id <= rows'
    BY <1>1, <2>3
  <2> QED
    BY <1>2, <2>2, <2>4 DEF RowsInv
<1>6. PICK own : Owners(own)
  BY DEF CronInv
<1>7. PICK own2 \in [1 .. MaxTokens -> 0 .. rows'] :
         /\ \A t \in 1 .. MaxTokens : t > tokens' => own2[t] = 0
         /\ Extends(own, own2)
         /\ row.state # "gone" => row.token # 0 /\ own2[row.token] = j
         /\ Request(own2, r, script[o])
  BY <1>6
<1>8. Owners(own2)'
  <2>1. ASSUME NEW p \in Operator PROVE Request(own2, op'[p], script'[p])
    <3>1. CASE p = o
      BY <1>2, <1>7, <3>1
    <3>2. CASE p # o
      <4>1. op[p] \in Requests /\ script[p] \in Scripts /\ Request(own, op[p], script[p])
        BY <1>1, <1>6 DEF Owners
      <4>2. Request(own2, op[p], script[p])
        BY <1>7, <4>1, RequestExtends
      <4> QED
        BY <1>2, <3>2, <4>2
    <3> QED
      BY <3>1, <3>2
  <2>2. FileOwned(own2, content)
    BY <1>1, <1>6, <1>7, FileExtends DEF Owners
  <2>3. ASSUME NEW i \in 1 .. MaxRows, hb'[i].state # "gone"
        PROVE  hb'[i].token # 0 /\ own2[hb'[i].token] = i
    <3>1. CASE i = j
      BY <1>3, <1>7, <2>3, <3>1
    <3>2. CASE i # j
      <4>1. hb'[i] = hb[i] /\ hb[i].token # 0 /\ own[hb[i].token] = i
        BY <1>3, <1>6, <2>3, <3>2 DEF Owners, Exists
      <4>2. hb[i].token \in 1 .. MaxTokens /\ i # 0
        <5>1. hb[i].token \in 0 .. MaxTokens
          BY <1>1 DEF Row
        <5> QED
          BY <4>1, <5>1, CronConstants
      <4> QED
        BY <1>7, <4>1, <4>2 DEF Extends
    <3> QED
      BY <3>1, <3>2
  <2> QED
    BY <1>7, <2>1, <2>2, <2>3 DEF Owners, Exists
<1>9. ASSUME ~tangled PROVE Untangled'
  <2>1. Untangled /\ Apart /\ RowFits(o, j, row, r)
    BY <1>9 DEF CronInv, Untangled
  <2>2. Apart'
    BY <1>2, <2>1 DEF Apart, RowFits
  <2>3. ASSUME NEW p \in Operator PROVE Standing(op'[p], script'[p], content', hb')
    <3>1. CASE p = o
      BY <1>2, <1>9, <3>1
    <3>2. CASE p # o
      <4>1. Standing(op[p], script[p], content, hb) /\ Request(own, op[p], script[p])
        BY <1>6, <2>1 DEF Untangled, Owners
      <4>2. op[p].id # 0 => op[p].id \in 1 .. MaxRows \ {j}
        <5>1. op[p].id \in 0 .. MaxRows /\ op[p].id # j
          BY <1>1, <2>1, <3>2 DEF Requests, RowFits
        <5> QED
          BY <5>1, CronConstants
      <4>3. op[p].id # 0 => hb'[op[p].id] = hb[op[p].id]
        BY <1>3, <4>2
      <4>4. Standing(op[p], script[p], content, hb')
        BY <4>1, <4>3, AnotherRow
      <4> QED
        BY <1>2, <3>2, <4>4
    <3> QED
      BY <3>1, <3>2
  <2>4. Accepted'
    <3> SUFFICES ASSUME content.tok # 0
                 PROVE  /\ hb'[content.mark].state # "gone" /\ hb'[content.mark].linked
                        /\ \/ hb'[content.mark].token = content.tok
                           \/ \E p \in Operator : PutsBack(op'[p], content)
      BY DEF Accepted, Exists
    <3>1. CASE content.mark = j
      BY <1>2, <1>3, <2>1, <3>1 DEF RowFits
    <3>2. CASE content.mark # j
      <4>1. content.mark \in 1 .. MaxRows \ {j}
        <5>1. content.mark \in 0 .. MaxRows /\ content.mark # 0
          BY <1>1, <1>6 DEF File, Owners, FileOwned
        <5> QED
          BY <3>2, <5>1, CronConstants
      <4>2. hb'[content.mark] = hb[content.mark]
        BY <1>3, <4>1
      <4>3. CASE hb[content.mark].token = content.tok
        BY <2>1, <4>2, <4>3 DEF Untangled, Accepted, Exists
      <4>4. CASE \E p \in Operator : PutsBack(op[p], content)
        <5>1. PICK p \in Operator : PutsBack(op[p], content)
          BY <4>4
        <5>2. p # o
          BY <2>1, <3>2, <5>1 DEF RowFits
        <5> QED
          BY <1>2, <2>1, <4>2, <5>1, <5>2 DEF Untangled, Accepted, Exists
      <4> QED
        BY <2>1, <4>3, <4>4 DEF Untangled, Accepted
    <3> QED
      BY <3>1, <3>2
  <2>5. Pinged'
    <3> SUFFICES ASSUME NEW i \in 1 .. MaxRows, hb'[i].state = "active", hb'[i].linked,
                        content.tok # hb'[i].token
                 PROVE  \E p \in Operator : SeesTo(op'[p], script[p], i)
      BY DEF Pinged
    <3>1. CASE i = j
      BY <1>2, <1>3, <2>1, <3>1 DEF RowFits
    <3>2. CASE i # j
      <4>1. hb'[i] = hb[i]
        BY <1>3, <3>2
      <4>2. PICK p \in Operator : SeesTo(op[p], script[p], i)
        BY <2>1, <4>1 DEF Untangled, Pinged
      <4>3. p # o
        BY <2>1, <3>2, <4>2 DEF RowFits
      <4> QED
        BY <1>2, <4>2, <4>3
    <3> QED
      BY <3>1, <3>2
  <2> QED
    BY <2>2, <2>3, <2>4, <2>5 DEF Untangled
<1> QED
  BY <1>4, <1>5, <1>8, <1>9 DEF CronInv

LEMMA Counting ==
  ASSUME NEW n \in Nat, NEW m \in 0 .. n, m < n
  PROVE  m + 1 \in 1 .. n /\ m + 1 \in 0 .. n /\ m <= m + 1 /\ m < m + 1 /\ m + 1 # 0
OBVIOUS

\* The token made next is in nobody's hands, and goes to row j.
LEMMA NextToken ==
  ASSUME CronInv, NEW own, Owners(own), tokens < MaxTokens, tokens' = tokens + 1,
         rows <= rows', rows' \in Nat, NEW j \in 1 .. MaxRows, j <= rows'
  PROVE  LET own2 == [own EXCEPT ![tokens'] = j] IN
         /\ own2 \in [1 .. MaxTokens -> 0 .. rows']
         /\ \A t \in 1 .. MaxTokens : t > tokens' => own2[t] = 0
         /\ Extends(own, own2) /\ own2[tokens'] = j /\ own[tokens'] = 0
         /\ content.tok # tokens'
<1> DEFINE own2 == [own EXCEPT ![tokens'] = j]
<1>1. /\ rows \in 0 .. MaxRows /\ tokens \in 0 .. MaxTokens /\ content \in File
      /\ MaxTokens \in Nat /\ MaxRows \in Nat
  BY CronConstants DEF CronInv, CronTypeOK
<1>2. tokens' \in 1 .. MaxTokens /\ tokens' > tokens
  BY <1>1
<1>3. /\ own \in [1 .. MaxTokens -> 0 .. rows] /\ FileOwned(own, content)
      /\ \A t \in 1 .. MaxTokens : t > tokens => own[t] = 0
  BY DEF Owners
<1>4. own[tokens'] = 0
  BY <1>2, <1>3
<1>5. own2[tokens'] = j /\ \A t \in 1 .. MaxTokens : t # tokens' => own2[t] = own[t]
  BY <1>2, <1>3
<1>6. own2 \in [1 .. MaxTokens -> 0 .. rows']
  <2>1. j \in 0 .. rows' /\ 0 .. rows \subseteq 0 .. rows'
    BY <1>1
  <2> QED
    BY <1>2, <1>3, <2>1
<1> HIDE DEF own2
<1>7. \A t \in 1 .. MaxTokens : t > tokens' => own2[t] = 0
  <2> SUFFICES ASSUME NEW t \in 1 .. MaxTokens, t > tokens' PROVE own2[t] = 0
    OBVIOUS
  <2>1. t > tokens /\ t # tokens'
    BY <1>1
  <2> QED
    BY <1>3, <1>5, <2>1
<1>8. Extends(own, own2)
  BY <1>4, <1>5 DEF Extends
<1>9. content.tok # tokens'
  BY <1>2, <1>3, <1>4 DEF FileOwned
<1> QED
  BY <1>4, <1>5, <1>6, <1>7, <1>8, <1>9 DEF own2

LEMMA CreateRowStep ==
  ASSUME CronInv, NEW o \in Operator, CreateRow(o)
  PROVE  CronInv'
<1>1. /\ op \in [Operator -> Requests] /\ op[o] \in Requests
      /\ script[o] \in Scripts
      /\ \A own : Owners(own) => Request(own, op[o], script[o])
      /\ \E own : Owners(own) /\ Request(own, op[o], script[o])
      /\ rows \in 0 .. MaxRows /\ tokens \in 0 .. MaxTokens /\ hb \in [1 .. MaxRows -> Row]
      /\ MaxRows \in Nat /\ MaxTokens \in Nat
  BY AtRequest, CronConstants, CronTyped DEF CronInv
<1> DEFINE row == [token |-> tokens', linked |-> TRUE, state |-> "active"]
           want == [op[o].snap EXCEPT !.tok = tokens', !.mark = rows']
           r == [kind |-> "monitor", pc |-> "check", snap |-> op[o].snap, want |-> want,
                 id |-> rows', old |-> op[o].old]
<1>2. /\ op[o].pc = "create" /\ rows < MaxRows /\ tokens < MaxTokens
      /\ rows' = rows + 1 /\ tokens' = tokens + 1
      /\ script' = script /\ content' = content /\ unknown' = unknown /\ tangled' = tangled
  BY DEF CreateRow, At
<1>3. op[o].kind = "monitor" /\ op[o].id = 0 /\ op[o].snap.tok = 0 /\ script[o].state = "none"
  BY <1>1, <1>2, IdleFields DEF Request, Phase
<1>4. /\ rows' \in 1 .. MaxRows /\ rows' \in 0 .. MaxRows /\ rows <= rows' /\ rows < rows'
      /\ rows' # 0 /\ tokens' \in 0 .. MaxTokens /\ tokens <= tokens' /\ tokens' # 0
  BY <1>1, <1>2, Counting
<1>5. want \in File /\ want.tok = tokens' /\ want.mark = rows'
  BY <1>1, <1>4 DEF Requests, File
<1>6. row \in Row /\ hb' = [hb EXCEPT ![rows'] = row]
  BY <1>4 DEF Row, CreateRow
<1>7. op' = [op EXCEPT ![o] = r]
  BY <1>1, <1>3 DEF CreateRow, Requests
<1> HIDE DEF want
<1>8. r \in Requests
  BY <1>1, <1>4, <1>5 DEF Requests
<1>9. /\ r.kind = "monitor" /\ r.pc = "check" /\ r.snap = op[o].snap /\ r.want = want
      /\ r.id = rows' /\ row.token = tokens' /\ row.state = "active" /\ row.linked
      /\ row = [token |-> tokens', linked |-> TRUE, state |-> "active"]
  OBVIOUS
<1> HIDE DEF r, row
<1>10. Changes(r)
  BY <1>9 DEF Changes
<1>11. ASSUME NEW own, Owners(own)
       PROVE  \E own2 \in [1 .. MaxTokens -> 0 .. rows'] :
                /\ \A t \in 1 .. MaxTokens : t > tokens' => own2[t] = 0
                /\ Extends(own, own2)
                /\ row.state # "gone" => row.token # 0 /\ own2[row.token] = rows'
                /\ Request(own2, r, script[o])
  <2> DEFINE own2 == [own EXCEPT ![tokens'] = rows']
  <2>1. /\ own2 \in [1 .. MaxTokens -> 0 .. rows'] /\ Extends(own, own2)
        /\ \A t \in 1 .. MaxTokens : t > tokens' => own2[t] = 0
        /\ own2[tokens'] = rows'
    BY <1>1, <1>2, <1>4, <1>11, NextToken
  <2> HIDE DEF own2
  <2>2. Request(own2, op[o], script[o])
    BY <1>1, <1>11, <2>1, RequestExtends
  <2>3. Request(own2, r, script[o])
    BY <1>3, <1>4, <1>5, <1>9, <1>10, <2>1, <2>2 DEF Request, Phase
  <2> QED
    BY <1>4, <1>9, <2>1, <2>3
<1>12. \A p \in Operator : op[p].id # rows'
  <2>1. \A p \in Operator : op[p].id \in Nat /\ op[p].id <= rows
    BY <1>1 DEF CronInv, RowsInv, Requests
  <2> QED
    BY <1>1, <1>4, <2>1
<1>13. PICK own : Owners(own)
  BY DEF CronInv
<1>18. content.tok # tokens'
  <2>1. rows' \in Nat /\ rows' <= rows'
    BY <1>4
  <2> QED
    BY <1>2, <1>4, <1>13, <2>1, NextToken
<1>14. content.mark # rows' \/ content.tok = 0
  <2>1. content.tok # 0 => content.tok \in 1 .. MaxTokens
    <3>1. content.tok \in 0 .. MaxTokens
      BY DEF CronInv, CronTypeOK, File
    <3> QED
      BY <3>1, CronConstants
  <2>2. content.tok # 0 => content.mark \in 0 .. rows
    BY <1>13, <2>1 DEF Owners, FileOwned
  <2> QED
    BY <1>1, <1>4, <2>2
<1>15. RowFits(o, rows', row, r)
  <2>1. SeesTo(r, script[o], rows')
    BY <1>9 DEF SeesTo
  <2>2. ~PutsBack(op[o], content)
    BY <1>3 DEF PutsBack
  <2>3. \A i \in 1 .. MaxRows : ~SeesTo(op[o], script[o], i)
    BY <1>3 DEF SeesTo
  <2> QED
    BY <1>9, <1>12, <1>14, <2>1, <2>2, <2>3 DEF RowFits
<1>16. Standing(r, script[o], content, hb')
  <2>1. hb'[rows'] = row
    BY <1>1, <1>4, <1>6
  <2> QED
    BY <1>5, <1>9, <1>10, <1>18, <2>1 DEF Standing
<1>17. rows' <= rows' /\ r.id <= rows'
  BY <1>4, <1>9
<1> QED
  BY <1>2, <1>4, <1>6, <1>7, <1>8, <1>11, <1>15, <1>16, <1>17, RowStep

LEMMA UpdateTokenStep ==
  ASSUME CronInv, NEW o \in Operator, UpdateToken(o)
  PROVE  CronInv'
<1>1. /\ op \in [Operator -> Requests] /\ op[o] \in Requests /\ op[o].id <= rows
      /\ script \in [Operator -> Scripts] /\ script[o] \in Scripts
      /\ \A own : Owners(own) => Request(own, op[o], script[o])
      /\ \E own : Owners(own) /\ Request(own, op[o], script[o])
      /\ rows \in 0 .. MaxRows /\ tokens \in 0 .. MaxTokens /\ hb \in [1 .. MaxRows -> Row]
      /\ MaxRows \in Nat /\ MaxTokens \in Nat
      /\ unknown \in 0 .. MaxUnknown /\ tangled \in BOOLEAN
      /\ ~tangled => /\ Untangled /\ Standing(op[o], script[o], content, hb)
                     /\ op[o].id = 0 \/ \A p \in Operator \ {o} : op[p].id # op[o].id
  BY AtRequest, CronConstants, CronTyped DEF CronInv
<1>2. /\ op[o].pc = "update" /\ rows' = rows
      /\ script' = script /\ content' = content /\ unknown' = unknown /\ tangled' = tangled
  BY DEF UpdateToken, At
<1>3. op[o].kind = "rotate" /\ op[o].id # 0 /\ op[o].old # 0 /\ script[o].state = "none"
  BY <1>1, <1>2, IdleFields DEF Request, Phase
<1>4. CASE ~Exists(op[o].id)
  <2>1. Done(o) /\ LineStays /\ script' = [script EXCEPT ![o] = script[o]]
    BY <1>1, <1>2, <1>4, Staying DEF UpdateToken, LineStays
  <2>2. tangled
    BY <1>1, <1>3, <1>4 DEF Standing, Exists
  <2> QED
    BY <1>1, <1>2, <2>1, <2>2, DoneStep DEF Leaves
<1>5. CASE Exists(op[o].id)
  <2> DEFINE j == op[o].id
             row == [token |-> tokens', linked |-> hb[j].linked, state |-> hb[j].state]
             want == [op[o].want EXCEPT !.tok = tokens']
             r == [kind |-> "rotate", pc |-> "find", snap |-> op[o].snap, want |-> want,
                   id |-> j, old |-> op[o].old]
  <2>1. tokens < MaxTokens /\ tokens' = tokens + 1
    BY <1>5 DEF UpdateToken
  <2>2. tokens' \in 0 .. MaxTokens /\ tokens <= tokens' /\ tokens' # 0
    BY <1>1, <2>1, Counting
  <2>3. j \in 0 .. MaxRows
    BY <1>1 DEF Requests
  <2>4. j \in 1 .. MaxRows
    BY <1>1, <1>3, <2>3
  <2>5. want \in File /\ want.tok = tokens'
    BY <1>1, <2>2 DEF Requests, File
  <2>6. row \in Row
    BY <1>1, <2>2, <2>4 DEF Row
  <2>7. hb' = [hb EXCEPT ![j] = row]
    <3>1. hb[j] \in Row
      BY <1>1, <2>4
    <3>2. [hb[j] EXCEPT !.token = tokens'] = row
      BY <3>1 DEF Row
    <3>3. hb' = [hb EXCEPT ![j] = [hb[j] EXCEPT !.token = tokens']]
      BY <1>5 DEF UpdateToken
    <3> QED
      BY <3>2, <3>3
  <2>8. op' = [op EXCEPT ![o] = r]
    BY <1>1, <1>3, <1>5 DEF UpdateToken, Requests
  <2> HIDE DEF want
  <2>9. r \in Requests
    BY <1>1, <2>5 DEF Requests
  <2>10. /\ r.kind = "rotate" /\ r.pc = "find" /\ r.snap = op[o].snap /\ r.want = want
         /\ r.id = j /\ r.old = op[o].old
         /\ row.token = tokens' /\ row.state = hb[j].state /\ row.linked = hb[j].linked
    OBVIOUS
  <2> HIDE DEF r, row
  <2>11. Changes(r)
    BY <2>10 DEF Changes
  <2>12. ASSUME NEW own, Owners(own)
         PROVE  \E own2 \in [1 .. MaxTokens -> 0 .. rows'] :
                  /\ \A t \in 1 .. MaxTokens : t > tokens' => own2[t] = 0
                  /\ Extends(own, own2)
                  /\ row.state # "gone" => row.token # 0 /\ own2[row.token] = j
                  /\ Request(own2, r, script[o])
    <3> DEFINE own2 == [own EXCEPT ![tokens'] = j]
    <3>1. rows <= rows' /\ rows' \in Nat /\ j <= rows'
      BY <1>1, <1>2
    <3>2. /\ own2 \in [1 .. MaxTokens -> 0 .. rows'] /\ Extends(own, own2)
          /\ \A t \in 1 .. MaxTokens : t > tokens' => own2[t] = 0
          /\ own2[tokens'] = j
      BY <2>1, <2>4, <2>12, <3>1, NextToken
    <3> HIDE DEF own2
    <3>3. Request(own2, op[o], script[o])
      BY <1>1, <2>12, <3>2, RequestExtends
    <3>4. Request(own2, r, script[o])
      BY <1>3, <2>2, <2>5, <2>10, <2>11, <3>2, <3>3 DEF Request, Phase
    <3> QED
      BY <2>2, <2>10, <3>2, <3>4
  <2>13. content.tok # tokens'
    <3>1. rows <= rows' /\ rows' \in Nat /\ j <= rows'
      BY <1>1, <1>2
    <3> QED
      BY <1>1, <2>1, <2>4, <3>1, NextToken
  <2>14. ASSUME ~tangled PROVE RowFits(o, j, row, r) /\ Standing(r, script[o], content, hb')
    <3>1. /\ hb[j].state # "gone" /\ hb[j].linked /\ hb[j].token = op[o].old
          /\ hb[j].state = "active" => content.tok = op[o].old
      BY <1>1, <1>2, <1>3, <2>14 DEF Standing
    <3>2. \A p \in Operator \ {o} : op[p].id # j
      BY <1>1, <1>3, <2>14
    <3>3. ~PutsBack(op[o], content)
      BY <1>2 DEF PutsBack
    <3>4. content.tok # 0 /\ content.mark = j => PutsBack(r, content)
      <4> SUFFICES ASSUME content.tok # 0, content.mark = j PROVE content.tok = op[o].old
        BY <2>10 DEF PutsBack
      <4>1. \A p \in Operator : ~PutsBack(op[p], content)
        BY <3>2, <3>3 DEF PutsBack
      <4> QED
        BY <1>1, <2>14, <3>1, <4>1 DEF Untangled, Accepted
    <3>5. SeesTo(r, script[o], j)
      BY <2>10 DEF SeesTo
    <3>6. \A i \in 1 .. MaxRows \ {j} : ~SeesTo(op[o], script[o], i)
      BY DEF SeesTo
    <3>7. RowFits(o, j, row, r)
      BY <2>10, <3>1, <3>2, <3>3, <3>4, <3>5, <3>6 DEF RowFits
    <3>8. hb'[j] = row
      BY <1>1, <2>4, <2>7
    <3>9. Standing(r, script[o], content, hb')
      BY <2>5, <2>10, <2>11, <2>13, <3>1, <3>8 DEF Standing
    <3> QED
      BY <3>7, <3>9
  <2>15. rows' \in 0 .. MaxRows /\ rows <= rows' /\ j <= rows' /\ r.id <= rows'
    BY <1>1, <1>2, <2>10
  <2> HIDE DEF j
  <2> QED
    BY <1>2, <2>2, <2>4, <2>6, <2>7, <2>8, <2>9, <2>12, <2>14, <2>15, RowStep
<1> QED
  BY <1>4, <1>5


\* A request is over with a last change of its row.
LEMMA LastStep ==
  ASSUME CronInv, NEW o \in Operator, NEW j \in 1 .. MaxRows, j = op[o].id, NEW row \in Row,
         hb' = [hb EXCEPT ![j] = row], Done(o), script' = script, content' = content,
         unknown' = unknown, tangled' = tangled, rows' = rows, tokens' = tokens,
         \A own : Owners(own) /\ row.state # "gone" => row.token # 0 /\ own[row.token] = j,
         ~tangled =>
           /\ content.tok # 0 /\ content.mark = j =>
                row.state # "gone" /\ row.linked /\ row.token = content.tok
           /\ row.state = "active" /\ row.linked => content.tok = row.token
  PROVE  CronInv'
<1>1. /\ op[o].id <= rows /\ rows \in 0 .. MaxRows /\ tokens \in 0 .. MaxTokens
      /\ \A own : Owners(own) => Request(own, op[o], script[o])
      /\ ~tangled => op[o].id = 0 \/ \A p \in Operator \ {o} : op[p].id # op[o].id
      /\ MaxRows \in Nat /\ MaxTokens \in Nat
  BY AtRequest, CronConstants, CronTyped DEF CronInv
<1>2. op' = [op EXCEPT ![o] = Idle] /\ Idle \in Requests
  BY CronConstants DEF Done
<1>3. ASSUME NEW own, Owners(own)
      PROVE  \E own2 \in [1 .. MaxTokens -> 0 .. rows'] :
               /\ \A t \in 1 .. MaxTokens : t > tokens' => own2[t] = 0
               /\ Extends(own, own2)
               /\ row.state # "gone" => row.token # 0 /\ own2[row.token] = j
               /\ Request(own2, Idle, script[o])
  <2>1. Request(own, Idle, script[o])
    BY <1>1, <1>3, IdleFields DEF Request, Phase, FileOwned, Changes
  <2>2. Extends(own, own)
    BY DEF Extends
  <2>3. /\ own \in [1 .. MaxTokens -> 0 .. rows']
        /\ \A t \in 1 .. MaxTokens : t > tokens' => own[t] = 0
    BY <1>3 DEF Owners
  <2>4. row.state # "gone" => row.token # 0 /\ own[row.token] = j
    BY <1>3
  <2> QED
    BY <2>1, <2>2, <2>3, <2>4
<1>4. ASSUME ~tangled PROVE RowFits(o, j, row, Idle) /\ Standing(Idle, script[o], content, hb')
  <2>1. \A p \in Operator \ {o} : op[p].id # j
    BY <1>1, <1>4, CronConstants
  <2>2. content.mark # j => ~PutsBack(op[o], content)
    BY DEF PutsBack
  <2>3. \A i \in 1 .. MaxRows \ {j} : ~SeesTo(op[o], script[o], i)
    BY DEF SeesTo
  <2>4. RowFits(o, j, row, Idle)
    BY <1>4, <2>1, <2>2, <2>3, IdleFields DEF RowFits
  <2>5. Standing(Idle, script[o], content, hb')
    BY IdleFields DEF Standing, Changes, Cleared
  <2> QED
    BY <2>4, <2>5
<1>5. /\ rows' \in 0 .. MaxRows /\ rows <= rows' /\ j <= rows' /\ Idle.id <= rows'
      /\ tokens' \in 0 .. MaxTokens /\ tokens <= tokens'
  BY <1>1, IdleFields
<1> QED
  BY <1>2, <1>3, <1>4, <1>5, RowStep

LEMMA LinkedAs ==
  ASSUME NEW row \in Row, NEW b
  PROVE  [row EXCEPT !.linked = b]
           = [token |-> row.token, linked |-> b, state |-> row.state]
BY DEF Row

LEMMA ParkedAs ==
  ASSUME NEW row \in Row, NEW b
  PROVE  [row EXCEPT !.linked = b, !.state = "paused"]
           = [token |-> row.token, linked |-> b, state |-> "paused"]
<1>1. [row EXCEPT !.linked = b]
        = [token |-> row.token, linked |-> b, state |-> row.state]
  BY LinkedAs
<1>2. [row EXCEPT !.linked = b, !.state = "paused"]
        = [[row EXCEPT !.linked = b] EXCEPT !.state = "paused"]
  OBVIOUS
<1>3. [[token |-> row.token, linked |-> b, state |-> row.state] EXCEPT !.state = "paused"]
        = [token |-> row.token, linked |-> b, state |-> "paused"]
  OBVIOUS
<1> QED
  BY <1>1, <1>2, <1>3, Zenon

LEMMA UnlinkStep ==
  ASSUME CronInv, NEW o \in Operator, Unlink(o)
  PROVE  CronInv'
<1>1. /\ op[o] \in Requests /\ script \in [Operator -> Scripts] /\ script[o] \in Scripts
      /\ \E own : Owners(own) /\ Request(own, op[o], script[o])
      /\ hb \in [1 .. MaxRows -> Row]
      /\ MaxRows \in Nat /\ MaxTokens \in Nat
      /\ unknown \in 0 .. MaxUnknown /\ tangled \in BOOLEAN
      /\ ~tangled => Standing(op[o], script[o], content, hb)
  BY AtRequest, CronConstants, CronTyped DEF CronInv
<1>2. /\ op[o].pc = "unlink" /\ Done(o) /\ rows' = rows /\ tokens' = tokens
      /\ script' = script /\ content' = content /\ unknown' = unknown /\ tangled' = tangled
  BY DEF Unlink, At
<1>3. op[o].kind = "unmonitor"
  BY <1>1, <1>2, IdleFields DEF Request, Phase
<1>4. CASE op[o].id = 0 \/ ~Exists(op[o].id)
  <2>1. LineStays /\ script' = [script EXCEPT ![o] = script[o]]
    BY <1>1, <1>2, <1>4, Staying DEF Unlink, LineStays
  <2>2. ~PutsBack(op[o], content)
    BY <1>3 DEF PutsBack
  <2>3. \A i \in 1 .. MaxRows : hb[i].state = "active" => ~SeesTo(op[o], script[o], i)
    BY <1>1, <1>4 DEF SeesTo, Exists
  <2> QED
    BY <1>1, <1>2, <2>1, <2>2, <2>3, DoneStep DEF Leaves
<1>5. CASE op[o].id # 0 /\ Exists(op[o].id)
  <2> DEFINE j == op[o].id
             parked == [token |-> hb[j].token, linked |-> FALSE, state |-> "paused"]
  <2>1. j \in 1 .. MaxRows
    <3>1. j \in 0 .. MaxRows
      BY <1>1 DEF Requests
    <3> QED
      BY <1>1, <1>5, <3>1
  <2>2. hb[j] \in Row
    BY <1>1, <2>1
  <2>3. PICK row \in {NoRow, parked} : hb' = [hb EXCEPT ![j] = row]
    <3>1. [hb[j] EXCEPT !.linked = FALSE, !.state = "paused"] = parked
      BY <2>2, ParkedAs, Zenon
    <3>2. [hb EXCEPT ![j].linked = FALSE, ![j].state = "paused"] = [hb EXCEPT ![j] = parked]
      BY <1>1, <2>1, <2>2, <3>1
    <3> QED
      BY <1>5, <3>2 DEF Unlink
  <2>4. row \in Row /\ ~(row.state = "active" /\ row.linked)
    <3>1. parked \in Row /\ parked.state = "paused"
      BY <2>2 DEF Row
    <3>2. NoRow \in Row /\ NoRow.state = "gone"
      BY CronConstants DEF NoRow
    <3> HIDE DEF parked
    <3> QED
      BY <3>1, <3>2
  <2>5. row.state # "gone" => row.token = hb[j].token
    BY DEF NoRow
  <2>6. \A own : Owners(own) /\ row.state # "gone" => row.token # 0 /\ own[row.token] = j
    BY <1>5, <2>1, <2>5 DEF Owners
  <2>7. ~tangled => content.mark # j
    BY <1>1, <1>2, <1>3 DEF Standing, Cleared
  <2> HIDE DEF j
  <2>8. j = op[o].id
    BY DEF j
  <2> QED
    BY <1>2, <2>1, <2>3, <2>4, <2>6, <2>7, <2>8, LastStep
<1> QED
  BY <1>4, <1>5

LEMMA RollBackStep ==
  ASSUME CronInv, NEW o \in Operator, RollBack(o)
  PROVE  CronInv'
<1>1. /\ op[o] \in Requests /\ script \in [Operator -> Scripts] /\ script[o] \in Scripts
      /\ \A own : Owners(own) => Request(own, op[o], script[o])
      /\ \E own : Owners(own) /\ Request(own, op[o], script[o])
      /\ hb \in [1 .. MaxRows -> Row]
      /\ MaxRows \in Nat /\ MaxTokens \in Nat
      /\ unknown \in 0 .. MaxUnknown /\ tangled \in BOOLEAN
      /\ ~tangled => /\ Untangled /\ Standing(op[o], script[o], content, hb)
                     /\ op[o].id = 0 \/ \A p \in Operator \ {o} : op[p].id # op[o].id
  BY AtRequest, CronConstants, CronTyped DEF CronInv
<1>2. /\ op[o].pc = "rollback" /\ Done(o) /\ rows' = rows /\ tokens' = tokens
      /\ script' = script /\ content' = content /\ unknown' = unknown /\ tangled' = tangled
  BY DEF RollBack, At
<1>3. /\ op[o].kind \in {"monitor", "rotate"} /\ Changes(op[o]) /\ op[o].id # 0
      /\ op[o].want.tok # 0
      /\ op[o].kind = "rotate" => op[o].old # 0
  BY <1>1, <1>2, IdleFields DEF Request, Phase, Changes
<1>4. ~tangled =>
        /\ hb[op[o].id].state # "gone" /\ hb[op[o].id].linked
        /\ hb[op[o].id].token = op[o].want.tok /\ content.tok # op[o].want.tok
        /\ op[o].kind = "rotate" /\ hb[op[o].id].state = "active" => content.tok = op[o].old
  BY <1>1, <1>2, <1>3 DEF Standing
<1>5. CASE ~Exists(op[o].id)
  <2>1. LineStays /\ script' = [script EXCEPT ![o] = script[o]]
    BY <1>1, <1>2, <1>5, Staying DEF RollBack, LineStays
  <2>2. tangled
    BY <1>4, <1>5 DEF Exists
  <2> QED
    BY <1>1, <1>2, <2>1, <2>2, DoneStep DEF Leaves
<1>6. CASE Exists(op[o].id)
  <2> DEFINE j == op[o].id
             back == [token |-> op[o].old, linked |-> hb[j].linked, state |-> hb[j].state]
             row == IF op[o].kind = "monitor" THEN NoRow ELSE back
  <2>1. j \in 1 .. MaxRows
    <3>1. j \in 0 .. MaxRows
      BY <1>1 DEF Requests
    <3> QED
      BY <1>1, <1>3, <3>1
  <2>2. hb[j] \in Row /\ op[o].old \in 0 .. MaxTokens
    BY <1>1, <2>1 DEF Requests
  <2>3. hb' = [hb EXCEPT ![j] = row]
    <3>1. [hb[j] EXCEPT !.token = op[o].old] = back
      BY <2>2 DEF Row
    <3>2. [hb EXCEPT ![j].token = op[o].old] = [hb EXCEPT ![j] = back]
      BY <3>1
    <3> QED
      BY <1>6, <3>2 DEF RollBack
  <2>4. row \in Row
    <3>1. back \in Row
      BY <2>2 DEF Row
    <3> QED
      BY <3>1, CronConstants
  <2>5. /\ op[o].kind = "monitor" => row.state = "gone"
        /\ op[o].kind = "rotate" => /\ row.token = op[o].old /\ row.linked = hb[j].linked
                                    /\ row.state = hb[j].state
    BY DEF NoRow
  <2> HIDE DEF row
  <2>6. \A own : Owners(own) /\ row.state # "gone" => row.token # 0 /\ own[row.token] = j
    BY <1>1, <1>3, <2>5 DEF Request
  <2>7. ASSUME ~tangled, content.tok # 0, content.mark = j
        PROVE  op[o].kind = "rotate" /\ content.tok = op[o].old
    <3>1. PICK p \in Operator : PutsBack(op[p], content)
      BY <1>1, <1>4, <2>7 DEF Untangled, Accepted
    <3>2. p = o
      BY <1>1, <1>3, <2>7, <3>1 DEF PutsBack
    <3> QED
      BY <3>1, <3>2 DEF PutsBack
  <2>8. ~tangled =>
          /\ content.tok # 0 /\ content.mark = j =>
               row.state # "gone" /\ row.linked /\ row.token = content.tok
          /\ row.state = "active" /\ row.linked => content.tok = row.token
    BY <1>3, <1>4, <2>5, <2>7
  <2> HIDE DEF j
  <2>9. j = op[o].id
    BY DEF j
  <2> QED
    BY <1>2, <2>1, <2>3, <2>4, <2>6, <2>8, <2>9, LastStep
<1> QED
  BY <1>5, <1>6

LEMMA CronStill ==
  ASSUME CronInv, UNCHANGED cronVars
  PROVE  CronInv'
BY DEF CronInv, cronVars, CronTypeOK, RowsInv, Owners, Untangled, Apart, Accepted, Pinged,
       Exists

LEMMA CronStep == CronInv /\ [CronNext]_cronVars => CronInv'
<1> SUFFICES ASSUME CronInv, [CronNext]_cronVars PROVE CronInv'
  OBVIOUS
<1>1. CASE Edit
  BY <1>1, EditStep
<1>2. ASSUME NEW o \in Operator,
             \/ Monitor(o) \/ CreateRow(o) \/ Unmonitor(o) \/ Unlink(o)
             \/ Rotate(o) \/ UpdateToken(o) \/ FindLine(o)
      PROVE  CronInv'
  BY <1>2, MonitorStep, CreateRowStep, UnmonitorStep, UnlinkStep, RotateStep, UpdateTokenStep,
     FindLineStep
<1>3. ASSUME NEW o \in Operator,
             \/ FindFails(o) \/ CheckHash(o) \/ NeverStarted(o)
             \/ HostCompares(o) \/ HostWrites(o)
             \/ ScriptAnswers(o) \/ AnswerLost(o) \/ ScriptGone(o)
             \/ ReadBack(o) \/ ReadBackFails(o) \/ RollBack(o)
      PROVE  CronInv'
  BY <1>3, CheckHashStep, OutcomeStep, ScriptStep, RollBackStep
<1>4. CASE UNCHANGED cronVars
  BY <1>4, CronStill
<1> QED
  BY <1>1, <1>2, <1>3, <1>4 DEF CronNext

\* Requests to monitor, unmonitor or rotate a line, their scripts on the host and the
\* answers that are lost keep rows, tokens and the line related as CronInv says, for any
\* number of them (heartbeat.routes.ts, cron-monitor.routes.ts, heartbeat-cron.service.ts).
THEOREM CronInvariant == CronSpec => []CronInv
<1> QED
  BY CronInitInv, CronStep, PTL DEF CronSpec

\* When the requests are over, a token left on a crontab line is accepted and an active
\* heartbeat is pinged, unless two requests for one line crossed: the roll-back of
\* cron-monitor.routes.ts undoes neither too little nor too much.
THEOREM MonitoringIsWhole == CronSpec => []MonitorIsWhole
<1>1. CronInv => MonitorIsWhole
  <2> SUFFICES ASSUME CronInv, Settled PROVE MonitorIsWhole!2
    BY DEF MonitorIsWhole
  <2>1. Untangled /\ content \in File /\ hb \in [1 .. MaxRows -> Row]
    BY CronTyped DEF CronInv, Settled
  <2>2. PICK own : Owners(own)
    BY DEF CronInv
  <2>3. \A o \in Operator : op[o].kind = "none"
    BY <2>2, AtRequest DEF Settled, Free, At, Request, Phase
  <2>4. \A o \in Operator : ~PutsBack(op[o], content)
    BY <2>3 DEF PutsBack
  <2>5. \A o \in Operator, i \in 1 .. MaxRows : ~SeesTo(op[o], script[o], i)
    BY <2>3 DEF SeesTo, Cleared
  <2>6. content.tok # 0 => content.mark \in 1 .. MaxRows
    <3>1. content.tok # 0 => content.mark # 0 /\ content.mark \in 0 .. MaxRows
      BY <2>1, <2>2 DEF Owners, FileOwned, File
    <3> QED
      BY <3>1, CronConstants
  <2>7. content.tok # 0 => \E i \in 1 .. MaxRows : Exists(i) /\ hb[i].token = content.tok
    BY <2>1, <2>4, <2>6 DEF Untangled, Accepted
  <2>8. \A i \in 1 .. MaxRows :
          hb[i].state = "active" /\ hb[i].linked => content.tok = hb[i].token
    BY <2>1, <2>5 DEF Untangled, Pinged
  <2> QED
    BY <2>7, <2>8
<1> QED
  BY <1>1, CronInvariant, PTL

------------------------------------------------------------------------------
(***************************************************************************)
(* NoFalseAlarm and SilenceIsNoticed of CronDeadlines, for every schedule, *)
(* grace, runtime and jump of the clocks.                                  *)
(*                                                                         *)
(* A deadline has a cause: a run under way that may take so long, or a run *)
(* not reported yet with its grace.  A ping may be early by the host's     *)
(* clock or name a run the clocks moved, and the next run waited for is    *)
(* then the one after: the tolerance never reaches a run not yet reported, *)
(* since the runs of a schedule are further apart than it.                 *)
(***************************************************************************)

\* What is remembered lies in the past.
PastIsPast == (completed # Unset => completed <= clock) /\ (begun # Unset => begun <= clock)

\* A deadline belongs to a run that has begun, or to one that is not reported yet.
AlarmHasCause ==
  alarm # Unset =>
    \/ begun # Unset /\ begun + Runtime <= alarm
    \/ \E r \in reported + 1 .. alarm : IsRun(schedule, r) /\ r + graceTime <= alarm

DeadlineInv == DeadlineTypeOK /\ PastIsPast /\ AlarmHasCause /\ SilenceIsNoticed

(* The next run *)

LEMMA LeastNumber ==
  ASSUME NEW T, T \subseteq Nat, T # {}
  PROVE  \E x \in T : \A y \in T : x <= y
<1> DEFINE R == OpToRel(<, Nat)
<1>1. IsWellFoundedOn(R, Nat)
  BY NatLessThanWellFounded, Zenon
<1>2. \A x, y \in T : y < x => <<y, x>> \in R
  BY DEF OpToRel
<1> HIDE DEF R
<1>3. PICK x \in T : \A y \in T : ~ (<<y, x>> \in R)
  BY <1>1, WFMin, Zenon
<1>4. \A y \in T : x <= y
  <2> TAKE y \in T
  <2>1. ~(y < x)
    BY <1>2, <1>3, Zenon
  <2>2. x \in Nat /\ y \in Nat
    BY Zenon
  <2> QED
    BY <2>1, <2>2, SMT
<1> QED
  BY <1>4

\* Within a day, every instant of the day comes once more.
LEMMA DayComesRound ==
  ASSUME NEW t \in Nat, NEW d \in 0 .. Day - 1
  PROVE  \E u \in t + 1 .. t + Day : u % Day = d
<1> USE DeadlineAssumption DEF DeadlineAssumption
<1> DEFINE q == t \div Day
           r == t % Day
<1>1. q \in Nat /\ r \in 0 .. Day - 1 /\ t = Day * q + r
  BY SMT
<1>2. ASSUME NEW k \in Nat PROVE (Day * k + d) % Day = d
  BY SMT
<1>3. CASE d > r
  <2>1. Day * q + d \in t + 1 .. t + Day
    BY <1>1, <1>3, SMT
  <2>2. (Day * q + d) % Day = d
    BY <1>1, <1>2, Zenon
  <2> QED
    BY <2>1, <2>2, Zenon
<1>4. CASE d <= r
  <2>1. Day * (q + 1) + d \in t + 1 .. t + Day
    BY <1>1, <1>4, SMT
  <2>2. q + 1 \in Nat
    BY <1>1
  <2>3. (Day * (q + 1) + d) % Day = d
    BY <2>2, <1>2, Zenon
  <2> QED
    BY <2>1, <2>3, Zenon
<1> QED
  BY <1>1, <1>3, <1>4, SMT

LEMMA NextRun ==
  ASSUME NEW s \in Schedules, NEW t \in Nat
  PROVE  /\ nextCronRun(s, t) \in Nat /\ t < nextCronRun(s, t)
         /\ nextCronRun(s, t) <= t + Day
         /\ IsRun(s, nextCronRun(s, t))
         /\ \A u \in Nat : t < u /\ IsRun(s, u) => nextCronRun(s, t) <= u
<1> DEFINE T == {u \in t + 1 .. t + Day : IsRun(s, u)}
           P(u) == IsRun(s, u) /\ \A v \in t + 1 .. u - 1 : ~IsRun(s, v)
<1>0. Day \in Nat
  BY DeadlineAssumption DEF DeadlineAssumption
<1>1. T # {}
  <2>1. PICK d \in s : d \in 0 .. Day - 1
    BY DeadlineAssumption DEF DeadlineAssumption
  <2>2. PICK u \in t + 1 .. t + Day : u % Day = d
    BY <2>1, DayComesRound
  <2> QED
    BY <2>1, <2>2 DEF IsRun
<1>2. PICK x \in T : \A y \in T : x <= y
  <2>1. T \subseteq Nat
    BY <1>0
  <2> HIDE DEF T
  <2> QED
    BY <1>1, <2>1, LeastNumber
<1>3. x \in t + 1 .. t + Day /\ P(x)
  BY <1>0, <1>2
<1> DEFINE n == CHOOSE u \in t + 1 .. t + Day : P(u)
<1>4. n \in t + 1 .. t + Day /\ P(n)
  <2> HIDE DEF P
  <2> QED
    BY <1>3
<1>5. nextCronRun(s, t) = n
  BY DEF nextCronRun
<1> HIDE DEF n
<1>6. \A u \in Nat : t < u /\ IsRun(s, u) => n <= u
  BY <1>0, <1>4
<1> QED
  BY <1>0, <1>4, <1>5, <1>6

LEMMA NextMonotone ==
  ASSUME NEW s \in Schedules, NEW t \in Nat, NEW u \in Nat, t <= u
  PROVE  nextCronRun(s, t) <= nextCronRun(s, u)
BY NextRun

\* Two runs of a schedule are at least MAX_SKEW_MS apart.
LEMMA RunsApart ==
  ASSUME NEW s \in Schedules, NEW a \in Nat, NEW b \in Nat,
         a < b, IsRun(s, a), IsRun(s, b)
  PROVE  a + MaxSkew <= b
<1> USE DeadlineAssumption DEF DeadlineAssumption
<1> DEFINE p == a % Day
           q == b % Day
           i == a \div Day
           j == b \div Day
<1>1. /\ p \in 0 .. Day - 1 /\ a = Day * i + p /\ i \in Nat
      /\ q \in 0 .. Day - 1 /\ b = Day * j + q /\ j \in Nat
  BY SMT
<1>2. p \in s /\ q \in s
  BY DEF IsRun
<1>3. /\ p < q => MaxSkew <= q - p /\ MaxSkew <= p + Day - q
      /\ q < p => MaxSkew <= p - q /\ MaxSkew <= q + Day - p
      /\ MaxSkew + Shift <= Day \div 2
  BY <1>2, GrainAssumption DEF GrainAssumption
<1>4. MaxSkew <= Day
  BY <1>3
<1> HIDE DEF p, q, i, j
<1>5. i <= j
  <2> SUFFICES ASSUME j < i PROVE FALSE
    BY <1>1
  <2>1. Day * (j + 1) <= Day * i
    BY <1>1, SMT
  <2> QED
    BY <1>1, <2>1, SMT
<1>6. CASE i = j
  BY <1>1, <1>3, <1>6, SMT
<1>7. CASE i < j
  <2>1. Day * (i + 1) <= Day * j
    BY <1>1, <1>7, SMT
  <2>2. b - a >= Day + q - p
    BY <1>1, <2>1, SMT
  <2> QED
    BY <1>1, <1>3, <1>4, <2>2, SMT
<1> QED
  BY <1>1, <1>5, <1>6, <1>7

(* The deadline after a ping *)

LEMMA TolerancePlain ==
  ASSUME NEW next1 \in Nat, NEW next2 \in Nat, next1 < next2, jump \in Nat
  PROVE  LET tol == earlyTolerance(next1, next2) IN
         /\ tol \in Nat /\ tol <= (next2 - next1) \div 2
         /\ \/ tol = (next2 - next1) \div 2
            \/ tol = MaxSkew + Widening(next1) /\ tol >= MaxSkew
<1>1. Widening(next1) \in Nat
  BY DeadlineAssumption DEF DeadlineAssumption, Widening
<1>2. (next2 - next1) \div 2 \in Nat
  BY SMT
<1>3. MaxSkew + Widening(next1) \in Nat /\ MaxSkew \in Nat
  BY <1>1, DeadlineAssumption DEF DeadlineAssumption
<1>4. earlyTolerance(next1, next2) = Least(MaxSkew + Widening(next1), (next2 - next1) \div 2)
  BY DEF earlyTolerance
<1> QED
  BY <1>1, <1>2, <1>3, <1>4 DEF Least

\* What a ping makes the heartbeat wait for: a run to come, and the second one at most.
LEMMA ExpectedRun ==
  ASSUME NEW s \in Schedules, NEW t \in Nat, jump \in Nat
  PROVE  LET e == nextExpectedCronRun(s, t) IN
         /\ e \in Nat /\ t < e /\ IsRun(s, e)
         /\ e <= nextCronRun(s, nextCronRun(s, t))
         /\ t + earlyTolerance(nextCronRun(s, t), nextCronRun(s, nextCronRun(s, t))) < e
<1> DEFINE n == nextCronRun(s, t)
           m == nextCronRun(s, n)
           tol == earlyTolerance(n, m)
           e == nextExpectedCronRun(s, t)
<1>1. n \in Nat /\ t < n
  BY NextRun
<1>2. m \in Nat /\ n < m /\ IsRun(s, m)
  BY <1>1, NextRun
<1>3. tol \in Nat /\ tol <= (m - n) \div 2
  BY <1>1, <1>2, TolerancePlain
<1>4. e = nextCronRun(s, t + tol)
  BY DEF nextExpectedCronRun
<1> HIDE DEF n, m, tol, e
<1>5. t + tol \in Nat /\ t <= t + tol /\ t + tol < m
  BY <1>1, <1>2, <1>3, SMT
<1>6. e \in Nat /\ t + tol < e /\ IsRun(s, e) /\ e <= m
  BY <1>2, <1>4, <1>5, NextRun
<1>7. t < e
  BY <1>5, <1>6, <1>3, SMT
<1> QED
  BY <1>6, <1>7 DEF n, m, tol, e

LEMMA DaysLater ==
  ASSUME NEW i \in Nat, NEW w \in Nat
  PROVE  (Day * i + w) % Day = w % Day
<1> USE DeadlineAssumption DEF DeadlineAssumption
<1> DEFINE p == w % Day
           j == w \div Day
<1>1. p \in 0 .. Day - 1 /\ w = Day * j + p /\ j \in Nat
  BY SMT
<1>2. ASSUME NEW k \in Nat, NEW d \in 0 .. Day - 1 PROVE (Day * k + d) % Day = d
  BY SMT
<1> HIDE DEF p, j
<1>3. Day * i + w = Day * (i + j) + p /\ i + j \in Nat
  BY <1>1, SMT
<1>4. (Day * (i + j) + p) % Day = p
  BY <1>1, <1>2, <1>3, Zenon
<1> QED
  BY <1>3, <1>4 DEF p

\* A daily job has its runs a day apart, on any day.
LEMMA DailyGap ==
  ASSUME NEW s \in Schedules, Daily(s), NEW u \in Nat, IsRun(s, u)
  PROVE  nextCronRun(s, u) = u + Day
<1> USE DeadlineAssumption DEF DeadlineAssumption
<1> DEFINE d == u % Day
           i == u \div Day
           v == nextCronRun(s, u)
           w == v - Day * i
<1>1. d \in 0 .. Day - 1 /\ u = Day * i + d /\ i \in Nat
  BY SMT
<1>2. d % Day = d
  BY <1>1, SMT
<1>3. nextCronRun(s, d) = d + Day
  BY <1>1, <1>2 DEF Daily, IsRun
<1>4. v \in Nat /\ u < v /\ v <= u + Day /\ IsRun(s, v)
  BY NextRun
<1> HIDE DEF v, d, i
<1>5. Day * i \in Nat
  BY <1>1, SMT
<1>6. w \in Nat /\ d < w
  BY <1>1, <1>4, <1>5, SMT
<1>7. w % Day = v % Day
  <2>1. v = Day * i + w
    BY <1>4, <1>5, SMT
  <2>2. i \in Nat /\ w \in Nat
    BY <1>1, <1>6
  <2> HIDE DEF w
  <2>3. (Day * i + w) % Day = w % Day
    BY <2>2, DaysLater, Zenon
  <2> QED
    BY <2>1, <2>3, Zenon
<1>8. IsRun(s, w)
  BY <1>4, <1>7 DEF IsRun
<1>9. d + Day <= w
  BY <1>1, <1>3, <1>6, <1>8, NextRun
<1> QED
  BY <1>1, <1>4, <1>5, <1>9, SMT DEF v

\* A run that may be under way is not waited for once it is reported: the host's clock
\* may be fast by less than the tolerance, and a run cron moved to the jump of the
\* clocks falls into the widened one.
LEMMA ReportedIsPast ==
  ASSUME DeadlineTypeOK, NEW r \in Runs
  PROVE  r < nextExpectedCronRun(schedule, clock)
<1> USE DeadlineAssumption DEF DeadlineAssumption
<1> DEFINE n == nextCronRun(schedule, clock)
           m == nextCronRun(schedule, n)
           k == nextCronRun(schedule, r)
           tol == earlyTolerance(n, m)
           e == nextExpectedCronRun(schedule, clock)
<1>1. /\ clock \in Nat /\ jump \in Nat /\ schedule \in Schedules
      /\ r \in Nat /\ IsRun(schedule, r) /\ FiresAt(r) - Fast(r) <= clock
  BY DEF DeadlineTypeOK, Runs
<1>2. e \in Nat /\ clock < e /\ clock + tol < e
  BY <1>1, ExpectedRun
<1>3. SUFFICES ASSUME clock < r PROVE r <= clock + tol
  <2>1. CASE r <= clock
    BY <1>1, <1>2, <2>1
  <2>2. CASE clock < r
    <3>1. tol \in Nat
      BY <1>1, NextRun, TolerancePlain
    <3> QED
      BY <1>1, <1>2, <1>3, <2>2, <3>1
  <2> QED
    BY <1>1, <2>1, <2>2
<1>4. n \in Nat /\ clock < n /\ IsRun(schedule, n) /\ n <= r
  BY <1>1, <1>3, NextRun
<1>5. m \in Nat /\ n < m /\ IsRun(schedule, m) /\ (n < r => m <= r)
  BY <1>1, <1>4, NextRun
<1>6. k \in Nat /\ r < k
  BY <1>1, NextRun
<1>7. /\ tol \in Nat /\ tol <= (m - n) \div 2
      /\ \/ tol = (m - n) \div 2
         \/ tol = MaxSkew + Widening(n) /\ tol >= MaxSkew
  BY <1>1, <1>4, <1>5, TolerancePlain
<1>8. Fast(r) \in Nat /\ Fast(r) <= MaxSkew /\ Fast(r) <= (k - r) \div 2
  <2>1. (k - r) \div 2 \in Nat
    BY <1>1, <1>6, SMT
  <2> QED
    BY <2>1 DEF Fast, Least
<1>9. n + MaxSkew <= m
  BY <1>1, <1>4, <1>5, RunsApart
<1>10. CASE FiresAt(r) = r
  <2>1. r <= clock + Fast(r)
    BY <1>1, <1>8, <1>10
  <2>2. r = n
    <3> HIDE DEF n, m, k, tol
    <3> SUFFICES ASSUME n < r PROVE FALSE
      BY <1>1, <1>4
    <3> QED
      BY <1>1, <1>4, <1>5, <1>8, <1>9, <2>1, SMT
  <2>3. k = m
    BY <2>2
  <2> HIDE DEF n, m, k, tol
  <2> QED
    BY <1>1, <1>4, <1>5, <1>7, <1>8, <2>1, <2>2, <2>3, SMT
<1>11. CASE FiresAt(r) # r
  <2>1. Daily(schedule) /\ jump <= r /\ r < jump + Shift /\ FiresAt(r) = jump
    BY <1>11 DEF FiresAt
  <2>2. r < clock + MaxSkew + Shift
    BY <1>1, <1>8, <2>1
  <2>3. \A u \in Nat : IsRun(schedule, u) => nextCronRun(schedule, u) = u + Day
    BY <1>1, <2>1, DailyGap
  <2>4. m = n + Day
    BY <1>4, <2>3
  <2> HIDE DEF n, m, k, tol
  <2>5. MaxSkew + Shift <= Day \div 2 /\ Shift <= Lookback
    BY GrainAssumption DEF GrainAssumption
  <2>6. r = n
    <3> SUFFICES ASSUME n < r PROVE FALSE
      BY <1>1, <1>4
    <3> QED
      BY <1>1, <1>4, <1>5, <2>2, <2>4, <2>5, SMT
  <2>7. Widening(n) = Shift
    <3>1. n - Lookback < jump /\ jump <= n
      BY <1>1, <1>4, <2>1, <2>5, <2>6
    <3> QED
      BY <3>1 DEF Widening
  <2> QED
    BY <1>1, <1>4, <1>7, <2>2, <2>4, <2>5, <2>7, SMT
<1> QED
  BY <1>10, <1>11

(* Steps *)

\* d waits for a run after t, the second one at most.
Awaits(d, s, g, t) ==
  \/ d.expected = Unset /\ d.alarm = Unset
  \/ /\ d.expected \in Nat /\ d.alarm = d.expected + g
     /\ t < d.expected /\ IsRun(s, d.expected)
     /\ d.expected <= nextCronRun(s, nextCronRun(s, t))

LEMMA PingAwaits ==
  ASSUME NEW s \in Schedules, NEW g \in GraceTimes, NEW t \in Nat, jump \in Nat
  PROVE  /\ Awaits(AfterPing(s, g, t), s, g, t)
         /\ AfterPing(s, g, t).expected = nextExpectedCronRun(s, t)
<1> DEFINE e == nextExpectedCronRun(s, t)
<1>1. e \in Nat /\ t < e /\ IsRun(s, e) /\ e <= nextCronRun(s, nextCronRun(s, t))
  BY ExpectedRun
<1>2. e # Unset
  BY <1>1, DeadlineAssumption DEF DeadlineAssumption
<1>3. AfterPing(s, g, t) = [expected |-> e, alarm |-> e + g]
  BY <1>2 DEF AfterPing, Due
<1> HIDE DEF e
<1> QED
  BY <1>1, <1>3 DEF Awaits, e

LEMMA InitiallyAwaits ==
  ASSUME NEW s \in Schedules, NEW g \in GraceTimes, NEW t \in Nat, NEW armed \in BOOLEAN
  PROVE  Awaits(Initially(s, g, t, armed), s, g, t)
<1> DEFINE e == nextCronRun(s, t)
<1>1. e \in Nat /\ t < e /\ IsRun(s, e)
  BY NextRun
<1>2. e <= nextCronRun(s, e)
  BY <1>1, NextRun
<1>3. e # Unset
  BY <1>1, DeadlineAssumption DEF DeadlineAssumption
<1>4. CASE armed
  <2>1. Initially(s, g, t, armed) = [expected |-> e, alarm |-> e + g]
    BY <1>3, <1>4 DEF Initially, Due
  <2> HIDE DEF e
  <2> QED
    BY <1>1, <1>2, <2>1 DEF Awaits, e
<1>5. CASE ~armed
  <2>1. Initially(s, g, t, armed) = [expected |-> Unset, alarm |-> Unset]
    BY <1>5 DEF Initially, Due
  <2> QED
    BY <2>1 DEF Awaits
<1> QED
  BY <1>4, <1>5

\* A deadline kept from the last completion is not beyond what the edit would set.
LEMMA EditAwaits ==
  ASSUME DeadlineTypeOK, PastIsPast,
         NEW s \in Schedules, NEW g \in GraceTimes, NEW armed \in BOOLEAN
  PROVE  Awaits(AfterEdit(s, g, armed), s, g, clock)
<1>1. clock \in Nat /\ jump \in Nat
  BY DeadlineAssumption DEF DeadlineAssumption, DeadlineTypeOK
<1>2. CASE completed = Unset
  BY <1>1, <1>2, InitiallyAwaits DEF AfterEdit
<1>3. CASE completed # Unset
  <2>1. completed \in Nat /\ completed <= clock
    BY <1>3 DEF DeadlineTypeOK, Instant, PastIsPast
  <2> DEFINE kept == AfterPing(s, g, completed)
  <2>2. Awaits(kept, s, g, completed) /\ kept.expected = nextExpectedCronRun(s, completed)
    BY <1>1, <2>1, PingAwaits
  <2>3. CASE kept.expected > clock
    <3>1. AfterEdit(s, g, armed) = kept
      BY <1>3, <2>3 DEF AfterEdit
    <3>2. kept.expected \in Nat
      BY <1>1, <2>1, <2>2, ExpectedRun
    <3>3. kept.expected # Unset
      BY <3>2, DeadlineAssumption DEF DeadlineAssumption
    <3>4. /\ nextCronRun(s, completed) \in Nat /\ nextCronRun(s, clock) \in Nat
          /\ nextCronRun(s, completed) <= nextCronRun(s, clock)
      BY <1>1, <2>1, NextRun, NextMonotone
    <3>5. /\ nextCronRun(s, nextCronRun(s, completed)) \in Nat
          /\ nextCronRun(s, nextCronRun(s, clock)) \in Nat
          /\ nextCronRun(s, nextCronRun(s, completed)) <= nextCronRun(s, nextCronRun(s, clock))
      BY <3>4, NextRun, NextMonotone
    <3> HIDE DEF kept
    <3> QED
      BY <1>1, <2>2, <2>3, <3>1, <3>2, <3>3, <3>5 DEF Awaits
  <2>4. CASE ~(kept.expected > clock)
    <3>1. AfterEdit(s, g, armed) = AfterPing(s, g, clock)
      BY <1>3, <2>4 DEF AfterEdit
    <3> QED
      BY <1>1, <3>1, PingAwaits
  <2> QED
    BY <2>3, <2>4
<1> QED
  BY <1>2, <1>3

LEMMA Sums ==
  ASSUME NEW e \in Nat, NEW g \in Nat
  PROVE  /\ e + g \in Nat /\ e + g <= e + g
         /\ \A f, h \in Nat : e <= f => e + g <= Greatest(f + g, h)
         /\ \A r \in 0 .. e - 1 : e \in r + 1 .. e + g
BY DEF Greatest

\* What setting such a deadline establishes.
LEMMA AwaitStep ==
  ASSUME NEW d, NEW s \in Schedules, NEW g \in GraceTimes, NEW t \in Nat, Awaits(d, s, g, t),
         Await(d), schedule' = s, graceTime' = g, heard' = t, reported' \in Nat,
         reported' \in 0 .. expected' - 1 \/ expected' = Unset
  PROVE  /\ expected' \in Instant /\ alarm' \in Instant
         /\ alarm' = Unset => expected' = Unset
         /\ AlarmHasCause' /\ SilenceIsNoticed'
<1>1. g \in Nat /\ Runtime \in Nat /\ Unset \notin Nat
  BY DeadlineAssumption DEF DeadlineAssumption
<1>2. CASE d.expected = Unset /\ d.alarm = Unset
  BY <1>2 DEF Await, Instant, AlarmHasCause, SilenceIsNoticed
<1>3. CASE d.expected # Unset \/ d.alarm # Unset
  <2>1. /\ expected' \in Nat /\ alarm' = expected' + g /\ IsRun(s, expected')
        /\ expected' <= nextCronRun(s, nextCronRun(s, t))
    BY <1>3 DEF Awaits, Await
  <2>2. alarm' \in Nat
    BY <1>1, <2>1, Sums, Zenon
  <2>7. alarm' # Unset /\ expected' # Unset
    BY <1>1, <2>1, <2>2, Zenon
  <2>3. expected' \in reported' + 1 .. alarm'
    <3>1. reported' \in 0 .. expected' - 1
      BY <2>7, Zenon
    <3>2. expected' \in reported' + 1 .. expected' + g
      BY <1>1, <2>1, <3>1, Sums, Zenon
    <3> QED
      BY <2>1, <3>2, Zenon
  <2>4. AlarmHasCause'
    <3>1. expected' + graceTime' <= alarm' /\ IsRun(schedule', expected')
      BY <1>1, <2>1, Sums, Zenon
    <3> QED
      BY <2>3, <3>1, Zenon DEF AlarmHasCause
  <2>5. nextCronRun(s, nextCronRun(s, t)) \in Nat
    BY NextRun
  <2>8. t + Runtime \in Nat
    BY <1>1, Sums, Zenon
  <2>6. SilenceIsNoticed'
    <3> DEFINE second == nextCronRun(s, nextCronRun(s, t))
    <3> HIDE DEF second
    <3>1. second \in Nat /\ expected' \in Nat /\ expected' <= second
      BY <2>1, <2>5 DEF second
    <3>2. expected' + g <= Greatest(second + g, t + Runtime)
      BY <1>1, <2>8, <3>1, Sums, Zenon
    <3>3. alarm' <= Greatest(second + graceTime', heard' + Runtime)
      BY <2>1, <3>2, Zenon
    <3> QED
      BY <3>3, Zenon DEF SilenceIsNoticed, second
  <2> QED
    BY <2>1, <2>2, <2>4, <2>6, <2>7 DEF Instant
<1> QED
  BY <1>2, <1>3

LEMMA DeadlineInitInv == DeadlineInit => DeadlineInv
<1> SUFFICES ASSUME DeadlineInit PROVE DeadlineInv
  OBVIOUS
<1>0. /\ clock = 0 /\ jump \in Jumps /\ schedule \in Schedules /\ graceTime \in GraceTimes
      /\ down = FALSE /\ completed = Unset /\ heard = 0 /\ reported = 0 /\ begun = Unset
      /\ revisions = 0
  BY DEF DeadlineInit
<1>1. PICK armed \in BOOLEAN :
        /\ expected = Initially(schedule, graceTime, 0, armed).expected
        /\ alarm = Initially(schedule, graceTime, 0, armed).alarm
  BY DEF DeadlineInit
<1> DEFINE d == Initially(schedule, graceTime, 0, armed)
<1>2. Awaits(d, schedule, graceTime, 0)
  BY <1>0, InitiallyAwaits
<1>3. /\ graceTime \in Nat /\ Runtime \in Nat /\ Horizon \in Nat /\ MaxRevisions \in Nat
      /\ MaxSkew + Shift \in Nat /\ Unset \notin Nat
  BY <1>0, DeadlineAssumption DEF DeadlineAssumption
<1>4. \/ expected = Unset /\ alarm = Unset
      \/ /\ expected \in Nat /\ alarm = expected + graceTime /\ 0 < expected
         /\ IsRun(schedule, expected)
         /\ expected <= nextCronRun(schedule, nextCronRun(schedule, 0))
  BY <1>1, <1>2 DEF Awaits
<1>7. /\ clock \in 0 .. Horizon /\ heard \in 0 .. clock /\ revisions \in 0 .. MaxRevisions
      /\ reported \in 0 .. clock + MaxSkew + Shift
  BY <1>0, DeadlineAssumption DEF DeadlineAssumption
<1>8. down \in BOOLEAN /\ completed \in Instant /\ begun \in Instant
  BY <1>0 DEF Instant
<1>9. ASSUME expected \in Instant, alarm \in Instant, alarm = Unset => expected = Unset
      PROVE  DeadlineTypeOK
  BY <1>0, <1>7, <1>8, <1>9 DEF DeadlineTypeOK
<1>5. CASE alarm = Unset
  <2>1. expected = Unset
    <3> SUFFICES ASSUME expected \in Nat, alarm = expected + graceTime PROVE FALSE
      BY <1>4
    <3>1. alarm \in Nat
      BY <1>3, Sums, Zenon
    <3> QED
      BY <1>3, <1>5, <3>1, Zenon
  <2>2. PastIsPast /\ AlarmHasCause /\ SilenceIsNoticed
    BY <1>0, <1>5 DEF PastIsPast, AlarmHasCause, SilenceIsNoticed
  <2>3. DeadlineTypeOK
    BY <1>5, <1>9, <2>1 DEF Instant
  <2> QED
    BY <2>2, <2>3 DEF DeadlineInv
<1>6. CASE alarm # Unset
  <2>1. /\ expected \in Nat /\ alarm = expected + graceTime /\ 0 < expected
        /\ IsRun(schedule, expected)
        /\ expected <= nextCronRun(schedule, nextCronRun(schedule, 0))
    BY <1>4, <1>6
  <2>2. alarm \in Nat /\ expected \in 1 .. alarm /\ expected + graceTime <= alarm
    BY <1>3, <2>1
  <2>3. AlarmHasCause
    BY <1>0, <2>1, <2>2 DEF AlarmHasCause
  <2>4. nextCronRun(schedule, nextCronRun(schedule, 0)) \in Nat
    BY <1>0, NextRun
  <2>5. SilenceIsNoticed
    BY <1>0, <1>3, <2>1, <2>2, <2>4 DEF SilenceIsNoticed, Greatest
  <2>6. DeadlineTypeOK
    BY <1>6, <1>9, <2>1, <2>2 DEF Instant
  <2>7. PastIsPast
    BY <1>0 DEF PastIsPast
  <2> QED
    BY <2>3, <2>5, <2>6, <2>7 DEF DeadlineInv
<1> QED
  BY <1>5, <1>6

LEMMA CompletionStep == DeadlineInv /\ CompletionPing => DeadlineInv'
<1> SUFFICES ASSUME DeadlineInv, CompletionPing PROVE DeadlineInv'
  OBVIOUS
<1>1. /\ clock \in Nat /\ jump \in Jumps /\ jump \in Nat /\ schedule \in Schedules
      /\ graceTime \in GraceTimes /\ reported \in Nat /\ DeadlineTypeOK
  BY DeadlineAssumption DEF DeadlineAssumption, DeadlineInv, DeadlineTypeOK
<1> DEFINE d == AfterPing(schedule, graceTime, clock)
<1>2. PICK r \in Runs : reported' = r
  BY DEF CompletionPing
<1>3. r \in Nat /\ r \in 0 .. clock + MaxSkew + Shift
  BY <1>1, DeadlineAssumption DEF DeadlineAssumption, Runs
<1>4. r < nextExpectedCronRun(schedule, clock) /\ nextExpectedCronRun(schedule, clock) \in Nat
  BY <1>1, ReportedIsPast, ExpectedRun
<1>5. Awaits(d, schedule, graceTime, clock) /\ d.expected = nextExpectedCronRun(schedule, clock)
  BY <1>1, PingAwaits
<1>6. /\ Await(d) /\ schedule' = schedule /\ graceTime' = graceTime /\ heard' = clock
      /\ completed' = clock /\ begun' = Unset /\ clock' = clock /\ jump' = jump
      /\ revisions' = revisions /\ down' = FALSE
  BY DEF CompletionPing, settings
<1> HIDE DEF d
<1>7. expected' = nextExpectedCronRun(schedule, clock)
  BY <1>5, <1>6 DEF Await
<1>8. reported' \in Nat /\ reported' \in 0 .. expected' - 1
  BY <1>2, <1>3, <1>4, <1>7
<1>9. /\ expected' \in Instant /\ alarm' \in Instant
      /\ alarm' = Unset => expected' = Unset
      /\ AlarmHasCause' /\ SilenceIsNoticed'
  BY <1>1, <1>5, <1>6, <1>8, AwaitStep
<1>10. PastIsPast'
  BY <1>1, <1>6 DEF PastIsPast
<1>11. DeadlineTypeOK'
  <2>1. clock \in 0 .. Horizon /\ revisions \in 0 .. MaxRevisions
    BY <1>1 DEF DeadlineTypeOK
  <2>2. heard' \in 0 .. clock' /\ reported' \in 0 .. clock' + MaxSkew + Shift
    BY <1>1, <1>2, <1>3, <1>6
  <2>3. completed' \in Instant /\ begun' \in Instant /\ down' \in BOOLEAN
    BY <1>1, <1>6 DEF Instant
  <2> QED
    BY <1>1, <1>6, <1>9, <2>1, <2>2, <2>3 DEF DeadlineTypeOK
<1> QED
  BY <1>9, <1>10, <1>11 DEF DeadlineInv

LEMMA ReviseStep == DeadlineInv /\ Revise => DeadlineInv'
<1> SUFFICES ASSUME DeadlineInv, Revise PROVE DeadlineInv'
  OBVIOUS
<1>1. /\ clock \in Nat /\ revisions \in Nat /\ revisions < MaxRevisions /\ MaxRevisions \in Nat
      /\ MaxSkew + Shift \in Nat /\ DeadlineTypeOK /\ PastIsPast
  BY DeadlineAssumption DEF DeadlineAssumption, DeadlineInv, DeadlineTypeOK, Revise
<1>2. PICK s \in Schedules, g \in GraceTimes :
        schedule' = s /\ graceTime' = g /\ Await(AfterEdit(s, g, alarm # Unset))
  BY DEF Revise
<1> DEFINE d == AfterEdit(s, g, alarm # Unset)
<1>3. Awaits(d, s, g, clock)
  BY <1>1, EditAwaits
<1>4. /\ heard' = clock /\ reported' = clock /\ revisions' = revisions + 1
      /\ clock' = clock /\ jump' = jump /\ down' = down /\ completed' = completed
      /\ begun' = begun
  BY DEF Revise
<1>5. Await(d)
  BY <1>2
<1> HIDE DEF d
<1>6. reported' \in 0 .. expected' - 1 \/ expected' = Unset
  BY <1>1, <1>3, <1>4, <1>5 DEF Awaits, Await
<1>7. /\ expected' \in Instant /\ alarm' \in Instant
      /\ alarm' = Unset => expected' = Unset
      /\ AlarmHasCause' /\ SilenceIsNoticed'
  BY <1>1, <1>2, <1>3, <1>4, <1>5, <1>6, AwaitStep
<1>8. PastIsPast'
  BY <1>1, <1>4 DEF PastIsPast
<1>9. DeadlineTypeOK'
  BY <1>1, <1>2, <1>4, <1>7, DeadlineAssumption DEF DeadlineAssumption, DeadlineTypeOK
<1> QED
  BY <1>7, <1>8, <1>9 DEF DeadlineInv

LEMMA StartStep == DeadlineInv /\ StartPing => DeadlineInv'
<1> SUFFICES ASSUME DeadlineInv, StartPing PROVE DeadlineInv'
  OBVIOUS
<1> DEFINE end == clock + Runtime
<1>1. /\ clock \in Nat /\ heard \in Nat /\ heard <= clock /\ Runtime \in Nat /\ Unset \notin Nat
      /\ reported \in Nat /\ graceTime \in Nat /\ schedule \in Schedules
      /\ alarm \in Nat \cup {Unset} /\ expected \in Nat \cup {Unset}
      /\ begun \in Nat \cup {Unset} /\ (begun # Unset => begun <= clock)
      /\ DeadlineTypeOK /\ PastIsPast /\ AlarmHasCause /\ SilenceIsNoticed
  BY DeadlineAssumption DEF DeadlineAssumption, DeadlineInv, DeadlineTypeOK, Instant, PastIsPast
<1>2. /\ Await(AfterStart(clock)) /\ heard' = clock
      /\ begun' = (IF begun = Unset THEN clock ELSE begun)
      /\ clock' = clock /\ jump' = jump /\ schedule' = schedule /\ graceTime' = graceTime
      /\ revisions' = revisions /\ down' = down /\ completed' = completed
      /\ reported' = reported
  BY DEF StartPing, settings
<1>3. expected' = expected
  BY <1>2 DEF Await, AfterStart
<1>4. end \in Nat /\ begun' \in Nat /\ begun' <= clock /\ begun' + Runtime <= end
  BY <1>1, <1>2
<1>5. \/ alarm' = end
      \/ alarm \in Nat /\ alarm < end /\ alarm' = alarm
  BY <1>1, <1>2 DEF Await, AfterStart, Least
<1> HIDE DEF end
<1>6. alarm' \in Nat /\ alarm' <= end
  BY <1>4, <1>5
<1>7. AlarmHasCause'
  <2>1. CASE alarm' = end
    BY <1>1, <1>4, <2>1 DEF AlarmHasCause
  <2>2. CASE alarm \in Nat /\ alarm' = alarm
    <3>1. CASE begun # Unset /\ begun + Runtime <= alarm
      BY <1>1, <1>2, <1>4, <2>2, <3>1 DEF AlarmHasCause
    <3>2. CASE \E r \in reported + 1 .. alarm : IsRun(schedule, r) /\ r + graceTime <= alarm
      BY <1>2, <2>2, <3>2 DEF AlarmHasCause
    <3> QED
      BY <1>1, <2>2, <3>1, <3>2 DEF AlarmHasCause
  <2> QED
    BY <1>5, <2>1, <2>2
<1>8. SilenceIsNoticed'
  <2>1. nextCronRun(schedule, nextCronRun(schedule, clock)) \in Nat
    BY <1>1, NextRun
  <2> QED
    BY <1>1, <1>2, <1>4, <1>6, <2>1 DEF SilenceIsNoticed, Greatest, end
<1>9. PastIsPast'
  BY <1>1, <1>2, <1>4 DEF PastIsPast
<1>10. DeadlineTypeOK'
  BY <1>1, <1>2, <1>3, <1>4, <1>6 DEF DeadlineTypeOK, Instant
<1> QED
  BY <1>7, <1>8, <1>9, <1>10 DEF DeadlineInv

LEMMA DeadlineStep == DeadlineInv /\ [DeadlineNext]_deadlineVars => DeadlineInv'
<1> SUFFICES ASSUME DeadlineInv, [DeadlineNext]_deadlineVars PROVE DeadlineInv'
  OBVIOUS
<1>1. CASE CompletionPing
  BY <1>1, CompletionStep
<1>2. CASE StartPing
  BY <1>2, StartStep
<1>3. CASE Revise
  BY <1>3, ReviseStep
<1>4. CASE GoDown
  BY <1>4 DEF GoDown, settings, DeadlineInv, DeadlineTypeOK, PastIsPast, AlarmHasCause,
              SilenceIsNoticed
<1>5. CASE PassHalfMinute
  <2>1. /\ clock \in Nat /\ clock' = clock + 1 /\ clock' \in 0 .. Horizon /\ completed' = completed
        /\ begun' = begun /\ MaxSkew + Shift \in Nat
    BY <1>5, DeadlineAssumption DEF DeadlineAssumption, DeadlineInv, DeadlineTypeOK, PassHalfMinute
  <2>2. /\ jump' = jump /\ schedule' = schedule /\ graceTime' = graceTime
        /\ revisions' = revisions /\ expected' = expected /\ alarm' = alarm /\ down' = down
        /\ heard' = heard /\ reported' = reported
    BY <1>5 DEF PassHalfMinute, settings
  <2>3. heard \in 0 .. clock /\ reported \in 0 .. clock + MaxSkew + Shift
    BY DEF DeadlineInv, DeadlineTypeOK
  <2>4. heard \in 0 .. clock + 1 /\ reported \in 0 .. clock + 1 + MaxSkew + Shift
    BY <2>1, <2>3, DeadlineAssumption DEF DeadlineAssumption
  <2>5. DeadlineTypeOK'
    BY <2>1, <2>2, <2>4 DEF DeadlineInv, DeadlineTypeOK
  <2>6. PastIsPast'
    BY <2>1 DEF DeadlineInv, DeadlineTypeOK, PastIsPast, Instant
  <2>7. AlarmHasCause' /\ SilenceIsNoticed'
    BY <2>1, <2>2 DEF DeadlineInv, AlarmHasCause, SilenceIsNoticed
  <2> QED
    BY <2>5, <2>6, <2>7 DEF DeadlineInv
<1>6. CASE UNCHANGED deadlineVars
  BY <1>6 DEF deadlineVars, DeadlineInv, DeadlineTypeOK, PastIsPast, AlarmHasCause,
              SilenceIsNoticed
<1> QED
  BY <1>1, <1>2, <1>3, <1>4, <1>5, <1>6 DEF DeadlineNext

\* The deadlines of CronDeadlines keep their invariant, whatever the schedules, the grace,
\* the jump of the clocks and the order of pings, sweeps and edits.
THEOREM DeadlineInvariant == DeadlineSpec => []DeadlineInv
<1>1. DeadlineInit => DeadlineInv
  BY DeadlineInitInv
<1>2. DeadlineInv /\ [DeadlineNext]_deadlineVars => DeadlineInv'
  BY DeadlineStep
<1> QED
  BY <1>1, <1>2, PTL DEF DeadlineSpec

\* A job that falls silent is noticed: the deadline of a heartbeat is never later than
\* the second run after the last thing heard of it and its grace, or the end of a run.
THEOREM SilenceNoticed == DeadlineSpec => []SilenceIsNoticed
<1>1. DeadlineInv => SilenceIsNoticed
  BY DEF DeadlineInv
<1> QED
  BY <1>1, DeadlineInvariant, PTL

\* Nobody is paged for a job that does its work: a heartbeat goes down only over a run
\* not reported within its grace, or one that outlasted its time.
THEOREM NobodyPagedInVain == DeadlineSpec => NoFalseAlarm
<1>1. DeadlineInv /\ [DeadlineNext]_deadlineVars => [down' /\ ~down => Overdue]_deadlineVars
  <2> SUFFICES ASSUME DeadlineInv, DeadlineNext, down', ~down PROVE Overdue
    BY DEF deadlineVars
  <2>1. alarm # Unset /\ alarm <= clock
    BY DEF DeadlineNext, CompletionPing, StartPing, GoDown, Revise, PassHalfMinute
  <2>2. /\ alarm \in Nat /\ clock \in Nat /\ reported \in Nat /\ graceTime \in Nat
        /\ Runtime \in Nat /\ (begun # Unset => begun \in Nat) /\ AlarmHasCause
    BY <2>1, DeadlineAssumption DEF DeadlineAssumption, DeadlineInv, DeadlineTypeOK, Instant
  <2>3. CASE begun # Unset /\ begun + Runtime <= alarm
    BY <2>1, <2>2, <2>3 DEF Overdue
  <2>4. CASE \E r \in reported + 1 .. alarm : IsRun(schedule, r) /\ r + graceTime <= alarm
    BY <2>1, <2>2, <2>4 DEF Overdue
  <2> QED
    BY <2>1, <2>2, <2>3, <2>4 DEF AlarmHasCause
<1> QED
  BY <1>1, DeadlineInvariant, PTL DEF DeadlineSpec, NoFalseAlarm

------------------------------------------------

------------------------------------------------------------------------------
(***************************************************************************)
(* JobListSpec of Crontab, for crontabs of any length, any texts, labels   *)
(* and marks.                                                              *)
(*                                                                         *)
(* The heart is that lines written back are read as the same jobs          *)
(* (RoundTrip), whatever label lines stand around them: by induction over  *)
(* the lines written, the file so far lists the jobs so far, has no two    *)
(* label lines in a row, and ends in a label line only if that one stands  *)
(* for the job to come.  An edit is then one of the list of jobs, since    *)
(* the jobs before and after the line edited keep their rows.              *)
(***************************************************************************)

(* Induction along a sequence *)

\* Induction up to n.
LEMMA UpTo ==
  ASSUME NEW n \in Nat, NEW T, 0 \in T,
         \A k \in 0 .. n : k \in T /\ k # n => k + 1 \in T
  PROVE  \A k \in 0 .. n : k \in T
<1> DEFINE Bad == {k \in 0 .. n : k \notin T}
<1>1. SUFFICES ASSUME Bad # {} PROVE FALSE
  OBVIOUS
<1>2. PICK x \in Bad : \A y \in Bad : x <= y
  <2>1. Bad \subseteq Nat
    OBVIOUS
  <2> HIDE DEF Bad
  <2> QED
    BY <1>1, <2>1, LeastNumber, Zenon
<1>3. x - 1 \in 0 .. n /\ x - 1 # n /\ x = (x - 1) + 1
  BY <1>2
<1>4. x - 1 \in T
  BY <1>2, <1>3
<1> QED
  BY <1>2, <1>3, <1>4

(* FlattenSeq *)

\* The accumulating function in the definition of FlattenSeq, up to n.
Flattens(f, ss, n) ==
  f = [i \in 1 .. n |-> IF i = 1 THEN ss[i] ELSE f[i - 1] \o ss[i]]

\* Two sequences of sequences agree up to n.
Agree(ss, tt, n) == \A i \in 1 .. n : ss[i] = tt[i]

LEMMA FlattenAt ==
  ASSUME NEW f, NEW ss, NEW n, Flattens(f, ss, n), NEW i \in 1 .. n
  PROVE  f[i] = IF i = 1 THEN ss[i] ELSE f[i - 1] \o ss[i]
  BY DEF Flattens

LEMMA FlattenExists ==
  ASSUME NEW ss, NEW n \in Nat
  PROVE  \E f : Flattens(f, ss, n)
<1> DEFINE T == {k \in 0 .. n : \E f : Flattens(f, ss, k)}
<1>1. 0 \in T
  <2>1. Flattens([i \in 1 .. 0 |-> 0], ss, 0)
    BY DEF Flattens
  <2> QED
    BY <2>1
<1>2. ASSUME NEW k \in 0 .. n, k \in T, k # n PROVE k + 1 \in T
  <2>1. PICK f : Flattens(f, ss, k)
    BY <1>2
  <2> DEFINE g == [i \in 1 .. k + 1 |-> IF i = 1 THEN ss[i] ELSE f[i - 1] \o ss[i]]
  <2>2. ASSUME NEW i \in 1 .. k PROVE g[i] = f[i]
    <3>1. f[i] = IF i = 1 THEN ss[i] ELSE f[i - 1] \o ss[i]
      BY <2>1, FlattenAt
    <3> QED
      BY <3>1
  <2>3. ASSUME NEW i \in 1 .. k + 1, i # 1 PROVE f[i - 1] = g[i - 1]
    <3>1. i - 1 \in 1 .. k
      BY <2>3
    <3> QED
      BY <3>1, <2>2
  <2>4. g = [i \in 1 .. k + 1 |-> IF i = 1 THEN ss[i] ELSE g[i - 1] \o ss[i]]
    <3> DEFINE h == [i \in 1 .. k + 1 |-> IF i = 1 THEN ss[i] ELSE g[i - 1] \o ss[i]]
    <3>1. ASSUME NEW i \in 1 .. k + 1 PROVE g[i] = h[i]
      <4>1. CASE i = 1
        BY <4>1
      <4>2. CASE i # 1
        BY <4>2, <2>3
      <4> QED
        BY <4>1, <4>2
    <3> QED
      BY <3>1
  <2> HIDE DEF g
  <2>5. Flattens(g, ss, k + 1)
    BY <2>4 DEF Flattens
  <2> QED
    BY <2>5, <1>2
<1> HIDE DEF T
<1>3. n \in T
  BY <1>1, <1>2, UpTo
<1> QED
  BY <1>3 DEF T

LEMMA FlattenUnique ==
  ASSUME NEW ss, NEW tt, NEW n \in Nat, NEW m \in Nat, n <= m,
         Agree(ss, tt, n),
         NEW f, NEW g, Flattens(f, ss, n), Flattens(g, tt, m), n # 0
  PROVE  f[n] = g[n]
<1> DEFINE T == {k \in 0 .. n : k = 0 \/ f[k] = g[k]}
<1>1. 0 \in T
  OBVIOUS
<1>2. ASSUME NEW k \in 0 .. n, k \in T, k # n PROVE k + 1 \in T
  <2>1. k + 1 \in 1 .. n /\ k + 1 \in 1 .. m
    BY <1>2
  <2>2. f[k + 1] = IF k + 1 = 1 THEN ss[k + 1] ELSE f[(k + 1) - 1] \o ss[k + 1]
    BY <2>1 DEF Flattens
  <2>3. g[k + 1] = IF k + 1 = 1 THEN tt[k + 1] ELSE g[(k + 1) - 1] \o tt[k + 1]
    BY <2>1 DEF Flattens
  <2>4. (k + 1) - 1 = k
    OBVIOUS
  <2>5. ss[k + 1] = tt[k + 1]
    BY <2>1 DEF Agree
  <2>6. f[k + 1] = g[k + 1]
    <3>1. CASE k = 0
      BY <3>1, <2>2, <2>3, <2>5
    <3>2. CASE k # 0
      BY <3>2, <1>2, <2>2, <2>3, <2>4, <2>5
    <3> QED
      BY <3>1, <3>2
  <2> QED
    BY <2>1, <2>6
<1> HIDE DEF T
<1>3. \A k \in 0 .. n : k \in T
  BY <1>1, <1>2, UpTo
<1> QED
  BY <1>3 DEF T

LEMMA FlattenIs ==
  ASSUME NEW ss, Len(ss) \in Nat, Len(ss) # 0
  PROVE  \E f : Flattens(f, ss, Len(ss)) /\ FlattenSeq(ss) = f[Len(ss)]
<1> DEFINE F == CHOOSE f : Flattens(f, ss, Len(ss))
<1>1. Flattens(F, ss, Len(ss))
  BY FlattenExists
<1>2. FlattenSeq(ss) = F[Len(ss)]
  BY DEF FlattenSeq, Flattens
<1> QED
  BY <1>1, <1>2

LEMMA FlattenNone == FlattenSeq(<<>>) = <<>>
  BY EmptySeq DEF FlattenSeq

LEMMA FlattenMore ==
  ASSUME NEW A, NEW ss \in Seq(Seq(A)), NEW s \in Seq(A)
  PROVE  FlattenSeq(Append(ss, s)) = FlattenSeq(ss) \o s
<1> DEFINE tt == Append(ss, s)
<1>1. /\ tt \in Seq(Seq(A)) /\ Len(tt) = Len(ss) + 1 /\ Len(ss) \in Nat
      /\ \A i \in 1 .. Len(ss) : ss[i] = tt[i]
      /\ tt[Len(ss) + 1] = s
  BY AppendProperties, LenProperties
<1> HIDE DEF tt
<1>2. PICK g : Flattens(g, tt, Len(tt)) /\ FlattenSeq(tt) = g[Len(tt)]
  BY <1>1, FlattenIs
<1>3. CASE Len(ss) = 0
  <2>1. ss = <<>>
    BY <1>3, EmptySeq
  <2>2. g[Len(tt)] = tt[1] /\ tt[1] = s
    BY <1>1, <1>2, <1>3 DEF Flattens
  <2>3. <<>> \o s = s
    BY ConcatEmptySeq
  <2> QED
    BY <1>2, <2>1, <2>2, <2>3, FlattenNone DEF tt
<1>4. CASE Len(ss) # 0
  <2>1. PICK f : Flattens(f, ss, Len(ss)) /\ FlattenSeq(ss) = f[Len(ss)]
    BY <1>1, <1>4, FlattenIs
  <2>2. f[Len(ss)] = g[Len(ss)]
    <3>1. Len(ss) <= Len(tt) /\ Len(ss) \in Nat /\ Len(tt) \in Nat
      BY <1>1
    <3>a. Flattens(f, ss, Len(ss)) /\ Flattens(g, tt, Len(tt))
      BY <1>2, <2>1
    <3>b. Agree(ss, tt, Len(ss))
      BY <1>1 DEF Agree
    <3> QED
      BY <3>a, <3>b, <3>1, <1>4, FlattenUnique, SMT
  <2>3. g[Len(tt)] = g[Len(ss)] \o s
    <3>1. Len(tt) \in 1 .. Len(tt) /\ Len(tt) # 1 /\ Len(tt) - 1 = Len(ss)
      BY <1>1, <1>4
    <3>2. g[Len(tt)] = IF Len(tt) = 1 THEN tt[Len(tt)] ELSE g[Len(tt) - 1] \o tt[Len(tt)]
      BY <1>2, <3>1 DEF Flattens
    <3> QED
      BY <3>1, <3>2, <1>1
  <2> QED
    BY <1>2, <2>1, <2>2, <2>3 DEF tt
<1> QED
  BY <1>3, <1>4

(* Prefixes *)

LEMMA Prefix ==
  ASSUME NEW S, NEW seq \in Seq(S), NEW k \in 0 .. Len(seq)
  PROVE  /\ SubSeq(seq, 1, k) \in Seq(S)
         /\ Len(SubSeq(seq, 1, k)) = k
         /\ \A i \in 1 .. k : SubSeq(seq, 1, k)[i] = seq[i]
<1>1. Len(seq) \in Nat /\ \A i \in 1 .. k : seq[i] \in S
  BY LenProperties, ElementOfSeq
<1>2. /\ SubSeq(seq, 1, k) \in Seq(S)
      /\ Len(SubSeq(seq, 1, k)) = IF 1 <= k THEN k - 1 + 1 ELSE 0
      /\ \A i \in 1 .. k - 1 + 1 : SubSeq(seq, 1, k)[i] = seq[1 + i - 1]
  BY <1>1, SubSeqProperties
<1> QED
  BY <1>1, <1>2

LEMMA PrefixGrows ==
  ASSUME NEW S, NEW seq \in Seq(S), NEW k \in 0 .. Len(seq), k # Len(seq)
  PROVE  /\ SubSeq(seq, 1, k + 1) = Append(SubSeq(seq, 1, k), seq[k + 1])
         /\ seq[k + 1] \in S
         /\ k + 1 \in 1 .. Len(seq)
<1>1. Len(seq) \in Nat
  BY LenProperties
<1>2. k + 1 \in 1 .. Len(seq) /\ 1 \in 1 .. Len(seq) /\ (k + 1) - 1 = k
  BY <1>1
<1>3. SubSeq(seq, 1, k + 1) = SubSeq(seq, 1, (k + 1) - 1) \o <<seq[k + 1]>>
  <2>1. k + 1 \in 1 .. Len(seq)
    BY <1>2
  <2> QED
    BY <1>2, SubSeqRecursiveSecond
<1>4. seq[k + 1] \in S
  BY <1>2, ElementOfSeq
<1>5. SubSeq(seq, 1, k) \in Seq(S)
  BY Prefix
<1>6. Append(SubSeq(seq, 1, k), seq[k + 1]) = SubSeq(seq, 1, k) \o <<seq[k + 1]>>
  BY <1>4, <1>5, AppendIsConcat
<1> QED
  BY <1>2, <1>3, <1>4, <1>6

LEMMA FlattenPrefix ==
  ASSUME NEW A, NEW ss \in Seq(Seq(A)), NEW k \in 0 .. Len(ss), k # Len(ss)
  PROVE  /\ FlattenSeq(SubSeq(ss, 1, k + 1)) = FlattenSeq(SubSeq(ss, 1, k)) \o ss[k + 1]
         /\ ss[k + 1] \in Seq(A)
<1>1. SubSeq(ss, 1, k + 1) = Append(SubSeq(ss, 1, k), ss[k + 1]) /\ ss[k + 1] \in Seq(A)
  BY PrefixGrows
<1>2. SubSeq(ss, 1, k) \in Seq(Seq(A))
  BY Prefix
<1> QED
  BY <1>1, <1>2, FlattenMore

LEMMA FlattenType ==
  ASSUME NEW A, NEW ss \in Seq(Seq(A))
  PROVE  FlattenSeq(ss) \in Seq(A)
<1>0. Len(ss) \in Nat
  BY LenProperties
<1> DEFINE T == {k \in 0 .. Len(ss) : FlattenSeq(SubSeq(ss, 1, k)) \in Seq(A)}
<1>1. 0 \in T
  <2>1. SubSeq(ss, 1, 0) = <<>>
    BY SubSeqEmpty
  <2>2. <<>> \in Seq(A)
    BY EmptySeq
  <2>3. FlattenSeq(SubSeq(ss, 1, 0)) \in Seq(A)
    BY <2>1, <2>2, FlattenNone, Zenon
  <2> QED
    BY <1>0, <2>3
<1>2. ASSUME NEW k \in 0 .. Len(ss), k \in T, k # Len(ss) PROVE k + 1 \in T
  <2>1. FlattenSeq(SubSeq(ss, 1, k)) \in Seq(A)
    BY <1>2
  <2>2. /\ FlattenSeq(SubSeq(ss, 1, k + 1)) = FlattenSeq(SubSeq(ss, 1, k)) \o ss[k + 1]
        /\ ss[k + 1] \in Seq(A)
    BY <1>2, FlattenPrefix
  <2>3. FlattenSeq(SubSeq(ss, 1, k + 1)) \in Seq(A)
    BY <2>1, <2>2, ConcatProperties
  <2>4. k + 1 \in 0 .. Len(ss)
    BY <1>0, <1>2
  <2> QED
    BY <2>3, <2>4
<1> HIDE DEF T
<1>3. Len(ss) \in T
  <2>1. \A k \in 0 .. Len(ss) : k \in T
    BY <1>0, <1>1, <1>2, UpTo, Zenon
  <2> QED
    BY <1>0, <2>1
<1>4. SubSeq(ss, 1, Len(ss)) = ss
  BY SubSeqFull
<1> QED
  BY <1>3, <1>4 DEF T

(* The jobs among parsed lines *)

\* The lines the editor works on, and the row of the job on one.
EditorLine ==
  {[type |-> "other"]} \cup {LabelLine(m) : m \in Name}
    \cup {Entry(t, m) : t \in Texts, m \in Name}

JobRow == [text : Texts, label : Labels \cup {Unnamed}, mark : Marks \cup {Unnamed}]
RowOf(l) == [text |-> l.text, label |-> l.label, mark |-> l.mark]
Rows(l) == IF l.type = "job" THEN <<RowOf(l)>> ELSE <<>>

\* A parsed line is a job with a name, a label line, or neither.
LineIsOne(l) ==
  /\ Rows(l) \in Seq(JobRow)
  /\ l.type = "job" => RowOf(l) \in JobRow /\ NameOf(l) \in Name /\ l.text \in Texts
  /\ l.type = "label" => NameOf(l) \in Name /\ l = LabelLine(NameOf(l))
  /\ l.type = "job" \/ l.type = "label" \/ l = [type |-> "other"]

LEMMA RowsType ==
  ASSUME NEW l \in EditorLine
  PROVE  LineIsOne(l)
<1>1. CASE l = [type |-> "other"]
  <2>1. <<>> \in Seq(JobRow)
    BY EmptySeq
  <2>2. l.type = "other"
    BY <1>1
  <2> QED
    BY <1>1, <2>1, <2>2 DEF Rows, LineIsOne
<1>2. ASSUME NEW m \in Name, l = LabelLine(m) PROVE LineIsOne(l)
  <2>1. <<>> \in Seq(JobRow)
    BY EmptySeq
  <2>2. l.type = "label" /\ l.label = m.label /\ l.mark = m.mark
    BY <1>2 DEF LabelLine
  <2>3. NameOf(l) = m
    BY <2>2 DEF NameOf, Name
  <2> QED
    BY <1>2, <2>1, <2>2, <2>3 DEF Rows, LineIsOne
<1>3. ASSUME NEW t \in Texts, NEW m \in Name, l = Entry(t, m) PROVE LineIsOne(l)
  <2>1. l.type = "job" /\ l.text = t /\ l.label = m.label /\ l.mark = m.mark
    BY <1>3 DEF Entry
  <2>2. NameOf(l) = m
    BY <2>1 DEF NameOf, Name
  <2>3. RowOf(l) \in JobRow
    BY <2>1 DEF RowOf, JobRow, Name
  <2>4. <<RowOf(l)>> \in Seq(JobRow)
    BY <2>3
  <2> QED
    BY <2>1, <2>2, <2>3, <2>4 DEF Rows, LineIsOne
<1> QED
  BY <1>1, <1>2, <1>3 DEF EditorLine

LEMMA RowsSeq ==
  ASSUME NEW lines \in Seq(EditorLine)
  PROVE  /\ [i \in DOMAIN lines |-> Rows(lines[i])] \in Seq(Seq(JobRow))
         /\ Len([i \in DOMAIN lines |-> Rows(lines[i])]) = Len(lines)
         /\ Listing(lines) = FlattenSeq([i \in DOMAIN lines |-> Rows(lines[i])])
<1>1. DOMAIN lines = 1 .. Len(lines) /\ Len(lines) \in Nat
  BY LenProperties
<1>2. ASSUME NEW i \in 1 .. Len(lines) PROVE Rows(lines[i]) \in Seq(JobRow)
  BY <1>2, ElementOfSeq, RowsType DEF LineIsOne
<1>3. Listing(lines) = FlattenSeq([i \in DOMAIN lines |-> Rows(lines[i])])
  BY DEF Listing, Rows, RowOf
<1> QED
  BY <1>1, <1>2, <1>3

LEMMA ListingType ==
  ASSUME NEW lines \in Seq(EditorLine)
  PROVE  Listing(lines) \in Seq(JobRow)
  BY RowsSeq, FlattenType

LEMMA ListingNone == Listing(<<>>) = <<>>
<1>1. [i \in DOMAIN <<>> |-> Rows(<<>>[i])] = <<>>
  OBVIOUS
<1> QED
  BY <1>1, FlattenNone DEF Listing, Rows, RowOf

LEMMA ListingMore ==
  ASSUME NEW lines \in Seq(EditorLine), NEW l \in EditorLine
  PROVE  Listing(Append(lines, l)) = Listing(lines) \o Rows(l)
<1> DEFINE more == Append(lines, l)
           ss == [i \in DOMAIN lines |-> Rows(lines[i])]
           tt == [i \in DOMAIN more |-> Rows(more[i])]
<1>1. /\ more \in Seq(EditorLine) /\ Len(more) = Len(lines) + 1
      /\ \A i \in 1 .. Len(lines) : more[i] = lines[i]
      /\ more[Len(lines) + 1] = l
  BY AppendProperties
<1>2. ss \in Seq(Seq(JobRow)) /\ Len(ss) = Len(lines) /\ Listing(lines) = FlattenSeq(ss)
  BY RowsSeq
<1> HIDE DEF more
<1>3. tt \in Seq(Seq(JobRow)) /\ Len(tt) = Len(more) /\ Listing(more) = FlattenSeq(tt)
  BY <1>1, RowsSeq
<1>4. Rows(l) \in Seq(JobRow)
  BY RowsType DEF LineIsOne
<1>5. /\ Append(ss, Rows(l)) \in Seq(Seq(JobRow))
      /\ Len(Append(ss, Rows(l))) = Len(ss) + 1
      /\ \A i \in 1 .. Len(ss) : Append(ss, Rows(l))[i] = ss[i]
      /\ Append(ss, Rows(l))[Len(ss) + 1] = Rows(l)
  <2> HIDE DEF ss
  <2> QED
    BY <1>2, <1>4, AppendProperties
<1>6. DOMAIN lines = 1 .. Len(lines) /\ DOMAIN more = 1 .. Len(more) /\ Len(lines) \in Nat
  BY <1>1, LenProperties
<1>7. ASSUME NEW i \in 1 .. Len(tt) PROVE tt[i] = Append(ss, Rows(l))[i]
  <2>1. tt[i] = Rows(more[i])
    BY <1>3, <1>6
  <2>2. CASE i \in 1 .. Len(lines)
    <3>1. ss[i] = Rows(lines[i])
      BY <2>2, <1>6
    <3> HIDE DEF ss, tt
    <3> QED
      BY <2>1, <2>2, <3>1, <1>1, <1>2, <1>5
  <2>3. CASE i = Len(lines) + 1
    <3> HIDE DEF ss, tt
    <3> QED
      BY <2>1, <2>3, <1>1, <1>2, <1>5
  <2> HIDE DEF ss, tt
  <2>4. i \in 1 .. Len(lines) + 1
    BY <1>1, <1>3, <1>7
  <2>5. i \in 1 .. Len(lines) \/ i = Len(lines) + 1
    BY <1>6, <2>4
  <2> QED
    BY <2>2, <2>3, <2>5
<1> HIDE DEF ss, tt
<1>8. tt = Append(ss, Rows(l))
  BY <1>1, <1>2, <1>3, <1>5, <1>7, SeqEqual
<1> QED
  BY <1>2, <1>3, <1>4, <1>8, FlattenMore DEF more

LEMMA ListingConcat ==
  ASSUME NEW front \in Seq(EditorLine), NEW back \in Seq(EditorLine)
  PROVE  Listing(front \o back) = Listing(front) \o Listing(back)
<1>0. Len(back) \in Nat
  BY LenProperties
<1> DEFINE B(k) == SubSeq(back, 1, k)
           T == {k \in 0 .. Len(back) : Listing(front \o B(k)) = Listing(front) \o Listing(B(k))}
<1>1. 0 \in T
  <2>1. B(0) = <<>>
    BY SubSeqEmpty
  <2>2. front \o <<>> = front
    BY ConcatEmptySeq
  <2>3. Listing(front) \o <<>> = Listing(front)
    BY ListingType, ConcatEmptySeq
  <2> HIDE DEF B
  <2>4. Listing(front \o B(0)) = Listing(front) \o Listing(B(0))
    BY <2>1, <2>2, <2>3, ListingNone, Zenon
  <2> QED
    BY <1>0, <2>4
<1>2. ASSUME NEW k \in 0 .. Len(back), k \in T, k # Len(back) PROVE k + 1 \in T
  <2>0. Listing(front \o B(k)) = Listing(front) \o Listing(B(k))
    BY <1>2
  <2>1. B(k + 1) = Append(B(k), back[k + 1]) /\ back[k + 1] \in EditorLine /\ k + 1 \in 0 .. Len(back)
    BY <1>2, PrefixGrows
  <2>2. B(k) \in Seq(EditorLine)
    BY Prefix
  <2> DEFINE l == back[k + 1]
  <2> HIDE DEF B, l, T
  <2>3. B(k + 1) = B(k) \o <<l>> /\ <<l>> \in Seq(EditorLine) /\ l \in EditorLine
    <3>1. l \in EditorLine /\ B(k + 1) = Append(B(k), l)
      BY <2>1 DEF l
    <3>2. Append(B(k), l) = B(k) \o <<l>>
      BY <2>2, <3>1, AppendIsConcat
    <3> QED
      BY <3>1, <3>2
  <2>4. front \o B(k) \in Seq(EditorLine)
    BY <2>2, ConcatProperties
  <2>5. front \o B(k + 1) = Append(front \o B(k), l)
    <3>1. (front \o B(k)) \o <<l>> = front \o (B(k) \o <<l>>)
      BY <2>2, <2>3, ConcatAssociative
    <3>2. Append(front \o B(k), l) = (front \o B(k)) \o <<l>>
      BY <2>3, <2>4, AppendIsConcat
    <3> QED
      BY <2>3, <3>1, <3>2
  <2>6. Listing(front \o B(k + 1)) = Listing(front \o B(k)) \o Rows(l)
    BY <2>3, <2>4, <2>5, ListingMore
  <2>7. Listing(B(k + 1)) = Listing(B(k)) \o Rows(l)
    BY <2>1, <2>2, ListingMore DEF l
  <2>8. /\ Listing(front) \in Seq(JobRow) /\ Listing(B(k)) \in Seq(JobRow)
        /\ Rows(l) \in Seq(JobRow)
    BY <2>2, <2>3, ListingType, RowsType DEF LineIsOne
  <2>9. (Listing(front) \o Listing(B(k))) \o Rows(l) = Listing(front) \o (Listing(B(k)) \o Rows(l))
    <3> DEFINE X == Listing(front)
               Y == Listing(B(k))
               Z == Rows(l)
    <3>1. X \in Seq(JobRow) /\ Y \in Seq(JobRow) /\ Z \in Seq(JobRow)
      BY <2>8
    <3> HIDE DEF X, Y, Z
    <3>2. (X \o Y) \o Z = X \o (Y \o Z)
      BY <3>1, ConcatAssociative
    <3> QED
      BY <3>2 DEF X, Y, Z
  <2>10. Listing(front \o B(k + 1)) = Listing(front) \o Listing(B(k + 1))
    BY <2>0, <2>6, <2>7, <2>9
  <2> QED
    BY <2>1, <2>10 DEF T
<1>3. B(Len(back)) = back
  BY SubSeqFull
<1>4. Len(back) \in T
  <2> HIDE DEF T
  <2>1. \A k \in 0 .. Len(back) : k \in T
    BY <1>0, <1>1, <1>2, UpTo, Zenon
  <2> QED
    BY <1>0, <2>1
<1> QED
  BY <1>3, <1>4

(* Parsing *)

NameAbove(file, i) == IF IsLabel(file, i - 1) THEN NameOf(file[i - 1]) ELSE NoName

\* What a line becomes when a file is read, and the name a job would take below the last one.
AsParsed(l, name) == IF l.type = "job" THEN Entry(l.text, name) ELSE l
LastName(file) == NameAbove(file, Len(file) + 1)

LEMMA FileLineKind ==
  ASSUME NEW l \in FileLine
  PROVE  /\ l.type = "job" => l.text \in Texts
         /\ l.type = "label" => NameOf(l) \in Name
         /\ l.type # "job" => l \in EditorLine
<1>1. CASE l = [type |-> "other"]
  BY <1>1 DEF EditorLine
<1>2. ASSUME NEW t \in Texts, l = JobLine(t)
      PROVE  l.type = "job" /\ l.text \in Texts
  BY <1>2 DEF JobLine
<1>3. ASSUME NEW m \in Name, l = LabelLine(m)
      PROVE  l.type = "label" /\ NameOf(l) \in Name /\ l \in EditorLine
  <2>1. l.type = "label" /\ l.label = m.label /\ l.mark = m.mark
    BY <1>3 DEF LabelLine
  <2>2. NameOf(l) = m
    BY <2>1 DEF NameOf, Name
  <2> QED
    BY <1>3, <2>1, <2>2 DEF EditorLine
<1> QED
  BY <1>1, <1>2, <1>3 DEF FileLine

LEMMA NoNameIsName == NoName \in Name
  BY DEF NoName, Name

LEMMA NameAboveIsName ==
  ASSUME NEW file \in Seq(FileLine), NEW i
  PROVE  NameAbove(file, i) \in Name
<1>1. CASE IsLabel(file, i - 1)
  <2>1. file[i - 1] \in FileLine /\ file[i - 1].type = "label"
    BY <1>1, LenProperties, ElementOfSeq DEF IsLabel
  <2> QED
    BY <1>1, <2>1, FileLineKind DEF NameAbove
<1> QED
  BY <1>1, NoNameIsName DEF NameAbove

LEMMA AsParsedType ==
  ASSUME NEW l \in FileLine, NEW m \in Name
  PROVE  AsParsed(l, m) \in EditorLine /\ AsParsed(l, m).type = l.type
<1>1. CASE l.type = "job"
  <2>1. l.text \in Texts
    BY <1>1, FileLineKind
  <2>2. Entry(l.text, m) \in EditorLine
    BY <2>1 DEF EditorLine
  <2>3. Entry(l.text, m).type = "job"
    BY DEF Entry
  <2> QED
    BY <1>1, <2>2, <2>3 DEF AsParsed
<1>2. CASE l.type # "job"
  BY <1>2, FileLineKind DEF AsParsed
<1> QED
  BY <1>1, <1>2

LEMMA ParsedAt ==
  ASSUME NEW file \in Seq(FileLine), NEW i \in 1 .. Len(file)
  PROVE  parseCrontab(file)[i] = AsParsed(file[i], NameAbove(file, i))
<1>1. DOMAIN file = 1 .. Len(file)
  BY LenProperties
<1> QED
  BY <1>1 DEF parseCrontab, AsParsed, NameAbove, IsJob

LEMMA ParsedLines ==
  ASSUME NEW file \in Seq(FileLine)
  PROVE  /\ parseCrontab(file) \in Seq(EditorLine)
         /\ Len(parseCrontab(file)) = Len(file)
         /\ \A i \in 1 .. Len(file) : parseCrontab(file)[i].type = file[i].type
<1>1. DOMAIN file = 1 .. Len(file) /\ Len(file) \in Nat
  BY LenProperties
<1>2. ASSUME NEW i \in 1 .. Len(file)
      PROVE  /\ parseCrontab(file)[i] \in EditorLine
             /\ parseCrontab(file)[i].type = file[i].type
  <2>1. file[i] \in FileLine /\ NameAbove(file, i) \in Name
    BY ElementOfSeq, NameAboveIsName
  <2>2. parseCrontab(file)[i] = AsParsed(file[i], NameAbove(file, i))
    BY ParsedAt
  <2> QED
    BY <2>1, <2>2, AsParsedType
<1> DEFINE P == parseCrontab(file)
<1>3. P = [i \in 1 .. Len(file) |-> P[i]]
  BY <1>1 DEF parseCrontab
<1>4. \A i \in 1 .. Len(file) : P[i] \in EditorLine
  BY <1>2
<1> HIDE DEF P
<1>5. P \in Seq(EditorLine) /\ Len(P) = Len(file)
  <2>1. P \in [1 .. Len(file) -> EditorLine]
    BY <1>3, <1>4
  <2> QED
    BY <1>1, <2>1
<1> QED
  BY <1>2, <1>5 DEF P

LEMMA ParseMore ==
  ASSUME NEW file \in Seq(FileLine), NEW l \in FileLine
  PROVE  /\ parseCrontab(Append(file, l))
              = Append(parseCrontab(file), AsParsed(l, LastName(file)))
         /\ AsParsed(l, LastName(file)) \in EditorLine
<1> DEFINE more == Append(file, l)
           e == AsParsed(l, LastName(file))
<1>1. /\ more \in Seq(FileLine) /\ Len(more) = Len(file) + 1
      /\ \A i \in 1 .. Len(file) : more[i] = file[i]
      /\ more[Len(file) + 1] = l
  BY AppendProperties
<1>2. e \in EditorLine
  BY NameAboveIsName, AsParsedType DEF LastName
<1>3. Len(file) \in Nat /\ DOMAIN file = 1 .. Len(file) /\ DOMAIN more = 1 .. Len(more)
  BY <1>1, LenProperties
<1> HIDE DEF more, e
<1>4. ASSUME NEW i \in 1 .. Len(file) + 1 PROVE NameAbove(more, i) = NameAbove(file, i)
  <2>1. i - 1 \in DOMAIN more <=> i - 1 \in DOMAIN file
    BY <1>1, <1>3
  <2>2. i - 1 \in DOMAIN file => more[i - 1] = file[i - 1]
    BY <1>1, <1>3
  <2> QED
    BY <2>1, <2>2 DEF NameAbove, IsLabel
<1>5. /\ parseCrontab(file) \in Seq(EditorLine) /\ Len(parseCrontab(file)) = Len(file)
      /\ parseCrontab(more) \in Seq(EditorLine) /\ Len(parseCrontab(more)) = Len(file) + 1
  BY <1>1, ParsedLines
<1>6. /\ Append(parseCrontab(file), e) \in Seq(EditorLine)
      /\ Len(Append(parseCrontab(file), e)) = Len(file) + 1
      /\ \A i \in 1 .. Len(file) : Append(parseCrontab(file), e)[i] = parseCrontab(file)[i]
      /\ Append(parseCrontab(file), e)[Len(file) + 1] = e
  <2>1. Len(parseCrontab(file)) = Len(file) /\ parseCrontab(file) \in Seq(EditorLine)
    BY <1>5
  <2> QED
    BY <1>2, <2>1, AppendProperties
<1>7. ASSUME NEW i \in 1 .. Len(file) + 1
      PROVE  parseCrontab(more)[i] = Append(parseCrontab(file), e)[i]
  <2>1. parseCrontab(more)[i] = AsParsed(more[i], NameAbove(file, i))
    BY <1>1, <1>4, ParsedAt
  <2>2. CASE i \in 1 .. Len(file)
    <3>1. parseCrontab(file)[i] = AsParsed(file[i], NameAbove(file, i))
      BY <2>2, ParsedAt
    <3> QED
      BY <2>1, <2>2, <3>1, <1>1, <1>6
  <2>3. CASE i = Len(file) + 1
    BY <2>1, <2>3, <1>1, <1>6 DEF e, LastName
  <2>4. i \in 1 .. Len(file) \/ i = Len(file) + 1
    BY <1>3
  <2> QED
    BY <2>2, <2>3, <2>4
<1>8. parseCrontab(more) = Append(parseCrontab(file), e)
  BY <1>5, <1>6, <1>7, SeqEqual
<1> QED
  BY <1>2, <1>8 DEF more, e

LEMMA JobsMore ==
  ASSUME NEW file \in Seq(FileLine), NEW l \in FileLine
  PROVE  JobsOf(Append(file, l)) = JobsOf(file) \o Rows(AsParsed(l, LastName(file)))
<1>1. parseCrontab(file) \in Seq(EditorLine)
  BY ParsedLines
<1> QED
  BY <1>1, ParseMore, ListingMore DEF JobsOf

(* Writing the lines back *)

\* The last line is a label line; line k is one that is written.
EndsInLabel(file) == IsLabel(file, Len(file))
StandsAt(lines, k) == IsLabel(lines, k) /\ LabelStands(lines, k)

\* The first k lines have been written to the file.
WrittenTo(lines, k, file) ==
  /\ file \in Seq(FileLine)
  /\ ~Stacked(file)
  /\ JobsOf(file) = Listing(SubSeq(lines, 1, k))
  /\ EndsInLabel(file) <=> StandsAt(lines, k)
  /\ StandsAt(lines, k) => file[Len(file)] = lines[k]

LEMMA LastNameIs ==
  ASSUME NEW file \in Seq(FileLine)
  PROVE  /\ EndsInLabel(file) => LastName(file) = NameOf(file[Len(file)])
         /\ ~EndsInLabel(file) => LastName(file) = NoName
<1>1. (Len(file) + 1) - 1 = Len(file)
  BY LenProperties
<1> QED
  BY <1>1 DEF LastName, NameAbove, EndsInLabel

LEMMA AppendLine ==
  ASSUME NEW S, NEW file \in Seq(S), ~Stacked(file), NEW l \in S,
         l.type = "label" => ~EndsInLabel(file)
  PROVE  /\ Append(file, l) \in Seq(S)
         /\ ~Stacked(Append(file, l))
         /\ EndsInLabel(Append(file, l)) <=> l.type = "label"
         /\ Append(file, l)[Len(Append(file, l))] = l
<1> DEFINE more == Append(file, l)
<1>1. /\ more \in Seq(S) /\ Len(more) = Len(file) + 1
      /\ \A i \in 1 .. Len(file) : more[i] = file[i]
      /\ more[Len(file) + 1] = l
  BY AppendProperties
<1> HIDE DEF more
<1>2. Len(file) \in Nat /\ DOMAIN file = 1 .. Len(file) /\ DOMAIN more = 1 .. Len(more)
  BY <1>1, LenProperties
<1>3. EndsInLabel(more) <=> l.type = "label"
  BY <1>1, <1>2 DEF EndsInLabel, IsLabel
<1>4. ASSUME NEW i \in DOMAIN more, IsLabel(more, i), IsLabel(more, i + 1) PROVE FALSE
  <2>1. i \in 1 .. Len(file) + 1 /\ i + 1 \in 1 .. Len(file) + 1
    BY <1>1, <1>2, <1>4 DEF IsLabel
  <2>2. i \in 1 .. Len(file) /\ IsLabel(file, i)
    BY <1>1, <1>2, <1>4, <2>1 DEF IsLabel
  <2>3. CASE i + 1 \in 1 .. Len(file)
    <3>1. IsLabel(file, i + 1)
      BY <1>1, <1>2, <1>4, <2>3 DEF IsLabel
    <3> QED
      BY <2>2, <3>1, <1>2 DEF Stacked
  <2>4. CASE i + 1 = Len(file) + 1
    <3>1. i = Len(file)
      BY <1>2, <2>1, <2>4
    <3>2. l.type = "label"
      BY <1>1, <1>4, <2>4 DEF IsLabel
    <3> QED
      BY <2>2, <3>1, <3>2 DEF EndsInLabel
  <2>5. i + 1 \in 1 .. Len(file) \/ i + 1 = Len(file) + 1
    BY <1>2, <2>1
  <2> QED
    BY <2>3, <2>4, <2>5
<1>5. ~Stacked(more)
  BY <1>4 DEF Stacked
<1> QED
  BY <1>1, <1>3, <1>5 DEF more

LEMMA JobLineParsed ==
  ASSUME NEW l \in EditorLine, l.type = "job"
  PROVE  /\ JobLine(l.text) \in FileLine
         /\ JobLine(l.text).type = "job"
         /\ Rows(AsParsed(JobLine(l.text), NameOf(l))) = Rows(l)
<1>1. l.text \in Texts /\ NameOf(l) \in Name
  BY RowsType DEF LineIsOne
<1>2. JobLine(l.text).type = "job" /\ JobLine(l.text).text = l.text
  BY DEF JobLine
<1>3. JobLine(l.text) \in FileLine
  BY <1>1 DEF FileLine
<1> DEFINE e == Entry(l.text, NameOf(l))
<1>4. AsParsed(JobLine(l.text), NameOf(l)) = e
  BY <1>2 DEF AsParsed
<1>5. e.type = "job" /\ e.text = l.text /\ e.label = l.label /\ e.mark = l.mark
  BY DEF Entry, NameOf
<1>6. Rows(e) = Rows(l)
  <2> HIDE DEF e
  <2> QED
    BY <1>5 DEF Rows, RowOf
<1> QED
  BY <1>2, <1>3, <1>4, <1>6

LEMMA LabelLineParsed ==
  ASSUME NEW m \in Name, NEW n
  PROVE  /\ LabelLine(m) \in FileLine
         /\ LabelLine(m).type = "label"
         /\ NameOf(LabelLine(m)) = m
         /\ Rows(AsParsed(LabelLine(m), n)) = <<>>
<1>1. LabelLine(m).type = "label" /\ LabelLine(m).label = m.label /\ LabelLine(m).mark = m.mark
  BY DEF LabelLine
<1>2. NameOf(LabelLine(m)) = m
  BY <1>1 DEF NameOf, Name
<1>3. Rows(AsParsed(LabelLine(m), n)) = <<>>
  BY <1>1 DEF AsParsed, Rows
<1> QED
  BY <1>1, <1>2, <1>3 DEF FileLine

LEMMA RenderJob ==
  ASSUME NEW lines \in Seq(EditorLine), NEW k \in 0 .. Len(lines),
         k # Len(lines), lines[k + 1].type = "job",
         NEW file, WrittenTo(lines, k, file)
  PROVE  /\ file \o Rendered(lines, k + 1) \in Seq(FileLine)
         /\ ~Stacked(file \o Rendered(lines, k + 1))
         /\ JobsOf(file \o Rendered(lines, k + 1)) = JobsOf(file) \o Rows(lines[k + 1])
         /\ ~EndsInLabel(file \o Rendered(lines, k + 1))
<1> DEFINE l == lines[k + 1]
           job == JobLine(l.text)
           label == LabelLine(NameOf(l))
<1>1. l \in EditorLine /\ k + 1 \in 1 .. Len(lines) /\ DOMAIN lines = 1 .. Len(lines)
  BY PrefixGrows, LenProperties
<1>2. job \in FileLine /\ job.type = "job" /\ Rows(AsParsed(job, NameOf(l))) = Rows(l)
  BY <1>1, JobLineParsed
<1>3. NameOf(l) \in Name
  BY <1>1, RowsType DEF LineIsOne
<1>4. label \in FileLine /\ label.type = "label" /\ NameOf(label) = NameOf(l)
      /\ \A n : Rows(AsParsed(label, n)) = <<>>
  BY <1>3, LabelLineParsed
<1>5. file \in Seq(FileLine) /\ ~Stacked(file)
  BY DEF WrittenTo
<1>6. (k + 1) - 1 = k /\ IsJob(lines, k + 1)
  <2>1. (k + 1) - 1 = k
    OBVIOUS
  <2>2. IsJob(lines, k + 1)
    BY <1>1 DEF IsJob
  <2> QED
    BY <2>1, <2>2
<1>7. NeedsLabel(lines, k + 1) <=> NameOf(l) # NoName /\ ~EndsInLabel(file)
  BY <1>6 DEF NeedsLabel, StandsAt, WrittenTo
<1>8. Rendered(lines, k + 1) = (IF NeedsLabel(lines, k + 1) THEN <<label>> ELSE <<>>) \o <<job>>
  BY <1>6 DEF Rendered
<1>9. EndsInLabel(file) => NameOf(l) = NameOf(file[Len(file)])
  BY <1>6 DEF WrittenTo, StandsAt, LabelStands
<1> HIDE DEF l, job, label
<1>10. CASE ~NeedsLabel(lines, k + 1)
  <2>1. Rendered(lines, k + 1) = <<job>>
    <3>1. <<job>> \in Seq(FileLine)
      BY <1>2
    <3> QED
      BY <1>8, <1>10, <3>1, ConcatEmptySeq
  <2>2. LastName(file) = NameOf(l)
    BY <1>5, <1>7, <1>9, <1>10, LastNameIs
  <2>3. file \o <<job>> = Append(file, job)
    BY <1>2, <1>5, AppendIsConcat
  <2>4. JobsOf(Append(file, job)) = JobsOf(file) \o Rows(l)
    BY <1>2, <1>5, <2>2, JobsMore
  <2>5. job.type # "label"
    BY <1>2
  <2>6. /\ Append(file, job) \in Seq(FileLine) /\ ~Stacked(Append(file, job))
        /\ ~EndsInLabel(Append(file, job))
    BY <1>2, <1>5, <2>5, AppendLine
  <2> QED
    BY <2>1, <2>3, <2>4, <2>6 DEF l
<1>11. CASE NeedsLabel(lines, k + 1)
  <2> DEFINE named == Append(file, label)
  <2>1. Rendered(lines, k + 1) = <<label>> \o <<job>>
    BY <1>8, <1>11
  <2>2. ~EndsInLabel(file)
    BY <1>7, <1>11
  <2>3. /\ named \in Seq(FileLine) /\ ~Stacked(named) /\ EndsInLabel(named)
        /\ named[Len(named)] = label
    BY <1>4, <1>5, <2>2, AppendLine
  <2>4. JobsOf(named) = JobsOf(file) \o <<>>
    BY <1>4, <1>5, JobsMore
  <2>5. JobsOf(file) \o <<>> = JobsOf(file)
    BY <1>5, ParsedLines, ListingType, ConcatEmptySeq DEF JobsOf
  <2>6. file \o (<<label>> \o <<job>>) = Append(named, job)
    <3>1. <<label>> \in Seq(FileLine) /\ <<job>> \in Seq(FileLine)
      BY <1>2, <1>4
    <3>2. (file \o <<label>>) \o <<job>> = file \o (<<label>> \o <<job>>)
      BY <1>5, <3>1, ConcatAssociative
    <3>3. file \o <<label>> = named
      BY <1>4, <1>5, AppendIsConcat
    <3> HIDE DEF named
    <3>4. named \o <<job>> = Append(named, job)
      BY <1>2, <2>3, AppendIsConcat
    <3> QED
      BY <3>2, <3>3, <3>4
  <2> HIDE DEF named
  <2>7. LastName(named) = NameOf(l)
    BY <1>4, <2>3, LastNameIs
  <2>8. JobsOf(Append(named, job)) = JobsOf(named) \o Rows(l)
    BY <1>2, <2>3, <2>7, JobsMore
  <2>9. job.type # "label"
    BY <1>2
  <2>10. /\ Append(named, job) \in Seq(FileLine) /\ ~Stacked(Append(named, job))
         /\ ~EndsInLabel(Append(named, job))
    BY <1>2, <2>3, <2>9, AppendLine
  <2> QED
    BY <2>1, <2>4, <2>5, <2>6, <2>8, <2>10 DEF l
<1> QED
  BY <1>10, <1>11

LEMMA RenderStep ==
  ASSUME NEW lines \in Seq(EditorLine), ~Stacked(lines), NEW k \in 0 .. Len(lines),
         k # Len(lines), NEW file, WrittenTo(lines, k, file)
  PROVE  WrittenTo(lines, k + 1, file \o Rendered(lines, k + 1))
<1> DEFINE l == lines[k + 1]
<1>1. l \in EditorLine /\ k + 1 \in 1 .. Len(lines) /\ DOMAIN lines = 1 .. Len(lines)
      /\ Len(lines) \in Nat
  BY PrefixGrows, LenProperties
<1>2. Listing(SubSeq(lines, 1, k + 1)) = Listing(SubSeq(lines, 1, k)) \o Rows(l)
  <2>1. SubSeq(lines, 1, k + 1) = Append(SubSeq(lines, 1, k), l)
    BY PrefixGrows
  <2>2. SubSeq(lines, 1, k) \in Seq(EditorLine)
    BY Prefix
  <2> HIDE DEF l
  <2> QED
    BY <1>1, <2>1, <2>2, ListingMore
<1>3. file \in Seq(FileLine) /\ ~Stacked(file) /\ JobsOf(file) = Listing(SubSeq(lines, 1, k))
  BY DEF WrittenTo
<1>4. /\ l.type = "label" => NameOf(l) \in Name /\ l = LabelLine(NameOf(l))
      /\ l.type = "job" \/ l.type = "label" \/ l = [type |-> "other"]
  BY <1>1, RowsType DEF LineIsOne
<1>5. CASE l.type = "job"
  <2>1. ~StandsAt(lines, k + 1)
    BY <1>5 DEF StandsAt, IsLabel
  <2>2. /\ file \o Rendered(lines, k + 1) \in Seq(FileLine)
        /\ ~Stacked(file \o Rendered(lines, k + 1))
        /\ JobsOf(file \o Rendered(lines, k + 1)) = JobsOf(file) \o Rows(l)
        /\ ~EndsInLabel(file \o Rendered(lines, k + 1))
    BY <1>5, RenderJob
  <2> HIDE DEF l
  <2> QED
    BY <1>2, <1>3, <2>1, <2>2 DEF WrittenTo
<1>6. ASSUME l.type # "job", l \in FileLine, l.type = "label" => ~EndsInLabel(file),
             Rendered(lines, k + 1) = <<l>>, StandsAt(lines, k + 1) <=> l.type = "label"
      PROVE  WrittenTo(lines, k + 1, file \o <<l>>)
  <2>1. file \o <<l>> = Append(file, l)
    BY <1>3, <1>6, AppendIsConcat
  <2>2. AsParsed(l, LastName(file)) = l
    BY <1>6 DEF AsParsed
  <2> HIDE DEF l
  <2>3. JobsOf(Append(file, l)) = JobsOf(file) \o Rows(l)
    BY <1>3, <1>6, <2>2, JobsMore
  <2>4. /\ Append(file, l) \in Seq(FileLine) /\ ~Stacked(Append(file, l))
        /\ EndsInLabel(Append(file, l)) <=> l.type = "label"
        /\ Append(file, l)[Len(Append(file, l))] = l
    BY <1>3, <1>6, AppendLine
  <2>5. l = lines[k + 1]
    BY DEF l
  <2> QED
    BY <1>2, <1>3, <1>6, <2>1, <2>3, <2>4, <2>5 DEF WrittenTo
<1>7. CASE l = [type |-> "other"]
  <2>1. l.type = "other" /\ l \in FileLine
    BY <1>7 DEF FileLine
  <2>2. ~IsJob(lines, k + 1) /\ ~IsLabel(lines, k + 1)
    BY <2>1 DEF IsJob, IsLabel
  <2>3. Rendered(lines, k + 1) = <<l>> /\ ~StandsAt(lines, k + 1)
    BY <2>2 DEF Rendered, StandsAt
  <2> HIDE DEF l
  <2> QED
    BY <1>6, <2>1, <2>3
<1>8. CASE l.type = "label"
  <2>1. IsLabel(lines, k + 1) /\ ~IsJob(lines, k + 1)
    BY <1>1, <1>8 DEF IsLabel, IsJob
  <2>2. ~StandsAt(lines, k)
    <3>1. ASSUME IsLabel(lines, k) PROVE FALSE
      BY <2>1, <3>1 DEF Stacked, IsLabel
    <3> QED
      BY <3>1 DEF StandsAt
  <2>3. ~EndsInLabel(file)
    BY <2>2 DEF WrittenTo
  <2>4. CASE LabelStands(lines, k + 1)
    <3>1. Rendered(lines, k + 1) = <<l>> /\ StandsAt(lines, k + 1)
      BY <2>1, <2>4 DEF Rendered, StandsAt
    <3>2. l \in FileLine /\ l.type # "job"
      BY <1>4, <1>8 DEF FileLine
    <3> HIDE DEF l
    <3> QED
      BY <1>6, <1>8, <2>3, <3>1, <3>2
  <2>5. CASE ~LabelStands(lines, k + 1)
    <3>1. Rendered(lines, k + 1) = <<>> /\ ~StandsAt(lines, k + 1)
      BY <2>1, <2>5 DEF Rendered, StandsAt
    <3>2. file \o <<>> = file
      BY <1>3, ConcatEmptySeq
    <3>3. Rows(l) = <<>>
      BY <1>8 DEF Rows
    <3>4. JobsOf(file) \o <<>> = JobsOf(file)
      BY <1>3, ParsedLines, ListingType, ConcatEmptySeq DEF JobsOf
    <3> HIDE DEF l
    <3> QED
      BY <1>2, <1>3, <2>3, <3>1, <3>2, <3>3, <3>4 DEF WrittenTo
  <2> QED
    BY <2>4, <2>5
<1> QED
  BY <1>4, <1>5, <1>7, <1>8

LEMMA RenderedType ==
  ASSUME NEW lines \in Seq(EditorLine)
  PROVE  /\ [i \in DOMAIN lines |-> Rendered(lines, i)] \in Seq(Seq(FileLine))
         /\ Len([i \in DOMAIN lines |-> Rendered(lines, i)]) = Len(lines)
<1>1. DOMAIN lines = 1 .. Len(lines) /\ Len(lines) \in Nat
  BY LenProperties
<1>2. ASSUME NEW i \in 1 .. Len(lines) PROVE Rendered(lines, i) \in Seq(FileLine)
  <2> DEFINE l == lines[i]
             above == IF NeedsLabel(lines, i) THEN <<LabelLine(NameOf(l))>> ELSE <<>>
  <2>1. LineIsOne(l) /\ l \in EditorLine
    BY ElementOfSeq, RowsType
  <2>2. CASE l.type = "job"
    <3>1. <<JobLine(l.text)>> \in Seq(FileLine)
      BY <2>1, <2>2, JobLineParsed
    <3>2. LabelLine(NameOf(l)) \in FileLine
      BY <2>1, <2>2 DEF LineIsOne, FileLine
    <3>3. above \in Seq(FileLine)
      BY <3>2
    <3>4. Rendered(lines, i) = above \o <<JobLine(l.text)>>
      BY <1>1, <2>2 DEF Rendered, IsJob
    <3> HIDE DEF above, l
    <3> QED
      BY <3>1, <3>3, <3>4, ConcatProperties
  <2>3. CASE l.type # "job"
    <3>1. l \in FileLine
      BY <2>1, <2>3 DEF LineIsOne, FileLine
    <3>2. <<l>> \in Seq(FileLine) /\ <<>> \in Seq(FileLine)
      BY <3>1
    <3>3. Rendered(lines, i) = <<l>> \/ Rendered(lines, i) = <<>>
      BY <2>3 DEF Rendered, IsJob
    <3> QED
      BY <3>2, <3>3
  <2> QED
    BY <2>2, <2>3
<1> QED
  BY <1>1, <1>2

\* Lines written back are read as the jobs they were, wherever their labels stood.
LEMMA RoundTrip ==
  ASSUME NEW lines \in Seq(EditorLine), ~Stacked(lines)
  PROVE  /\ serializeCrontab(lines) \in Seq(FileLine)
         /\ ~Stacked(serializeCrontab(lines))
         /\ JobsOf(serializeCrontab(lines)) = Listing(lines)
<1> DEFINE R == [i \in DOMAIN lines |-> Rendered(lines, i)]
           W(k) == FlattenSeq(SubSeq(R, 1, k))
           T == {k \in 0 .. Len(lines) : WrittenTo(lines, k, W(k))}
<1>1. R \in Seq(Seq(FileLine)) /\ Len(R) = Len(lines)
  BY RenderedType
<1>2. DOMAIN lines = 1 .. Len(lines) /\ Len(lines) \in Nat
  BY LenProperties
<1>3. \A i \in 1 .. Len(lines) : R[i] = Rendered(lines, i)
  BY <1>2
<1>4. serializeCrontab(lines) = FlattenSeq(R)
  BY DEF serializeCrontab
<1> HIDE DEF R
<1>5. 0 \in T
  <2>1. SubSeq(R, 1, 0) = <<>> /\ SubSeq(lines, 1, 0) = <<>>
    BY SubSeqEmpty
  <2>2. W(0) = <<>>
    BY <2>1, FlattenNone
  <2>3. JobsOf(<<>>) = Listing(<<>>)
    <3>1. parseCrontab(<<>>) = <<>>
      BY DEF parseCrontab
    <3> QED
      BY <3>1 DEF JobsOf
  <2>4. <<>> \in Seq(FileLine) /\ ~Stacked(<<>>) /\ ~EndsInLabel(<<>>) /\ ~StandsAt(lines, 0)
    BY <1>2, EmptySeq DEF Stacked, EndsInLabel, StandsAt, IsLabel
  <2>5. WrittenTo(lines, 0, <<>>)
    BY <2>1, <2>3, <2>4 DEF WrittenTo
  <2>6. WrittenTo(lines, 0, W(0))
    BY <2>2, <2>5, Zenon
  <2> QED
    BY <1>2, <2>6
<1>6. ASSUME NEW k \in 0 .. Len(lines), k \in T, k # Len(lines) PROVE k + 1 \in T
  <2> HIDE DEF T
  <2>1. W(k + 1) = W(k) \o R[k + 1]
    BY <1>1, <1>6, FlattenPrefix
  <2>2. k + 1 \in 1 .. Len(lines)
    BY <1>6, PrefixGrows
  <2>3. W(k + 1) = W(k) \o Rendered(lines, k + 1)
    BY <1>3, <2>1, <2>2
  <2>4. WrittenTo(lines, k, W(k))
    BY <1>6 DEF T
  <2> HIDE DEF W
  <2>5. WrittenTo(lines, k + 1, W(k + 1))
    BY <1>6, <2>3, <2>4, RenderStep
  <2> QED
    BY <1>2, <2>2, <2>5 DEF T
<1>7. Len(lines) \in T
  <2> HIDE DEF T
  <2>1. \A k \in 0 .. Len(lines) : k \in T
    BY <1>2, <1>5, <1>6, UpTo, Zenon
  <2> QED
    BY <1>2, <2>1
<1>8. W(Len(lines)) = FlattenSeq(R)
  BY <1>1, SubSeqFull
<1>9. SubSeq(lines, 1, Len(lines)) = lines
  BY SubSeqFull
<1>10. WrittenTo(lines, Len(lines), serializeCrontab(lines))
  BY <1>4, <1>7, <1>8
<1> QED
  BY <1>9, <1>10 DEF WrittenTo

(* Lists of jobs around one of them *)

\* An element between two parts of a list: where it is, and putting another in its place.
Around(S, front, r, back, e) ==
  /\ front \o <<r>> \o back \in Seq(S)
  /\ Len(front \o <<r>> \o back) = Len(front) + 1 + Len(back)
  /\ (front \o <<r>> \o back)[Len(front) + 1] = r
  /\ [front \o <<r>> \o back EXCEPT ![Len(front) + 1] = e] = front \o <<e>> \o back

LEMMA AroundOne ==
  ASSUME NEW S, NEW front \in Seq(S), NEW back \in Seq(S), NEW r \in S, NEW e \in S
  PROVE  Around(S, front, r, back, e)
<1>1. ASSUME NEW x \in S
      PROVE  /\ front \o <<x>> \o back \in Seq(S)
             /\ Len(front \o <<x>> \o back) = Len(front) + 1 + Len(back)
             /\ \A i \in 1 .. Len(front) + 1 + Len(back) :
                  (front \o <<x>> \o back)[i] =
                    IF i <= Len(front) THEN front[i]
                    ELSE IF i = Len(front) + 1 THEN x ELSE back[i - (Len(front) + 1)]
  <2>0. Len(front) \in Nat /\ Len(back) \in Nat
    BY LenProperties
  <2>1. <<x>> \in Seq(S) /\ Len(<<x>>) = 1 /\ <<x>>[1] = x
    OBVIOUS
  <2> DEFINE one == front \o <<x>>
  <2>2. /\ one \in Seq(S) /\ Len(one) = Len(front) + 1
        /\ \A i \in 1 .. Len(front) + 1 : one[i] = IF i <= Len(front) THEN front[i] ELSE x
    <3> DEFINE s == <<x>>
    <3>1. s \in Seq(S) /\ Len(s) = 1 /\ s[1] = x
      BY <2>1
    <3> HIDE DEF s
    <3>2. /\ front \o s \in Seq(S) /\ Len(front \o s) = Len(front) + 1
          /\ \A i \in 1 .. Len(front) + 1 :
               (front \o s)[i] = IF i <= Len(front) THEN front[i] ELSE s[i - Len(front)]
      <4>1. /\ front \o s \in Seq(S) /\ Len(front \o s) = Len(front) + Len(s)
            /\ \A i \in 1 .. Len(front) + Len(s) :
                 (front \o s)[i] = IF i <= Len(front) THEN front[i] ELSE s[i - Len(front)]
        BY <3>1, ConcatProperties, Zenon
      <4> QED
        BY <3>1, <4>1
    <3>3. ASSUME NEW i \in 1 .. Len(front) + 1, ~(i <= Len(front)) PROVE i - Len(front) = 1
      BY <2>0, <3>3
    <3> QED
      BY <3>1, <3>2, <3>3 DEF s
  <2> HIDE DEF one
  <2>3. /\ one \o back \in Seq(S) /\ Len(one \o back) = Len(front) + 1 + Len(back)
        /\ \A i \in 1 .. Len(front) + 1 + Len(back) :
             (one \o back)[i] = IF i <= Len(front) + 1 THEN one[i] ELSE back[i - (Len(front) + 1)]
    <3>1. /\ one \o back \in Seq(S) /\ Len(one \o back) = Len(one) + Len(back)
          /\ \A i \in 1 .. Len(one) + Len(back) :
               (one \o back)[i] = IF i <= Len(one) THEN one[i] ELSE back[i - Len(one)]
      BY <2>2, ConcatProperties, Zenon
    <3> QED
      BY <2>2, <3>1
  <2>4. ASSUME NEW i \in 1 .. Len(front) + 1 + Len(back)
        PROVE  (one \o back)[i] =
                 IF i <= Len(front) THEN front[i]
                 ELSE IF i = Len(front) + 1 THEN x ELSE back[i - (Len(front) + 1)]
    BY <2>0, <2>2, <2>3
  <2> QED
    BY <2>3, <2>4 DEF one
<1> DEFINE n == Len(front) + 1
           s == front \o <<r>> \o back
           t == front \o <<e>> \o back
<1>2. n \in 1 .. Len(front) + 1 + Len(back) /\ ~(n <= Len(front))
  BY LenProperties
<1>3. s \in Seq(S) /\ Len(s) = Len(front) + 1 + Len(back) /\ s[n] = r
  BY <1>1, <1>2
<1>4. t \in Seq(S) /\ Len(t) = Len(front) + 1 + Len(back)
  BY <1>1
<1>5. ASSUME NEW i \in 1 .. Len(front) + 1 + Len(back)
      PROVE  t[i] = IF i = n THEN e ELSE s[i]
  BY <1>1, <1>2
<1> HIDE DEF s, t, n
<1>6. /\ [s EXCEPT ![n] = e] \in Seq(S) /\ Len([s EXCEPT ![n] = e]) = Len(s)
      /\ \A j \in 1 .. Len(s) : [s EXCEPT ![n] = e][j] = IF j = n THEN e ELSE s[j]
  BY <1>2, <1>3, ExceptSeq
<1>7. [s EXCEPT ![n] = e] = t
  <2> DEFINE u == [s EXCEPT ![n] = e]
  <2>1. u \in Seq(S) /\ Len(u) = Len(t) /\ \A i \in 1 .. Len(u) : u[i] = t[i]
    BY <1>3, <1>4, <1>5, <1>6
  <2> HIDE DEF u
  <2>2. u = t
    BY <1>4, <2>1, SeqEqual
  <2> QED
    BY <2>2 DEF u
<1> QED
  BY <1>3, <1>7 DEF s, t, n, Around

LEMMA ConcatParts ==
  ASSUME NEW S, NEW front \in Seq(S), NEW back \in Seq(S)
  PROVE  /\ SubSeq(front \o back, 1, Len(front)) = front
         /\ SubSeq(front \o back, Len(front) + 1, Len(front \o back)) = back
<1> DEFINE s == front \o back
<1>1. /\ s \in Seq(S) /\ Len(s) = Len(front) + Len(back)
      /\ \A i \in 1 .. Len(front) + Len(back) :
           s[i] = IF i <= Len(front) THEN front[i] ELSE back[i - Len(front)]
  BY ConcatProperties
<1>2. Len(front) \in Nat /\ Len(back) \in Nat
  BY LenProperties
<1>3. \A i \in 1 .. Len(s) : s[i] \in S
  BY <1>1, ElementOfSeq
<1> HIDE DEF s
<1>4. SubSeq(s, 1, Len(front)) = front
  <2> DEFINE t == SubSeq(s, 1, Len(front))
  <2>1. t \in Seq(S) /\ Len(t) = Len(front) /\ \A i \in 1 .. Len(front) : t[i] = s[i]
    <3>1. Len(front) \in 0 .. Len(s)
      BY <1>1, <1>2
    <3> QED
      BY <1>1, <3>1, Prefix
  <2> HIDE DEF t
  <2>2. \A i \in 1 .. Len(t) : t[i] = front[i]
    BY <1>1, <1>2, <2>1
  <2>3. t = front
    BY <2>1, <2>2, SeqEqual
  <2> QED
    BY <2>3 DEF t
<1>5. SubSeq(s, Len(front) + 1, Len(s)) = back
  <2> DEFINE m == Len(front) + 1
             t == SubSeq(s, m, Len(s))
  <2>1. m \in Int /\ Len(s) \in Int /\ \A i \in m .. Len(s) : s[i] \in S
    BY <1>1, <1>2, <1>3
  <2> HIDE DEF m
  <2>2. /\ t \in Seq(S)
        /\ Len(t) = IF m <= Len(s) THEN Len(s) - m + 1 ELSE 0
        /\ \A i \in 1 .. Len(s) - m + 1 : t[i] = s[m + i - 1]
    BY <2>1, SubSeqProperties
  <2> HIDE DEF t
  <2>3. Len(t) = Len(back)
    BY <1>1, <1>2, <2>2 DEF m
  <2>4. ASSUME NEW i \in 1 .. Len(t) PROVE t[i] = back[i]
    <3>1. i \in 1 .. Len(s) - m + 1 /\ m + i - 1 = Len(front) + i
      BY <1>1, <1>2, <2>3 DEF m
    <3>2. t[i] = s[Len(front) + i]
      BY <2>2, <3>1
    <3>3. /\ Len(front) + i \in 1 .. Len(front) + Len(back)
          /\ ~(Len(front) + i <= Len(front)) /\ (Len(front) + i) - Len(front) = i
      BY <1>2, <2>3
    <3>4. s[Len(front) + i] = back[i]
      BY <1>1, <3>3
    <3> QED
      BY <3>2, <3>4
  <2>5. t = back
    BY <2>2, <2>3, <2>4, SeqEqual
  <2> QED
    BY <2>5 DEF t, m
<1> QED
  BY <1>4, <1>5 DEF s

LEMMA Suffix ==
  ASSUME NEW S, NEW seq \in Seq(S), NEW i \in 0 .. Len(seq)
  PROVE  /\ SubSeq(seq, i + 1, Len(seq)) \in Seq(S)
         /\ Len(SubSeq(seq, i + 1, Len(seq))) = Len(seq) - i
         /\ \A j \in 1 .. Len(seq) - i : SubSeq(seq, i + 1, Len(seq))[j] = seq[i + j]
         /\ seq = SubSeq(seq, 1, i) \o SubSeq(seq, i + 1, Len(seq))
<1> DEFINE m == i + 1
           t == SubSeq(seq, m, Len(seq))
<1>0. Len(seq) \in Nat
  BY LenProperties
<1>1. m \in Int /\ Len(seq) \in Int /\ \A j \in m .. Len(seq) : seq[j] \in S
  BY <1>0, ElementOfSeq
<1> HIDE DEF m
<1>2. /\ t \in Seq(S)
      /\ Len(t) = IF m <= Len(seq) THEN Len(seq) - m + 1 ELSE 0
      /\ \A j \in 1 .. Len(seq) - m + 1 : t[j] = seq[m + j - 1]
  BY <1>1, SubSeqProperties
<1> HIDE DEF t
<1>3. Len(t) = Len(seq) - i
  BY <1>0, <1>2 DEF m
<1>4. ASSUME NEW j \in 1 .. Len(seq) - i PROVE t[j] = seq[i + j]
  <2>1. j \in 1 .. Len(seq) - m + 1 /\ m + j - 1 = i + j
    BY <1>0 DEF m
  <2> QED
    BY <1>2, <2>1
<1>5. seq = SubSeq(seq, 1, i) \o SubSeq(seq, i + 1, Len(seq))
  <2>1. 1 \in 1 .. Len(seq) + 1 /\ i \in 1 - 1 .. Len(seq) /\ Len(seq) \in i .. Len(seq)
    BY <1>0
  <2>2. SubSeq(seq, 1, i) \o SubSeq(seq, i + 1, Len(seq)) = SubSeq(seq, 1, Len(seq))
    BY <2>1, ConcatAdjacentSubSeq
  <2> QED
    BY <2>2, SubSeqFull
<1> QED
  BY <1>2, <1>3, <1>4, <1>5 DEF t, m

\* A list is what is before i, what is at i and what is after it.
Split(S, seq, i, e) ==
  LET front == SubSeq(seq, 1, i - 1)
      back == SubSeq(seq, i + 1, Len(seq)) IN
  /\ front \in Seq(S) /\ back \in Seq(S)
  /\ seq = front \o <<seq[i]>> \o back
  /\ [seq EXCEPT ![i] = e] = front \o <<e>> \o back

LEMMA SplitAt ==
  ASSUME NEW S, NEW seq \in Seq(S), NEW i \in 1 .. Len(seq), NEW e \in S
  PROVE  Split(S, seq, i, e)
<1>0. Len(seq) \in Nat /\ seq[i] \in S
  BY LenProperties, ElementOfSeq
<1> DEFINE k == i - 1
           front == SubSeq(seq, 1, k)
           back == SubSeq(seq, i + 1, Len(seq))
<1>1. k \in 0 .. Len(seq) /\ k # Len(seq) /\ k + 1 = i /\ i \in 0 .. Len(seq)
  BY <1>0
<1> HIDE DEF k
<1>2. front \in Seq(S) /\ Len(front) = k
  BY <1>1, Prefix
<1>3. back \in Seq(S)
  BY <1>1, Suffix
<1>4. SubSeq(seq, 1, i) = front \o <<seq[i]>>
  <2>1. SubSeq(seq, 1, k + 1) = Append(front, seq[k + 1])
    BY <1>1, PrefixGrows
  <2> HIDE DEF front
  <2>2. SubSeq(seq, 1, i) = Append(front, seq[i])
    BY <1>1, <2>1
  <2>3. Append(front, seq[i]) = front \o <<seq[i]>>
    BY <1>0, <1>2, AppendIsConcat
  <2> QED
    BY <2>2, <2>3
<1>5. seq = front \o <<seq[i]>> \o back
  <2>1. seq = SubSeq(seq, 1, i) \o back
    BY <1>1, Suffix
  <2> QED
    BY <1>4, <2>1
<1> HIDE DEF front, back
<1>6. [front \o <<seq[i]>> \o back EXCEPT ![Len(front) + 1] = e] = front \o <<e>> \o back
  <2> DEFINE r == seq[i]
  <2>1. r \in S /\ front \in Seq(S) /\ back \in Seq(S)
    BY <1>0, <1>2, <1>3
  <2> HIDE DEF r
  <2>2. Around(S, front, r, back, e)
    BY <2>1, AroundOne
  <2>3. [front \o <<r>> \o back EXCEPT ![Len(front) + 1] = e] = front \o <<e>> \o back
    BY <2>2 DEF Around
  <2> QED
    BY <2>3 DEF r
<1>7. [seq EXCEPT ![i] = e] = front \o <<e>> \o back
  BY <1>1, <1>2, <1>5, <1>6
<1> QED
  BY <1>2, <1>3, <1>5, <1>7 DEF front, back, k, Split

LEMMA ListingOne ==
  ASSUME NEW l \in EditorLine
  PROVE  Listing(<<l>>) = Rows(l)
<1>1. <<>> \in Seq(EditorLine)
  BY EmptySeq
<1>2. Append(<<>>, l) = <<>> \o <<l>>
  BY <1>1, AppendIsConcat
<1>3. <<l>> \in Seq(EditorLine)
  OBVIOUS
<1>4. <<>> \o <<l>> = <<l>>
  BY <1>3, ConcatEmptySeq
<1>5. Listing(<<l>>) = Listing(<<>>) \o Rows(l)
  BY <1>1, <1>2, <1>4, ListingMore
<1>6. Rows(l) \in Seq(JobRow)
  BY RowsType DEF LineIsOne
<1>7. <<>> \o Rows(l) = Rows(l)
  BY <1>6, ConcatEmptySeq
<1> QED
  BY <1>5, <1>7, ListingNone

LEMMA ListingAround ==
  ASSUME NEW front \in Seq(EditorLine), NEW back \in Seq(EditorLine), NEW l \in EditorLine
  PROVE  Listing(front \o <<l>> \o back) = Listing(front) \o Rows(l) \o Listing(back)
<1> DEFINE one == <<l>>
<1>1. one \in Seq(EditorLine)
  OBVIOUS
<1>2. Listing(one) = Rows(l)
  BY ListingOne
<1> HIDE DEF one
<1>3. front \o one \in Seq(EditorLine)
  BY <1>1, ConcatProperties
<1>4. Listing(front \o one) = Listing(front) \o Rows(l)
  BY <1>1, <1>2, ListingConcat
<1>5. Listing((front \o one) \o back) = Listing(front \o one) \o Listing(back)
  BY <1>3, ListingConcat
<1> QED
  BY <1>4, <1>5 DEF one

(* Labels in a row *)

LEMMA SameKinds ==
  ASSUME NEW S, NEW file \in Seq(S), ~Stacked(file),
         NEW R, NEW lines \in Seq(R), Len(lines) = Len(file),
         \A i \in 1 .. Len(file) : lines[i].type = "label" => file[i].type = "label"
  PROVE  ~Stacked(lines)
<1>1. DOMAIN file = 1 .. Len(file) /\ DOMAIN lines = 1 .. Len(file)
  BY LenProperties
<1> QED
  BY <1>1 DEF Stacked, IsLabel

LEMMA StackedParts ==
  ASSUME NEW S, NEW lines \in Seq(S), ~Stacked(lines), NEW k \in 0 .. Len(lines)
  PROVE  /\ ~Stacked(SubSeq(lines, 1, k))
         /\ ~Stacked(SubSeq(lines, k + 1, Len(lines)))
         /\ EndsInLabel(SubSeq(lines, 1, k)) <=> IsLabel(lines, k)
<1>0. Len(lines) \in Nat /\ DOMAIN lines = 1 .. Len(lines)
  BY LenProperties
<1> DEFINE front == SubSeq(lines, 1, k)
           back == SubSeq(lines, k + 1, Len(lines))
<1>1. front \in Seq(S) /\ Len(front) = k /\ \A i \in 1 .. k : front[i] = lines[i]
  BY Prefix
<1>2. /\ back \in Seq(S) /\ Len(back) = Len(lines) - k
      /\ \A i \in 1 .. Len(lines) - k : back[i] = lines[k + i]
  BY Suffix
<1> HIDE DEF front, back
<1>3. DOMAIN front = 1 .. k /\ DOMAIN back = 1 .. Len(lines) - k
  BY <1>1, <1>2, LenProperties
<1>4. ASSUME NEW i \in 1 .. k, IsLabel(front, i), IsLabel(front, i + 1) PROVE FALSE
  <2>1. i + 1 \in 1 .. k
    BY <1>3, <1>4 DEF IsLabel
  <2>2. i \in DOMAIN lines /\ IsLabel(lines, i) /\ IsLabel(lines, i + 1)
    BY <1>0, <1>1, <1>4, <2>1 DEF IsLabel
  <2> QED
    BY <2>2 DEF Stacked
<1>5. ASSUME NEW i \in 1 .. Len(lines) - k, IsLabel(back, i), IsLabel(back, i + 1) PROVE FALSE
  <2>1. i + 1 \in 1 .. Len(lines) - k
    BY <1>3, <1>5 DEF IsLabel
  <2>2. k + i \in DOMAIN lines /\ (k + i) + 1 \in DOMAIN lines /\ k + (i + 1) = (k + i) + 1
    BY <1>0, <2>1
  <2>3. back[i] = lines[k + i] /\ back[i + 1] = lines[(k + i) + 1]
    BY <1>2, <2>1, <2>2
  <2>4. IsLabel(lines, k + i) /\ IsLabel(lines, (k + i) + 1)
    BY <1>5, <2>2, <2>3 DEF IsLabel
  <2> QED
    BY <2>2, <2>4 DEF Stacked
<1>6. EndsInLabel(front) <=> IsLabel(lines, k)
  BY <1>0, <1>1, <1>3 DEF EndsInLabel, IsLabel
<1>7. ~Stacked(front)
  BY <1>3, <1>4 DEF Stacked
<1>8. ~Stacked(back)
  BY <1>3, <1>5 DEF Stacked
<1> QED
  BY <1>6, <1>7, <1>8 DEF front, back

LEMMA StackedConcat ==
  ASSUME NEW S, NEW front \in Seq(S), NEW back \in Seq(S),
         ~Stacked(front), ~Stacked(back), ~EndsInLabel(front)
  PROVE  ~Stacked(front \o back)
<1> DEFINE s == front \o back
<1>1. /\ s \in Seq(S) /\ Len(s) = Len(front) + Len(back)
      /\ \A i \in 1 .. Len(front) + Len(back) :
           s[i] = IF i <= Len(front) THEN front[i] ELSE back[i - Len(front)]
  BY ConcatProperties
<1> HIDE DEF s
<1>2. /\ Len(front) \in Nat /\ Len(back) \in Nat /\ DOMAIN s = 1 .. Len(s)
      /\ DOMAIN front = 1 .. Len(front) /\ DOMAIN back = 1 .. Len(back)
  BY <1>1, LenProperties
<1>3. ASSUME NEW i \in DOMAIN s, IsLabel(s, i), IsLabel(s, i + 1) PROVE FALSE
  <2>1. i \in 1 .. Len(front) + Len(back) /\ i + 1 \in 1 .. Len(front) + Len(back)
    BY <1>1, <1>2, <1>3 DEF IsLabel
  <2>2. s[i].type = "label" /\ s[i + 1].type = "label"
    BY <1>3 DEF IsLabel
  <2>3. CASE i + 1 <= Len(front)
    <3>1. i \in DOMAIN front /\ i + 1 \in DOMAIN front /\ i <= Len(front)
      BY <1>2, <2>1, <2>3
    <3>2. s[i] = front[i] /\ s[i + 1] = front[i + 1]
      BY <1>1, <2>1, <2>3, <3>1
    <3> QED
      BY <2>2, <3>1, <3>2 DEF Stacked, IsLabel
  <2>4. CASE i = Len(front)
    <3>1. i \in DOMAIN front /\ i <= Len(front)
      BY <1>2, <2>1, <2>4
    <3>2. s[i] = front[i]
      BY <1>1, <2>1, <3>1
    <3> QED
      BY <2>2, <2>4, <3>1, <3>2 DEF EndsInLabel, IsLabel
  <2>5. CASE i > Len(front)
    <3> DEFINE j == i - Len(front)
    <3>1. /\ j \in DOMAIN back /\ j + 1 \in DOMAIN back
          /\ ~(i <= Len(front)) /\ ~(i + 1 <= Len(front)) /\ (i + 1) - Len(front) = j + 1
      BY <1>2, <2>1, <2>5
    <3>2. s[i] = back[j] /\ s[i + 1] = back[j + 1]
      BY <1>1, <2>1, <3>1
    <3> HIDE DEF j
    <3> QED
      BY <2>2, <3>1, <3>2 DEF Stacked, IsLabel
  <2> QED
    BY <1>2, <2>1, <2>3, <2>4, <2>5
<1>4. ~Stacked(s)
  BY <1>3 DEF Stacked
<1> QED
  BY <1>4 DEF s

(* One edit *)

\* The rows of a file whose parsed lines are these, with one row in place of another.
LEMMA EditedLines ==
  ASSUME NEW lines \in Seq(EditorLine), ~Stacked(lines), NEW i \in 1 .. Len(lines),
         lines[i].type = "job", NEW e \in EditorLine, e.type = "job"
  PROVE  /\ updateCronEntry(lines, i, e) \in Seq(EditorLine)
         /\ ~Stacked(updateCronEntry(lines, i, e))
         /\ \E n \in 1 .. Len(Listing(lines)) :
              /\ Listing(lines)[n] = RowOf(lines[i])
              /\ Listing(updateCronEntry(lines, i, e)) = [Listing(lines) EXCEPT ![n] = RowOf(e)]
<1> DEFINE new == updateCronEntry(lines, i, e)
           front == SubSeq(lines, 1, i - 1)
           back == SubSeq(lines, i + 1, Len(lines))
           l == lines[i]
<1>1. /\ new \in Seq(EditorLine) /\ Len(new) = Len(lines)
      /\ \A j \in 1 .. Len(lines) : new[j] = IF j = i THEN e ELSE lines[j]
  BY ExceptSeq DEF updateCronEntry
<1>2. /\ front \in Seq(EditorLine) /\ back \in Seq(EditorLine)
      /\ lines = front \o <<l>> \o back
      /\ new = front \o <<e>> \o back
  <2>1. /\ front \in Seq(EditorLine) /\ back \in Seq(EditorLine)
        /\ lines = front \o <<l>> \o back
        /\ [lines EXCEPT ![i] = e] = front \o <<e>> \o back
    <3>1. Split(EditorLine, lines, i, e)
      BY SplitAt
    <3> QED
      BY <3>1 DEF Split
  <2> QED
    BY <2>1 DEF updateCronEntry
<1>3. l \in EditorLine /\ l.type = "job"
  BY ElementOfSeq
<1> HIDE DEF new, front, back, l
<1>4. ~Stacked(new)
  <2>1. \A j \in 1 .. Len(lines) : new[j].type = "label" => lines[j].type = "label"
    BY <1>1
  <2> QED
    BY <1>1, <2>1, SameKinds
<1> DEFINE X == Listing(front)
           Y == Listing(back)
           r == RowOf(l)
           q == RowOf(e)
<1>5. X \in Seq(JobRow) /\ Y \in Seq(JobRow) /\ r \in JobRow /\ q \in JobRow
  BY <1>2, <1>3, ListingType, RowsType DEF LineIsOne
<1>6. Listing(lines) = X \o <<r>> \o Y
  BY <1>2, <1>3, ListingAround DEF Rows
<1>7. Listing(new) = X \o <<q>> \o Y
  BY <1>2, ListingAround DEF Rows
<1> HIDE DEF X, Y, r, q
<1>8. /\ Len(X \o <<r>> \o Y) = Len(X) + 1 + Len(Y)
      /\ (X \o <<r>> \o Y)[Len(X) + 1] = r
      /\ [X \o <<r>> \o Y EXCEPT ![Len(X) + 1] = q] = X \o <<q>> \o Y
  <2>1. Around(JobRow, X, r, Y, q)
    BY <1>5, AroundOne
  <2> QED
    BY <2>1 DEF Around
<1>9. Len(X) + 1 \in 1 .. Len(Listing(lines))
  <2>1. Len(X) \in Nat /\ Len(Y) \in Nat
    BY <1>5, LenProperties
  <2> QED
    BY <1>6, <1>8, <2>1
<1>10. /\ Listing(lines)[Len(X) + 1] = r
       /\ Listing(new) = [Listing(lines) EXCEPT ![Len(X) + 1] = q]
  BY <1>6, <1>7, <1>8
<1>11. \E n \in 1 .. Len(Listing(lines)) :
         Listing(lines)[n] = r /\ Listing(new) = [Listing(lines) EXCEPT ![n] = q]
  BY <1>9, <1>10
<1> QED
  BY <1>1, <1>4, <1>11 DEF new, r, q, l

\* The two parts are the list without its n-th element.
WithoutOne(list, front, back, n) ==
  /\ n \in 1 .. Len(list)
  /\ front \o back = SubSeq(list, 1, n - 1) \o SubSeq(list, n + 1, Len(list))

LEMMA PartsAround ==
  ASSUME NEW S, NEW front \in Seq(S), NEW back \in Seq(S), NEW r \in S
  PROVE  WithoutOne(front \o <<r>> \o back, front, back, Len(front) + 1)
<1> DEFINE one == <<r>>
           list == front \o one \o back
<1>1. one \in Seq(S) /\ Len(one) = 1
  OBVIOUS
<1>2. Len(front) \in Nat /\ Len(back) \in Nat /\ Len(list) = Len(front) + 1 + Len(back)
  BY LenProperties, AroundOne DEF Around
<1> HIDE DEF one
<1>3. front \o one \in Seq(S) /\ Len(front \o one) = Len(front) + 1
  <2>1. front \o one \in Seq(S) /\ Len(front \o one) = Len(front) + Len(one)
    BY <1>1, ConcatProperties, Zenon
  <2> QED
    BY <1>1, <2>1
<1>4. one \o back \in Seq(S)
  BY <1>1, ConcatProperties
<1>5. SubSeq(list, Len(front \o one) + 1, Len(list)) = back
  BY <1>3, ConcatParts
<1>6. SubSeq(list, 1, Len(front)) = front
  <2>1. list = front \o (one \o back)
    BY <1>1, ConcatAssociative
  <2> HIDE DEF list
  <2> QED
    BY <1>4, <2>1, ConcatParts
<1> HIDE DEF list
<1>7. (Len(front) + 1) - 1 = Len(front) /\ Len(front) + 1 \in 1 .. Len(list)
  BY <1>2
<1>8. SubSeq(list, (Len(front) + 1) + 1, Len(list)) = back
  BY <1>3, <1>5
<1>9. WithoutOne(list, front, back, Len(front) + 1)
  BY <1>6, <1>7, <1>8 DEF WithoutOne
<1> QED
  BY <1>9 DEF list, one

LEMMA RemovedLines ==
  ASSUME NEW lines \in Seq(EditorLine), ~Stacked(lines), NEW i \in 1 .. Len(lines),
         lines[i].type = "job"
  PROVE  /\ removeCronEntry(lines, i) \in Seq(EditorLine)
         /\ ~Stacked(removeCronEntry(lines, i))
         /\ \E n \in 1 .. Len(Listing(lines)) :
              Listing(removeCronEntry(lines, i))
                = SubSeq(Listing(lines), 1, n - 1)
                    \o SubSeq(Listing(lines), n + 1, Len(Listing(lines)))
<1> DEFINE new == removeCronEntry(lines, i)
           m == IF IsLabel(lines, i - 1) THEN i - 2 ELSE i - 1
           kept == SubSeq(lines, 1, m)
           front == SubSeq(lines, 1, i - 1)
           back == SubSeq(lines, i + 1, Len(lines))
           l == lines[i]
<1>0. Len(lines) \in Nat /\ DOMAIN lines = 1 .. Len(lines)
  BY LenProperties
<1>1. l \in EditorLine /\ l.type = "job"
  BY ElementOfSeq
<1>2. /\ front \in Seq(EditorLine) /\ back \in Seq(EditorLine)
      /\ lines = front \o <<l>> \o back
  BY <1>1, SplitAt DEF Split
<1>3. new = kept \o back
  BY DEF removeCronEntry
<1>4. m \in 0 .. Len(lines)
  BY <1>0 DEF IsLabel
<1>5. ~IsLabel(lines, m)
  <2>1. CASE IsLabel(lines, i - 1)
    <3>1. i - 1 \in DOMAIN lines /\ m = i - 2 /\ (i - 2) + 1 = i - 1
      BY <2>1 DEF IsLabel
    <3>2. ASSUME IsLabel(lines, i - 2) PROVE FALSE
      <4>1. i - 2 \in DOMAIN lines /\ IsLabel(lines, (i - 2) + 1)
        BY <2>1, <3>1, <3>2 DEF IsLabel
      <4> QED
        BY <3>2, <4>1 DEF Stacked
    <3> QED
      BY <3>1, <3>2
  <2>2. CASE ~IsLabel(lines, i - 1)
    BY <2>2
  <2> QED
    BY <2>1, <2>2
<1>6. Listing(front) = Listing(kept)
  <2>1. CASE IsLabel(lines, i - 1)
    <3> DEFINE k == i - 2
    <3>1. k \in 0 .. Len(lines) /\ k # Len(lines) /\ k + 1 = i - 1 /\ m = k
      BY <1>0, <2>1 DEF IsLabel
    <3> DEFINE label == lines[i - 1]
    <3>2. label.type = "label"
      BY <2>1 DEF IsLabel
    <3> HIDE DEF k
    <3>3. SubSeq(lines, 1, k + 1) = Append(SubSeq(lines, 1, k), lines[k + 1])
          /\ lines[k + 1] \in EditorLine
      BY <3>1, PrefixGrows
    <3>4. SubSeq(lines, 1, k) \in Seq(EditorLine)
      BY <3>1, Prefix
    <3>5. front = Append(kept, label) /\ label \in EditorLine /\ kept \in Seq(EditorLine)
      BY <3>1, <3>3, <3>4
    <3> HIDE DEF front, kept, label
    <3>6. Listing(front) = Listing(kept) \o Rows(label)
      BY <3>5, ListingMore
    <3>7. Rows(label) = <<>>
      BY <3>2 DEF Rows
    <3>8. Listing(kept) \o <<>> = Listing(kept)
      BY <3>5, ListingType, ConcatEmptySeq
    <3> QED
      BY <3>6, <3>7, <3>8
  <2>2. CASE ~IsLabel(lines, i - 1)
    BY <2>2
  <2> QED
    BY <2>1, <2>2
<1> HIDE DEF m
<1>7. kept \in Seq(EditorLine) /\ ~Stacked(kept) /\ ~EndsInLabel(kept)
  BY <1>4, <1>5, Prefix, StackedParts
<1>8. ~Stacked(back)
  <2>1. i \in 0 .. Len(lines)
    BY <1>0
  <2> QED
    BY <2>1, StackedParts
<1> HIDE DEF new, kept, front, back, l
<1>9. new \in Seq(EditorLine) /\ ~Stacked(new)
  BY <1>2, <1>3, <1>7, <1>8, ConcatProperties, StackedConcat
<1> DEFINE X == Listing(kept)
           Y == Listing(back)
           r == RowOf(l)
<1>10. X \in Seq(JobRow) /\ Y \in Seq(JobRow) /\ r \in JobRow
  BY <1>1, <1>2, <1>7, ListingType, RowsType DEF LineIsOne
<1>11. Listing(lines) = X \o <<r>> \o Y
  <2>1. Listing(lines) = Listing(front) \o Rows(l) \o Listing(back)
    BY <1>1, <1>2, ListingAround
  <2>2. Rows(l) = <<r>>
    BY <1>1 DEF Rows
  <2> QED
    BY <1>6, <2>1, <2>2
<1>12. Listing(new) = X \o Y
  BY <1>2, <1>3, <1>7, ListingConcat
<1> HIDE DEF X, Y, r
<1>13. WithoutOne(Listing(lines), X, Y, Len(X) + 1)
  BY <1>10, <1>11, PartsAround
<1>14. \E n \in 1 .. Len(Listing(lines)) :
         Listing(new) = SubSeq(Listing(lines), 1, n - 1)
                          \o SubSeq(Listing(lines), n + 1, Len(Listing(lines)))
  BY <1>12, <1>13 DEF WithoutOne
<1> QED
  BY <1>9, <1>14 DEF new

LEMMA InsertedLines ==
  ASSUME NEW lines \in Seq(EditorLine), ~Stacked(lines), NEW i \in 0 .. Len(lines),
         NEW e \in EditorLine, e.type = "job"
  PROVE  /\ insertCronEntry(lines, e, i) \in Seq(EditorLine)
         /\ ~Stacked(insertCronEntry(lines, e, i))
         /\ \E n \in 0 .. Len(Listing(lines)) :
              /\ Listing(insertCronEntry(lines, e, i))
                   = SubSeq(Listing(lines), 1, n) \o <<RowOf(e)>>
                       \o SubSeq(Listing(lines), n + 1, Len(Listing(lines)))
              /\ Len(Listing(insertCronEntry(lines, e, i))) = Len(Listing(lines)) + 1
<1> DEFINE new == insertCronEntry(lines, e, i)
           front == SubSeq(lines, 1, i)
           back == SubSeq(lines, i + 1, Len(lines))
           one == Append(front, e)
<1>1. (i + 1) - 1 = i
  OBVIOUS
<1>2. new = front \o <<e>> \o back
  BY <1>1 DEF insertCronEntry, InsertAt
<1>3. /\ front \in Seq(EditorLine) /\ back \in Seq(EditorLine)
      /\ ~Stacked(front) /\ ~Stacked(back) /\ lines = front \o back
  BY Prefix, Suffix, StackedParts
<1> HIDE DEF new, front, back
<1>4. one = front \o <<e>>
  BY <1>3, AppendIsConcat
<1>5. one \in Seq(EditorLine) /\ ~Stacked(one) /\ ~EndsInLabel(one)
  <2>1. e.type # "label"
    OBVIOUS
  <2> QED
    BY <1>3, <2>1, AppendLine
<1> HIDE DEF one
<1>6. new \in Seq(EditorLine) /\ ~Stacked(new)
  BY <1>2, <1>3, <1>4, <1>5, ConcatProperties, StackedConcat
<1> DEFINE X == Listing(front)
           Y == Listing(back)
           r == RowOf(e)
<1>7. X \in Seq(JobRow) /\ Y \in Seq(JobRow) /\ r \in JobRow
  BY <1>3, ListingType, RowsType DEF LineIsOne
<1>8. Listing(lines) = X \o Y
  BY <1>3, ListingConcat
<1>9. Listing(new) = X \o <<r>> \o Y
  BY <1>2, <1>3, ListingAround DEF Rows
<1> HIDE DEF X, Y, r
<1>10. Len(X) \in Nat /\ Len(Y) \in Nat /\ Len(X \o Y) = Len(X) + Len(Y)
  BY <1>7, LenProperties, ConcatProperties
<1>11. Len(X \o <<r>> \o Y) = Len(X) + 1 + Len(Y)
  BY <1>7, AroundOne DEF Around
<1>12. SubSeq(X \o Y, 1, Len(X)) = X /\ SubSeq(X \o Y, Len(X) + 1, Len(X \o Y)) = Y
  BY <1>7, ConcatParts
<1>13. Len(X) \in 0 .. Len(Listing(lines)) /\ Len(Listing(new)) = Len(Listing(lines)) + 1
  BY <1>8, <1>9, <1>10, <1>11
<1>14. Listing(new) = SubSeq(Listing(lines), 1, Len(X)) \o <<r>>
                        \o SubSeq(Listing(lines), Len(X) + 1, Len(Listing(lines)))
  BY <1>8, <1>9, <1>12, Zenon
<1>15. \E n \in 0 .. Len(Listing(lines)) :
         /\ Listing(new) = SubSeq(Listing(lines), 1, n) \o <<r>>
                             \o SubSeq(Listing(lines), n + 1, Len(Listing(lines)))
         /\ Len(Listing(new)) = Len(Listing(lines)) + 1
  BY <1>13, <1>14
<1> QED
  BY <1>6, <1>15 DEF new, r

(* The refinement *)

\* The editor's files: no two label lines in a row.
CrontabInv == crontab \in Seq(FileLine) /\ ~Stacked(crontab)

LEMMA ParsedIs ==
  ASSUME CrontabInv
  PROVE  /\ Parsed \in Seq(EditorLine) /\ ~Stacked(Parsed)
         /\ Len(Parsed) = Len(crontab) /\ DOMAIN crontab = 1 .. Len(crontab)
         /\ \A i \in DOMAIN crontab : IsJob(crontab, i) =>
              /\ i \in 1 .. Len(Parsed) /\ Parsed[i].type = "job"
              /\ NameOf(Parsed[i]) \in Name /\ RowOf(Parsed[i]) \in JobRow
         /\ JobsOf(crontab) = Listing(Parsed)
<1>1. crontab \in Seq(FileLine) /\ ~Stacked(crontab)
  BY DEF CrontabInv
<1>2. /\ Parsed \in Seq(EditorLine) /\ Len(Parsed) = Len(crontab)
      /\ \A i \in 1 .. Len(crontab) : Parsed[i].type = crontab[i].type
  BY <1>1, ParsedLines DEF Parsed
<1>3. DOMAIN crontab = 1 .. Len(crontab)
  BY <1>1, LenProperties
<1>4. ~Stacked(Parsed)
  BY <1>1, <1>2, SameKinds
<1>5. ASSUME NEW i \in DOMAIN crontab, IsJob(crontab, i)
      PROVE  /\ i \in 1 .. Len(Parsed) /\ Parsed[i].type = "job"
             /\ NameOf(Parsed[i]) \in Name /\ RowOf(Parsed[i]) \in JobRow
  <2>1. i \in 1 .. Len(Parsed) /\ Parsed[i].type = "job"
    BY <1>2, <1>3, <1>5 DEF IsJob
  <2>2. Parsed[i] \in EditorLine
    BY <1>2, <2>1, ElementOfSeq
  <2> QED
    BY <2>1, <2>2, RowsType DEF LineIsOne
<1>6. JobsOf(crontab) = Listing(Parsed)
  BY DEF JobsOf, Parsed
<1> QED
  BY <1>2, <1>3, <1>4, <1>5, <1>6

LEMMA EntryIs ==
  ASSUME NEW t \in Texts, NEW l \in Labels \cup {Unnamed}, NEW m \in Marks \cup {Unnamed}
  PROVE  /\ Entry(t, [label |-> l, mark |-> m]) \in EditorLine
         /\ Entry(t, [label |-> l, mark |-> m]).type = "job"
         /\ RowOf(Entry(t, [label |-> l, mark |-> m])) = [text |-> t, label |-> l, mark |-> m]
<1>1. [label |-> l, mark |-> m] \in Name
  BY DEF Name
<1>2. Entry(t, [label |-> l, mark |-> m]) \in EditorLine
  BY <1>1 DEF EditorLine
<1> DEFINE e == Entry(t, [label |-> l, mark |-> m])
<1>3. e.type = "job" /\ e.text = t /\ e.label = l /\ e.mark = m
  BY DEF Entry
<1>4. RowOf(e) = [text |-> t, label |-> l, mark |-> m]
  <2> HIDE DEF e
  <2> QED
    BY <1>3 DEF RowOf
<1> QED
  BY <1>2, <1>3, <1>4

LEMMA WriteIs ==
  ASSUME NEW lines \in Seq(EditorLine), ~Stacked(lines), Write(lines)
  PROVE  CrontabInv' /\ JobsOf(crontab)' = Listing(lines)
<1>1. crontab' = serializeCrontab(lines)
  BY DEF Write
<1>2. /\ serializeCrontab(lines) \in Seq(FileLine)
      /\ ~Stacked(serializeCrontab(lines))
      /\ JobsOf(serializeCrontab(lines)) = Listing(lines)
  BY RoundTrip
<1>3. crontab' \in Seq(FileLine) /\ ~Stacked(crontab') /\ JobsOf(crontab') = Listing(lines)
  BY <1>1, <1>2
<1>4. CrontabInv'
  BY <1>3 DEF CrontabInv
<1>5. JobsOf(crontab)' = JobsOf(crontab')
  OBVIOUS
<1> QED
  BY <1>3, <1>4, <1>5

\* Changing text and label of a row one after the other.
EditedAs(list, n, t, l) ==
  [list EXCEPT ![n].text = t, ![n].label = l]
    = [list EXCEPT ![n] = [text |-> t, label |-> l, mark |-> list[n].mark]]

LEMMA RowEdited ==
  ASSUME NEW list \in Seq(JobRow), NEW n \in 1 .. Len(list), NEW t, NEW l
  PROVE  EditedAs(list, n, t, l)
<1>1. list \in [1 .. Len(list) -> JobRow]
  BY LenProperties
<1>2. list[n] \in JobRow
  BY <1>1
<1> DEFINE r == list[n]
           new == [text |-> t, label |-> l, mark |-> r.mark]
<1>3. r = [text |-> r.text, label |-> r.label, mark |-> r.mark]
  BY <1>2 DEF JobRow
<1>4. [r EXCEPT !.text = t] = [text |-> t, label |-> r.label, mark |-> r.mark]
  <2> HIDE DEF r
  <2> QED
    BY <1>3
<1>5. [[r EXCEPT !.text = t] EXCEPT !.label = l] = new
  <2> DEFINE s == [r EXCEPT !.text = t]
             label == r.label
             mark == r.mark
  <2>1. s = [text |-> t, label |-> label, mark |-> mark]
    BY <1>4
  <2> HIDE DEF s, label, mark
  <2>2. [s EXCEPT !.label = l] = [text |-> t, label |-> l, mark |-> mark]
    BY <2>1
  <2> QED
    BY <2>2 DEF s, mark
<1>6. [list EXCEPT ![n].text = t, ![n].label = l]
        = [list EXCEPT ![n] = [[r EXCEPT !.text = t] EXCEPT !.label = l]]
  BY <1>1
<1> QED
  BY <1>5, <1>6 DEF EditedAs

LEMMA JobEdited ==
  ASSUME NEW line \in EditorLine, line.type = "job", NEW t, NEW l
  PROVE  [line EXCEPT !.text = t, !.label = l] = Entry(t, [label |-> l, mark |-> line.mark])
<1>1. PICK u \in Texts, m \in Name : line = Entry(u, m)
  BY DEF EditorLine, LabelLine
<1> DEFINE a == m.label
           b == m.mark
<1>2. line = [type |-> "job", text |-> u, label |-> a, mark |-> b]
  BY <1>1 DEF Entry
<1> HIDE DEF a, b
<1>3. [line EXCEPT !.text = t] = [type |-> "job", text |-> t, label |-> a, mark |-> b]
  BY <1>2
<1>4. [[line EXCEPT !.text = t] EXCEPT !.label = l]
        = [type |-> "job", text |-> t, label |-> l, mark |-> b]
  <2> DEFINE s == [line EXCEPT !.text = t]
  <2>1. s = [type |-> "job", text |-> t, label |-> a, mark |-> b]
    BY <1>3
  <2> HIDE DEF s
  <2>2. [s EXCEPT !.label = l] = [type |-> "job", text |-> t, label |-> l, mark |-> b]
    BY <2>1
  <2> QED
    BY <2>2 DEF s
<1>5. line.mark = b
  BY <1>2
<1>6. Entry(t, [label |-> l, mark |-> line.mark])
        = [type |-> "job", text |-> t, label |-> l, mark |-> b]
  BY <1>5 DEF Entry
<1> QED
  BY <1>4, <1>6

LEMMA JobsStep ==
  ASSUME CrontabInv, CrontabNext
  PROVE  CrontabInv' /\ Listed!Next
<1> DEFINE J == JobsOf(crontab)
<1>0. /\ Parsed \in Seq(EditorLine) /\ ~Stacked(Parsed)
      /\ Len(Parsed) = Len(crontab) /\ DOMAIN crontab = 1 .. Len(crontab)
      /\ \A i \in DOMAIN crontab : IsJob(crontab, i) =>
           /\ i \in 1 .. Len(Parsed) /\ Parsed[i].type = "job"
           /\ NameOf(Parsed[i]) \in Name /\ RowOf(Parsed[i]) \in JobRow
      /\ J = Listing(Parsed)
  BY ParsedIs
<1>1. J \in Seq(JobRow) /\ DOMAIN J = 1 .. Len(J) /\ Len(J) \in Nat
  BY <1>0, ListingType, LenProperties
<1>2. ASSUME NEW i \in DOMAIN crontab, IsJob(crontab, i),
             NEW t \in Texts, NEW l \in Labels \cup {Unnamed}, NEW m \in Marks \cup {Unnamed},
             Write(updateCronEntry(Parsed, i, Entry(t, [label |-> l, mark |-> m])))
      PROVE  /\ CrontabInv'
             /\ \E n \in DOMAIN J :
                  /\ J[n] = RowOf(Parsed[i])
                  /\ J' = [J EXCEPT ![n] = [text |-> t, label |-> l, mark |-> m]]
  <2> DEFINE e == Entry(t, [label |-> l, mark |-> m])
             row == [text |-> t, label |-> l, mark |-> m]
  <2>1. e \in EditorLine /\ e.type = "job" /\ RowOf(e) = row
    BY EntryIs
  <2>2. i \in 1 .. Len(Parsed) /\ Parsed[i].type = "job"
    BY <1>0, <1>2
  <2>3. Write(updateCronEntry(Parsed, i, e))
    BY <1>2
  <2> HIDE DEF e, row
  <2>4. /\ updateCronEntry(Parsed, i, e) \in Seq(EditorLine)
        /\ ~Stacked(updateCronEntry(Parsed, i, e))
        /\ \E n \in 1 .. Len(Listing(Parsed)) :
             /\ Listing(Parsed)[n] = RowOf(Parsed[i])
             /\ Listing(updateCronEntry(Parsed, i, e)) = [Listing(Parsed) EXCEPT ![n] = RowOf(e)]
    BY <1>0, <2>1, <2>2, EditedLines
  <2>5. CrontabInv' /\ J' = Listing(updateCronEntry(Parsed, i, e))
    BY <2>3, <2>4, WriteIs
  <2>6. PICK n \in 1 .. Len(Listing(Parsed)) :
          /\ Listing(Parsed)[n] = RowOf(Parsed[i])
          /\ Listing(updateCronEntry(Parsed, i, e)) = [Listing(Parsed) EXCEPT ![n] = RowOf(e)]
    BY <2>4
  <2> HIDE DEF J
  <2>7. n \in DOMAIN J /\ J[n] = RowOf(Parsed[i]) /\ J' = [J EXCEPT ![n] = row]
    BY <1>0, <1>1, <2>1, <2>5, <2>6
  <2> QED
    BY <2>5, <2>7 DEF row
<1>3. ASSUME NEW i \in DOMAIN crontab, IsJob(crontab, i), EditJob(i)
      PROVE  CrontabInv' /\ \E n \in DOMAIN J : Listed!Edit(n)
  <2>1. PICK t \in Texts, l \in Labels \cup {Unnamed} :
          Write(updateCronEntry(Parsed, i, [Parsed[i] EXCEPT !.text = t, !.label = l]))
    BY <1>3 DEF EditJob
  <2> DEFINE m == Parsed[i].mark
  <2>2. Parsed[i].type = "job" /\ Parsed[i] \in EditorLine
    BY <1>0, <1>3, ElementOfSeq
  <2>3. [Parsed[i] EXCEPT !.text = t, !.label = l] = Entry(t, [label |-> l, mark |-> m])
    BY <2>2, JobEdited
  <2>4. m \in Marks \cup {Unnamed} /\ RowOf(Parsed[i]).mark = m
    BY <1>0, <1>3 DEF RowOf, NameOf, Name
  <2>5. Write(updateCronEntry(Parsed, i, Entry(t, [label |-> l, mark |-> m])))
    BY <2>1, <2>3
  <2> HIDE DEF m
  <2>6. /\ CrontabInv'
        /\ \E n \in DOMAIN J :
             /\ J[n] = RowOf(Parsed[i])
             /\ J' = [J EXCEPT ![n] = [text |-> t, label |-> l, mark |-> m]]
    <3> HIDE DEF J
    <3> QED
      BY <1>2, <1>3, <2>4, <2>5
  <2>7. PICK n \in DOMAIN J :
          J[n] = RowOf(Parsed[i]) /\ J' = [J EXCEPT ![n] = [text |-> t, label |-> l, mark |-> m]]
    BY <2>6
  <2> HIDE DEF J
  <2>8. [J EXCEPT ![n].text = t, ![n].label = l]
          = [J EXCEPT ![n] = [text |-> t, label |-> l, mark |-> J[n].mark]]
    <3>1. EditedAs(J, n, t, l)
      BY <1>1, RowEdited
    <3> QED
      BY <3>1, Zenon DEF EditedAs
  <2>9. J[n].mark = m
    BY <2>4, <2>7
  <2>10. J' = [J EXCEPT ![n].text = t, ![n].label = l]
    BY <2>7, <2>8, <2>9
  <2>11. Listed!Edit(n)
    BY <2>10 DEF Listed!Edit, J
  <2> QED
    BY <2>6, <2>11
<1>4. ASSUME NEW i \in DOMAIN crontab, IsJob(crontab, i),
             NEW t \in Texts, NEW l \in Labels \cup {Unnamed}, NEW m \in Marks \cup {Unnamed},
             Write(updateCronEntry(Parsed, i, Entry(t, [label |-> l, mark |-> m])))
      PROVE  CrontabInv' /\ \E n \in DOMAIN J : Listed!Link(n)
  <2>1. CrontabInv' /\ \E n \in DOMAIN J :
           J' = [J EXCEPT ![n] = [text |-> t, label |-> l, mark |-> m]]
    <3> HIDE DEF J
    <3> QED
      BY <1>2, <1>4
  <2>2. [text |-> t, label |-> l, mark |-> m] \in Listed!Job
    BY DEF Listed!Job
  <2> QED
    BY <2>1, <2>2 DEF Listed!Link
<1>5. ASSUME NEW i \in DOMAIN crontab, IsJob(crontab, i), MonitorJob(i)
      PROVE  CrontabInv' /\ \E n \in DOMAIN J : Listed!Link(n)
  <2>1. PICK t \in Texts, m \in Marks, l \in Labels \cup {Parsed[i].label} :
          Write(updateCronEntry(Parsed, i, Entry(t, [label |-> l, mark |-> m])))
    BY <1>5 DEF MonitorJob
  <2>2. Parsed[i].label \in Labels \cup {Unnamed}
    BY <1>0, <1>5 DEF NameOf, Name
  <2>3. l \in Labels \cup {Unnamed} /\ m \in Marks \cup {Unnamed}
    BY <2>2
  <2> HIDE DEF J
  <2> QED
    BY <1>4, <1>5, <2>1, <2>3
<1>6. ASSUME NEW i \in DOMAIN crontab, IsJob(crontab, i), UnmonitorJob(i)
      PROVE  CrontabInv' /\ \E n \in DOMAIN J : Listed!Link(n)
  <2>1. PICK t \in Texts, l \in {Unnamed, Parsed[i].label} :
          Write(updateCronEntry(Parsed, i, Entry(t, [label |-> l, mark |-> Unnamed])))
    BY <1>6 DEF UnmonitorJob
  <2>2. Parsed[i].label \in Labels \cup {Unnamed}
    BY <1>0, <1>6 DEF NameOf, Name
  <2>3. l \in Labels \cup {Unnamed} /\ Unnamed \in Marks \cup {Unnamed}
    BY <2>2
  <2> HIDE DEF J
  <2> QED
    BY <1>4, <1>6, <2>1, <2>3
<1>7. ASSUME NEW i \in DOMAIN crontab, IsJob(crontab, i), RemoveJob(i)
      PROVE  CrontabInv' /\ \E n \in DOMAIN J : Listed!Remove(n)
  <2> DEFINE new == removeCronEntry(Parsed, i)
  <2>1. Write(new)
    BY <1>7 DEF RemoveJob
  <2>2. i \in 1 .. Len(Parsed) /\ Parsed[i].type = "job"
    BY <1>0, <1>7
  <2>3. /\ new \in Seq(EditorLine) /\ ~Stacked(new)
        /\ \E n \in 1 .. Len(Listing(Parsed)) :
             Listing(new) = SubSeq(Listing(Parsed), 1, n - 1)
                              \o SubSeq(Listing(Parsed), n + 1, Len(Listing(Parsed)))
    BY <1>0, <2>2, RemovedLines
  <2> HIDE DEF new
  <2>4. CrontabInv' /\ J' = Listing(new)
    BY <2>1, <2>3, WriteIs
  <2>5. PICK n \in DOMAIN J : J' = SubSeq(J, 1, n - 1) \o SubSeq(J, n + 1, Len(J))
    <3> HIDE DEF J
    <3> QED
      BY <1>0, <1>1, <2>3, <2>4
  <2>6. Listed!Remove(n)
    BY <2>5 DEF Listed!Remove
  <2> QED
    BY <2>4, <2>6
<1>8. ASSUME InsertJob
      PROVE  CrontabInv' /\ Listed!Insert
  <2>1. PICK t \in Texts, l \in Labels \cup {Unnamed},
             i \in {Len(crontab)} \cup {k \in DOMAIN crontab : IsJob(crontab, k)} :
          Write(insertCronEntry(Parsed, Entry(t, [label |-> l, mark |-> Unnamed]), i))
    BY <1>8 DEF InsertJob
  <2> DEFINE e == Entry(t, [label |-> l, mark |-> Unnamed])
             row == [text |-> t, label |-> l, mark |-> Unnamed]
             new == insertCronEntry(Parsed, e, i)
  <2>2. e \in EditorLine /\ e.type = "job" /\ RowOf(e) = row
    BY EntryIs
  <2>3. i \in 0 .. Len(Parsed)
    <3>1. Len(Parsed) \in Nat
      BY <1>0, LenProperties
    <3> QED
      BY <1>0, <3>1
  <2>4. Write(new)
    BY <2>1
  <2> HIDE DEF e
  <2>5. /\ new \in Seq(EditorLine) /\ ~Stacked(new)
        /\ \E n \in 0 .. Len(Listing(Parsed)) :
             /\ Listing(new) = SubSeq(Listing(Parsed), 1, n) \o <<RowOf(e)>>
                                 \o SubSeq(Listing(Parsed), n + 1, Len(Listing(Parsed)))
             /\ Len(Listing(new)) = Len(Listing(Parsed)) + 1
    BY <1>0, <2>2, <2>3, InsertedLines
  <2>6. row \in Listed!Job /\ row.mark = Unnamed
    BY DEF Listed!Job
  <2> HIDE DEF new, row
  <2>7. CrontabInv' /\ J' = Listing(new)
    BY <2>4, <2>5, WriteIs
  <2>8. PICK n \in 0 .. Len(J) :
          /\ J' = SubSeq(J, 1, n) \o <<row>> \o SubSeq(J, n + 1, Len(J))
          /\ Len(J') = Len(J) + 1
    <3> HIDE DEF J
    <3> QED
      BY <1>0, <2>2, <2>5, <2>7
  <2>9. Listed!Insert
    BY <2>6, <2>8 DEF Listed!Insert
  <2> QED
    BY <2>7, <2>9
<1> HIDE DEF J
<1>9. CASE InsertJob
  BY <1>8, <1>9 DEF Listed!Next
<1>10. CASE \E i \in DOMAIN crontab :
              /\ IsJob(crontab, i)
              /\ EditJob(i) \/ MonitorJob(i) \/ UnmonitorJob(i) \/ RemoveJob(i)
  BY <1>3, <1>5, <1>6, <1>7, <1>10 DEF Listed!Next, J
<1> QED
  BY <1>9, <1>10 DEF CrontabNext

LEMMA CrontabStart ==
  ASSUME CrontabInit
  PROVE  CrontabInv /\ Listed!Init
<1>1. crontab \in Seq(FileLine)
  <2>1. crontab \in UNION {[1 .. m -> FileLine] : m \in 0 .. MaxLines}
    BY DEF CrontabInit, BoundedSeq, SeqOf
  <2>2. PICK m \in 0 .. MaxLines : crontab \in [1 .. m -> FileLine]
    BY <2>1
  <2>3. m \in Nat
    BY CrontabAssumption
  <2> QED
    BY <2>2, <2>3, SeqDef
<1>2. CrontabInv
  BY <1>1 DEF CrontabInit, CrontabInv
<1>3. JobsOf(crontab) \in Seq(JobRow)
  BY <1>2, ParsedIs, ListingType
<1>4. JobRow = Listed!Job
  BY DEF JobRow, Listed!Job
<1> QED
  BY <1>2, <1>3, <1>4 DEF Listed!Init

\* Editing a crontab as text (parse, change one line, write back, parse again) is editing
\* its list of jobs: an edit is of one job, and every other keeps its place, its label and
\* its heartbeat (serializeCrontab as the "inverse of parseCrontab", cron.ts).
THEOREM EditsAreOfOneJob == CrontabSpec => JobListSpec
<1>1. CrontabInit => CrontabInv /\ Listed!Init
  BY CrontabStart
<1>2. CrontabInv /\ [CrontabNext]_crontab => CrontabInv' /\ [Listed!Next]_(JobsOf(crontab))
  <2>1. CASE CrontabNext
    BY <2>1, JobsStep
  <2>2. CASE crontab' = crontab
    <3>1. CrontabInv => CrontabInv'
      BY <2>2 DEF CrontabInv
    <3>2. JobsOf(crontab)' = JobsOf(crontab)
      BY <2>2
    <3> QED
      BY <3>1, <3>2
  <2> QED
    BY <2>1, <2>2
<1> QED
  BY <1>1, <1>2, PTL DEF CrontabSpec, JobListSpec, Listed!Spec

================================================================================
