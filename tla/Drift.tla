--------------------------------- MODULE Drift ---------------------------------
(***************************************************************************)
(* Configuration drift of one server (services/drift.service.ts): scans    *)
(* that store a snapshot and report what differs from the baseline, the    *)
(* acceptance of a new baseline, acknowledgements, and the incident they   *)
(* open and close.                                                         *)
(*                                                                         *)
(* Scans, acceptances and acknowledgements commit under one advisory lock, *)
(* so each transaction is one action; what they collect before it, read    *)
(* before it or emit after it is an action of its own.  Snapshots are      *)
(* numbered by id, and a category's content is one value.                  *)
(***************************************************************************)
EXTENDS Integers, FiniteSetsExt

CONSTANTS
  Actor,      \* scans and requests being served, on any replica
  Category, Content,
  Unread,     \* a category the scan could not collect (null)
  Keep,       \* DRIFT_SNAPSHOT_KEEP
  MaxSnaps, MaxChanges, MaxLost   \* bounds: scans, changes on the host, lost alerts

ASSUME DriftKeepAssumption == Keep \in Nat /\ Keep >= 2
ASSUME DriftBoundAssumption ==
  /\ MaxSnaps \in Nat /\ MaxChanges \in Nat /\ MaxLost \in Nat
  /\ Unread \notin Content

VARIABLES
  host,        \* what is on the host
  snaps,       \* the stored snapshots, by id; 0 of them at first
  baseline,    \* the id of the snapshot with isBaseline, 0 if there is none
  events,      \* the drift events
  incident,    \* is the drift incident open at the alert channels?
  actor,       \* where each scan or request is
  rewound,     \* history: the baseline is older than the latest snapshot was then
  taken, changes, lost

driftVars == <<host, snaps, baseline, events, incident, actor, rewound, taken, changes, lost>>

------------------------------------------------------------------------------

Data == [Category -> Content \cup {Unread}]
Event == [category : Category, fingerprint : Content \X Content,
          snap : 0 .. MaxSnaps,    \* snapshotId, 0 once the snapshot is pruned
          at : 1 .. MaxSnaps,      \* detectedAt, as the scan it was detected by
          open : BOOLEAN]
NoData == [c \in Category |-> Unread]
Resting == [pc |-> "idle", data |-> NoData, event |-> {}]

DriftTypeOK ==
  /\ host \in [Category -> Content]
  /\ snaps \in UNION {[D -> Data] : D \in SUBSET (1 .. MaxSnaps)}
  /\ baseline \in 0 .. MaxSnaps
  /\ events \subseteq Event
  /\ incident \in BOOLEAN /\ rewound \in BOOLEAN
  /\ actor \in [Actor -> [pc : {"idle", "store", "ack", "trigger", "resolve"},
                          data : Data, event : SUBSET Event]]
  /\ taken \in 0 .. MaxSnaps /\ changes \in 0 .. MaxChanges /\ lost \in 0 .. MaxLost

DriftInit ==
  /\ host \in [Category -> Content]
  /\ snaps = <<>>
  /\ baseline = 0 /\ events = {} /\ incident = FALSE /\ rewound = FALSE
  /\ actor = [a \in Actor |-> Resting]
  /\ taken = 0 /\ changes = 0 /\ lost = 0

AtStep(a, pc) == actor[a].pc = pc
GoTo(a, pc) == actor' = [actor EXCEPT ![a] = [Resting EXCEPT !.pc = pc]]

Latest == Max({0} \cup DOMAIN snaps)
Open == {e \in events : e.open}

\* diffSnapshots: a category either side could not read is skipped; equal
\* fingerprints are the same drift.
Differs(base, cur) ==
  {c \in Category : base[c] # Unread /\ cur[c] # Unread /\ base[c] # cur[c]}
Fingerprint(base, cur, c) == <<base[c], cur[c]>>

------------------------------------------------------------------------------
(* A scan *)

HostChanges ==
  /\ changes < MaxChanges
  /\ changes' = changes + 1
  /\ \E c \in Category, v \in Content : v # host[c] /\ host' = [host EXCEPT ![c] = v]
  /\ UNCHANGED <<snaps, baseline, events, incident, actor, rewound, taken, lost>>

\* collectSnapshot, before the lock; without root some categories are missing.
Collect(a) ==
  /\ AtStep(a, "idle")
  /\ \E U \in SUBSET Category :
       actor' = [actor EXCEPT ![a] =
         [pc |-> "store", event |-> {},
          data |-> [c \in Category |-> IF c \in U THEN Unread ELSE host[c]]]]
  /\ UNCHANGED <<host, snaps, baseline, events, incident, rewound, taken, changes, lost>>

\* Mutant: a category that differed before is not looked at again.
RepeatedCategory(data, c) ==
  Latest > baseline /\ c \in Differs(snaps[baseline], snaps[Latest])

\* What the previous scan against this same baseline already reported.
Repeated(data, c) ==
  /\ Latest > baseline
  /\ c \in Differs(snaps[baseline], snaps[Latest])
  /\ Fingerprint(snaps[baseline], snaps[Latest], c) = Fingerprint(snaps[baseline], data, c)

NewEvents(id, data) ==
  IF baseline = 0 THEN {}
  ELSE {[category |-> c, fingerprint |-> Fingerprint(snaps[baseline], data, c),
         snap |-> id, at |-> id, open |-> TRUE] :
          c \in {d \in Differs(snaps[baseline], data) : ~Repeated(data, d)}}

\* pruneSnapshots: the newest Keep - 1 besides the baseline stay.
Stale(ids, base) ==
  {i \in ids \ {base} : Cardinality({j \in ids \ {base} : j > i}) >= Keep - 1}

Detached(E, gone) == {[e EXCEPT !.snap = IF e.snap \in gone THEN 0 ELSE e.snap] : e \in E}

\* takeSnapshot's transaction.
Store(a) ==
  /\ AtStep(a, "store")
  /\ taken < MaxSnaps
  /\ taken' = taken + 1
  /\ LET new == NewEvents(taken', actor[a].data)
         ids == DOMAIN snaps \cup {taken'}
         gone == Stale(ids, baseline')
     IN /\ baseline' = IF baseline = 0 THEN taken' ELSE baseline
        /\ snaps' = [i \in ids \ gone |-> IF i = taken' THEN actor[a].data ELSE snaps[i]]
        /\ events' = Detached(events \cup new, gone)
        /\ GoTo(a, IF new = {} THEN "idle" ELSE "trigger")
  /\ UNCHANGED <<host, incident, rewound, changes, lost>>

------------------------------------------------------------------------------
(* Acceptance and acknowledgement *)

\* The events recorded by the chosen snapshot or an older one, pruned or not.
Covered(chosen) ==
  {e \in Open : IF e.snap = 0 THEN e.at <= chosen ELSE e.snap <= chosen}

\* acceptBaseline: the latest snapshot, or the one the admin names.
Accept(a) ==
  /\ AtStep(a, "idle")
  /\ \E chosen \in DOMAIN snaps :
       /\ baseline' = chosen
       /\ rewound' = (chosen # Latest)
       /\ events' = {[e EXCEPT !.open = FALSE] : e \in Covered(chosen)}
                      \cup (events \ Covered(chosen))
       /\ GoTo(a, IF Covered(chosen) # {} /\ Covered(chosen) = Open THEN "resolve" ELSE "idle")
  /\ UNCHANGED <<host, snaps, incident, taken, changes, lost>>

\* acknowledgeDriftEvent: read outside the lock.
ReadEvent(a) ==
  /\ AtStep(a, "idle")
  /\ \E e \in Open : actor' = [actor EXCEPT ![a] = [pc |-> "ack", data |-> NoData, event |-> {e}]]
  /\ UNCHANGED <<host, snaps, baseline, events, incident, rewound, taken, changes, lost>>

SameEvent(e, f) == e.category = f.category /\ e.at = f.at

\* Only the acknowledgement that emptied the open set resolves the incident.
Acknowledge(a) ==
  /\ AtStep(a, "ack")
  /\ LET mine == {e \in Open : \E f \in actor[a].event : SameEvent(e, f)}
     IN /\ events' = {[e EXCEPT !.open = FALSE] : e \in mine} \cup (events \ mine)
        /\ GoTo(a, IF mine # {} /\ mine = Open THEN "resolve" ELSE "idle")
  /\ UNCHANGED <<host, snaps, baseline, incident, rewound, taken, changes, lost>>

(* The alerts, after the commit and outside the lock *)

Emit(a) ==
  /\ actor[a].pc \in {"trigger", "resolve"}
  /\ incident' = AtStep(a, "trigger")
  /\ GoTo(a, "idle")
  /\ UNCHANGED <<host, snaps, baseline, events, rewound, taken, changes, lost>>

\* The emit fails, and is logged; or the process dies before it.
EmitLost(a) ==
  /\ actor[a].pc \in {"trigger", "resolve"} /\ lost < MaxLost
  /\ lost' = lost + 1
  /\ GoTo(a, "idle")
  /\ UNCHANGED <<host, snaps, baseline, events, incident, rewound, taken, changes>>

DriftNext ==
  \/ HostChanges
  \/ \E a \in Actor :
       \/ Collect(a) \/ Store(a) \/ Accept(a) \/ ReadEvent(a) \/ Acknowledge(a)
       \/ Emit(a) \/ EmitLost(a)

DriftSpec == DriftInit /\ [][DriftNext]_driftVars

------------------------------------------------------------------------------
(* Properties *)

\* A scan reports a difference only if the scan before it did not, and yet nothing
\* goes unreported: whatever the latest snapshot shows against the baseline is on
\* record as an event found against that baseline, with this very fingerprint;
\* pruning never takes the baseline or the snapshot the next scan compares with.
\* Not once an admin has gone back to an older snapshot: what the newer ones show
\* against it then counts as reported, though no scan has.
DriftIsOnRecord ==
  /\ baseline # 0 <=> taken # 0
  /\ baseline # 0 =>
       /\ {baseline, taken} \subseteq DOMAIN snaps
       /\ ~rewound => \A c \in Differs(snaps[baseline], snaps[Latest]) :
            \E e \in events :
              /\ e.category = c /\ e.at > baseline
              /\ e.fingerprint = Fingerprint(snaps[baseline], snaps[Latest], c)

\* Once nothing is under way, the incident is open exactly while an event is: what
\* the comment "so 'was this the server's last open event?' cannot race a scan"
\* asks of the resolve.
IncidentIsTrue ==
  (lost = 0 /\ \A a \in Actor : AtStep(a, "idle")) => (incident <=> Open # {})
=================================================================================
