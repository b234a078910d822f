-------------------------------- MODULE Patches --------------------------------
(***************************************************************************)
(* Patch scans and applies of one server (services/patch.service.ts): the  *)
(* scans each process joins or runs, the fleet queue, updates applied and  *)
(* the rescan after them, the stored status and the incident it moves.     *)
(*                                                                         *)
(* `security` stands for securityCount > 0.  rebootRequired and its own    *)
(* incident follow the same rule from another column and are left out.     *)
(***************************************************************************)
EXTENDS Integers, FiniteSets

CONSTANTS
  Request,     \* calls of scanServerPatches and applyServerPatches
  ApiNode,
  Limit,       \* PATCH_SCAN_CONCURRENCY
  MaxReleases  \* bound: changes of the host

ASSUME PatchAssumption == ApiNode # {} /\ Limit \in Nat \ {0} /\ MaxReleases \in Nat

VARIABLES
  published,   \* a security update the host has not installed
  index,       \* the host's package index knows of it
  supported,   \* the host has a package manager RackMap knows
  dpkg,        \* which request's script holds the package manager's lock
  status,      \* the row: status, securityCount > 0
  patchAlert,  \* is the patch_available incident open?
  call,        \* where each request is
  releases,
  outOfStep    \* the row and the incident have been changed apart: a scan read the
               \* row while another was storing or announcing, an alert was lost, or
               \* "unsupported" took the count of an open incident

patchVars == <<published, index, supported, dpkg, status, patchAlert, call,
               releases, outOfStep>>

------------------------------------------------------------------------------

NoStatusRow == [status |-> "none", security |-> FALSE]
StatusRows == [status : {"none", "ok", "unsupported", "error"}, security : BOOLEAN]

\* PatchScanOptions; with a password of its own a scan is never shared, so
\* whether it also refreshes makes no further case.
ScanOption == {"plain", "refresh", "password"}

Call(pc, kind, r, refresh, override) ==
  [pc |-> pc, kind |-> kind, on |-> r, refresh |-> refresh, override |-> override,
   found |-> NoStatusRow, prev |-> FALSE]
NoCall == Call("idle", "scan", CHOOSE r \in ApiNode : TRUE, FALSE, FALSE)

PatchTypeOK ==
  /\ published \in BOOLEAN /\ index \in BOOLEAN /\ supported \in BOOLEAN
  /\ dpkg \subseteq Request /\ \A p, q \in dpkg : p = q
  /\ status \in StatusRows
  /\ patchAlert \in BOOLEAN
  /\ call \in [Request ->
       [pc : {"idle", "queued", "joined", "connect", "script", "record", "read",
              "store", "announce", "login", "apply", "stamp"},
        kind : {"scan", "fleet", "apply"}, on : ApiNode,
        refresh : BOOLEAN, override : BOOLEAN,
        found : StatusRows, prev : BOOLEAN]]
  /\ releases \in 0 .. MaxReleases
  /\ outOfStep \in BOOLEAN

PatchInit ==
  /\ published \in BOOLEAN /\ index = published /\ supported = TRUE /\ dpkg = {}
  /\ status = NoStatusRow /\ patchAlert = FALSE
  /\ call = [q \in Request |-> NoCall]
  /\ releases = 0 /\ outOfStep = FALSE

In(q, pc) == call[q].pc = pc
Move(q, pc) == call' = [call EXCEPT ![q] = IF pc = "idle" THEN NoCall ELSE [@ EXCEPT !.pc = pc]]
hostState == <<published, index, supported, dpkg>>

Scanning == {"connect", "script", "record", "read", "store", "announce"}

\* scansInFlight of a process; the rescan after an apply is not in it.
InFlight(r) == {q \in Request : /\ call[q].on = r /\ call[q].kind # "apply"
                                /\ call[q].pc \in Scanning}
Queued(r) == {q \in Request : call[q].on = r /\ call[q].kind = "fleet"
                              /\ call[q].pc \in Scanning \cup {"queued", "joined"}}

\* Scan q answers another request with the same options.
Equivalent(q, r, refresh, override) ==
  ~override /\ ~call[q].override /\ call[q].refresh = refresh /\ q \in InFlight(r)

------------------------------------------------------------------------------
(* Starting a scan *)

\* scanServerPatches: join an equivalent scan of this process, or run one's own.
Begin(q, kind, r, refresh, override) ==
  call' = [call EXCEPT ![q] =
             Call(IF \E s \in Request : Equivalent(s, r, refresh, override)
                  THEN "joined" ELSE "connect", kind, r, refresh, override)]

Scan(q) ==
  /\ In(q, "idle")
  /\ \E r \in ApiNode, o \in ScanOption : Begin(q, "scan", r, o = "refresh", o = "password")
  /\ UNCHANGED <<hostState, status, patchAlert, releases, outOfStep>>

\* queuePatchScans: not for a server that is queued or being scanned here.
Queue(q) ==
  /\ In(q, "idle")
  /\ \E r \in ApiNode, refresh \in BOOLEAN :
       /\ Queued(r) = {} /\ InFlight(r) = {}
       /\ call' = [call EXCEPT ![q] = Call("queued", "fleet", r, refresh, FALSE)]
  /\ UNCHANGED <<hostState, status, patchAlert, releases, outOfStep>>

\* The fleet limiter has room; the queued scan may join one that began meanwhile.
Dequeue(q) ==
  /\ In(q, "queued")
  /\ Cardinality(Queued(call[q].on) \ {p \in Request : In(p, "queued")}) < Limit
  /\ Begin(q, "fleet", call[q].on, call[q].refresh, FALSE)
  /\ UNCHANGED <<hostState, status, patchAlert, releases, outOfStep>>

\* The joined scan's promise settles for all that wait for it.
Release(q) ==
  /\ In(q, "joined")
  /\ \A s \in Request : ~Equivalent(s, call[q].on, call[q].refresh, FALSE)
  /\ Move(q, "idle")
  /\ UNCHANGED <<hostState, status, patchAlert, releases, outOfStep>>

Connect(q) ==
  /\ In(q, "connect")
  /\ \/ Move(q, "script") \/ Move(q, "record")
  /\ UNCHANGED <<hostState, status, patchAlert, releases, outOfStep>>

------------------------------------------------------------------------------
(* Scanning, storing, announcing *)

Found(q, s, sec) ==
  call' = [call EXCEPT ![q] =
             [@ EXCEPT !.pc = "read", !.found = [status |-> s, security |-> sec]]]

\* The scan script: a refresh updates the index first.  It may fail around the
\* script (record), or its output may be an error, or cannot be parsed.
ScanScript(q) ==
  /\ In(q, "script")
  /\ \/ /\ index' = (IF call[q].refresh THEN published ELSE index)
        /\ IF supported THEN Found(q, "ok", index') ELSE Found(q, "unsupported", FALSE)
     \/ Found(q, "error", FALSE) /\ UNCHANGED index
     \/ Move(q, "record") /\ UNCHANGED index
  /\ UNCHANGED <<published, supported, dpkg, status, patchAlert, releases,
                 outOfStep>>

\* Where a scan goes when it is over: an apply goes on to its stamp.
Over(q) == IF call[q].kind = "apply" THEN Move(q, "stamp") ELSE Move(q, "idle")

\* Mutant: an error stores its own, empty counts.
ErrorStatusEmpty == [status |-> "error", security |-> FALSE]

\* The upsert of an error: the counts of the last good scan stay.
ErrorStatus == [status EXCEPT !.status = "error"]

\* recordFailure, whose own failure is logged.
RecordFailure(q) ==
  /\ In(q, "record")
  /\ status' \in {status, ErrorStatus}
  /\ Over(q)
  /\ UNCHANGED <<hostState, patchAlert, releases, outOfStep>>

\* storeScan reads the row first; emitPatchEdges takes from it whether it had
\* security updates, "unsupported" having none...
WasSecurity == status.status # "unsupported" /\ status.security

ReadStatus(q) ==
  /\ In(q, "read")
  /\ call' = [call EXCEPT ![q] = [@ EXCEPT !.pc = "store", !.prev = WasSecurity]]
  /\ outOfStep' = (outOfStep \/ \E s \in Request \ {q} : In(s, "store") \/ In(s, "announce"))
  /\ UNCHANGED <<hostState, status, patchAlert, releases>>

\* ...then overwrites it.
Stored(found) == IF found.status = "error" THEN ErrorStatus ELSE found

StoreScan(q) ==
  /\ In(q, "store")
  /\ status' = Stored(call[q].found)
  /\ IF call[q].found.status = "ok" THEN Move(q, "announce") ELSE Over(q)
  /\ outOfStep' = (outOfStep \/ (call[q].found.status = "unsupported" /\ patchAlert))
  /\ UNCHANGED <<hostState, patchAlert, releases>>

\* emitPatchEdges: only a change is announced.
Announced(q) ==
  IF call[q].prev # call[q].found.security
  THEN call[q].found.security ELSE patchAlert

Announce(q) ==
  /\ In(q, "announce")
  /\ patchAlert' = Announced(q)
  /\ Over(q)
  /\ UNCHANGED <<hostState, status, releases, outOfStep>>

\* emitAlert fails and is logged.
AnnounceFails(q) ==
  /\ In(q, "announce")
  /\ outOfStep' = TRUE
  /\ Over(q)
  /\ UNCHANGED <<hostState, status, patchAlert, releases>>

------------------------------------------------------------------------------
(* Applying updates *)

Applying(r) == \E q \in Request : call[q].kind = "apply" /\ call[q].on = r /\ ~In(q, "idle")

\* appliesInFlight is a set in the memory of one process.
Apply(q) ==
  /\ In(q, "idle")
  /\ \E r \in ApiNode :
       /\ ~Applying(r)
       /\ call' = [call EXCEPT ![q] = Call("login", "apply", r, FALSE, FALSE)]
  /\ UNCHANGED <<hostState, status, patchAlert, releases, outOfStep>>

Login(q) ==
  /\ In(q, "login")
  /\ \/ Move(q, "idle") /\ UNCHANGED dpkg
     \/ /\ dpkg' = IF dpkg = {} /\ supported THEN {q} ELSE dpkg
        /\ Move(q, "apply")
  /\ UNCHANGED <<published, index, supported, status, patchAlert, releases,
                 outOfStep>>

\* The run succeeds for the holder of the lock; a failed run is rescanned as
\* well; a refusal, a timeout or a lost answer ends the request.
ApplyEnds(q) ==
  /\ In(q, "apply")
  /\ dpkg' = dpkg \ {q}
  /\ \/ /\ q \in dpkg
        /\ published' = (published /\ ~index) /\ index' = FALSE
     \/ UNCHANGED <<published, index>>
  /\ Move(q, "script") \/ Move(q, "idle")
  /\ UNCHANGED <<supported, status, patchAlert, releases, outOfStep>>

\* lastAppliedAt (only after a run that succeeded) and the audit entry.
Stamp(q) ==
  /\ In(q, "stamp")
  /\ Move(q, "idle")
  /\ UNCHANGED <<hostState, status, patchAlert, releases, outOfStep>>

(* The host *)

Publish ==
  /\ releases < MaxReleases /\ ~published
  /\ releases' = releases + 1
  /\ published' = TRUE
  /\ index' \in {index, TRUE}
  /\ UNCHANGED <<supported, dpkg, status, patchAlert, call, outOfStep>>

\* The package manager is gone (or back): a reinstalled host, a broken PATH.
Reinstall ==
  /\ releases < MaxReleases /\ dpkg = {}
  /\ releases' = releases + 1
  /\ supported' = ~supported
  /\ UNCHANGED <<published, index, dpkg, status, patchAlert, call, outOfStep>>

PatchNext ==
  \/ Publish \/ Reinstall
  \/ \E q \in Request :
       \/ Scan(q) \/ Queue(q) \/ Dequeue(q) \/ Release(q) \/ Connect(q)
       \/ ScanScript(q) \/ RecordFailure(q) \/ ReadStatus(q) \/ StoreScan(q)
       \/ Announce(q) \/ AnnounceFails(q)
       \/ Apply(q) \/ Login(q) \/ ApplyEnds(q) \/ Stamp(q)

PatchSpec == PatchInit /\ [][PatchNext]_patchVars

------------------------------------------------------------------------------
(* Properties *)

\* Whatever scans fail, are refreshed, joined or follow an apply, the incident is
\* open exactly while the row shows a security update: an announcement never goes
\* by anything but the row it has just replaced.
PatchAlertIsTrue ==
  (~outOfStep /\ \A q \in Request : ~In(q, "announce")) => patchAlert = status.security
=================================================================================
