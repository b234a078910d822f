-------------------------------- MODULE License --------------------------------
(***************************************************************************)
(* The licence row (services/license.service.ts) and the cached verdict    *)
(* the alert dispatcher works with (services/alerting/license.ts).         *)
(*                                                                         *)
(* A process answers isMultiChannelLicensed from a verdict it cached less  *)
(* than CacheTime ago, or reads the row: two queries, during which the     *)
(* licence may be activated, deactivated or expire.  Activation writes     *)
(* the row, then drops the cache of its own process.                       *)
(***************************************************************************)
EXTENDS Integers

CONSTANTS
  Instance,    \* API processes
  CacheTime,   \* CACHE_MS
  MaxTime      \* bound

ASSUME LicenseAssumption ==
  CacheTime \in Nat \ {0} /\ MaxTime \in Nat

VARIABLES
  time,
  license,   \* the row: tier, expiresAt (MaxTime + 1: never)
  cache,     \* of each process: at, multi; at -1 when there is none
  load,      \* the load each process has under way
  admin,     \* the activation or deactivation each process serves
  lastHeld   \* when each verdict was last true

licenseVars == <<time, license, cache, load, admin, lastHeld>>

------------------------------------------------------------------------------

Never == MaxTime + 1
LicenseRow == [tier : {"free", "paid"}, until : 0 .. Never]
FreeRow == [tier |-> "free", until |-> Never]
NoCache == [at |-> -1, multi |-> FALSE]
NoLoad == [pc |-> "idle", since |-> 0, multi |-> FALSE]
NoTask == [pc |-> "idle", row |-> FreeRow]

LicenseTypeOK ==
  /\ time \in 0 .. MaxTime
  /\ license \in LicenseRow
  /\ cache \in [Instance -> [at : -1 .. MaxTime, multi : BOOLEAN]]
  /\ load \in [Instance -> [pc : {"idle", "reading", "read"}, since : 0 .. MaxTime,
                            multi : BOOLEAN]]
  /\ admin \in [Instance -> [pc : {"idle", "write", "invalidate"}, row : LicenseRow]]
  /\ lastHeld \in [BOOLEAN -> -1 .. MaxTime]

\* getLicenseStatus: an expired licence is worth no more than none.
Entitled(row, t) == row.tier = "paid" /\ row.until >= t

\* The verdicts that held up to now, after a step that may change it.
Held == lastHeld' = [lastHeld EXCEPT ![Entitled(license', time')] = time']

LicenseInit ==
  /\ time = 0
  /\ license = FreeRow
  /\ cache = [i \in Instance |-> NoCache]
  /\ load = [i \in Instance |-> NoLoad]
  /\ admin = [i \in Instance |-> NoTask]
  /\ lastHeld = [v \in BOOLEAN |-> IF v THEN -1 ELSE 0]

Tick ==
  /\ time < MaxTime
  /\ time' = time + 1
  /\ UNCHANGED <<license, cache, load, admin>>
  /\ Held

------------------------------------------------------------------------------
(* The cached verdict *)

FreshCache(i) == cache[i].at # -1 /\ time - cache[i].at < CacheTime

\* `now` is taken when the call begins.
StartLoad(i) ==
  /\ load[i].pc = "idle" /\ ~FreshCache(i)
  /\ load' = [load EXCEPT ![i] = [pc |-> "reading", since |-> time, multi |-> FALSE]]
  /\ UNCHANGED <<time, license, cache, admin, lastHeld>>

ReadLicense(i) ==
  /\ load[i].pc = "reading"
  /\ load' = [load EXCEPT ![i].pc = "read", ![i].multi = Entitled(license, time)]
  /\ UNCHANGED <<time, license, cache, admin, lastHeld>>

\* Mutant: the entry's age counts from the end of the load.
CacheEntryNow(i) == [at |-> time, multi |-> load[i].multi]

\* What the load leaves in the cache.
CacheEntry(i) == [at |-> load[i].since, multi |-> load[i].multi]

FinishLoad(i) ==
  /\ load[i].pc = "read"
  /\ cache' = [cache EXCEPT ![i] = CacheEntry(i)]
  /\ load' = [load EXCEPT ![i] = NoLoad]
  /\ UNCHANGED <<time, license, admin, lastHeld>>

------------------------------------------------------------------------------
(* Changing the licence *)

\* activateLicense has accepted a key: an offline token it could verify, Licencia's
\* answer, or, where BILLING_MODE allows that, any.  A refused one changes nothing.
Activate(i) ==
  /\ admin[i].pc = "idle"
  /\ \E u \in {time + 1, Never} :
       admin' = [admin EXCEPT ![i] = [pc |-> "write", row |-> [tier |-> "paid", until |-> u]]]
  /\ UNCHANGED <<time, license, cache, load, lastHeld>>

\* deactivateLicense, after Licencia has been told, or not.
Deactivate(i) ==
  /\ admin[i].pc = "idle"
  /\ admin' = [admin EXCEPT ![i] = [pc |-> "write", row |-> FreeRow]]
  /\ UNCHANGED <<time, license, cache, load, lastHeld>>

WriteLicense(i) ==
  /\ admin[i].pc = "write"
  /\ license' = admin[i].row
  /\ admin' = [admin EXCEPT ![i].pc = "invalidate"]
  /\ UNCHANGED <<time, cache, load>>
  /\ Held

\* invalidateAlertLicenseCache.
Invalidate(i) ==
  /\ admin[i].pc = "invalidate"
  /\ cache' = [cache EXCEPT ![i] = NoCache]
  /\ admin' = [admin EXCEPT ![i] = NoTask]
  /\ UNCHANGED <<time, license, load, lastHeld>>

LicenseNext ==
  \/ Tick
  \/ \E i \in Instance :
       \/ StartLoad(i) \/ ReadLicense(i) \/ FinishLoad(i)
       \/ Activate(i) \/ Deactivate(i) \/ WriteLicense(i) \/ Invalidate(i)

LicenseSpec == LicenseInit /\ [][LicenseNext]_licenseVars

------------------------------------------------------------------------------
(* Properties *)

\* However long a load takes and whatever becomes of the licence during it, on this
\* process or another, a verdict that is answered from the cache was true less than
\* CacheTime ago; so a lapsed licence is noticed everywhere within CacheTime.
VerdictIsRecent ==
  \A i \in Instance :
    FreshCache(i) => /\ lastHeld[cache[i].multi] # -1
                     /\ time - lastHeld[cache[i].multi] < CacheTime

\* "Drop the cached verdict (tests, and anything that just changed the license)":
\* false, since a load that read the row before the change caches what it read.
ChangesAreSeen ==
  \A i \in Instance :
    (FreshCache(i) /\ \A j \in Instance : admin[j].pc = "idle" /\ load[j].pc = "idle")
      => cache[i].multi = Entitled(license, time)
=================================================================================
