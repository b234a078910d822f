-------------------------- MODULE SharedRecordsProofs --------------------------
(***************************************************************************)
(* The host keys, the licence, the vault, the job lock and the patch       *)
(* status, for any number of processes, requests, keys and credentials:    *)
(* five inductive invariants, each of a module of its own.                 *)
(***************************************************************************)
EXTENDS HostKeys, License, Vault, JobLock, Patches, TLAPS

------------------------------------------------------------------------------
(***************************************************************************)
(* TrustFollowsThePin for any number of handshakes and keys.               *)
(*                                                                         *)
(* The rows are numbered as they are created, so a number stands for one   *)
(* key for ever: that is what two verdicts, given at different times, have *)
(* in common.                                                              *)
(***************************************************************************)

USE HostKeyAssumption

------------------------------------------------------------------------------

\* There is a row, or there is none, and its number has been given out.
PinIsNumbered ==
  /\ pin = NoPin \/ pin.id # 0
  /\ pin.id =< pins

\* A number names the same key wherever it occurs.
NumbersAreUnique ==
  \A c \in Conn :
    /\ trusted[c].id =< pins
    /\ trusted[c].id # 0 /\ trusted[c].id = pin.id => trusted[c] = pin
    /\ \A d \in Conn : trusted[c].id # 0 /\ trusted[c].id = trusted[d].id
                         => trusted[c] = trusted[d]

\* A favourable verdict rests on a row with the key that was presented.
VerdictsRest ==
  \A c \in Conn :
    /\ verdict[c] = "none" <=> check[c] # "done"
    /\ verdict[c] \in {"first_seen", "match"}
         => trusted[c].id # 0 /\ trusted[c].key = presented[c]

HostKeyInv == HostKeyTypeOK /\ PinIsNumbered /\ NumbersAreUnique /\ VerdictsRest

LEMMA HostKeyInitInv == HostKeyInit => HostKeyInv
<1> SUFFICES ASSUME HostKeyInit PROVE HostKeyInv
    OBVIOUS
<1> USE DEF HostKeyInit, NoPin
<1>1. NoPin \in Pin
    BY DEF Pin
<1>2. HostKeyTypeOK
    BY <1>1 DEF HostKeyTypeOK, Decision
<1> QED
    BY <1>2 DEF HostKeyInv, PinIsNumbered, NumbersAreUnique, VerdictsRest

\* A verdict keeps the types.
LEMMA DecideType ==
  ASSUME HostKeyTypeOK, NEW c \in Conn, NEW d \in Decision, NEW p \in Pin, Decide(c, d, p)
  PROVE  /\ check' \in [Conn -> {"idle", "lookup", "create", "reread", "done"}]
         /\ verdict' \in [Conn -> Decision]
         /\ trusted' \in [Conn -> Pin]
BY DEF HostKeyTypeOK, Decide

\* A verdict about a row as it stands keeps the invariant, provided a favourable one
\* is about the key that was presented.
LEMMA DecideInv ==
  ASSUME HostKeyInv, NEW c \in Conn, NEW d \in Decision \ {"none"}, Decide(c, d, pin),
         UNCHANGED <<pin, pins, presented, toDelete>>,
         d \in {"first_seen", "match"} => pin.id # 0 /\ pin.key = presented[c]
  PROVE  HostKeyInv'
<1> USE DEF HostKeyInv
<1>0. pin \in Pin
    BY DEF HostKeyTypeOK
<1>1. HostKeyTypeOK'
    BY <1>0, DecideType DEF HostKeyTypeOK
<1>2. PinIsNumbered'
    BY DEF PinIsNumbered
<1>3. \A e \in Conn : /\ trusted'[e] = IF e = c THEN pin ELSE trusted[e]
                      /\ verdict'[e] = IF e = c THEN d ELSE verdict[e]
                      /\ check'[e] = IF e = c THEN "done" ELSE check[e]
    BY DEF Decide, HostKeyTypeOK
<1>4. NumbersAreUnique'
    BY <1>3 DEF NumbersAreUnique, PinIsNumbered
<1>5. VerdictsRest'
    BY <1>3 DEF VerdictsRest
<1> QED
    BY <1>1, <1>2, <1>4, <1>5

\* So does an error, which rests on nothing.
LEMMA ErrorInv ==
  ASSUME HostKeyInv, NEW c \in Conn, Decide(c, "error", NoPin),
         UNCHANGED <<pin, pins, presented, toDelete>>
  PROVE  HostKeyInv'
<1> USE DEF HostKeyInv
<1>0. NoPin \in Pin /\ NoPin.id = 0 /\ "error" \in Decision
    BY DEF NoPin, Pin, Decision
<1>1. HostKeyTypeOK'
    BY <1>0, DecideType DEF HostKeyTypeOK
<1>2. PinIsNumbered'
    BY DEF PinIsNumbered
<1>3. \A e \in Conn : /\ trusted'[e] = IF e = c THEN NoPin ELSE trusted[e]
                      /\ verdict'[e] = IF e = c THEN "error" ELSE verdict[e]
                      /\ check'[e] = IF e = c THEN "done" ELSE check[e]
    BY DEF Decide, HostKeyTypeOK
<1>4. NumbersAreUnique'
    BY <1>0, <1>3 DEF NumbersAreUnique, HostKeyTypeOK
<1>5. VerdictsRest'
    BY <1>3 DEF VerdictsRest
<1> QED
    BY <1>1, <1>2, <1>4, <1>5

\* A verification that goes on before it has a verdict.
LEMMA ProceedInv ==
  ASSUME HostKeyInv, NEW c \in Conn, NEW to \in {"lookup", "create", "reread"},
         check[c] # "done", Proceed(c, to), UNCHANGED <<pin, pins, presented, toDelete>>
  PROVE  HostKeyInv'
<1> USE DEF HostKeyInv
<1>1. HostKeyTypeOK'
    BY DEF Proceed, HostKeyTypeOK
<1>2. PinIsNumbered' /\ NumbersAreUnique'
    BY DEF PinIsNumbered, NumbersAreUnique, Proceed
<1>3. VerdictsRest'
    BY DEF VerdictsRest, Proceed, HostKeyTypeOK
<1> QED
    BY <1>1, <1>2, <1>3

\* Comparing with a row that is there.
LEMMA CompareInv ==
  ASSUME HostKeyInv, NEW c \in Conn, pin # NoPin, CompareKnown(c),
         UNCHANGED <<pin, pins, presented, toDelete>>
  PROVE  HostKeyInv'
<1>1. pin.id # 0
    BY DEF HostKeyInv, PinIsNumbered
<1>2. CASE pin.key = presented[c]
    BY <1>1, <1>2, DecideInv DEF CompareKnown, Decision
<1>3. CASE pin.key # presented[c]
    BY <1>1, <1>3, DecideInv DEF CompareKnown, Decision
<1> QED
    BY <1>2, <1>3

------------------------------------------------------------------------------

LEMMA HostKeyStep == HostKeyInv /\ [HostKeyNext]_hostKeyVars => HostKeyInv'
<1> SUFFICES ASSUME HostKeyInv, [HostKeyNext]_hostKeyVars PROVE HostKeyInv'
    OBVIOUS
<1>1. ASSUME NEW c \in Conn, Present(c)
      PROVE  HostKeyInv'
  <2> USE DEF HostKeyInv
  <2>1. HostKeyTypeOK'
      BY <1>1 DEF Present, Proceed, HostKeyTypeOK
  <2>2. PinIsNumbered' /\ NumbersAreUnique'
      BY <1>1 DEF Present, Proceed, PinIsNumbered, NumbersAreUnique
  <2>3. verdict[c] = "none"
      BY <1>1 DEF Present, VerdictsRest
  <2>4. VerdictsRest'
      BY <1>1, <2>3 DEF Present, Proceed, VerdictsRest, HostKeyTypeOK
  <2> QED
      BY <2>1, <2>2, <2>4
<1>2. ASSUME NEW c \in Conn, Lookup(c)
      PROVE  HostKeyInv'
    BY <1>2, ProceedInv, CompareInv DEF Lookup
<1>3. ASSUME NEW c \in Conn, Pinned(c)
      PROVE  HostKeyInv'
  <2> USE DEF HostKeyInv
  <2> DEFINE new == [id |-> pins + 1, key |-> presented[c]]
  <2>1. new \in Pin /\ pins + 1 \in 0 .. MaxPins /\ new.id = pins + 1 /\ new.id # 0
        /\ new.key = presented[c]
      BY <1>3 DEF Pinned, HostKeyTypeOK, Pin
  <2>2. pin' = new /\ pins' = pins + 1 /\ Decide(c, "first_seen", new)
        /\ presented' = presented /\ toDelete' = toDelete
      BY <1>3 DEF Pinned
  <2>3. HostKeyTypeOK'
      BY <2>1, <2>2, DecideType DEF HostKeyTypeOK, Decision
  <2>4. PinIsNumbered'
      BY <2>1, <2>2, <2>3 DEF PinIsNumbered, HostKeyTypeOK
  <2>5. \A e \in Conn : /\ trusted'[e] = IF e = c THEN new ELSE trusted[e]
                        /\ verdict'[e] = IF e = c THEN "first_seen" ELSE verdict[e]
                        /\ check'[e] = IF e = c THEN "done" ELSE check[e]
      BY <2>2 DEF Decide, HostKeyTypeOK
  <2>6. \A e \in Conn : trusted[e].id \in 0 .. MaxPins /\ trusted[e].id =< pins
      BY DEF NumbersAreUnique, HostKeyTypeOK, Pin
  <2>7. pins \in 0 .. MaxPins
      BY DEF HostKeyTypeOK
  <2> HIDE DEF new
  <2>8. NumbersAreUnique'
      BY <2>1, <2>2, <2>5, <2>6, <2>7 DEF NumbersAreUnique
  <2>9. VerdictsRest'
      BY <2>1, <2>2, <2>5 DEF VerdictsRest
  <2> QED
      BY <2>3, <2>4, <2>8, <2>9
<1>4. ASSUME NEW c \in Conn, CreateRefused(c)
      PROVE  HostKeyInv'
    BY <1>4, ProceedInv DEF CreateRefused
<1>5. ASSUME NEW c \in Conn, Reread(c)
      PROVE  HostKeyInv'
    BY <1>5, ErrorInv, CompareInv DEF Reread
<1>6. ASSUME NEW c \in Conn, StoreFails(c)
      PROVE  HostKeyInv'
    BY <1>6, ErrorInv DEF StoreFails
<1>7. CASE FindPin
    BY <1>7 DEF FindPin, HostKeyInv, HostKeyTypeOK, Pin, PinIsNumbered, NumbersAreUnique,
                VerdictsRest
<1>8. CASE DeletePin
  <2> USE DEF HostKeyInv
  <2>1. pin' \in {pin, NoPin} /\ NoPin \in Pin /\ NoPin.id = 0
      BY <1>8 DEF DeletePin, NoPin, Pin
  <2>2. UNCHANGED <<pins, presented, check, verdict, trusted>> /\ toDelete' = 0
      BY <1>8 DEF DeletePin
  <2>3. HostKeyTypeOK'
      BY <2>1, <2>2 DEF HostKeyTypeOK
  <2>4. PinIsNumbered' /\ NumbersAreUnique'
      BY <2>1, <2>2 DEF PinIsNumbered, NumbersAreUnique, HostKeyTypeOK
  <2>5. VerdictsRest'
      BY <2>2 DEF VerdictsRest
  <2> QED
      BY <2>3, <2>4, <2>5
<1>9. CASE UNCHANGED hostKeyVars
    BY <1>9 DEF hostKeyVars, HostKeyInv, HostKeyTypeOK, PinIsNumbered, NumbersAreUnique,
                VerdictsRest
<1> QED
    BY <1>1, <1>2, <1>3, <1>4, <1>5, <1>6, <1>7, <1>8, <1>9 DEF HostKeyNext

\* Two favourable verdicts with the same number have the same key.
LEMMA HostKeyInvImplies == HostKeyInv => TrustFollowsThePin
<1> SUFFICES ASSUME HostKeyInv, Tofu, NEW c \in Conn, Accepted(c)
             PROVE  /\ trusted[c].id # 0 /\ trusted[c].key = presented[c]
                    /\ \A d \in Conn : Accepted(d) /\ presented[d] # presented[c]
                                         => trusted[d].id # trusted[c].id
                    /\ pin.id = trusted[c].id => pin = trusted[c]
    BY DEF TrustFollowsThePin
<1>1. \A d \in Conn : Accepted(d) => trusted[d].id # 0 /\ trusted[d].key = presented[d]
    BY DEF Accepted, HostKeyInv, VerdictsRest
<1> QED
    BY <1>1 DEF HostKeyInv, NumbersAreUnique

\* Every reachable state of a host's pin and its verifications is well typed.
THEOREM HostKeyTypeCorrect == HostKeySpec => []HostKeyTypeOK
<1>1. HostKeyInv => HostKeyTypeOK
    BY DEF HostKeyInv
<1> QED
    BY <1>1, HostKeyInitInv, HostKeyStep, PTL DEF HostKeySpec

\* Whatever races between first connections and deletions of the pin, verifyHostKey
\* accepts a key only on the strength of a row that was created with that very key.
THEOREM TrustIsPinned == HostKeySpec => []TrustFollowsThePin
BY HostKeyInitInv, HostKeyStep, HostKeyInvImplies, PTL DEF HostKeySpec

------------------------------------------------------------------------------
(***************************************************************************)
(* VerdictIsRecent for any number of API processes, any cache time and any *)
(* length of time.                                                         *)
(*                                                                         *)
(* A verdict carries the time its load began.  What makes it recent is     *)
(* that the licence read afterwards stood at that time or later, and that  *)
(* the record of when a verdict last held only moves forward.              *)
(***************************************************************************)

USE LicenseAssumption

------------------------------------------------------------------------------

\* The verdict the row gives now holds now, and none held in the future.
HeldIsCurrent ==
  /\ lastHeld[Entitled(license, time)] = time
  /\ \A v \in BOOLEAN : lastHeld[v] =< time

\* A load that has read the row found a verdict that held when it began, or later.
LoadsAreRecent ==
  \A i \in Instance :
    /\ load[i].since =< time
    /\ load[i].pc = "read" => lastHeld[load[i].multi] >= load[i].since

\* So did every load that has left something in the cache.
EntriesAreRecent ==
  \A i \in Instance : cache[i].at # -1 => lastHeld[cache[i].multi] >= cache[i].at

LicenseInv ==
  LicenseTypeOK /\ HeldIsCurrent /\ LoadsAreRecent /\ EntriesAreRecent

\* An entitlement is a truth value.
LEMMA EntitledType ==
  ASSUME NEW lic \in LicenseRow, NEW t \in 0 .. MaxTime
  PROVE  Entitled(lic, t) \in BOOLEAN
BY DEF Entitled

\* The record of verdicts only moves forward, and stays well typed, in a step that
\* may change the row or the time.
LEMMA HeldMovesForward ==
  ASSUME LicenseTypeOK, HeldIsCurrent, Held,
         license' \in LicenseRow, time' \in 0 .. MaxTime, time =< time'
  PROVE  /\ lastHeld' \in [BOOLEAN -> -1 .. MaxTime]
         /\ HeldIsCurrent'
         /\ \A v \in BOOLEAN : lastHeld'[v] >= lastHeld[v]
<1> DEFINE e == Entitled(license', time')
<1>1. e \in BOOLEAN
    BY EntitledType
<1> HIDE DEF e
<1>2. lastHeld' = [lastHeld EXCEPT ![e] = time']
    BY DEF Held, e
<1>3. lastHeld \in [BOOLEAN -> -1 .. MaxTime] /\ time \in 0 .. MaxTime
    BY DEF LicenseTypeOK
<1>4. \A v \in BOOLEAN : lastHeld[v] \in -1 .. MaxTime /\ lastHeld[v] =< time
    BY <1>3 DEF HeldIsCurrent
<1>5. lastHeld' \in [BOOLEAN -> -1 .. MaxTime]
    BY <1>1, <1>2, <1>3
<1>6. \A v \in BOOLEAN : lastHeld'[v] = IF v = e THEN time' ELSE lastHeld[v]
    BY <1>1, <1>2, <1>3, Zenon
<1>7. \A v \in BOOLEAN : lastHeld'[v] >= lastHeld[v] /\ lastHeld'[v] =< time'
  <2> SUFFICES ASSUME NEW v \in BOOLEAN
               PROVE  lastHeld'[v] >= lastHeld[v] /\ lastHeld'[v] =< time'
      OBVIOUS
  <2>1. lastHeld[v] \in -1 .. MaxTime /\ lastHeld[v] =< time
      BY <1>4
  <2>2. lastHeld'[v] = time' \/ lastHeld'[v] = lastHeld[v]
      BY <1>6
  <2> QED
      BY <2>1, <2>2, <1>3
<1>8. lastHeld'[e] = time'
    BY <1>1, <1>6
<1> QED
    BY <1>5, <1>7, <1>8 DEF HeldIsCurrent, e

------------------------------------------------------------------------------

LEMMA LicenseInitInv == LicenseInit => LicenseInv
<1> SUFFICES ASSUME LicenseInit PROVE LicenseInv
    OBVIOUS
<1> USE DEF LicenseInit
<1>1. FreeRow \in LicenseRow
    BY DEF FreeRow, LicenseRow, Never
<1>2. NoCache \in [at : -1 .. MaxTime, multi : BOOLEAN]
    BY DEF NoCache
<1>3. NoLoad \in [pc : {"idle", "reading", "read"}, since : 0 .. MaxTime, multi : BOOLEAN]
    BY DEF NoLoad
<1>4. NoTask \in [pc : {"idle", "write", "invalidate"}, row : LicenseRow]
    BY <1>1 DEF NoTask
<1>5. lastHeld \in [BOOLEAN -> -1 .. MaxTime]
  <2>1. -1 \in -1 .. MaxTime /\ 0 \in -1 .. MaxTime
      OBVIOUS
  <2>2. \A v \in BOOLEAN : (IF v THEN -1 ELSE 0) \in -1 .. MaxTime
      BY <2>1
  <2> QED
      BY <2>2, Zenon
<1>6. LicenseTypeOK
    BY <1>1, <1>2, <1>3, <1>4, <1>5 DEF LicenseTypeOK
<1>7. Entitled(license, time) = FALSE
    BY DEF Entitled, FreeRow
<1>8. lastHeld[FALSE] = 0 /\ lastHeld[TRUE] = -1
    BY Zenon
<1>9. HeldIsCurrent
  <2>1. \A v \in BOOLEAN : v = TRUE \/ v = FALSE
      BY Zenon
  <2>2. \A v \in BOOLEAN : lastHeld[v] =< time
      BY <2>1, <1>8
  <2>3. lastHeld[Entitled(license, time)] = time
      BY <1>7, <1>8, Zenon
  <2> QED
      BY <2>2, <2>3, Zenon DEF HeldIsCurrent
<1>10. LoadsAreRecent /\ EntriesAreRecent
    BY DEF LoadsAreRecent, EntriesAreRecent, NoLoad, NoCache
<1> QED
    BY <1>6, <1>9, <1>10 DEF LicenseInv

\* What a step leaves alone keeps the parts of the invariant that only speak of it.
LEMMA RecordUnchanged ==
  ASSUME HeldIsCurrent, UNCHANGED <<time, license, lastHeld>>
  PROVE  HeldIsCurrent'
BY DEF HeldIsCurrent, Entitled

LEMMA LicenseStep == LicenseInv /\ [LicenseNext]_licenseVars => LicenseInv'
<1> SUFFICES ASSUME LicenseInv, [LicenseNext]_licenseVars PROVE LicenseInv'
    OBVIOUS
<1> USE DEF LicenseInv
<1>1. CASE Tick
  <2>1. time' \in 0 .. MaxTime /\ time =< time' /\ license' \in LicenseRow
      BY <1>1 DEF Tick, LicenseTypeOK
  <2>2. lastHeld' \in [BOOLEAN -> -1 .. MaxTime] /\ HeldIsCurrent'
        /\ \A v \in BOOLEAN : lastHeld'[v] >= lastHeld[v]
      BY <1>1, <2>1, HeldMovesForward DEF Tick
  <2>3. LicenseTypeOK'
      BY <1>1, <2>1, <2>2 DEF Tick, LicenseTypeOK
  <2>4. LoadsAreRecent' /\ EntriesAreRecent'
      BY <1>1, <2>1, <2>2, <2>3 DEF Tick, LoadsAreRecent, EntriesAreRecent, LicenseTypeOK
  <2> QED
      BY <2>2, <2>3, <2>4
<1>2. ASSUME NEW i \in Instance, StartLoad(i)
      PROVE  LicenseInv'
  <2>1. LicenseTypeOK' /\ HeldIsCurrent'
      BY <1>2, RecordUnchanged DEF StartLoad, LicenseTypeOK
  <2>2. LoadsAreRecent' /\ EntriesAreRecent'
      BY <1>2 DEF StartLoad, LoadsAreRecent, EntriesAreRecent, LicenseTypeOK
  <2> QED
      BY <2>1, <2>2
<1>3. ASSUME NEW i \in Instance, ReadLicense(i)
      PROVE  LicenseInv'
  <2> DEFINE e == Entitled(license, time)
  <2>1. e \in BOOLEAN
      BY EntitledType DEF LicenseTypeOK
  <2>2. load' = [load EXCEPT ![i].pc = "read", ![i].multi = e]
      BY <1>3 DEF ReadLicense
  <2>3. lastHeld[e] = time
      BY DEF HeldIsCurrent
  <2> HIDE DEF e
  <2>4. LicenseTypeOK' /\ HeldIsCurrent'
    <3>1. load' \in [Instance -> [pc : {"idle", "reading", "read"}, since : 0 .. MaxTime,
                                  multi : BOOLEAN]]
      <4>1. [load[i] EXCEPT !.pc = "read", !.multi = e]
              \in [pc : {"idle", "reading", "read"}, since : 0 .. MaxTime, multi : BOOLEAN]
        <5> DEFINE Load == [pc : {"idle", "reading", "read"}, since : 0 .. MaxTime,
                            multi : BOOLEAN]
        <5>1. load[i] \in Load
            BY DEF LicenseTypeOK
        <5>2. ASSUME NEW r \in Load, NEW b \in BOOLEAN
              PROVE  [r EXCEPT !.pc = "read", !.multi = b] \in Load
            OBVIOUS
        <5> HIDE DEF Load
        <5> QED
            BY <2>1, <5>1, <5>2, Zenon DEF Load
      <4>2. load' = [load EXCEPT ![i] = [load[i] EXCEPT !.pc = "read", !.multi = e]]
          BY <2>2 DEF LicenseTypeOK
      <4> QED
          BY <4>1, <4>2 DEF LicenseTypeOK
    <3> QED
        BY <1>3, <3>1, RecordUnchanged DEF ReadLicense, LicenseTypeOK
  <2>5. LoadsAreRecent'
    <3> SUFFICES ASSUME NEW j \in Instance
                 PROVE  /\ load'[j].since =< time'
                        /\ load'[j].pc = "read" => lastHeld'[load'[j].multi] >= load'[j].since
        BY DEF LoadsAreRecent
    <3>0. time' = time /\ lastHeld' = lastHeld
        BY <1>3 DEF ReadLicense
    <3>1. CASE j = i
      <4>1. load'[i].since = load[i].since /\ load'[i].multi = e
          BY <2>2 DEF LicenseTypeOK
      <4>2. lastHeld[load'[i].multi] = time
          BY <4>1, <2>3
      <4> QED
          BY <3>0, <3>1, <4>1, <4>2 DEF LoadsAreRecent, LicenseTypeOK
    <3>2. CASE j # i
        BY <3>0, <2>2, <3>2 DEF LoadsAreRecent, LicenseTypeOK
    <3> QED
        BY <3>1, <3>2
  <2>6. EntriesAreRecent'
      BY <1>3 DEF ReadLicense, EntriesAreRecent
  <2> QED
      BY <2>4, <2>5, <2>6
<1>4. ASSUME NEW i \in Instance, FinishLoad(i)
      PROVE  LicenseInv'
  <2>1. LicenseTypeOK' /\ HeldIsCurrent'
      BY <1>4, RecordUnchanged DEF FinishLoad, CacheEntry, NoLoad, LicenseTypeOK
  <2>2. LoadsAreRecent' /\ EntriesAreRecent'
      BY <1>4 DEF FinishLoad, CacheEntry, NoLoad, LoadsAreRecent, EntriesAreRecent,
                  LicenseTypeOK
  <2> QED
      BY <2>1, <2>2
<1>5. ASSUME NEW i \in Instance, Activate(i) \/ Deactivate(i)
      PROVE  LicenseInv'
  <2>1. UNCHANGED <<time, license, cache, load, lastHeld>>
      BY <1>5 DEF Activate, Deactivate
  <2>2. FreeRow \in LicenseRow /\ \A u \in {time + 1, Never} :
           [tier |-> "paid", until |-> u] \in LicenseRow
      BY DEF FreeRow, LicenseRow, Never, LicenseTypeOK
  <2>3. admin' \in [Instance -> [pc : {"idle", "write", "invalidate"}, row : LicenseRow]]
      BY <1>5, <2>2 DEF Activate, Deactivate, LicenseTypeOK
  <2>4. LicenseTypeOK' /\ HeldIsCurrent'
      BY <2>1, <2>3, RecordUnchanged DEF LicenseTypeOK
  <2>5. LoadsAreRecent' /\ EntriesAreRecent'
      BY <2>1 DEF LoadsAreRecent, EntriesAreRecent
  <2> QED
      BY <2>4, <2>5
<1>6. ASSUME NEW i \in Instance, WriteLicense(i)
      PROVE  LicenseInv'
  <2>1. time' = time /\ time' \in 0 .. MaxTime /\ time =< time' /\ license' \in LicenseRow
      BY <1>6 DEF WriteLicense, LicenseTypeOK
  <2>2. lastHeld' \in [BOOLEAN -> -1 .. MaxTime] /\ HeldIsCurrent'
        /\ \A v \in BOOLEAN : lastHeld'[v] >= lastHeld[v]
      BY <1>6, <2>1, HeldMovesForward DEF WriteLicense
  <2>3. LicenseTypeOK'
      BY <1>6, <2>1, <2>2 DEF WriteLicense, LicenseTypeOK
  <2>4. LoadsAreRecent' /\ EntriesAreRecent'
      BY <1>6, <2>1, <2>2, <2>3 DEF WriteLicense, LoadsAreRecent, EntriesAreRecent,
                                    LicenseTypeOK
  <2> QED
      BY <2>2, <2>3, <2>4
<1>7. ASSUME NEW i \in Instance, Invalidate(i)
      PROVE  LicenseInv'
  <2>1. LicenseTypeOK' /\ HeldIsCurrent'
      BY <1>7, RecordUnchanged DEF Invalidate, NoCache, NoTask, FreeRow, LicenseRow, Never,
                                   LicenseTypeOK
  <2>2. LoadsAreRecent' /\ EntriesAreRecent'
      BY <1>7 DEF Invalidate, NoCache, LoadsAreRecent, EntriesAreRecent, LicenseTypeOK
  <2> QED
      BY <2>1, <2>2
<1>8. CASE UNCHANGED licenseVars
  <2>1. LicenseTypeOK' /\ HeldIsCurrent'
      BY <1>8, RecordUnchanged DEF licenseVars, LicenseTypeOK
  <2> QED
      BY <1>8, <2>1 DEF licenseVars, LoadsAreRecent, EntriesAreRecent
<1> QED
    BY <1>1, <1>2, <1>3, <1>4, <1>5, <1>6, <1>7, <1>8 DEF LicenseNext

\* An entry that is fresh was true less than CacheTime ago.
LEMMA LicenseInvImplies == LicenseInv => VerdictIsRecent
<1> SUFFICES ASSUME LicenseInv, NEW i \in Instance, FreshCache(i)
             PROVE  /\ lastHeld[cache[i].multi] # -1
                    /\ time - lastHeld[cache[i].multi] < CacheTime
    BY DEF VerdictIsRecent
<1>1. cache[i].at \in -1 .. MaxTime /\ cache[i].multi \in BOOLEAN /\ time \in 0 .. MaxTime
    BY DEF LicenseInv, LicenseTypeOK
<1>2. lastHeld[cache[i].multi] \in -1 .. MaxTime
    BY <1>1 DEF LicenseInv, LicenseTypeOK
<1>3. lastHeld[cache[i].multi] >= cache[i].at /\ cache[i].at # -1
      /\ time - cache[i].at < CacheTime
    BY DEF LicenseInv, EntriesAreRecent, FreshCache
<1> QED
    BY <1>1, <1>2, <1>3

\* Every reachable state of the licence and its caches is well typed.
THEOREM LicenseTypeCorrect == LicenseSpec => []LicenseTypeOK
<1>1. LicenseInv => LicenseTypeOK
    BY DEF LicenseInv
<1> QED
    BY <1>1, LicenseInitInv, LicenseStep, PTL DEF LicenseSpec

\* However loads, activations, deactivations and the passing of time interleave on
\* any number of processes, a verdict answered from the cache of
\* isMultiChannelLicensed was true less than CacheTime ago.
THEOREM CachedVerdictIsRecent == LicenseSpec => []VerdictIsRecent
BY LicenseInitInv, LicenseStep, LicenseInvImplies, PTL DEF LicenseSpec

------------------------------------------------------------------------------
(***************************************************************************)
(* CredentialsSurvive for any number of processes, operators, credentials  *)
(* and keys.                                                               *)
(*                                                                         *)
(* The argument is about the operations under way: an unlock holds a key   *)
(* that is the vault's or has been destroyed, and a reset that finds the   *)
(* row as it read it writes back the key it read.                          *)
(***************************************************************************)

USE VaultAssumption, SystemAssumption

------------------------------------------------------------------------------

\* Keys nobody loses by being under them.
Kept == {0, vault.dek} \cup destroyed

\* There is no row, or it wraps a key that has been generated.
RowHasKey == vault = NoVault \/ vault.dek # 0

\* What each operation under way has read, and will write.
JobsAreSound ==
  \A p \in Process :
    /\ job[p].op \in {"unlock", "destroy"} => job[p].read.dek # 0
    /\ job[p].op \in {"init", "reset", "destroy"} => job[p].new.dek # 0
    /\ job[p].op = "reset" /\ job[p].read # NoVault => job[p].new.dek = job[p].read.dek

\* As long as no write has overtaken another: what is stored, held and about to be
\* held is under a key that is kept.
KeysAreKept ==
  ~overwritten =>
    /\ \A c \in Credential : cred[c] \in Kept
    /\ \A p \in Process, h \in Holder : sessions[p][h] \in Kept
    /\ \A p \in Process : job[p].op = "unlock" => job[p].read.dek \in Kept

VaultInv == VaultTypeOK /\ RowHasKey /\ JobsAreSound /\ KeysAreKept

------------------------------------------------------------------------------

Op == {"none", "unlock", "init", "reset", "destroy"}
JobType == [op : Op, holder : Holder, read : VaultRow, new : VaultRow]

\* An idle process is well typed.
LEMMA NoJobType ==
  /\ NoVault \in VaultRow /\ NoVault.dek = 0
  /\ NoJob \in JobType /\ NoJob.op = "none"
<1>1. NoVault \in VaultRow /\ NoVault.dek = 0
    BY DEF NoVault, VaultRow
<1>2. "system" \in Holder
    BY DEF Holder
<1>3. NoJob \in JobType /\ NoJob.op = "none"
    BY <1>1, <1>2 DEF NoJob, JobType, Op
<1> QED
    BY <1>1, <1>3

LEMMA VaultInitInv == VaultInit => VaultInv
<1> SUFFICES ASSUME VaultInit PROVE VaultInv
    OBVIOUS
<1> USE DEF VaultInit
<1>1. VaultTypeOK
  <2>1. Locked \in [Holder -> 0 .. MaxDeks]
      BY DEF Locked
  <2>2. job \in [Process -> JobType]
      BY NoJobType
  <2>3. vault \in VaultRow /\ 0 \in 0 .. MaxDeks
      BY NoJobType
  <2>4. cred \in [Credential -> 0 .. MaxDeks] /\ deks \in 0 .. MaxDeks
      BY <2>3
  <2>5. sessions \in [Process -> [Holder -> 0 .. MaxDeks]]
      BY <2>1
  <2> QED
      BY <2>2, <2>3, <2>4, <2>5 DEF VaultTypeOK, JobType, Op
<1>2. RowHasKey /\ JobsAreSound /\ KeysAreKept
    BY NoJobType DEF RowHasKey, JobsAreSound, KeysAreKept, Kept, Locked
<1> QED
    BY <1>1, <1>2 DEF VaultInv

\* A session that is stored is one more entry of the same table.
LEMMA SessionType ==
  ASSUME VaultTypeOK, NEW p \in Process, NEW h \in Holder, NEW k \in 0 .. MaxDeks,
         StoreSession(p, h, k)
  PROVE  /\ sessions' \in [Process -> [Holder -> 0 .. MaxDeks]]
         /\ \A q \in Process, g \in Holder :
              sessions'[q][g] = IF q = p /\ g = h THEN k ELSE sessions[q][g]
<1>1. sessions' = [sessions EXCEPT ![p] = [sessions[p] EXCEPT ![h] = k]]
    BY DEF StoreSession, VaultTypeOK
<1>2. [sessions[p] EXCEPT ![h] = k] \in [Holder -> 0 .. MaxDeks]
    BY DEF VaultTypeOK
<1> QED
    BY <1>1, <1>2 DEF VaultTypeOK

\* A step that gives one process another operation, or none, and touches neither the
\* row nor what is stored.
LEMMA JobStep ==
  ASSUME VaultInv, NEW p \in Process, NEW j \in JobType,
         job' = [job EXCEPT ![p] = j],
         UNCHANGED <<vault, sessions, cred, destroyed, overwritten>>, deks' \in 0 .. MaxDeks,
         j.op \in {"unlock", "destroy"} => j.read.dek # 0,
         j.op \in {"init", "reset", "destroy"} => j.new.dek # 0,
         j.op = "reset" /\ j.read # NoVault => j.new.dek = j.read.dek,
         j.op = "unlock" => j.read = vault
  PROVE  VaultInv'
<1> USE DEF VaultInv
<1>1. job' \in [Process -> JobType]
    BY DEF VaultTypeOK, JobType, Op
<1>2. \A q \in Process : job'[q] = IF q = p THEN j ELSE job[q]
    BY DEF VaultTypeOK
<1>3. VaultTypeOK'
    BY <1>1 DEF VaultTypeOK, JobType, Op
<1>4. RowHasKey'
    BY DEF RowHasKey
<1>5. JobsAreSound'
    BY <1>2 DEF JobsAreSound
<1>6. KeysAreKept'
    BY <1>2 DEF KeysAreKept, Kept
<1> QED
    BY <1>3, <1>4, <1>5, <1>6

\* A step that ends an operation and changes the sessions only to keys that are kept.
LEMMA SessionStep ==
  ASSUME VaultInv, job' \in [Process -> JobType],
         \A q \in Process : job'[q] \in {job[q], NoJob},
         UNCHANGED <<vault, cred, deks, destroyed, overwritten>>,
         sessions' \in [Process -> [Holder -> 0 .. MaxDeks]],
         ~overwritten => \A q \in Process, g \in Holder : sessions'[q][g] \in Kept
  PROVE  VaultInv'
<1> USE DEF VaultInv
<1>1. VaultTypeOK'
    BY DEF VaultTypeOK, JobType, Op
<1>2. RowHasKey'
    BY DEF RowHasKey
<1>3. JobsAreSound'
    BY NoJobType DEF JobsAreSound
<1>4. KeysAreKept'
    BY NoJobType DEF KeysAreKept, Kept
<1> QED
    BY <1>1, <1>2, <1>3, <1>4

------------------------------------------------------------------------------

\* A fresh key is one of those that may be generated.
LEMMA FreshKey ==
  ASSUME VaultTypeOK, NewDek
  PROVE  deks' \in 1 .. MaxDeks
BY DEF VaultTypeOK, NewDek

LEMMA UnlockingStep ==
  ASSUME VaultInv, NEW p \in Process, ReadToUnlock(p) \/ Unlock(p)
  PROVE  VaultInv'
<1>1. CASE ReadToUnlock(p)
  <2>1. PICK h \in Holder :
          job' = [job EXCEPT ![p] = [op |-> "unlock", holder |-> h, read |-> vault,
                                     new |-> NoVault]]
      BY <1>1 DEF ReadToUnlock
  <2> DEFINE j == [op |-> "unlock", holder |-> h, read |-> vault, new |-> NoVault]
  <2>2. vault \in VaultRow /\ vault.dek # 0
      BY <1>1 DEF ReadToUnlock, VaultInv, VaultTypeOK, RowHasKey
  <2>3. job' = [job EXCEPT ![p] = j]
      BY <2>1
  <2>4. j \in JobType /\ j.op = "unlock" /\ j.read = vault
      BY <2>2, NoJobType DEF JobType, Op
  <2>5. deks' \in 0 .. MaxDeks /\ UNCHANGED <<vault, sessions, cred, destroyed, overwritten>>
      BY <1>1 DEF ReadToUnlock, VaultInv, VaultTypeOK
  <2> HIDE DEF j
  <2> QED
      BY <2>2, <2>3, <2>4, <2>5, JobStep
<1>2. CASE Unlock(p)
  <2>1. job[p] \in JobType /\ job[p].op = "unlock"
      BY <1>2 DEF Unlock, Working, VaultInv, VaultTypeOK, JobType, Op
  <2>2. job[p].holder \in Holder /\ job[p].read.dek \in 0 .. MaxDeks
      BY <2>1 DEF JobType, VaultRow
  <2>3. ~overwritten => job[p].read.dek \in Kept
      BY <2>1 DEF VaultInv, KeysAreKept
  <2>4. /\ sessions' \in [Process -> [Holder -> 0 .. MaxDeks]]
        /\ \A q \in Process, g \in Holder :
             sessions'[q][g] = IF q = p /\ g = job[p].holder THEN job[p].read.dek
                               ELSE sessions[q][g]
      BY <1>2, <2>2, SessionType DEF Unlock, VaultInv
  <2>5. ~overwritten => \A q \in Process, g \in Holder : sessions'[q][g] \in Kept
      BY <2>3, <2>4 DEF VaultInv, KeysAreKept
  <2>6. job' \in [Process -> JobType] /\ \A q \in Process : job'[q] \in {job[q], NoJob}
      BY <1>2, NoJobType DEF Unlock, VaultInv, VaultTypeOK, JobType, Op
  <2> QED
      BY <1>2, <2>4, <2>5, <2>6, SessionStep DEF Unlock
<1> QED
    BY <1>1, <1>2

LEMMA LockingStep ==
  ASSUME VaultInv, NEW p \in Process, Restart(p) \/ \E h \in Holder : Lock(p, h)
  PROVE  VaultInv'
<1>1. CASE Restart(p)
  <2>1. /\ sessions' \in [Process -> [Holder -> 0 .. MaxDeks]]
        /\ \A q \in Process, g \in Holder :
             sessions'[q][g] = IF q = p THEN 0 ELSE sessions[q][g]
      BY <1>1 DEF Restart, Locked, VaultInv, VaultTypeOK
  <2>2. ~overwritten => \A q \in Process, g \in Holder : sessions'[q][g] \in Kept
      BY <2>1 DEF VaultInv, KeysAreKept, Kept
  <2>3. job' \in [Process -> JobType] /\ \A q \in Process : job'[q] \in {job[q], NoJob}
      BY <1>1, NoJobType DEF Restart, VaultInv, VaultTypeOK, JobType, Op
  <2> QED
      BY <1>1, <2>1, <2>2, <2>3, SessionStep DEF Restart
<1>2. ASSUME NEW h \in Holder, Lock(p, h)
      PROVE  VaultInv'
  <2>1. /\ sessions' \in [Process -> [Holder -> 0 .. MaxDeks]]
        /\ \A q \in Process, g \in Holder :
             sessions'[q][g] = IF q = p /\ g = h THEN 0 ELSE sessions[q][g]
      BY <1>2, SessionType DEF Lock, VaultInv
  <2>2. ~overwritten => \A q \in Process, g \in Holder : sessions'[q][g] \in Kept
      BY <2>1 DEF VaultInv, KeysAreKept, Kept
  <2>3. job' = job /\ job \in [Process -> JobType]
      BY <1>2 DEF Lock, VaultInv, VaultTypeOK, JobType, Op
  <2> QED
      BY <1>2, <2>1, <2>2, <2>3, SessionStep DEF Lock
<1> QED
    BY <1>1, <1>2

\* An operation that generates a key, or keeps the one it read, and is about to write.
LEMMA ReadingStep ==
  ASSUME VaultInv, NEW p \in Process, ReadToInit(p) \/ ReadToReset(p) \/ ReadToDestroy(p)
  PROVE  VaultInv'
<1>1. PICK o \in {"init", "reset", "destroy"}, h \in Holder, w \in Passphrase, k \in 1 .. MaxDeks :
        /\ job' = [job EXCEPT ![p] = [op |-> o, holder |-> h, read |-> vault,
                                      new |-> [dek |-> k, pass |-> w]]]
        /\ o = "destroy" => vault # NoVault
        /\ o = "reset" /\ vault # NoVault => k = vault.dek
  <2>1. CASE ReadToInit(p)
    <3>1. deks' \in 1 .. MaxDeks
        BY <2>1, FreshKey DEF ReadToInit, VaultInv
    <3>2. PICK h \in Holder, w \in Passphrase :
            job' = [job EXCEPT ![p] = [op |-> "init", holder |-> h, read |-> vault,
                                       new |-> [dek |-> deks', pass |-> w]]]
        BY <2>1 DEF ReadToInit
    <3> QED
        BY <3>1, <3>2
  <2>2. CASE ReadToReset(p)
    <3>1. PICK h \in Token, w \in Passphrase :
            job' = [job EXCEPT ![p] = [op |-> "reset", holder |-> h, read |-> vault,
                                       new |-> [dek |-> RekeyedDek(vault, deks'), pass |-> w]]]
        BY <2>2 DEF ReadToReset
    <3>2. h \in Holder
        BY DEF Holder
    <3>3. /\ RekeyedDek(vault, deks') \in 1 .. MaxDeks
          /\ vault # NoVault => RekeyedDek(vault, deks') = vault.dek
      <4>1. CASE vault = NoVault
          BY <2>2, <4>1, FreshKey DEF ReadToReset, VaultInv, RekeyedDek
      <4>2. CASE vault # NoVault
          BY <4>2 DEF VaultInv, VaultTypeOK, VaultRow, RowHasKey, RekeyedDek
      <4> QED
          BY <4>1, <4>2
    <3> QED
        BY <3>1, <3>2, <3>3
  <2>3. CASE ReadToDestroy(p)
    <3>1. deks' \in 1 .. MaxDeks /\ vault # NoVault
        BY <2>3, FreshKey DEF ReadToDestroy, VaultInv
    <3>2. PICK h \in Token, w \in Passphrase :
            job' = [job EXCEPT ![p] = [op |-> "destroy", holder |-> h, read |-> vault,
                                       new |-> [dek |-> deks', pass |-> w]]]
        BY <2>3 DEF ReadToDestroy
    <3>3. h \in Holder
        BY DEF Holder
    <3> QED
        BY <3>1, <3>2, <3>3
  <2> QED
      BY <2>1, <2>2, <2>3
<1> DEFINE j == [op |-> o, holder |-> h, read |-> vault, new |-> [dek |-> k, pass |-> w]]
<1>2. vault \in VaultRow /\ [dek |-> k, pass |-> w] \in VaultRow
    BY DEF VaultInv, VaultTypeOK, VaultRow
<1>3. j \in JobType /\ j.op = o /\ j.read = vault /\ j.new.dek = k
    BY <1>2 DEF JobType, Op
<1>4. UNCHANGED <<vault, sessions, cred, destroyed, overwritten>>
    BY DEF ReadToInit, ReadToReset, ReadToDestroy
<1>5. deks' \in 0 .. MaxDeks
    BY FreshKey DEF ReadToInit, ReadToReset, ReadToDestroy, VaultInv, VaultTypeOK
<1>6. o = "destroy" => vault.dek # 0
    BY <1>1 DEF VaultInv, RowHasKey
<1>7. k # 0 /\ (j.op = "reset" /\ j.read # NoVault => j.new.dek = j.read.dek)
    BY <1>1, <1>3
<1>8. job' = [job EXCEPT ![p] = j]
    BY <1>1
<1> HIDE DEF j
<1> QED
    BY <1>3, <1>4, <1>5, <1>6, <1>7, <1>8, JobStep

------------------------------------------------------------------------------

\* The first row is written: nothing was under a key before, unless it was destroyed.
LEMMA InitVaultStep ==
  ASSUME VaultInv, NEW p \in Process, InitVault(p)
  PROVE  VaultInv'
<1>1. job[p] \in JobType /\ job[p].op = "init" /\ job[p].new.dek # 0
    BY DEF InitVault, Working, VaultInv, VaultTypeOK, JobType, Op, JobsAreSound
<1>2. job[p].holder \in Holder /\ job[p].new \in VaultRow /\ job[p].new.dek \in 0 .. MaxDeks
    BY <1>1 DEF JobType, VaultRow
<1>3. job' \in [Process -> JobType] /\ \A q \in Process : job'[q] \in {job[q], NoJob}
    BY NoJobType DEF InitVault, VaultInv, VaultTypeOK, JobType, Op
<1>4. CASE vault = NoVault
  <2>1. vault' = job[p].new /\ StoreSession(p, job[p].holder, job[p].new.dek)
        /\ UNCHANGED <<cred, deks, destroyed, overwritten>>
      BY <1>4 DEF InitVault
  <2>2. /\ sessions' \in [Process -> [Holder -> 0 .. MaxDeks]]
        /\ \A q \in Process, g \in Holder :
             sessions'[q][g] = IF q = p /\ g = job[p].holder THEN job[p].new.dek
                               ELSE sessions[q][g]
      BY <1>2, <2>1, SessionType DEF VaultInv
  <2>3. VaultTypeOK'
      BY <1>2, <1>3, <2>1, <2>2 DEF VaultInv, VaultTypeOK, JobType, Op
  <2>4. RowHasKey'
      BY <1>1, <2>1 DEF RowHasKey
  <2>5. JobsAreSound'
      BY <1>3, NoJobType DEF VaultInv, JobsAreSound
  <2>6. Kept = {0} \cup destroyed /\ Kept' = {0, job[p].new.dek} \cup destroyed
      BY <1>4, <2>1, NoJobType DEF Kept
  <2>7. KeysAreKept'
    <3> SUFFICES ASSUME ~overwritten'
                 PROVE  KeysAreKept'
        BY DEF KeysAreKept
    <3>1. Kept \subseteq Kept' /\ job[p].new.dek \in Kept' /\ ~overwritten
        BY <2>1, <2>6
    <3>2. \A c \in Credential : cred'[c] \in Kept'
        BY <2>1, <3>1 DEF VaultInv, KeysAreKept
    <3>3. \A q \in Process, h \in Holder : sessions'[q][h] \in Kept'
        BY <2>2, <3>1 DEF VaultInv, KeysAreKept
    <3>4. \A q \in Process : job'[q].op = "unlock" => job'[q].read.dek \in Kept'
        BY <1>3, <3>1, NoJobType DEF VaultInv, KeysAreKept
    <3> QED
        BY <3>2, <3>3, <3>4 DEF KeysAreKept
  <2> QED
      BY <2>3, <2>4, <2>5, <2>7 DEF VaultInv
<1>5. CASE vault # NoVault
  <2>1. UNCHANGED <<vault, sessions, cred, deks, destroyed, overwritten>>
      BY <1>5 DEF InitVault
  <2> QED
      BY <1>3, <2>1, SessionStep DEF VaultInv, VaultTypeOK, KeysAreKept
<1> QED
    BY <1>4, <1>5

\* A reset that finds the row as it read it writes the same key back; a destruction
\* puts the old one among those destroyed.
LEMMA ResetStep ==
  ASSUME VaultInv, NEW p \in Process, WriteReset(p)
  PROVE  VaultInv'
<1> DEFINE j == job[p]
           destroying == j.op = "destroy"
           kept == IF destroying THEN Locked ELSE sessions[p]
           own == [kept EXCEPT ![j.holder] = j.new.dek]
           mine == IF j.new.pass = EnvPassphrase
                   THEN [own EXCEPT !["system"] = j.new.dek] ELSE own
<1>1. j \in JobType /\ j.op \in {"reset", "destroy"}
    BY DEF WriteReset, Working, VaultInv, VaultTypeOK, JobType, Op
<1>2. /\ j.holder \in Holder /\ j.new \in VaultRow /\ j.new.dek \in 0 .. MaxDeks
      /\ j.read \in VaultRow /\ j.read.dek \in 0 .. MaxDeks /\ j.new.dek # 0
      /\ destroying => j.read.dek # 0
      /\ ~destroying /\ j.read # NoVault => j.new.dek = j.read.dek
    BY <1>1 DEF JobType, VaultRow, VaultInv, JobsAreSound
<1>3. /\ vault' = j.new
      /\ overwritten' = (overwritten \/ vault # j.read)
      /\ destroyed' = IF destroying THEN destroyed \cup {j.read.dek} ELSE destroyed
      /\ sessions' = [sessions EXCEPT ![p] = mine]
      /\ job' = [job EXCEPT ![p] = NoJob]
      /\ UNCHANGED <<cred, deks>>
    BY DEF WriteReset, Working
<1>4. sessions[p] \in [Holder -> 0 .. MaxDeks] /\ Locked \in [Holder -> 0 .. MaxDeks]
      /\ sessions \in [Process -> [Holder -> 0 .. MaxDeks]]
    BY DEF VaultInv, VaultTypeOK, Locked
<1>5. /\ mine \in [Holder -> 0 .. MaxDeks]
      /\ \A h \in Holder : mine[h] \in {0, j.new.dek, sessions[p][h]}
  <2>1. kept \in [Holder -> 0 .. MaxDeks] /\ \A h \in Holder : kept[h] \in {0, sessions[p][h]}
      BY <1>4 DEF Locked
  <2> HIDE DEF kept
  <2>2. own \in [Holder -> 0 .. MaxDeks]
        /\ \A h \in Holder : own[h] \in {0, j.new.dek, sessions[p][h]}
      BY <1>2, <2>1
  <2> HIDE DEF own
  <2>3. "system" \in Holder
      BY DEF Holder
  <2> QED
      BY <1>2, <2>2, <2>3
<1>6. /\ sessions' \in [Process -> [Holder -> 0 .. MaxDeks]]
      /\ \A q \in Process, h \in Holder :
           sessions'[q][h] \in {0, j.new.dek, sessions[q][h]}
  <2> HIDE DEF mine, j
  <2> QED
      BY <1>3, <1>4, <1>5
<1>7. job' \in [Process -> JobType] /\ \A q \in Process : job'[q] \in {job[q], NoJob}
    BY <1>3, NoJobType DEF VaultInv, VaultTypeOK, JobType, Op
<1>8. VaultTypeOK'
  <2>1. destroyed' \subseteq 1 .. MaxDeks
    <3>1. destroyed \subseteq 1 .. MaxDeks
        BY DEF VaultInv, VaultTypeOK
    <3>2. destroying => j.read.dek \in 1 .. MaxDeks
        BY <1>2
    <3> HIDE DEF destroying, j
    <3> QED
        BY <1>3, <3>1, <3>2
  <2>2. overwritten' \in BOOLEAN
      BY <1>3, Zenon DEF VaultInv, VaultTypeOK
  <2>3. vault' \in VaultRow
      BY <1>2, <1>3
  <2> QED
      BY <1>3, <1>6, <1>7, <2>1, <2>2, <2>3 DEF VaultInv, VaultTypeOK, JobType, Op
<1>9. RowHasKey'
    BY <1>2, <1>3 DEF RowHasKey
<1>10. JobsAreSound'
    BY <1>7, NoJobType DEF VaultInv, JobsAreSound
<1>11. KeysAreKept'
  <2> SUFFICES ASSUME ~overwritten'
               PROVE  KeysAreKept'
      BY DEF KeysAreKept
  <2>1. ~overwritten /\ vault = j.read
      BY <1>3
  <2>2. Kept \subseteq Kept' /\ j.new.dek \in Kept' /\ 0 \in Kept'
    <3>1. Kept = {0, j.read.dek} \cup destroyed /\ Kept' = {0, j.new.dek} \cup destroyed'
        BY <2>1, <1>3 DEF Kept
    <3>2. CASE destroying
        BY <1>3, <3>1, <3>2
    <3>3. CASE ~destroying /\ j.read # NoVault
        BY <1>2, <1>3, <3>1, <3>3
    <3>4. CASE ~destroying /\ j.read = NoVault
        BY <1>3, <3>1, <3>4, NoJobType
    <3> QED
        BY <3>2, <3>3, <3>4
  <2>3. \A c \in Credential : cred'[c] \in Kept'
      BY <1>3, <2>1, <2>2 DEF VaultInv, KeysAreKept
  <2>4. \A q \in Process, h \in Holder : sessions'[q][h] \in Kept'
      BY <1>6, <2>1, <2>2 DEF VaultInv, KeysAreKept
  <2>5. \A q \in Process : job'[q].op = "unlock" => job'[q].read.dek \in Kept'
      BY <1>7, <2>1, <2>2, NoJobType DEF VaultInv, KeysAreKept
  <2> QED
      BY <2>3, <2>4, <2>5 DEF KeysAreKept
<1> QED
    BY <1>8, <1>9, <1>10, <1>11 DEF VaultInv

\* A credential is stored under a key some session holds, or none.
LEMMA SaveStep ==
  ASSUME VaultInv, NEW p \in Process, NEW h \in Holder, SaveCredential(p, h)
  PROVE  VaultInv'
<1>1. PICK c \in Credential : cred' = [cred EXCEPT ![c] = KeyFor(p, h)]
    BY DEF SaveCredential
<1>2. UNCHANGED <<vault, sessions, job, deks, destroyed, overwritten>>
    BY DEF SaveCredential
<1>3. "system" \in Holder
    BY DEF Holder
<1>4. KeyFor(p, h) \in 0 .. MaxDeks
    BY <1>3 DEF KeyFor, VaultInv, VaultTypeOK
<1>5. ~overwritten => KeyFor(p, h) \in Kept
    BY <1>3 DEF KeyFor, VaultInv, KeysAreKept
<1>6. VaultTypeOK'
    BY <1>1, <1>2, <1>4 DEF VaultInv, VaultTypeOK
<1>7. RowHasKey' /\ JobsAreSound'
    BY <1>2 DEF VaultInv, RowHasKey, JobsAreSound
<1>8. KeysAreKept'
  <2>1. \A d \in Credential : cred'[d] = IF d = c THEN KeyFor(p, h) ELSE cred[d]
      BY <1>1 DEF VaultInv, VaultTypeOK
  <2> QED
      BY <1>2, <1>5, <2>1 DEF VaultInv, KeysAreKept, Kept
<1> QED
    BY <1>6, <1>7, <1>8 DEF VaultInv

LEMMA VaultStep == VaultInv /\ [VaultNext]_vaultVars => VaultInv'
<1> SUFFICES ASSUME VaultInv, [VaultNext]_vaultVars PROVE VaultInv'
    OBVIOUS
<1>1. CASE UNCHANGED vaultVars
    BY <1>1 DEF vaultVars, VaultInv, VaultTypeOK, RowHasKey, JobsAreSound, KeysAreKept, Kept
<1>2. CASE VaultNext
    BY <1>2, UnlockingStep, LockingStep, ReadingStep, InitVaultStep, ResetStep, SaveStep
       DEF VaultNext
<1> QED
    BY <1>1, <1>2

------------------------------------------------------------------------------

\* Every reachable state of the vault, its sessions and its credentials is well typed.
THEOREM VaultTypeCorrect == VaultSpec => []VaultTypeOK
<1>1. VaultInv => VaultTypeOK
    BY DEF VaultInv
<1> QED
    BY <1>1, VaultInitInv, VaultStep, PTL DEF VaultSpec

\* Unlocking, locking, restarting, initializing and changing the passphrase on any
\* number of processes never leave a credential under a key that is neither the
\* vault's nor one that resetVault destroyed on purpose, as long as no reset writes
\* over a row it has not read.
THEOREM NoCredentialIsLost == VaultSpec => []CredentialsSurvive
<1>1. VaultInv => CredentialsSurvive
    BY DEF VaultInv, KeysAreKept, Kept, CredentialsSurvive
<1> QED
    BY <1>1, VaultInitInv, VaultStep, PTL DEF VaultSpec

\* Therefore whoever holds the vault's key can decrypt, with decryptPasswordWithVault,
\* every credential that was not destroyed.
THEOREM UnlockedVaultReads == VaultSpec => []UnlockedReads
<1>1. VaultInv => UnlockedReads
    BY DEF VaultInv, KeysAreKept, Kept, UnlockedReads, Readable
<1> QED
    BY <1>1, VaultInitInv, VaultStep, PTL DEF VaultSpec


------------------------------------------------------------------------------
(***************************************************************************)
(* OneCoveredJob and FailoverBound, for every set of replicas, every TTL   *)
(* and every clock skew up to MaxOffset: LockIInv is inductive.            *)
(***************************************************************************)

USE TTLAssumption, OffsetAssumption, BoundAssumption, NoRowAssumption

\* A replica's clock is a natural number, at most MaxOffset ahead of real time.
LEMMA ClockBounds ==
  ASSUME LockTypeOK, NEW r \in Replica
  PROVE  Clock(r) \in Nat /\ now <= Clock(r) /\ Clock(r) <= now + MaxOffset
BY DEF LockTypeOK, Clock

\* The initial state satisfies the invariant.
LEMMA LockInitIInv == LockInit => LockIInv
BY DEF LockInit, LockIInv, LockTypeOK, StampsArePast, RowIsBounded, LeaseOrLapsed,
       LastClock, Clock, Row, Step

\* Every step keeps the types.
LEMMA LockTypeStep == LockTypeOK /\ [LockNext]_lockVars => LockTypeOK'
<1> SUFFICES ASSUME LockTypeOK, [LockNext]_lockVars PROVE LockTypeOK'
    OBVIOUS
<1>c. \A r \in Replica : Clock(r) \in Nat
    BY ClockBounds
<1> USE <1>c DEF LockTypeOK, Row, Step
<1>1. CASE PassTime
    BY <1>1 DEF PassTime
<1>2. ASSUME NEW r \in Replica, BeginTick(r) PROVE LockTypeOK'
    BY <1>2 DEF BeginTick
<1>3. ASSUME NEW r \in Replica, AcquireUpdate(r) PROVE LockTypeOK'
    BY <1>3 DEF AcquireUpdate, TakeLease
<1>4. ASSUME NEW r \in Replica, AcquireProbe(r) PROVE LockTypeOK'
    BY <1>4 DEF AcquireProbe
<1>5. ASSUME NEW r \in Replica, AcquireInsert(r) PROVE LockTypeOK'
    BY <1>5 DEF AcquireInsert, TakeLease
<1>6. ASSUME NEW r \in Replica, AcquireError(r) PROVE LockTypeOK'
    BY <1>6 DEF AcquireError
<1>7. ASSUME NEW r \in Replica, FireHeartbeat(r) PROVE LockTypeOK'
    BY <1>7 DEF FireHeartbeat
<1>8. ASSUME NEW r \in Replica, Finish(r) PROVE LockTypeOK'
    BY <1>8 DEF Finish
<1>9. ASSUME NEW r \in Replica, ExecRelease(r) PROVE LockTypeOK'
    BY <1>9 DEF ExecRelease, Releasable
<1>10. ASSUME NEW r \in Replica, Crash(r) PROVE LockTypeOK'
    BY <1>10 DEF Crash
<1>11. ASSUME NEW r \in Replica, NEW t \in renewals[r], ExecRenew(r, t)
       PROVE LockTypeOK'
    BY <1>11 DEF ExecRenew, Renewable, Renewed
<1>12. ASSUME NEW r \in Replica, NEW t \in renewals[r], LoseRenew(r, t)
       PROVE LockTypeOK'
    BY <1>12 DEF LoseRenew
<1>13. CASE UNCHANGED lockVars
    BY <1>13 DEF lockVars
<1> QED
    BY <1>1, <1>2, <1>3, <1>4, <1>5, <1>6, <1>7, <1>8, <1>9, <1>10, <1>11,
       <1>12, <1>13 DEF LockNext

\* No step puts a timestamp in flight that is ahead of its sender's clock.
LEMMA StampsStep == LockTypeOK /\ StampsArePast /\ [LockNext]_lockVars => StampsArePast'
<1> SUFFICES ASSUME LockTypeOK, StampsArePast, [LockNext]_lockVars PROVE StampsArePast'
    OBVIOUS
<1> USE DEF LockTypeOK, Row, Step, StampsArePast, LastClock, Clock
<1>1. CASE PassTime
    BY <1>1 DEF PassTime
<1>2. ASSUME NEW r \in Replica, BeginTick(r) PROVE StampsArePast'
    BY <1>2 DEF BeginTick
<1>3. ASSUME NEW r \in Replica, AcquireUpdate(r) PROVE StampsArePast'
    BY <1>3 DEF AcquireUpdate, TakeLease, Takeable
<1>4. ASSUME NEW r \in Replica, AcquireProbe(r) PROVE StampsArePast'
    BY <1>4 DEF AcquireProbe
<1>5. ASSUME NEW r \in Replica, AcquireInsert(r) PROVE StampsArePast'
    BY <1>5 DEF AcquireInsert, TakeLease
<1>6. ASSUME NEW r \in Replica, AcquireError(r) PROVE StampsArePast'
    BY <1>6 DEF AcquireError, Takeable
<1>7. ASSUME NEW r \in Replica, FireHeartbeat(r) PROVE StampsArePast'
    BY <1>7 DEF FireHeartbeat
<1>8. ASSUME NEW r \in Replica, Finish(r) PROVE StampsArePast'
    BY <1>8 DEF Finish
<1>9. ASSUME NEW r \in Replica, ExecRelease(r) PROVE StampsArePast'
    BY <1>9 DEF ExecRelease, Releasable
<1>10. ASSUME NEW r \in Replica, Crash(r) PROVE StampsArePast'
    BY <1>10 DEF Crash
<1>11. ASSUME NEW r \in Replica, NEW t \in renewals[r], ExecRenew(r, t)
       PROVE StampsArePast'
    BY <1>11 DEF ExecRenew, Renewable, Renewed
<1>12. ASSUME NEW r \in Replica, NEW t \in renewals[r], LoseRenew(r, t)
       PROVE StampsArePast'
    BY <1>12 DEF LoseRenew
<1>13. CASE UNCHANGED lockVars
    BY <1>13 DEF lockVars
<1> QED
    BY <1>1, <1>2, <1>3, <1>4, <1>5, <1>6, <1>7, <1>8,
       <1>9, <1>10, <1>11, <1>12, <1>13 DEF LockNext

\* No step writes a deadline more than TTL beyond its holder's last clock.
LEMMA RowStep ==
  LockTypeOK /\ StampsArePast /\ RowIsBounded /\ [LockNext]_lockVars => RowIsBounded'
<1> SUFFICES ASSUME LockTypeOK, StampsArePast, RowIsBounded, [LockNext]_lockVars
             PROVE  RowIsBounded'
    OBVIOUS
<1> USE DEF LockTypeOK, Row, Step, StampsArePast, RowIsBounded, LastClock, Clock
<1>1. CASE PassTime
    BY <1>1 DEF PassTime
<1>2. ASSUME NEW r \in Replica, BeginTick(r) PROVE RowIsBounded'
    BY <1>2 DEF BeginTick
<1>3. ASSUME NEW r \in Replica, AcquireUpdate(r) PROVE RowIsBounded'
    BY <1>3 DEF AcquireUpdate, TakeLease, Takeable
<1>4. ASSUME NEW r \in Replica, AcquireProbe(r) PROVE RowIsBounded'
    BY <1>4 DEF AcquireProbe
<1>5. ASSUME NEW r \in Replica, AcquireInsert(r) PROVE RowIsBounded'
    BY <1>5 DEF AcquireInsert, TakeLease
<1>6. ASSUME NEW r \in Replica, AcquireError(r) PROVE RowIsBounded'
    BY <1>6 DEF AcquireError, Takeable
<1>7. ASSUME NEW r \in Replica, FireHeartbeat(r) PROVE RowIsBounded'
    BY <1>7 DEF FireHeartbeat
<1>8. ASSUME NEW r \in Replica, Finish(r) PROVE RowIsBounded'
    BY <1>8 DEF Finish
<1>9. ASSUME NEW r \in Replica, ExecRelease(r) PROVE RowIsBounded'
    BY <1>9 DEF ExecRelease, Releasable
<1>10. ASSUME NEW r \in Replica, Crash(r) PROVE RowIsBounded'
    BY <1>10 DEF Crash
<1>11. ASSUME NEW r \in Replica, NEW t \in renewals[r], ExecRenew(r, t)
       PROVE RowIsBounded'
    BY <1>11 DEF ExecRenew, Renewable, Renewed
<1>12. ASSUME NEW r \in Replica, NEW t \in renewals[r], LoseRenew(r, t)
       PROVE RowIsBounded'
    BY <1>12 DEF LoseRenew
<1>13. CASE UNCHANGED lockVars
    BY <1>13 DEF lockVars
<1> QED
    BY <1>1, <1>2, <1>3, <1>4, <1>5, <1>6, <1>7, <1>8,
       <1>9, <1>10, <1>11, <1>12, <1>13 DEF LockNext

\* A running replica loses the row only after its deadline has passed.
LEMMA LeaseStep ==
  LockTypeOK /\ StampsArePast /\ LeaseOrLapsed /\ [LockNext]_lockVars => LeaseOrLapsed'
<1> SUFFICES ASSUME LockTypeOK, StampsArePast, LeaseOrLapsed, [LockNext]_lockVars
             PROVE  LeaseOrLapsed'
    OBVIOUS
<1> USE DEF LockTypeOK, Row, Step, StampsArePast, LeaseOrLapsed, LastClock, Clock
<1>1. CASE PassTime
    BY <1>1 DEF PassTime
<1>2. ASSUME NEW r \in Replica, BeginTick(r) PROVE LeaseOrLapsed'
    BY <1>2 DEF BeginTick
<1>3. ASSUME NEW r \in Replica, AcquireUpdate(r) PROVE LeaseOrLapsed'
    BY <1>3 DEF AcquireUpdate, TakeLease, Takeable
<1>4. ASSUME NEW r \in Replica, AcquireProbe(r) PROVE LeaseOrLapsed'
    BY <1>4 DEF AcquireProbe
<1>5. ASSUME NEW r \in Replica, AcquireInsert(r) PROVE LeaseOrLapsed'
    BY <1>5 DEF AcquireInsert, TakeLease
<1>6. ASSUME NEW r \in Replica, AcquireError(r) PROVE LeaseOrLapsed'
    BY <1>6 DEF AcquireError, Takeable
<1>7. ASSUME NEW r \in Replica, FireHeartbeat(r) PROVE LeaseOrLapsed'
    BY <1>7 DEF FireHeartbeat
<1>8. ASSUME NEW r \in Replica, Finish(r) PROVE LeaseOrLapsed'
    BY <1>8 DEF Finish
<1>9. ASSUME NEW r \in Replica, ExecRelease(r) PROVE LeaseOrLapsed'
    BY <1>9 DEF ExecRelease, Releasable
<1>10. ASSUME NEW r \in Replica, Crash(r) PROVE LeaseOrLapsed'
    BY <1>10 DEF Crash
<1>11. ASSUME NEW r \in Replica, NEW t \in renewals[r], ExecRenew(r, t)
       PROVE LeaseOrLapsed'
    BY <1>11 DEF ExecRenew, Renewable, Renewed
<1>12. ASSUME NEW r \in Replica, NEW t \in renewals[r], LoseRenew(r, t)
       PROVE LeaseOrLapsed'
    BY <1>12 DEF LoseRenew
<1>13. CASE UNCHANGED lockVars
    BY <1>13 DEF lockVars
<1> QED
    BY <1>1, <1>2, <1>3, <1>4, <1>5, <1>6, <1>7, <1>8,
       <1>9, <1>10, <1>11, <1>12, <1>13 DEF LockNext

\* LockIInv is an invariant of every instance of the specification.
THEOREM LockInvariant == LockSpec => []LockIInv
<1>1. LockIInv /\ [LockNext]_lockVars => LockIInv'
    BY LockTypeStep, StampsStep, RowStep, LeaseStep DEF LockIInv
<1> QED
    BY LockInitIInv, <1>1, PTL DEF LockSpec

\* The types are right in every reachable state.
THEOREM LockTypeCorrect == LockSpec => []LockTypeOK
<1>1. LockIInv => LockTypeOK
    BY DEF LockIInv
<1> QED
    BY LockInvariant, <1>1, PTL

\* At most one replica runs the job under a lease nobody may take: with any
\* number of replicas, any TTL and any clock skew.
THEOREM MutualExclusion == LockSpec => []OneCoveredJob
<1>1. LockIInv => OneCoveredJob
  <2> SUFFICES ASSUME LockIInv, NEW r \in Replica, NEW s \in Replica,
                      HoldsLease(r), HoldsLease(s)
               PROVE  r = s
      BY DEF OneCoveredJob
  <2>1. row # NoRow /\ row.holder = r
      BY DEF LockIInv, LeaseOrLapsed, HoldsLease, LockTypeOK
  <2>2. row # NoRow /\ row.holder = s
      BY DEF LockIInv, LeaseOrLapsed, HoldsLease, LockTypeOK
  <2> QED
      BY <2>1, <2>2
<1> QED
    BY LockInvariant, <1>1, PTL

\* A dead holder delays the others by at most TTL on its own clock.
THEOREM BoundedFailover == LockSpec => []FailoverBound
<1>1. LockIInv => FailoverBound
    BY DEF LockIInv, RowIsBounded, FailoverBound, LastClock
<1> QED
    BY LockInvariant, <1>1, PTL

------------------------------------------------------------------------------
(***************************************************************************)
(* PatchAlertIsTrue for any number of requests and processes.              *)
(*                                                                         *)
(* Only a scan that stores changes the row, and only one that announces    *)
(* the incident: while no two of them are between their read and the end,  *)
(* each still knows the row it replaces.                                   *)
(***************************************************************************)


------------------------------------------------------------------------------

CallLabel == {"idle", "queued", "joined", "connect", "script", "record", "read",
              "store", "announce", "login", "apply", "stamp"}
Calls == [pc : CallLabel, kind : {"scan", "fleet", "apply"}, on : ApiNode,
          refresh : BOOLEAN, override : BOOLEAN, found : StatusRows, prev : BOOLEAN]

\* A server without a known package manager has no updates on record, and a scan that
\* comes to store has found something.
NoneUnsupported ==
  /\ status.status = "unsupported" => ~status.security
  /\ \A q \in Request : call[q].pc \in {"read", "store"} => call[q].found.status # "none"
  /\ \A q \in Request : call[q].found.status = "unsupported" => ~call[q].found.security

\* Who is about to change the row knows what it says; who has changed it, what the
\* incident says; and there is only one of them.
StoresAreSound ==
  ~outOfStep =>
    /\ \A q \in Request : In(q, "store") => call[q].prev = status.security
    /\ \A q \in Request :
         In(q, "announce") => /\ patchAlert = call[q].prev
                              /\ status.security = call[q].found.security
    /\ \A p, q \in Request :
         call[p].pc \in {"store", "announce"} /\ call[q].pc \in {"store", "announce"} => p = q

PatchInv == PatchTypeOK /\ NoneUnsupported /\ StoresAreSound /\ PatchAlertIsTrue

LEMMA CallType ==
  ASSUME NEW at \in CallLabel, NEW kind \in {"scan", "fleet", "apply"}, NEW r \in ApiNode,
         NEW refresh \in BOOLEAN, NEW override \in BOOLEAN
  PROVE  /\ Call(at, kind, r, refresh, override) \in Calls
         /\ Call(at, kind, r, refresh, override).pc = at
         /\ Call(at, kind, r, refresh, override).found = NoStatusRow
BY DEF Call, Calls, NoStatusRow, StatusRows

LEMMA NoCallType ==
  NoCall \in Calls /\ NoCall.pc = "idle" /\ NoCall.found = NoStatusRow
<1>1. (CHOOSE r \in ApiNode : TRUE) \in ApiNode
    BY PatchAssumption DEF PatchAssumption
<1>2. "idle" \in CallLabel /\ "scan" \in {"scan", "fleet", "apply"}
    BY DEF CallLabel
<1> QED
    BY <1>1, <1>2, CallType DEF NoCall

LEMMA PatchInitInv == PatchInit => PatchInv
<1> SUFFICES ASSUME PatchInit PROVE PatchInv
    OBVIOUS
<1>1. call \in [Request -> Calls] /\ \A q \in Request : call[q] = NoCall
    BY NoCallType DEF PatchInit
<1>2. NoStatusRow \in StatusRows /\ 0 \in 0 .. MaxReleases
    BY PatchAssumption DEF PatchAssumption, NoStatusRow, StatusRows
<1>3. PatchTypeOK
    BY <1>1, <1>2 DEF PatchInit, PatchTypeOK, Calls, CallLabel
<1>4. \A q \in Request : call[q].pc = "idle" /\ call[q].found.status = "none"
    BY <1>1, NoCallType DEF NoStatusRow
<1>5. NoneUnsupported /\ StoresAreSound /\ PatchAlertIsTrue
    BY <1>4 DEF PatchInit, NoneUnsupported, StoresAreSound, PatchAlertIsTrue, In, NoStatusRow
<1> QED
    BY <1>3, <1>5 DEF PatchInv

\* A request that goes on, to a place where it neither stores nor announces.
LEMMA MoveKeeps ==
  ASSUME PatchTypeOK, NEW q \in Request, NEW at \in CallLabel, Move(q, at)
  PROVE  /\ call' \in [Request -> Calls]
         /\ \A p \in Request \ {q} : call'[p] = call[p]
         /\ call'[q].pc = at
         /\ call'[q].found = IF at = "idle" THEN NoStatusRow ELSE call[q].found
         /\ at # "idle" => call'[q].prev = call[q].prev
<1> USE DEF PatchTypeOK
<1>1. call \in [Request -> Calls]
    BY DEF Calls, CallLabel
<1>2. CASE at = "idle"
    BY <1>1, <1>2, NoCallType DEF Move
<1>3. CASE at # "idle"
  <2>1. call' = [call EXCEPT ![q] = [call[q] EXCEPT !.pc = at]]
      BY <1>3 DEF Move
  <2>2. [call[q] EXCEPT !.pc = at] \in Calls
      BY <1>1 DEF Calls
  <2> QED
      BY <1>1, <1>3, <2>1, <2>2 DEF Calls
<1> QED
    BY <1>2, <1>3

\* A step that leaves the row and the incident alone, and with which nobody comes to
\* store or to announce, keeps them in step.
LEMMA QuietStep ==
  ASSUME PatchInv, NEW q \in Request, PatchTypeOK',
         status' = status \/ status' = ErrorStatus, UNCHANGED <<patchAlert, outOfStep>>,
         \A p \in Request \ {q} : call'[p] = call[p],
         call'[q].pc \notin {"read", "store", "announce"} \/
           (call'[q].pc = "read" /\ call'[q].found.status # "none"),
         ~In(q, "announce"),
         call'[q].found.status = "unsupported" => ~call'[q].found.security
  PROVE  PatchInv'
<1>1. status'.security = status.security
    BY DEF ErrorStatus, PatchInv, PatchTypeOK, StatusRows
<1>2. NoneUnsupported'
  <2>1. status'.status = "unsupported" => ~status'.security
      BY DEF PatchInv, NoneUnsupported, ErrorStatus, PatchTypeOK, StatusRows
  <2>2. \A p \in Request : call'[p].found.status = "unsupported" => ~call'[p].found.security
      BY DEF PatchInv, NoneUnsupported
  <2>3. \A p \in Request : call'[p].pc \in {"read", "store"} => call'[p].found.status # "none"
      BY DEF PatchInv, NoneUnsupported
  <2> QED
      BY <2>1, <2>2, <2>3 DEF NoneUnsupported
<1>3. StoresAreSound'
    BY <1>1 DEF PatchInv, StoresAreSound, In
<1>4. PatchAlertIsTrue'
    BY <1>1 DEF PatchInv, PatchAlertIsTrue, In
<1> QED
    BY <1>2, <1>3, <1>4 DEF PatchInv

LEMMA PatchStep == PatchInv /\ [PatchNext]_patchVars => PatchInv'
<1> SUFFICES ASSUME PatchInv, [PatchNext]_patchVars PROVE PatchInv'
    OBVIOUS
<1>a. PatchTypeOK /\ call \in [Request -> Calls]
    BY DEF PatchInv, PatchTypeOK, Calls, CallLabel
<1>b. \A q \in Request : call[q].found.status = "unsupported" => ~call[q].found.security
    BY DEF PatchInv, NoneUnsupported
\* What the types ask of a step, besides the requests.
<1>c. call' \in [Request -> Calls] /\ UNCHANGED <<hostState, releases>>
        /\ status' \in StatusRows /\ patchAlert' \in BOOLEAN /\ outOfStep' \in BOOLEAN
        => PatchTypeOK'
    BY <1>a DEF PatchTypeOK, hostState, Calls, CallLabel
<1>d. ErrorStatus \in StatusRows
    BY <1>a DEF ErrorStatus, PatchTypeOK, StatusRows
\* A request that begins.
<1>1. ASSUME NEW q \in Request, NEW at \in {"joined", "connect", "queued", "login"},
             NEW kind \in {"scan", "fleet", "apply"}, NEW r \in ApiNode,
             NEW refresh \in BOOLEAN, NEW override \in BOOLEAN, ~In(q, "announce"),
             call' = [call EXCEPT ![q] = Call(at, kind, r, refresh, override)],
             UNCHANGED <<hostState, status, patchAlert, releases, outOfStep>>
      PROVE  PatchInv'
  <2>1. Call(at, kind, r, refresh, override) \in Calls
        /\ Call(at, kind, r, refresh, override).pc = at
        /\ Call(at, kind, r, refresh, override).found = NoStatusRow
      BY <1>1, CallType DEF CallLabel
  <2>2. PatchTypeOK'
      BY <1>1, <1>a, <1>c, <2>1 DEF PatchTypeOK
  <2>3. /\ \A p \in Request \ {q} : call'[p] = call[p]
        /\ call'[q].pc = at /\ call'[q].found.status = "none"
      BY <1>1, <1>a, <2>1 DEF NoStatusRow
  <2> QED
      BY <1>1, <2>2, <2>3, QuietStep
\* A request that goes on without storing or announcing.
<1>2. ASSUME NEW q \in Request, NEW at \in CallLabel \ {"read", "store", "announce"}, Move(q, at),
             ~In(q, "announce"), status' = status \/ status' = ErrorStatus,
             UNCHANGED <<patchAlert, outOfStep>>, call' \in [Request -> Calls] => PatchTypeOK'
      PROVE  PatchInv'
  <2>1. /\ call' \in [Request -> Calls] /\ call'[q].pc = at
        /\ \A p \in Request \ {q} : call'[p] = call[p]
        /\ call'[q].found = IF at = "idle" THEN NoStatusRow ELSE call[q].found
      BY <1>2, <1>a, MoveKeeps
  <2>2. call'[q].found.status = "unsupported" => ~call'[q].found.security
      BY <1>b, <2>1 DEF NoStatusRow
  <2> QED
      BY <1>2, <2>1, <2>2, QuietStep
<1>3. ASSUME NEW q \in Request, Scan(q) PROVE PatchInv'
  <2>1. /\ ~In(q, "announce") /\ UNCHANGED <<hostState, status, patchAlert, releases, outOfStep>>
        /\ \E r \in ApiNode, o \in ScanOption : Begin(q, "scan", r, o = "refresh", o = "password")
      BY <1>3 DEF Scan, In
  <2>2. PICK r \in ApiNode, o \in ScanOption : Begin(q, "scan", r, o = "refresh", o = "password")
      BY <2>1
  <2>3. (o = "refresh") \in BOOLEAN /\ (o = "password") \in BOOLEAN
      OBVIOUS
  <2>4. PICK at \in {"joined", "connect"} :
          call' = [call EXCEPT ![q] = Call(at, "scan", r, o = "refresh", o = "password")]
      BY <2>2 DEF Begin
  <2> DEFINE refresh == o = "refresh"
             override == o = "password"
  <2>5. call' = [call EXCEPT ![q] = Call(at, "scan", r, refresh, override)]
      BY <2>4
  <2>6. refresh \in BOOLEAN /\ override \in BOOLEAN
      BY <2>3
  <2> HIDE DEF refresh, override
  <2>7. at \in {"joined", "connect", "queued", "login"} /\ "scan" \in {"scan", "fleet", "apply"}
      OBVIOUS
  <2> QED
      BY <1>1, <2>1, <2>5, <2>6, <2>7
<1>4. ASSUME NEW q \in Request, Queue(q) PROVE PatchInv'
    BY <1>1, <1>4 DEF Queue, In
<1>5. ASSUME NEW q \in Request, Dequeue(q) PROVE PatchInv'
  <2>1. call[q].on \in ApiNode /\ call[q].refresh \in BOOLEAN /\ ~In(q, "announce")
      BY <1>5, <1>a DEF Calls, Dequeue, In
  <2> QED
      BY <1>1, <1>5, <2>1 DEF Dequeue, Begin
\* Every scan that is to store has found something.
<1>e. \A q \in Request : call[q].pc \in {"read", "store"} => call[q].found.status # "none"
    BY DEF PatchInv, NoneUnsupported
<1>6. ASSUME NEW q \in Request, Release(q) \/ Stamp(q) PROVE PatchInv'
  <2>1. /\ ~In(q, "announce") /\ Move(q, "idle")
        /\ status' = status /\ UNCHANGED <<hostState, patchAlert, releases, outOfStep>>
      BY <1>6 DEF Release, Stamp, In
  <2>2. call' \in [Request -> Calls] => PatchTypeOK'
      BY <1>a, <1>c, <2>1 DEF PatchTypeOK
  <2>3. "idle" \in CallLabel \ {"read", "store", "announce"}
      BY DEF CallLabel
  <2>4. UNCHANGED <<patchAlert, outOfStep>>
      BY <2>1
  <2> QED
      BY <1>2, <2>1, <2>2, <2>3, <2>4
<1>7. ASSUME NEW q \in Request, Connect(q) PROVE PatchInv'
    BY <1>2, <1>7, <1>c, <1>a DEF Connect, In, CallLabel, PatchTypeOK
<1>8. ASSUME NEW q \in Request, RecordFailure(q) PROVE PatchInv'
    BY <1>2, <1>8, <1>c, <1>d, <1>a DEF RecordFailure, Over, In, CallLabel, PatchTypeOK
<1>9. ASSUME NEW q \in Request, ScanScript(q) PROVE PatchInv'
  <2>1. /\ ~In(q, "announce") /\ index' \in BOOLEAN
        /\ UNCHANGED <<published, supported, dpkg, status, patchAlert, releases, outOfStep>>
      BY <1>9, <1>a DEF ScanScript, In, PatchTypeOK
  <2>2. call' \in [Request -> Calls] => PatchTypeOK'
      BY <1>a, <2>1 DEF PatchTypeOK, Calls, CallLabel
  <2>3. CASE Move(q, "record")
      BY <1>2, <2>1, <2>2, <2>3 DEF CallLabel
  <2>4. ASSUME NEW s \in {"ok", "unsupported", "error"}, NEW sec \in BOOLEAN, Found(q, s, sec),
               s = "unsupported" => ~sec
        PROVE  PatchInv'
    <3> DEFINE rowFound == [status |-> s, security |-> sec]
               reading == [call[q] EXCEPT !.pc = "read"]
    <3>1. rowFound \in StatusRows /\ rowFound.status = s /\ rowFound.security = sec
        BY DEF StatusRows
    <3>2. reading \in Calls /\ reading.pc = "read"
        BY <1>a DEF Calls, CallLabel
    <3>3. call' = [call EXCEPT ![q] = [reading EXCEPT !.found = rowFound]]
        BY <2>4 DEF Found
    <3> HIDE DEF rowFound, reading
    <3>4. /\ [reading EXCEPT !.found = rowFound] \in Calls
          /\ [reading EXCEPT !.found = rowFound].pc = "read"
          /\ [reading EXCEPT !.found = rowFound].found = rowFound
        BY <3>1, <3>2 DEF Calls
    <3>5. /\ call' \in [Request -> Calls] /\ call'[q].pc = "read" /\ call'[q].found = rowFound
          /\ \A p \in Request \ {q} : call'[p] = call[p]
        BY <1>a, <3>3, <3>4
    <3> QED
        BY <2>1, <2>2, <2>4, <3>1, <3>5, QuietStep
  <2> QED
      BY <1>9, <1>a, <2>1, <2>3, <2>4 DEF ScanScript, PatchTypeOK
<1>10. ASSUME NEW q \in Request, ReadStatus(q) PROVE PatchInv'
  <2> DEFINE storing == [call[q] EXCEPT !.pc = "store"]
  <2>1. WasSecurity \in BOOLEAN /\ (WasSecurity <=> status.security)
      BY <1>a DEF WasSecurity, PatchInv, NoneUnsupported, PatchTypeOK, StatusRows
  <2>2. storing \in Calls /\ storing.pc = "store" /\ storing.found = call[q].found
      BY <1>a DEF Calls, CallLabel
  <2>3. call' = [call EXCEPT ![q] = [storing EXCEPT !.prev = WasSecurity]]
      BY <1>10 DEF ReadStatus
  <2> HIDE DEF storing
  <2>4. LET new == [storing EXCEPT !.prev = WasSecurity] IN
        new \in Calls /\ new.pc = "store" /\ new.found = call[q].found /\ new.prev = WasSecurity
      BY <2>1, <2>2 DEF Calls
  <2>5. /\ call' \in [Request -> Calls] /\ call'[q].pc = "store"
        /\ call'[q].found = call[q].found /\ call'[q].prev = WasSecurity
        /\ \A p \in Request \ {q} : call'[p] = call[p]
      BY <1>a, <2>3, <2>4
  <2>6. /\ In(q, "read") /\ UNCHANGED <<hostState, status, patchAlert, releases>>
        /\ outOfStep' = (outOfStep \/ \E s \in Request \ {q} : In(s, "store") \/ In(s, "announce"))
      BY <1>10 DEF ReadStatus
  <2>7. PatchTypeOK'
      BY <1>a, <1>c, <2>5, <2>6 DEF PatchTypeOK
  <2>8. NoneUnsupported'
    <3>1. /\ status' = status /\ call[q].pc = "read"
          /\ status.status = "unsupported" => ~status.security
        BY <2>6 DEF PatchInv, NoneUnsupported, In
    <3>2. \A p \in Request : call'[p].found = call[p].found
        BY <2>5
    <3>3. \A p \in Request : call'[p].pc \in {"read", "store"} => call[p].pc \in {"read", "store"}
        BY <2>5, <3>1
    <3> QED
        BY <1>b, <1>e, <3>1, <3>2, <3>3 DEF NoneUnsupported
  <2>9. ~outOfStep' => ~outOfStep /\ \A p \in Request : call[p].pc \notin {"store", "announce"}
      BY <2>6 DEF In
  <2>10. StoresAreSound'
    <3> SUFFICES ASSUME ~outOfStep'
                 PROVE  /\ \A p \in Request : call'[p].pc = "store" => call'[p].prev = status'.security
                        /\ \A p \in Request : call'[p].pc # "announce"
                        /\ \A p \in Request : call'[p].pc = "store" => p = q
        BY DEF StoresAreSound, In
    <3>1. \A p \in Request \ {q} : call'[p].pc \notin {"store", "announce"}
        BY <2>5, <2>9
    <3>2. WasSecurity = status.security /\ status'.security = status.security
        BY <1>a, <2>1, <2>6 DEF PatchTypeOK, StatusRows
    <3> QED
        BY <2>5, <3>1, <3>2
  <2>11. PatchAlertIsTrue'
      BY <2>5, <2>6, <2>9 DEF PatchInv, PatchAlertIsTrue, In
  <2> QED
      BY <2>7, <2>8, <2>10, <2>11 DEF PatchInv
\* Whoever has stored or announced goes on.
<1>11. ASSUME NEW q \in Request, Over(q)
       PROVE  /\ call' \in [Request -> Calls] /\ call'[q].pc \in {"idle", "stamp"}
              /\ call'[q].found.status = "unsupported" => ~call'[q].found.security
              /\ \A p \in Request \ {q} : call'[p] = call[p]
    BY <1>11, <1>a, <1>b, MoveKeeps DEF Over, CallLabel, NoStatusRow
<1>12. ASSUME NEW q \in Request, StoreScan(q) PROVE PatchInv'
  <2> DEFINE found == call[q].found
  <2>1. /\ found \in StatusRows /\ In(q, "store") /\ status' = Stored(found)
        /\ found.status = "unsupported" => ~found.security
      BY <1>12, <1>a, <1>b DEF StoreScan, Calls
  <2>2. /\ status' \in StatusRows
        /\ status'.status = "unsupported" => ~status'.security
        /\ status'.security = IF found.status = "error" THEN status.security ELSE found.security
      BY <1>a, <1>d, <2>1 DEF Stored, ErrorStatus, StatusRows, PatchTypeOK
  <2>3. /\ outOfStep' = (outOfStep \/ (found.status = "unsupported" /\ patchAlert))
        /\ UNCHANGED <<hostState, patchAlert, releases>>
      BY <1>12 DEF StoreScan
  <2>4. ~outOfStep =>
          /\ call[q].prev = status.security /\ patchAlert = status.security
          /\ \A p \in Request \ {q} : call[p].pc \notin {"store", "announce"}
      BY <2>1 DEF PatchInv, StoresAreSound, PatchAlertIsTrue, In
  <2>5. CASE found.status = "ok"
    <3>1. Move(q, "announce")
        BY <1>12, <2>5 DEF StoreScan
    <3>2. /\ call' \in [Request -> Calls] /\ call'[q].pc = "announce"
          /\ call'[q].found = found /\ call'[q].prev = call[q].prev
          /\ \A p \in Request \ {q} : call'[p] = call[p]
        BY <1>a, <3>1, MoveKeeps DEF CallLabel
    <3>3. PatchTypeOK'
        BY <1>a, <1>c, <2>2, <2>3, <3>2 DEF PatchTypeOK
    <3>4. NoneUnsupported'
        BY <1>b, <1>e, <2>2, <3>2 DEF NoneUnsupported
    <3>5. StoresAreSound' /\ PatchAlertIsTrue'
        BY <2>2, <2>3, <2>4, <2>5, <3>2 DEF StoresAreSound, PatchAlertIsTrue, In
    <3> QED
        BY <3>3, <3>4, <3>5 DEF PatchInv
  <2>6. CASE found.status # "ok"
    <3>1. Over(q)
        BY <1>12, <2>6 DEF StoreScan
    <3>2. /\ call' \in [Request -> Calls] /\ call'[q].pc \in {"idle", "stamp"}
          /\ call'[q].found.status = "unsupported" => ~call'[q].found.security
          /\ \A p \in Request \ {q} : call'[p] = call[p]
        BY <1>11, <3>1
    <3>3. PatchTypeOK'
        BY <1>a, <1>c, <2>2, <2>3, <3>2 DEF PatchTypeOK
    <3>4. NoneUnsupported'
        BY <1>b, <1>e, <2>2, <3>2 DEF NoneUnsupported
    <3>5. found.status \in {"error", "unsupported"}
        BY <2>1, <2>6 DEF StatusRows, PatchInv, NoneUnsupported, In
    <3>6. \A p \in Request : ~outOfStep => call'[p].pc \notin {"store", "announce"}
        BY <2>4, <3>2
    <3>7. ~outOfStep' => ~outOfStep /\ patchAlert' = status'.security
        BY <1>a, <2>1, <2>2, <2>3, <2>4, <3>5 DEF PatchTypeOK, StatusRows
    <3>8. StoresAreSound'
        BY <3>6, <3>7 DEF StoresAreSound, In
    <3>9. PatchAlertIsTrue'
        BY <3>7 DEF PatchAlertIsTrue
    <3> QED
        BY <3>3, <3>4, <3>8, <3>9 DEF PatchInv
  <2> QED
      BY <2>5, <2>6
<1>13. ASSUME NEW q \in Request, Announce(q) PROVE PatchInv'
  <2>1. /\ call' \in [Request -> Calls] /\ call'[q].pc \in {"idle", "stamp"}
        /\ call'[q].found.status = "unsupported" => ~call'[q].found.security
        /\ \A p \in Request \ {q} : call'[p] = call[p]
      BY <1>11, <1>13 DEF Announce
  <2>2. /\ In(q, "announce") /\ patchAlert' = Announced(q)
        /\ UNCHANGED <<hostState, status, releases, outOfStep>>
      BY <1>13 DEF Announce
  <2>3. patchAlert' \in BOOLEAN
      BY <1>a, <2>2 DEF Announced, PatchTypeOK, Calls, StatusRows
  <2>4. PatchTypeOK'
      BY <1>a, <1>c, <2>1, <2>2, <2>3 DEF PatchTypeOK
  <2>5. NoneUnsupported'
      BY <2>1, <2>2 DEF PatchInv, NoneUnsupported
  <2>6. ~outOfStep =>
          /\ patchAlert' = status.security
          /\ \A p \in Request \ {q} : call[p].pc \notin {"store", "announce"}
      BY <1>a, <2>2 DEF PatchInv, StoresAreSound, Announced, In, PatchTypeOK, Calls, StatusRows
  <2>7. StoresAreSound' /\ PatchAlertIsTrue'
      BY <2>1, <2>2, <2>6 DEF StoresAreSound, PatchAlertIsTrue, In
  <2> QED
      BY <2>4, <2>5, <2>7 DEF PatchInv
<1>14. ASSUME NEW q \in Request, AnnounceFails(q) PROVE PatchInv'
  <2>1. /\ call' \in [Request -> Calls] /\ call'[q].pc \in {"idle", "stamp"}
        /\ call'[q].found.status = "unsupported" => ~call'[q].found.security
        /\ \A p \in Request \ {q} : call'[p] = call[p]
      BY <1>11, <1>14 DEF AnnounceFails
  <2>2. outOfStep' = TRUE /\ UNCHANGED <<hostState, status, patchAlert, releases>>
      BY <1>14 DEF AnnounceFails
  <2>3. PatchTypeOK'
      BY <1>a, <1>c, <2>1, <2>2 DEF PatchTypeOK
  <2>4. NoneUnsupported' /\ StoresAreSound' /\ PatchAlertIsTrue'
      BY <2>1, <2>2 DEF PatchInv, NoneUnsupported, StoresAreSound, PatchAlertIsTrue
  <2> QED
      BY <2>3, <2>4 DEF PatchInv
<1>15. ASSUME NEW q \in Request, Apply(q) PROVE PatchInv'
    BY <1>1, <1>15 DEF Apply, In
<1>16. ASSUME NEW q \in Request, Login(q) \/ ApplyEnds(q) PROVE PatchInv'
  <2>1. /\ ~In(q, "announce") /\ UNCHANGED <<supported, status, patchAlert, releases, outOfStep>>
        /\ published' \in BOOLEAN /\ index' \in BOOLEAN
      BY <1>16, <1>a DEF Login, ApplyEnds, In, PatchTypeOK
  <2>2. dpkg' \subseteq Request /\ \A p, r \in dpkg' : p = r
      BY <1>16, <1>a DEF Login, ApplyEnds, PatchTypeOK
  <2>3. ASSUME call' \in [Request -> Calls] PROVE PatchTypeOK'
    <3>1. supported' \in BOOLEAN /\ status' \in StatusRows /\ patchAlert' \in BOOLEAN
          /\ releases' \in 0 .. MaxReleases /\ outOfStep' \in BOOLEAN
        BY <1>a, <2>1 DEF PatchTypeOK
    <3> QED
        BY <2>1, <2>2, <2>3, <3>1, Zenon DEF PatchTypeOK, Calls, CallLabel
  <2> QED
      BY <1>2, <1>16, <2>1, <2>3 DEF Login, ApplyEnds, CallLabel
<1>17. CASE Publish \/ Reinstall
  <2>1. PatchTypeOK'
    <3>1. releases \in 0 .. MaxReleases /\ releases < MaxReleases /\ releases' = releases + 1
        BY <1>17, <1>a DEF Publish, Reinstall, PatchTypeOK
    <3>3. releases' \in 0 .. MaxReleases
        BY <3>1, PatchAssumption DEF PatchAssumption
    <3>4. published' \in BOOLEAN /\ index' \in BOOLEAN /\ supported' \in BOOLEAN
      <4>1. CASE Publish
          BY <4>1, <1>a DEF Publish, PatchTypeOK
      <4>2. CASE Reinstall
          BY <4>2, <1>a DEF Reinstall, PatchTypeOK
      <4> QED
          BY <1>17, <4>1, <4>2
    <3>2. /\ dpkg' = dpkg /\ status' = status /\ patchAlert' = patchAlert
          /\ call' = call /\ outOfStep' = outOfStep
        BY <1>17 DEF Publish, Reinstall
    <3> QED
        BY <1>a, <3>2, <3>3, <3>4 DEF PatchTypeOK
  <2>2. UNCHANGED <<status, patchAlert, call, outOfStep>>
      BY <1>17 DEF Publish, Reinstall
  <2> QED
      BY <2>1, <2>2 DEF PatchInv, NoneUnsupported, StoresAreSound, PatchAlertIsTrue, In
<1>18. CASE UNCHANGED patchVars
    BY <1>18 DEF patchVars, PatchInv, PatchTypeOK, NoneUnsupported, StoresAreSound,
                 PatchAlertIsTrue, In
<1> QED
    BY <1>3, <1>4, <1>5, <1>6, <1>7, <1>8, <1>9, <1>10, <1>12, <1>13, <1>14, <1>15, <1>16,
       <1>17, <1>18 DEF PatchNext

\* Whatever requests of whatever processes scan and apply, what a scan that is storing
\* or announcing has read is still true, unless two of them have crossed.
THEOREM PatchInvariant == PatchSpec => []PatchInv
BY PatchInitInv, PatchStep, PTL DEF PatchSpec

\* The incident is open exactly while the row shows a security update, for any number
\* of requests, processes and places of the fleet queue.
THEOREM PatchIncidentIsTrue == PatchSpec => []PatchAlertIsTrue
<1>1. PatchInv => PatchAlertIsTrue
    BY DEF PatchInv
<1> QED
    BY PatchInvariant, <1>1, PTL
================================================================================
