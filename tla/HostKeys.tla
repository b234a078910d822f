-------------------------------- MODULE HostKeys --------------------------------
(***************************************************************************)
(* Trust on first use for one SSH endpoint                                 *)
(* (services/ssh-host-key.service.ts, verifyHostKey, and the admin's       *)
(* deletion of a pin in modules/ssh-host-keys/ssh-host-key.routes.ts).     *)
(*                                                                         *)
(* A verification is a lookup, then an insert that the unique index on     *)
(* (host, port) may refuse, then a second lookup.  A pin is a row: its     *)
(* number and the key it was created with.                                 *)
(***************************************************************************)
EXTENDS Integers

CONSTANTS
  Conn,       \* handshakes
  Key,        \* the keys a host, or somebody in its place, may present
  Tofu,       \* SSH_HOST_POLICY = "tofu", or "accept-any"
  MaxPins     \* bound: rows ever created

ASSUME HostKeyAssumption == Tofu \in BOOLEAN /\ MaxPins \in Nat

VARIABLES
  pin,        \* the row: [id, key], id 0 when there is none
  pins,       \* rows created so far
  presented,  \* the key each handshake presented
  check,      \* where each verification is
  verdict,    \* HostKeyVerdict.decision
  trusted,    \* the pin the verdict rests on
  toDelete    \* the row the admin's request has found, 0 for none

hostKeyVars == <<pin, pins, presented, check, verdict, trusted, toDelete>>

------------------------------------------------------------------------------

NoKey == "nokey"
NoPin == [id |-> 0, key |-> NoKey]
Pin == [id : 0 .. MaxPins, key : Key \cup {NoKey}]
Decision == {"none", "first_seen", "match", "mismatch", "error"}

HostKeyTypeOK ==
  /\ pin \in Pin /\ pins \in 0 .. MaxPins
  /\ presented \in [Conn -> Key \cup {NoKey}]
  /\ check \in [Conn -> {"idle", "lookup", "create", "reread", "done"}]
  /\ verdict \in [Conn -> Decision]
  /\ trusted \in [Conn -> Pin]
  /\ toDelete \in 0 .. MaxPins

HostKeyInit ==
  /\ pin = NoPin /\ pins = 0
  /\ presented = [c \in Conn |-> NoKey]
  /\ check = [c \in Conn |-> "idle"]
  /\ verdict = [c \in Conn |-> "none"]
  /\ trusted = [c \in Conn |-> NoPin]
  /\ toDelete = 0

Decide(c, d, p) ==
  /\ check' = [check EXCEPT ![c] = "done"]
  /\ verdict' = [verdict EXCEPT ![c] = d]
  /\ trusted' = [trusted EXCEPT ![c] = p]

Proceed(c, to) ==
  /\ check' = [check EXCEPT ![c] = to]
  /\ UNCHANGED <<verdict, trusted>>

\* Mutant: whoever finds a row takes it for its own.
CompareKnownNot(c) == Decide(c, "match", pin)

\* compareKnown: a mismatch leaves the row untouched.
CompareKnown(c) == Decide(c, IF pin.key = presented[c] THEN "match" ELSE "mismatch", pin)

\* The host presents its key during the handshake.
Present(c) ==
  /\ check[c] = "idle"
  /\ \E k \in Key : presented' = [presented EXCEPT ![c] = k]
  /\ Proceed(c, "lookup")
  /\ UNCHANGED <<pin, pins, toDelete>>

Lookup(c) ==
  /\ check[c] = "lookup"
  /\ IF pin = NoPin THEN Proceed(c, "create") ELSE CompareKnown(c)
  /\ UNCHANGED <<pin, pins, presented, toDelete>>

\* The first sighting is pinned; the unique index lets only one in.
Pinned(c) ==
  /\ check[c] = "create" /\ pin = NoPin /\ pins < MaxPins
  /\ pins' = pins + 1
  /\ pin' = [id |-> pins', key |-> presented[c]]
  /\ Decide(c, "first_seen", pin')
  /\ UNCHANGED <<presented, toDelete>>

CreateRefused(c) ==
  /\ check[c] = "create"
  /\ Proceed(c, "reread")
  /\ UNCHANGED <<pin, pins, presented, toDelete>>

\* The row that won the race is compared with; if there is none, the error stands.
Reread(c) ==
  /\ check[c] = "reread"
  /\ IF pin = NoPin THEN Decide(c, "error", NoPin) ELSE CompareKnown(c)
  /\ UNCHANGED <<pin, pins, presented, toDelete>>

\* The store cannot be consulted.
StoreFails(c) ==
  /\ check[c] \in {"lookup", "reread"}
  /\ Decide(c, "error", NoPin)
  /\ UNCHANGED <<pin, pins, presented, toDelete>>

\* An admin deletes the pin by its id, so that the next connection pins anew.
FindPin ==
  /\ toDelete = 0 /\ pin # NoPin
  /\ toDelete' = pin.id
  /\ UNCHANGED <<pin, pins, presented, check, verdict, trusted>>

DeletePin ==
  /\ toDelete # 0
  /\ pin' = IF pin.id = toDelete THEN NoPin ELSE pin
  /\ toDelete' = 0
  /\ UNCHANGED <<pins, presented, check, verdict, trusted>>

HostKeyNext ==
  \/ FindPin \/ DeletePin
  \/ \E c \in Conn :
       \/ Present(c) \/ Lookup(c) \/ Pinned(c) \/ CreateRefused(c)
       \/ Reread(c) \/ StoreFails(c)

HostKeySpec == HostKeyInit /\ [][HostKeyNext]_hostKeyVars

------------------------------------------------------------------------------
(* Properties *)

\* verdict.accepted, which createHostVerifier answers to the handshake.
Accepted(c) ==
  /\ check[c] = "done"
  /\ verdict[c] \in {"first_seen", "match"} \/ ~Tofu

\* Under tofu a handshake goes on only with the very key of one pin, so two
\* handshakes that went on with different keys rest on different pins, one of
\* which an admin has deleted in between; a changed key and an unreachable store
\* are refused.  Under accept-any nothing is refused.
TrustFollowsThePin ==
  Tofu =>
    \A c \in Conn : Accepted(c) =>
      /\ trusted[c].id # 0 /\ trusted[c].key = presented[c]
      /\ \A d \in Conn : Accepted(d) /\ presented[d] # presented[c]
                           => trusted[d].id # trusted[c].id
      /\ pin.id = trusted[c].id => pin = trusted[c]
=================================================================================
