-------------------------------- MODULE Terminal --------------------------------
(***************************************************************************)
(* The SSH terminal websocket of one API process (ws/ssh.ws.ts): the cap   *)
(* on concurrent sockets, connecting and asking for a password, the shell, *)
(* the timers, the periodic re-authorization and cleanup.                  *)
(*                                                                         *)
(* Handlers run to their next await.  A socket that was asked to close     *)
(* fires onClose later; `step` is where its connecting handler is.         *)
(***************************************************************************)
EXTENDS Integers, FiniteSets

CONSTANTS
  Socket,
  Person,       \* who opens sockets
  Cap,          \* SSH_MAX_CONCURRENT
  MaxAttempts   \* MAX_SSH_AUTH_ATTEMPTS

ASSUME TerminalAssumption ==
  /\ IsFiniteSet(Socket)
  /\ Cap \in Nat \ {0} /\ MaxAttempts \in Nat \ {0}

VARIABLES
  activeCount, perUser,
  owner,        \* whose socket it is
  ws,           \* the websocket
  step,         \* the handler's await
  counted, cleanedUp,
  client,       \* the SSH connection
  shell,        \* the stream of the shell is open
  maxTimer,     \* maxTimer is armed
  attempts,     \* authAttempts
  allowed,      \* what evaluateAuthorization would answer
  lateConnect   \* the connection came up after cleanup

terminalVars == <<activeCount, perUser, owner, ws, step, counted, cleanedUp, client, shell,
                  maxTimer, attempts, allowed, lateConnect>>

------------------------------------------------------------------------------

Counted(S) == Cardinality({s \in S : counted[s]})
Of(p) == {s \in Socket : owner[s] = p}

TerminalTypeOK ==
  /\ activeCount \in 0 .. Cap /\ perUser \in [Person -> 0 .. Cap]
  /\ owner \in [Socket -> Person]
  /\ ws \in [Socket -> {"new", "upgraded", "open", "closing", "closed"}]
  /\ step \in [Socket -> {"idle", "connecting", "prompt", "retrying", "opening", "shell"}]
  /\ counted \in [Socket -> BOOLEAN] /\ cleanedUp \in [Socket -> BOOLEAN]
  /\ client \in [Socket -> {"none", "live", "ended"}]
  /\ shell \in [Socket -> BOOLEAN] /\ maxTimer \in [Socket -> BOOLEAN]
  /\ attempts \in [Socket -> 0 .. MaxAttempts]
  /\ allowed \in [Person -> BOOLEAN]
  /\ lateConnect \in [Socket -> BOOLEAN]

TerminalInit ==
  /\ activeCount = 0 /\ perUser = [p \in Person |-> 0]
  /\ owner \in [Socket -> Person]
  /\ ws = [s \in Socket |-> "new"]
  /\ step = [s \in Socket |-> "idle"]
  /\ counted = [s \in Socket |-> FALSE] /\ cleanedUp = [s \in Socket |-> FALSE]
  /\ client = [s \in Socket |-> "none"]
  /\ shell = [s \in Socket |-> FALSE] /\ maxTimer = [s \in Socket |-> FALSE]
  /\ attempts = [s \in Socket |-> 0]
  /\ allowed = [p \in Person |-> TRUE]
  /\ lateConnect = [s \in Socket |-> FALSE]

\* ws.close(): nothing happens on a socket that is closed already.
Closing(s) == [ws EXCEPT ![s] = IF @ = "open" THEN "closing" ELSE @]
Less(n) == IF n > 0 THEN n - 1 ELSE 0

\* Mutant: whoever is cleaned up gives a slot back, counted or not.
CleanupUncounted(s) ==
  IF cleanedUp[s]
  THEN UNCHANGED <<cleanedUp, maxTimer, shell, client, activeCount, perUser, counted>>
  ELSE /\ cleanedUp' = [cleanedUp EXCEPT ![s] = TRUE]
       /\ maxTimer' = [maxTimer EXCEPT ![s] = FALSE]
       /\ shell' = [shell EXCEPT ![s] = FALSE]
       /\ client' = [client EXCEPT ![s] = IF @ = "live" THEN "ended" ELSE @]
       /\ activeCount' = Less(activeCount)
       /\ perUser' = [perUser EXCEPT ![owner[s]] = Less(@)]
       /\ counted' = [counted EXCEPT ![s] = FALSE]

\* cleanup(), once per socket; the timers are cleared, the client is ended.
Cleanup(s) ==
  IF cleanedUp[s]
  THEN UNCHANGED <<cleanedUp, maxTimer, shell, client, activeCount, perUser, counted>>
  ELSE /\ cleanedUp' = [cleanedUp EXCEPT ![s] = TRUE]
       /\ maxTimer' = [maxTimer EXCEPT ![s] = FALSE]
       /\ shell' = [shell EXCEPT ![s] = FALSE]
       /\ client' = [client EXCEPT ![s] = IF @ = "live" THEN "ended" ELSE @]
       /\ IF counted[s]
          THEN /\ activeCount' = Less(activeCount)
               /\ perUser' = [perUser EXCEPT ![owner[s]] = Less(@)]
               /\ counted' = [counted EXCEPT ![s] = FALSE]
          ELSE UNCHANGED <<activeCount, perUser, counted>>

CloseAndCleanup(s) == ws' = Closing(s) /\ Cleanup(s)

------------------------------------------------------------------------------
(* Opening a socket *)

Full(p) == activeCount >= Cap \/ perUser[p] >= Cap

\* The upgrade factory asks for authorization before the socket opens; one that is
\* refused is closed as soon as it is open.
Upgrade(s) ==
  /\ ws[s] = "new"
  /\ ws' = [ws EXCEPT ![s] = IF allowed[owner[s]] THEN "upgraded" ELSE "closing"]
  /\ UNCHANGED <<activeCount, perUser, owner, step, counted, cleanedUp, client, shell,
                 maxTimer, attempts, allowed, lateConnect>>

\* onOpen: counted and bounded before the connection is attempted.  Who was authorized
\* at the upgrade is not asked again here.
Admit(s) ==
  /\ ws[s] = "upgraded" /\ ~Full(owner[s])
  /\ ws' = [ws EXCEPT ![s] = "open"]
  /\ activeCount' = activeCount + 1
  /\ perUser' = [perUser EXCEPT ![owner[s]] = @ + 1]
  /\ counted' = [counted EXCEPT ![s] = TRUE]
  /\ maxTimer' = [maxTimer EXCEPT ![s] = TRUE]
  /\ step' = [step EXCEPT ![s] = "connecting"]
  /\ UNCHANGED <<owner, cleanedUp, client, shell, attempts, allowed, lateConnect>>

\* onOpen with too many sessions: closed, and never counted.
TurnAway(s) ==
  /\ ws[s] = "upgraded" /\ Full(owner[s])
  /\ ws' = [ws EXCEPT ![s] = "closing"]
  /\ UNCHANGED <<activeCount, perUser, owner, step, counted, cleanedUp, client, shell,
                 maxTimer, attempts, allowed, lateConnect>>

Connecting(s) == step[s] \in {"connecting", "retrying"}

\* connectToServer resolves, whatever has become of the socket.
Connected(s) ==
  /\ Connecting(s)
  /\ client' = [client EXCEPT ![s] = "live"]
  /\ step' = [step EXCEPT ![s] = "opening"]
  /\ lateConnect' = [lateConnect EXCEPT ![s] = cleanedUp[s]]
  /\ UNCHANGED <<activeCount, perUser, owner, ws, counted, cleanedUp, shell,
                 maxTimer, attempts, allowed>>

\* A rejection within the budget, or at first no usable credentials: ask for a password.
AskPassword(s) ==
  /\ Connecting(s)
  /\ \/ step[s] = "connecting" /\ UNCHANGED attempts
     \/ attempts[s] + 1 < MaxAttempts /\ attempts' = [attempts EXCEPT ![s] = @ + 1]
  /\ step' = [step EXCEPT ![s] = "prompt"]
  /\ UNCHANGED <<activeCount, perUser, owner, ws, counted, cleanedUp, client, shell,
                 maxTimer, allowed, lateConnect>>

\* Any other failure, or one rejection too many.
ConnectFails(s) ==
  /\ Connecting(s)
  /\ step' = [step EXCEPT ![s] = "idle"]
  /\ \/ UNCHANGED attempts
     \/ attempts[s] + 1 = MaxAttempts /\ attempts' = [attempts EXCEPT ![s] = @ + 1]
  /\ CloseAndCleanup(s)
  /\ UNCHANGED <<owner, allowed, lateConnect>>

\* onMessage with a password: waitingForPassword is cleared first.  A socket that was
\* asked to close still delivers what is on its way, and the handler does not look.
Password(s) ==
  /\ step[s] = "prompt" /\ ws[s] \in {"open", "closing"}
  /\ step' = [step EXCEPT ![s] = "retrying"]
  /\ UNCHANGED <<activeCount, perUser, owner, ws, counted, cleanedUp, client, shell,
                 maxTimer, attempts, allowed, lateConnect>>

\* openShell's callback; the hard cap starts again.
ShellOpens(s) ==
  /\ step[s] = "opening" /\ client[s] = "live"
  /\ shell' = [shell EXCEPT ![s] = TRUE]
  /\ maxTimer' = [maxTimer EXCEPT ![s] = TRUE]
  /\ step' = [step EXCEPT ![s] = "shell"]
  /\ UNCHANGED <<activeCount, perUser, owner, ws, counted, cleanedUp, client,
                 attempts, allowed, lateConnect>>

\* The host refuses a shell, or the client has been ended meanwhile.
ShellFails(s) ==
  /\ step[s] = "opening"
  /\ step' = [step EXCEPT ![s] = "idle"]
  /\ CloseAndCleanup(s)
  /\ UNCHANGED <<owner, attempts, allowed, lateConnect>>

(* The end of a socket *)

\* The browser goes away, the shell ends, or the idle timer fires.
Hangup(s) ==
  /\ ws[s] = "open"
  /\ ws' = Closing(s)
  /\ UNCHANGED <<activeCount, perUser, owner, step, counted, cleanedUp, client, shell,
                 maxTimer, attempts, allowed, lateConnect>>

MaxTimer(s) ==
  /\ maxTimer[s]
  /\ maxTimer' = [maxTimer EXCEPT ![s] = FALSE]
  /\ ws' = Closing(s)
  /\ UNCHANGED <<activeCount, perUser, owner, step, counted, cleanedUp, client, shell,
                 attempts, allowed, lateConnect>>

\* Mutant: the last event of a socket is ignored.
OnCloseIgnored(s) ==
  /\ ws[s] = "closing"
  /\ ws' = [ws EXCEPT ![s] = "closed"]
  /\ UNCHANGED <<activeCount, perUser, owner, step, counted, cleanedUp, client, shell,
                 maxTimer, attempts, allowed, lateConnect>>

\* onClose and onError.
OnClose(s) ==
  /\ ws[s] = "closing"
  /\ ws' = [ws EXCEPT ![s] = "closed"]
  /\ Cleanup(s)
  /\ UNCHANGED <<owner, step, attempts, allowed, lateConnect>>

\* A ban, a downgrade, a revoked session, an expired AccessRequest.
Deauthorize(p) ==
  /\ allowed[p]
  /\ allowed' = [allowed EXCEPT ![p] = FALSE]
  /\ UNCHANGED <<activeCount, perUser, owner, ws, step, counted, cleanedUp, client, shell,
                 maxTimer, attempts, lateConnect>>

\* The re-authorization loop runs from onOpen until cleanup.
Reauthorizing(s) == counted[s] /\ ~cleanedUp[s]

Reauthorize(s) ==
  /\ Reauthorizing(s) /\ ~allowed[owner[s]]
  /\ CloseAndCleanup(s)
  /\ UNCHANGED <<owner, step, attempts, allowed, lateConnect>>

\* The check itself fails, whatever it would have answered: fail closed.
CheckFails(s) ==
  /\ Reauthorizing(s)
  /\ CloseAndCleanup(s)
  /\ UNCHANGED <<owner, step, attempts, allowed, lateConnect>>

TerminalNext ==
  \/ \E p \in Person : Deauthorize(p)
  \/ \E s \in Socket :
       \/ Upgrade(s) \/ Admit(s) \/ TurnAway(s)
       \/ Connected(s) \/ AskPassword(s) \/ ConnectFails(s) \/ Password(s)
       \/ ShellOpens(s) \/ ShellFails(s)
       \/ Hangup(s) \/ MaxTimer(s) \/ OnClose(s) \/ Reauthorize(s) \/ CheckFails(s)

\* Timers fire and a closing websocket closes; nobody has to hang up, and the
\* idle timer may be put off by traffic for ever.
TerminalFairness ==
  \A s \in Socket :
    /\ WF_terminalVars(MaxTimer(s)) /\ WF_terminalVars(OnClose(s))
    /\ WF_terminalVars(Reauthorize(s))

TerminalSpec == TerminalInit /\ [][TerminalNext]_terminalVars
TerminalFairSpec == TerminalSpec /\ TerminalFairness

------------------------------------------------------------------------------
(* Properties *)

\* Whatever order closing, failing and timing out come in, the counters are the
\* number of sockets that hold a slot, so slots neither leak nor are given back
\* twice, and the cap holds; a shell belongs to a socket that holds a slot, unless
\* its connection came up only after cleanup.
SlotsAreCounted ==
  /\ activeCount = Counted(Socket) /\ activeCount <= Cap
  /\ \A p \in Person : perUser[p] = Counted(Of(p))
  /\ \A s \in Socket : shell[s] => counted[s] \/ lateConnect[s]

\* Every slot is given back, even by a client that never authenticates, and a
\* socket whose owner is no longer authorized loses its shell, unless the
\* connection came up after cleanup.
SocketsEnd ==
  \A s \in Socket :
    /\ counted[s] ~> ~counted[s]
    /\ (counted[s] /\ ~allowed[owner[s]]) ~> (~shell[s] \/ lateConnect[s])

\* A socket that was cleaned up holds no shell: what "we do not keep a live root
\* shell open on their behalf" asks.
NoShellAfterCleanup == \A s \in Socket : shell[s] => ~cleanedUp[s]
=================================================================================
