------------------------------- MODULE RemoteExec -------------------------------
(***************************************************************************)
(* One call of execPreferRoot or execRemoteScript                          *)
(* (apps/api/src/services/remote-exec.service.ts): probe, upload, run, the *)
(* local deadline, cancellation, the kill channel, and the host's side of  *)
(* it: sudo, the start marker, `timeout`, the staged file.                 *)
(*                                                                         *)
(* Each await ends one action.  Every channel may fail to open, stall until*)
(* its hard limit or lose its answer, at most MaxFaults times.             *)
(***************************************************************************)
EXTENDS Integers

CONSTANT MaxFaults   \* bound: channels that fail, stall or die
ASSUME ExecFaultAssumption == MaxFaults \in Nat

VARIABLES
  \* the call
  bash, asRoot, preferRoot,   \* opts.interpreter, opts.asRoot; execPreferRoot?
  pc,          \* the await the call is at
  sudo,        \* how the run command gets root
  aborted,     \* opts.signal.aborted
  age,         \* how long the run has taken
  stopped,     \* localTimeout, cancelled
  closing,     \* closeTimer is armed
  answer,      \* the result: its errorCode, or "exit" and the exit code
  \* channels
  chan,        \* the run channel, as this side knows it
  control,     \* the kill and rm channels in flight
  kills,       \* the kill channels ever started
  faults,
  \* the host
  file,        \* the staged file exists
  proc,        \* the run command's process
  code,        \* its exit status
  marked,      \* EXEC_STARTED_MARKER has been printed
  hostEffect   \* what the script has done

callVars == <<bash, asRoot, preferRoot, pc, sudo, aborted, age, stopped, closing, answer>>
channelVars == <<chan, control, kills, faults>>
hostVars == <<file, proc, code, marked, hostEffect>>
execVars == <<callVars, channelVars, hostVars>>

------------------------------------------------------------------------------
(* Answers *)

SudoError == {"SUDO_PASSWORD_REQUIRED", "SUDO_AUTH_FAILED", "SUDO_REQUIRETTY",
              "SUDO_NOT_ALLOWED"}

\* Exit statuses: success, an ordinary failure, what `timeout` returns when it
\* fires, SIGKILL; "null" when the channel closed without one.
Status == {"0", "1", "124", "137"}
NoStatus == "null"

NoAnswer == [error |-> "none", code |-> NoStatus]
Refusal(e) == [error |-> e, code |-> NoStatus]
Answers ==
  [error : {"none", "exit", "UPLOAD_FAILED", "NO_INTERPRETER", "NOT_STARTED",
            "CANCELLED", "TIMEOUT"} \cup SudoError,
   code : Status \cup {NoStatus}]

ExecTypeOK ==
  /\ bash \in BOOLEAN /\ asRoot \in BOOLEAN /\ preferRoot \in BOOLEAN
  /\ pc \in {"start", "probe", "upload", "run", "answered"}
  /\ sudo \in {"none", "nopasswd", "password"}
  /\ aborted \in BOOLEAN /\ closing \in BOOLEAN
  /\ age \in {"early", "due", "overdue"}
  /\ stopped \in {"no", "timeout", "cancel"}
  /\ answer \in Answers
  /\ chan \in {"none", "opening", "open", "closed"}
  /\ control \subseteq {"kill", "rm"}
  /\ kills \in 0 .. 1 /\ faults \in 0 .. MaxFaults
  /\ file \in BOOLEAN /\ marked \in BOOLEAN
  /\ proc \in {"absent", "requested", "script", "over"}
  /\ code \in Status \cup {NoStatus}
  /\ hostEffect \in {"none", "partial", "whole"}

ExecInit ==
  /\ bash \in BOOLEAN /\ preferRoot \in BOOLEAN
  /\ asRoot \in BOOLEAN
  /\ preferRoot => asRoot /\ ~bash
  /\ pc = "start" /\ sudo = "none"
  /\ aborted \in BOOLEAN
  /\ age = "early" /\ stopped = "no" /\ closing = FALSE /\ answer = NoAnswer
  /\ chan = "none" /\ control = {} /\ kills = 0 /\ faults = 0
  /\ file = FALSE /\ proc = "absent" /\ code = NoStatus /\ marked = FALSE
  /\ hostEffect = "none"

Fault == faults < MaxFaults /\ faults' = faults + 1

\* The call returns `a`.  execPreferRoot runs the script again as the SSH user
\* when RackMap's own sudo was the problem.
Return(a) ==
  IF preferRoot /\ asRoot /\ a.error \in SudoError
  THEN /\ asRoot' = FALSE
       /\ pc' = "start" /\ sudo' = "none"
       /\ answer' = NoAnswer
  ELSE /\ pc' = "answered"
       /\ answer' = a
       /\ UNCHANGED <<asRoot, sudo>>

------------------------------------------------------------------------------
(* Before the run *)

\* No channel was needed, or the next one is opened.
StartCall ==
  /\ pc = "start"
  /\ IF aborted
     THEN Return(Refusal("NOT_STARTED"))
     ELSE /\ pc' = IF bash \/ asRoot THEN "probe" ELSE "upload"
          /\ UNCHANGED <<asRoot, sudo, answer>>
  \* a second call starts from nothing
  /\ chan' = "none" /\ proc' = "absent" /\ code' = NoStatus /\ marked' = FALSE
  /\ age' = "early"
  /\ UNCHANGED <<bash, preferRoot, aborted, stopped, closing, control, kills, faults,
                 file, hostEffect>>

ProbeFails ==
  /\ pc = "probe"
  /\ Fault
  /\ Return(Refusal("UPLOAD_FAILED"))
  /\ UNCHANGED <<bash, preferRoot, aborted, age, stopped, closing, chan, control, kills, hostVars>>

\* What the probe can find: no bash, a sudo that cannot be used, or how to run.
ProbeFindings ==
  (IF bash THEN {"NO_INTERPRETER"} ELSE {})
    \cup (IF asRoot THEN (SudoError \ {"SUDO_AUTH_FAILED"}) \cup {"nopasswd", "password"}
                    ELSE {})
    \cup {"none"}

ProbeAnswers ==
  /\ pc = "probe"
  /\ \E found \in ProbeFindings :
       IF found \in {"none", "nopasswd", "password"}
       THEN IF aborted
            THEN Return(Refusal("NOT_STARTED"))
            ELSE /\ pc' = "upload" /\ sudo' = found
                 /\ UNCHANGED <<asRoot, answer>>
       ELSE Return(Refusal(found))
  /\ UNCHANGED <<bash, preferRoot, aborted, age, stopped, closing, channelVars, hostVars>>

\* A stalled upload may have staged the file; nobody knows its name then.
UploadFails ==
  /\ pc = "upload"
  /\ Fault
  /\ file' \in BOOLEAN
  /\ Return(Refusal("UPLOAD_FAILED"))
  /\ UNCHANGED <<bash, preferRoot, aborted, age, stopped, closing, chan, control, kills,
                 proc, code, marked, hostEffect>>

\* mktemp or cat failed on the host (a full disk, before or after the file).
UploadRefused ==
  /\ pc = "upload"
  /\ file' \in BOOLEAN
  /\ Return(Refusal("UPLOAD_FAILED"))
  /\ UNCHANGED <<bash, preferRoot, aborted, age, stopped, closing, channelVars,
                 proc, code, marked, hostEffect>>

UploadDone ==
  /\ pc = "upload"
  /\ file' = TRUE
  /\ IF aborted
     THEN /\ control' = control \cup {"rm"}
          /\ Return(Refusal("NOT_STARTED"))
          /\ UNCHANGED <<chan, proc>>
     ELSE /\ pc' = "run" /\ chan' = "opening" /\ proc' = "requested"
          /\ UNCHANGED <<asRoot, sudo, answer, control>>
  /\ UNCHANGED <<bash, preferRoot, aborted, age, stopped, closing, kills, faults,
                 code, marked, hostEffect>>

------------------------------------------------------------------------------
(* The run *)

\* Mutant: any exit 1 of a run under sudo may be taken for sudo's own.
LabelOfAnyFailure(c) ==
  IF stopped = "cancel" THEN {Refusal("CANCELLED")}
  ELSE IF stopped = "timeout" \/ (c \in {"124", "137"} /\ age # "early")
  THEN {Refusal("TIMEOUT")}
  ELSE {[error |-> "exit", code |-> c]}
         \cup (IF sudo # "none" /\ c = "1" THEN {Refusal(e) : e \in SudoError} ELSE {})

\* The label of a run channel that closed with status c.
LabelOf(c) ==
  IF stopped = "cancel" THEN {Refusal("CANCELLED")}
  ELSE IF stopped = "timeout" \/ (c \in {"124", "137"} /\ age # "early")
  THEN {Refusal("TIMEOUT")}
  ELSE {[error |-> "exit", code |-> c]}
         \cup (IF sudo # "none" /\ ~marked /\ c = "1"
               THEN {Refusal(e) : e \in SudoError} ELSE {})

\* run.done: the timers are cleared and the result is labelled.
Settle(c) ==
  /\ chan' = "closed"
  /\ closing' = FALSE
  /\ \E a \in LabelOf(c) : Return(a)
  /\ UNCHANGED <<bash, preferRoot, aborted, age, stopped>>

ChannelOpens ==
  /\ chan = "opening"
  /\ chan' = "open"
  /\ UNCHANGED <<callVars, control, kills, faults, hostVars>>

ChannelOpenFails ==
  /\ chan = "opening" /\ proc = "requested"
  /\ Fault
  /\ chan' = "closed" /\ closing' = FALSE
  /\ proc' = "absent"
  /\ control' = control \cup {"rm"}
  /\ Return(Refusal("UPLOAD_FAILED"))
  /\ UNCHANGED <<bash, preferRoot, aborted, age, stopped, kills,
                 file, code, marked, hostEffect>>

ChannelCloses ==
  /\ chan = "open" /\ proc = "over"
  /\ Settle(code)
  /\ UNCHANGED <<control, kills, faults, hostVars>>

\* The connection is gone: no status, and the host goes on.
ChannelDies ==
  /\ chan = "open"
  /\ Fault
  /\ Settle(NoStatus)
  /\ UNCHANGED <<control, kills, hostVars>>

\* Mutant: a second reason is not kept out.
CanStopAgain == pc = "run"

CanStop == stopped = "no"

\* Mutant: the kill is trusted to close the channel.
StopWithoutLimit(reason) ==
  /\ CanStop
  /\ stopped' = reason
  /\ control' = control \cup {"kill"} /\ kills' = kills + 1
  /\ UNCHANGED closing

\* stop(reason): the first reason counts.
Stop(reason) ==
  /\ CanStop
  /\ stopped' = reason
  /\ control' = control \cup {"kill"} /\ kills' = kills + 1
  /\ closing' = TRUE

Age ==
  /\ pc = "run"
  /\ \/ age = "early" /\ age' = "due"
     \/ age = "due" /\ age' = "overdue"
  /\ UNCHANGED <<bash, asRoot, preferRoot, pc, sudo, aborted, stopped, closing, answer,
                 channelVars, hostVars>>

Deadline ==
  /\ pc = "run" /\ age = "overdue"
  /\ Stop("timeout")
  /\ UNCHANGED <<bash, asRoot, preferRoot, pc, sudo, aborted, age, answer, chan, faults,
                 hostVars>>

\* The caller aborts its signal; only a running script has a listener.
Abort ==
  /\ ~aborted /\ pc # "answered"
  /\ aborted' = TRUE
  /\ IF pc = "run" /\ CanStop
     THEN Stop("cancel")
     ELSE UNCHANGED <<stopped, control, kills, closing>>
  /\ UNCHANGED <<bash, asRoot, preferRoot, pc, sudo, age, answer, chan, faults, hostVars>>

\* CLOSE_AFTER_KILL_MS after the kill the channel is abandoned.
CloseTimer ==
  /\ closing
  /\ Settle(NoStatus)
  /\ UNCHANGED <<control, kills, faults, hostVars>>

------------------------------------------------------------------------------
(* The host *)

\* The run command's process ends with status c; its shell removes the file.
End(c) ==
  /\ proc' = "over" /\ code' = c
  /\ file' = FALSE

SudoRejects ==
  /\ proc = "requested" /\ sudo # "none"
  /\ End("1")
  /\ UNCHANGED <<callVars, channelVars, marked, hostEffect>>

\* The wrapper prints the marker; without the staged file there is no script.
HostStarts ==
  /\ proc = "requested"
  /\ marked' = TRUE
  /\ IF file THEN proc' = "script" /\ UNCHANGED <<code, file>> ELSE End("1")
  /\ UNCHANGED <<callVars, channelVars, hostEffect>>

ScriptWorks ==
  /\ proc = "script" /\ hostEffect # "whole"
  /\ hostEffect' \in {"partial", "whole"}
  /\ UNCHANGED <<callVars, channelVars, file, proc, code, marked>>

\* On its own: 124 and 137 may be the script's own status or the OOM killer's.
ScriptEnds ==
  /\ proc = "script"
  /\ \E c \in Status : (c = "0" => hostEffect = "whole") /\ End(c)
  /\ UNCHANGED <<callVars, channelVars, marked, hostEffect>>

RemoteTimeout ==
  /\ proc = "script" /\ age # "early"
  /\ \E c \in {"124", "137"} : End(c)
  /\ UNCHANGED <<callVars, channelVars, marked, hostEffect>>

\* pkill TERM, then KILL, then rm: whoever names the file is gone.
KillArrives ==
  /\ "kill" \in control
  /\ control' = control \ {"kill"}
  /\ IF proc = "script"
     THEN \E c \in {"1", "137", NoStatus} : End(c)
     ELSE file' = FALSE /\ UNCHANGED <<proc, code>>
  /\ UNCHANGED <<callVars, chan, kills, faults, marked, hostEffect>>

RmArrives ==
  /\ "rm" \in control
  /\ control' = control \ {"rm"}
  /\ file' = FALSE
  /\ UNCHANGED <<callVars, chan, kills, faults, proc, code, marked, hostEffect>>

ControlFails ==
  /\ Fault
  /\ \E c \in control : control' = control \ {c}
  /\ UNCHANGED <<callVars, chan, kills, hostVars>>

------------------------------------------------------------------------------

ExecNext ==
  \/ StartCall \/ ProbeFails \/ ProbeAnswers
  \/ UploadFails \/ UploadRefused \/ UploadDone
  \/ ChannelOpens \/ ChannelOpenFails \/ ChannelCloses \/ ChannelDies
  \/ Age \/ Deadline \/ Abort \/ CloseTimer
  \/ SudoRejects \/ HostStarts \/ ScriptWorks \/ ScriptEnds \/ RemoteTimeout
  \/ KillArrives \/ RmArrives \/ ControlFails

\* Hard limits end the probe and the upload, timers the run; the control
\* channels reach the host unless they fail.  The host owes nothing.
ExecFairness ==
  /\ WF_execVars(StartCall)
  /\ WF_execVars(ProbeFails \/ ProbeAnswers)
  /\ WF_execVars(UploadFails \/ UploadRefused \/ UploadDone)
  /\ WF_execVars(Age) /\ WF_execVars(Deadline) /\ WF_execVars(CloseTimer)
  /\ WF_execVars(KillArrives) /\ WF_execVars(RmArrives)

ExecSpec == ExecInit /\ [][ExecNext]_execVars
ExecFairSpec == ExecSpec /\ ExecFairness

------------------------------------------------------------------------------
(* Properties *)

\* What callers conclude from an answer: an exit status is the script's own, a
\* lost channel, a timeout and a cancellation leave it open, and every other
\* error code means the script was never started.
VerdictFor(a) ==
  CASE a.error = "none" -> "none"
    [] a.error = "exit" /\ a.code = "0" -> "ok"
    [] a.error = "exit" /\ a.code \in Status \ {"0"} -> "failed"
    [] a.error \in {"CANCELLED", "TIMEOUT"} \/ (a.error = "exit" /\ a.code = NoStatus) -> "unknown"
    [] OTHER -> "refused"

Script == INSTANCE RemoteScript WITH effect <- hostEffect, verdict <- VerdictFor(answer)

\* remote-exec implements its promise: a refused script has not touched the host
\* and never will, a success is complete, and a script whose exit status was
\* reported does nothing more.  In particular a script that fails by itself is
\* never run a second time by execPreferRoot.
ScriptSpec == Script!Spec

\* The first of timeout and cancellation names the outcome and starts the only
\* kill; a script nobody stopped and that was not overdue is never called timed
\* out, and nothing is called cancelled that the caller did not cancel.
LabelIsTrue ==
  /\ kills = (IF stopped = "no" THEN 0 ELSE 1)
  /\ answer.error = "CANCELLED" => aborted /\ stopped = "cancel"
  /\ answer.error = "TIMEOUT" => age # "early" /\ stopped # "cancel"
  /\ answer.error = "exit" => stopped = "no"
  /\ answer = Refusal("exit") => faults > 0

\* Every call that began answers, whatever hangs; and when no channel failed, a run that
\* was started or cancelled leaves neither its file nor its process behind.
ExecSettles ==
  /\ pc # "start" ~> pc = "answered"
  /\ [](answer.error \in {"exit", "CANCELLED", "TIMEOUT", "NOT_STARTED"}
          => <>(faults > 0 \/ (~file /\ proc # "script")))
=================================================================================
