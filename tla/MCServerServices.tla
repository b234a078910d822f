---------------------------- MODULE MCServerServices ----------------------------
(***************************************************************************)
(* What RackMap does on a server over SSH and TCP, side by side: one remote*)
(* script, the terminals and the checks.  They share no state, so in each  *)
(* behaviour one of them, `part`, moves and the others stay where they     *)
(* began; every behaviour of every module is among them.                   *)
(***************************************************************************)
EXTENDS RemoteExec, Terminal, StatusChecks

VARIABLE part

allVars == <<part, execVars, terminalVars, statusVars>>

\* What a component that stays put began with is of no interest.
Plainly ==
  /\ part = "exec" \/ (~bash /\ ~asRoot /\ ~preferRoot /\ ~aborted)
  /\ part = "terminal" \/ owner = [s \in Socket |-> CHOOSE p \in Person : TRUE]
  /\ part = "status" \/ isUp

Init ==
  /\ part \in {"exec", "terminal", "status"}
  /\ ExecInit /\ TerminalInit /\ StatusInit
  /\ Plainly

Next ==
  /\ UNCHANGED part
  /\ \/ part = "exec" /\ ExecNext /\ UNCHANGED <<terminalVars, statusVars>>
     \/ part = "terminal" /\ TerminalNext /\ UNCHANGED <<execVars, statusVars>>
     \/ part = "status" /\ StatusNext /\ UNCHANGED <<execVars, terminalVars>>

\* The fairness of each module, for the part that moves.
Fairness ==
  /\ WF_execVars(part = "exec" /\ StartCall)
  /\ WF_execVars(part = "exec" /\ (ProbeFails \/ ProbeAnswers))
  /\ WF_execVars(part = "exec" /\ (UploadFails \/ UploadRefused \/ UploadDone))
  /\ WF_execVars(part = "exec" /\ Age)
  /\ WF_execVars(part = "exec" /\ Deadline)
  /\ WF_execVars(part = "exec" /\ CloseTimer)
  /\ WF_execVars(part = "exec" /\ KillArrives)
  /\ WF_execVars(part = "exec" /\ RmArrives)
  /\ TerminalFairness
  /\ \A c \in Checker : WF_statusVars(part = "status" /\ Check(c))
  /\ \A c \in Checker : WF_statusVars(part = "status" /\ Sweep(c))

Spec == Init /\ [][Next]_allVars /\ Fairness
=================================================================================
