------------------------------ MODULE RemoteScript ------------------------------
(***************************************************************************)
(* What execRemoteScript and execPreferRoot promise their callers          *)
(* (apps/api/src/services/remote-exec.service.ts): a script takes effect   *)
(* at most once, and the answer is honest about it.  "refused" means that  *)
(* it has not run and never will, "ok" that all of it ran, "failed" that   *)
(* it is over, and "unknown" (TIMEOUT, CANCELLED, a lost connection)       *)
(* promises nothing: the script may even still be working.                 *)
(***************************************************************************)

VARIABLES
  effect,   \* what the script has done to the host
  verdict   \* what the caller has been told

Effect == {"none", "partial", "whole"}
Verdict == {"none", "refused", "ok", "failed", "unknown"}

Init == effect = "none" /\ verdict = "none"

\* The script does some of its work, or all of it.
Work ==
  /\ verdict \in {"none", "unknown"}
  /\ effect # "whole"
  /\ effect' \in {"partial", "whole"}
  /\ UNCHANGED verdict

Answer(v) ==
  /\ verdict = "none"
  /\ v = "refused" => effect = "none"
  /\ v = "ok" => effect = "whole"
  /\ verdict' = v
  /\ UNCHANGED effect

Next == Work \/ \E v \in Verdict \ {"none"} : Answer(v)

Spec == Init /\ [][Next]_<<effect, verdict>>
==============================================================================
