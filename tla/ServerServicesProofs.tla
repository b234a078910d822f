-------------------------- MODULE ServerServicesProofs --------------------------
(***************************************************************************)
(* A remote script, the terminals and the status checks, each for itself:  *)
(* RemoteExec implements RemoteScript, and its labels are true, whatever   *)
(* number of channels fails; the slots of any number of terminals are      *)
(* counted; the rows of the checks are well typed.                         *)
(***************************************************************************)
EXTENDS RemoteExec, Terminal, StatusChecks, FiniteSetTheorems, TLAPS

------------------------------------------------------------------------------
(***************************************************************************)
(* The argument about a remote script ties the host to the call: until the *)
(* run is asked for the script has done nothing and cannot start; it does  *)
(* nothing unmarked, which is what tells sudo's refusal from the script's  *)
(* own exit 1; and its process is over before a final answer is given.     *)
(***************************************************************************)

USE ExecFaultAssumption

------------------------------------------------------------------------------

\* Where the call is, and what it has told its caller.
CallIsSound ==
  /\ pc # "answered" => answer = NoAnswer
  /\ pc = "answered" => answer.error # "none"
  /\ chan \in {"opening", "open"} \/ closing => pc = "run"
  /\ stopped # "no" => pc \in {"run", "answered"}

\* Whoever stopped the run left a trace, and only then is there a kill.
StopIsSound ==
  /\ closing \/ "kill" \in control => stopped # "no"
  /\ stopped = "cancel" => aborted
  /\ stopped = "timeout" => age = "overdue"

\* What the host's process may have done.
HostIsSound ==
  /\ pc \in {"start", "probe", "upload"} =>
       hostEffect = "none" /\ proc \notin {"requested", "script"}
  /\ proc = "requested" => hostEffect = "none"
  /\ hostEffect # "none" \/ proc = "script" => marked
  /\ proc = "over" /\ code = "0" => hostEffect = "whole"
  /\ proc = "over" /\ code = NoStatus => stopped # "no"

\* A final answer is about a script that is over, or never began.
AnswerIsFinal ==
  VerdictFor(answer) \in {"refused", "ok", "failed"} => proc \notin {"requested", "script"}

ExecInv ==
  ExecTypeOK /\ CallIsSound /\ StopIsSound /\ HostIsSound /\ AnswerIsFinal /\ LabelIsTrue

\* A step of the call as its caller's promise sees it.
Promise == [Script!Next]_<<hostEffect, VerdictFor(answer)>>

------------------------------------------------------------------------------

Refusals == {"UPLOAD_FAILED", "NO_INTERPRETER", "NOT_STARTED"} \cup SudoError

\* What a caller concludes from each answer.
LEMMA VerdictOf ==
  ASSUME NEW a \in Answers
  PROVE  /\ a.error = "none" => VerdictFor(a) = "none"
         /\ a.error = "exit" /\ a.code = "0" => VerdictFor(a) = "ok"
         /\ a.error = "exit" /\ a.code \in Status \ {"0"} => VerdictFor(a) = "failed"
         /\ a.error = "exit" /\ a.code = NoStatus => VerdictFor(a) = "unknown"
         /\ a.error \in {"CANCELLED", "TIMEOUT"} => VerdictFor(a) = "unknown"
         /\ a.error \in Refusals => VerdictFor(a) = "refused"
<1> USE DEF Answers, VerdictFor, Status, NoStatus, Refusals, SudoError
<1>1. CASE a.error = "none"
    BY <1>1
<1>2. CASE a.error = "exit" /\ a.code = "0"
    BY <1>2
<1>3. CASE a.error = "exit" /\ a.code \in Status \ {"0"}
    BY <1>3
<1>4. CASE a.error \in {"CANCELLED", "TIMEOUT"} \/ (a.error = "exit" /\ a.code = NoStatus)
    BY <1>4
<1>5. CASE a.error \in Refusals
    BY <1>5
<1> QED
    BY <1>1, <1>2, <1>3, <1>4, <1>5

\* The answers are what the call returns.
LEMMA AnswerType ==
  /\ NoAnswer \in Answers /\ NoAnswer.error = "none"
  /\ \A e \in Refusals \cup {"CANCELLED", "TIMEOUT", "exit"} :
       Refusal(e) \in Answers /\ Refusal(e).error = e /\ Refusal(e).code = NoStatus
  /\ \A c \in Status \cup {NoStatus} :
       [error |-> "exit", code |-> c] \in Answers
  /\ Refusal("exit") = [error |-> "exit", code |-> NoStatus]
BY DEF NoAnswer, Refusal, Answers, NoStatus, Status, Refusals, SudoError

LEMMA ExecInitInv == ExecInit => ExecInv /\ Script!Init
<1> SUFFICES ASSUME ExecInit PROVE ExecInv /\ Script!Init
    OBVIOUS
<1> USE DEF ExecInit
<1>1. ExecTypeOK
  <2>1. answer \in Answers /\ code \in Status \cup {NoStatus}
      BY AnswerType
  <2>2. asRoot \in BOOLEAN /\ sudo \in {"none", "nopasswd", "password"} /\ control \subseteq {"kill", "rm"}
      OBVIOUS
  <2>3. 0 \in 0 .. 1 /\ 0 \in 0 .. MaxFaults
      OBVIOUS
  <2>4. faults \in 0 .. MaxFaults /\ kills \in 0 .. 1
      BY <2>3
  <2> QED
      BY <2>1, <2>2, <2>4 DEF ExecTypeOK
<1>2. VerdictFor(answer) = "none"
    BY AnswerType, VerdictOf
<1>3. CallIsSound /\ StopIsSound /\ HostIsSound /\ AnswerIsFinal
    BY <1>2 DEF CallIsSound, StopIsSound, HostIsSound, AnswerIsFinal
<1>4. LabelIsTrue
    BY AnswerType DEF LabelIsTrue
<1> QED
    BY <1>1, <1>2, <1>3, <1>4 DEF ExecInv, Script!Init

\* The call returns, or starts again without root after a refusal by sudo.
LEMMA ReturnCases ==
  ASSUME ExecTypeOK, NEW a \in Answers, Return(a)
  PROVE  /\ asRoot' \in BOOLEAN /\ sudo' \in {"none", "nopasswd", "password"}
         /\ \/ a.error \in SudoError /\ pc' = "start" /\ answer' = NoAnswer
            \/ pc' = "answered" /\ answer' = a
BY DEF Return, ExecTypeOK

\* Whatever the call returns keeps the promise, as long as a refusal is about a script
\* that has done nothing and a success about one that has done everything.
LEMMA ReturnKeepsPromise ==
  ASSUME ExecInv, pc # "answered", NEW a \in Answers, a.error # "none", Return(a),
         hostEffect' = hostEffect,
         a.error \in Refusals => hostEffect = "none",
         a.error = "exit" /\ a.code = "0" => hostEffect = "whole"
  PROVE  Promise
<1>1. VerdictFor(answer) = "none" /\ answer = NoAnswer
    BY AnswerType, VerdictOf DEF ExecInv, CallIsSound
<1>2. CASE answer' = NoAnswer
    BY <1>1, <1>2 DEF Promise
<1>3. CASE answer' = a
  <2>1. a.error \in Refusals \cup {"exit", "CANCELLED", "TIMEOUT"} /\ a.code \in Status \cup {NoStatus}
      BY DEF Answers, Refusals
  <2>2. PICK v \in {"refused", "ok", "failed", "unknown"} :
          /\ VerdictFor(a) = v
          /\ v = "refused" => hostEffect = "none"
          /\ v = "ok" => hostEffect = "whole"
      BY <2>1, VerdictOf
  <2>3. VerdictFor(answer)' = v
      BY <1>3, <2>2
  <2>4. Script!Answer(v)
      BY <1>1, <2>2, <2>3 DEF Script!Answer
  <2>5. v \in Script!Verdict \ {"none"}
      BY DEF Script!Verdict
  <2> QED
      BY <2>4, <2>5 DEF Promise, Script!Next
<1> QED
    BY <1>2, <1>3, ReturnCases DEF ExecInv

\* A step that neither answers nor touches what the script has done is not seen.
LEMMA QuietStep ==
  ASSUME UNCHANGED <<hostEffect, answer>>
  PROVE  Promise
BY DEF Promise

------------------------------------------------------------------------------
(* Before the run *)

\* A refusal before the run: nothing is on the host that could still start.
LEMMA RefusalStep ==
  ASSUME ExecInv, pc \in {"start", "probe", "upload"}, NEW e \in Refusals,
         Return(Refusal(e)),
         UNCHANGED <<bash, preferRoot, aborted, stopped, closing, kills, hostEffect>>,
         age' \in {"early", "due", "overdue"}, chan' \in {"none", chan},
         \/ UNCHANGED <<proc, code, marked>>
         \/ proc' = "absent" /\ code' = NoStatus /\ marked' = FALSE,
         file' \in BOOLEAN, control' \subseteq control \cup {"rm"}, faults' \in 0 .. MaxFaults
  PROVE  ExecInv' /\ Promise
<1> DEFINE a == Refusal(e)
<1>1. a \in Answers /\ a.error = e /\ a.code = NoStatus
      /\ NoAnswer \in Answers /\ NoAnswer.error = "none"
    BY AnswerType
<1> HIDE DEF a
<1>2. /\ asRoot' \in BOOLEAN /\ sudo' \in {"none", "nopasswd", "password"}
      /\ \/ e \in SudoError /\ pc' = "start" /\ answer' = NoAnswer
         \/ pc' = "answered" /\ answer' = a
    BY <1>1, ReturnCases DEF ExecInv, a
<1>3. ExecTypeOK'
  <2>1. answer' \in Answers /\ pc' \in {"start", "probe", "upload", "run", "answered"}
      BY <1>1, <1>2
  <2>2. code' \in Status \cup {NoStatus} /\ marked' \in BOOLEAN
        /\ proc' \in {"absent", "requested", "script", "over"}
      BY DEF ExecInv, ExecTypeOK
  <2>3. control' \subseteq {"kill", "rm"} /\ kills' \in 0 .. 1 /\ faults' \in 0 .. MaxFaults
        /\ chan' \in {"none", "opening", "open", "closed"} /\ file' \in BOOLEAN
      BY DEF ExecInv, ExecTypeOK
  <2>4. /\ bash' \in BOOLEAN /\ preferRoot' \in BOOLEAN /\ aborted' \in BOOLEAN
        /\ closing' \in BOOLEAN /\ stopped' \in {"no", "timeout", "cancel"}
        /\ hostEffect' \in {"none", "partial", "whole"}
      BY DEF ExecInv, ExecTypeOK
  <2> QED
      BY <1>2, <2>1, <2>2, <2>3, <2>4 DEF ExecTypeOK
<1>4. CallIsSound'
    BY <1>1, <1>2 DEF ExecInv, CallIsSound, Refusals, SudoError
<1>5. StopIsSound'
  <2>1. stopped' = "no" /\ ~closing /\ "kill" \notin control /\ closing' = closing
      BY DEF ExecInv, StopIsSound, CallIsSound
  <2> QED
      BY <2>1 DEF StopIsSound
<1>6. HostIsSound'
    BY DEF ExecInv, HostIsSound, NoStatus
<1>7. AnswerIsFinal'
    BY DEF ExecInv, AnswerIsFinal, HostIsSound
<1>8. stopped = "no" /\ kills = 0 /\ stopped' = "no" /\ kills' = 0
    BY DEF ExecInv, CallIsSound, LabelIsTrue
<1>9. answer'.error \notin {"CANCELLED", "TIMEOUT", "exit"} /\ answer' # Refusal("exit")
    BY <1>1, <1>2, AnswerType DEF Refusals, SudoError
<1>10. LabelIsTrue'
    BY <1>8, <1>9, Zenon DEF LabelIsTrue
<1>11. Promise
  <2>1. hostEffect = "none" /\ pc # "answered" /\ a.error # "none" /\ a.error # "exit"
      BY <1>1 DEF ExecInv, HostIsSound, Refusals, SudoError
  <2> QED
      BY <1>1, <2>1, ReturnKeepsPromise DEF a
<1> QED
    BY <1>3, <1>4, <1>5, <1>6, <1>7, <1>10, <1>11 DEF ExecInv

\* A step towards the run that does not answer.
LEMMA ForwardStep ==
  ASSUME ExecInv, pc \in {"start", "probe", "upload"},
         UNCHANGED <<bash, asRoot, preferRoot, aborted, stopped, closing, answer, kills,
                     control, faults, hostEffect>>,
         sudo' \in {"none", "nopasswd", "password"}, file' \in BOOLEAN,
         age' \in {"early", "due", "overdue"},
         \/ /\ pc' \in {"probe", "upload"} /\ chan' \in {"none", chan}
            /\ \/ UNCHANGED <<proc, code, marked>>
               \/ proc' = "absent" /\ code' = NoStatus /\ marked' = FALSE
         \/ pc' = "run" /\ chan' = "opening" /\ proc' = "requested" /\ UNCHANGED <<code, marked>>
  PROVE  ExecInv' /\ Promise
<1>1. stopped = "no" /\ answer = NoAnswer /\ ~closing /\ hostEffect = "none"
      /\ proc \notin {"requested", "script"} /\ chan \notin {"opening", "open"}
    BY DEF ExecInv, CallIsSound, HostIsSound, ExecTypeOK
<1>2. VerdictFor(NoAnswer) = "none" /\ NoAnswer.error = "none"
    BY AnswerType, VerdictOf
<1>3. ExecTypeOK'
  <2>1. code' \in Status \cup {NoStatus} /\ marked' \in BOOLEAN
        /\ proc' \in {"absent", "requested", "script", "over"}
      BY DEF ExecInv, ExecTypeOK
  <2>2. chan' \in {"none", "opening", "open", "closed"}
        /\ pc' \in {"start", "probe", "upload", "run", "answered"}
      BY DEF ExecInv, ExecTypeOK
  <2>3. /\ bash' \in BOOLEAN /\ asRoot' \in BOOLEAN /\ preferRoot' \in BOOLEAN
        /\ aborted' \in BOOLEAN /\ closing' \in BOOLEAN
        /\ stopped' \in {"no", "timeout", "cancel"} /\ answer' \in Answers
        /\ control' \subseteq {"kill", "rm"} /\ kills' \in 0 .. 1 /\ faults' \in 0 .. MaxFaults
        /\ hostEffect' \in {"none", "partial", "whole"}
      BY DEF ExecInv, ExecTypeOK
  <2> QED
      BY <2>1, <2>2, <2>3 DEF ExecTypeOK
<1>4. CallIsSound'
    BY <1>1 DEF ExecInv, CallIsSound
<1>5. StopIsSound'
    BY <1>1 DEF ExecInv, StopIsSound
<1>6. HostIsSound'
    BY <1>1 DEF ExecInv, HostIsSound, NoStatus
<1>7. AnswerIsFinal'
    BY <1>1, <1>2 DEF AnswerIsFinal
<1>8. LabelIsTrue'
    BY <1>1, <1>2, AnswerType DEF ExecInv, LabelIsTrue
<1>9. Promise
    BY QuietStep
<1> QED
    BY <1>3, <1>4, <1>5, <1>6, <1>7, <1>8, <1>9 DEF ExecInv

LEMMA BeforeRunStep ==
  ASSUME ExecInv,
         StartCall \/ ProbeFails \/ ProbeAnswers \/ UploadFails \/ UploadRefused \/ UploadDone
  PROVE  ExecInv' /\ Promise
<1>0. ExecTypeOK
    BY DEF ExecInv
<1>1. CASE StartCall
  <2>1. CASE aborted
      BY <1>0, <1>1, <2>1, RefusalStep DEF StartCall, Refusals, ExecTypeOK
  <2>2. CASE ~aborted
      BY <1>0, <1>1, <2>2, ForwardStep DEF StartCall, ExecTypeOK
  <2> QED
      BY <2>1, <2>2
<1>2. CASE ProbeFails
    BY <1>0, <1>2, RefusalStep DEF ProbeFails, Fault, Refusals, hostVars, ExecTypeOK
<1>3. CASE ProbeAnswers
  <2>1. PICK found \in ProbeFindings :
          IF found \in {"none", "nopasswd", "password"}
          THEN IF aborted
               THEN Return(Refusal("NOT_STARTED"))
               ELSE /\ pc' = "upload" /\ sudo' = found
                    /\ UNCHANGED <<asRoot, answer>>
          ELSE Return(Refusal(found))
      BY <1>3 DEF ProbeAnswers
  <2>2. found \in {"none", "nopasswd", "password"} \/ found \in Refusals
      BY DEF ProbeFindings, Refusals
  <2>3. pc = "probe" /\ UNCHANGED <<bash, preferRoot, aborted, age, stopped, closing,
                                    channelVars, hostVars>>
      BY <1>3 DEF ProbeAnswers
  <2>4. CASE found \in {"none", "nopasswd", "password"} /\ ~aborted
      BY <1>0, <2>1, <2>3, <2>4, ForwardStep DEF channelVars, hostVars, ExecTypeOK
  <2>5. CASE ~(found \in {"none", "nopasswd", "password"} /\ ~aborted)
    <3>1. PICK e \in Refusals : Return(Refusal(e))
        BY <2>1, <2>2, <2>5 DEF Refusals
    <3> QED
        BY <1>0, <2>3, <3>1, RefusalStep DEF channelVars, hostVars, ExecTypeOK
  <2> QED
      BY <2>4, <2>5
<1>4. CASE UploadFails
    BY <1>0, <1>4, RefusalStep DEF UploadFails, Fault, Refusals, ExecTypeOK
<1>5. CASE UploadRefused
    BY <1>0, <1>5, RefusalStep DEF UploadRefused, Refusals, channelVars, ExecTypeOK
<1>6. CASE UploadDone
  <2>1. CASE aborted
      BY <1>0, <1>6, <2>1, RefusalStep DEF UploadDone, Refusals, ExecTypeOK
  <2>2. CASE ~aborted
      BY <1>0, <1>6, <2>2, ForwardStep DEF UploadDone, ExecTypeOK
  <2> QED
      BY <2>1, <2>2
<1> QED
    BY <1>1, <1>2, <1>3, <1>4, <1>5, <1>6

------------------------------------------------------------------------------
(* The run *)

\* What a closed channel is labelled.
LEMMA LabelCases ==
  ASSUME NEW c \in Status \cup {NoStatus}, NEW a \in LabelOf(c), ExecTypeOK
  PROVE  /\ a \in Answers /\ a.error # "none"
         /\ \/ a.error = "CANCELLED" /\ stopped = "cancel"
            \/ a.error = "TIMEOUT" /\ stopped # "cancel" /\ (stopped = "timeout" \/ age # "early")
            \/ a.error = "exit" /\ a = [error |-> "exit", code |-> c] /\ stopped = "no"
            \/ a.error \in SudoError /\ ~marked /\ c = "1" /\ stopped = "no"
<1> USE AnswerType DEF LabelOf, ExecTypeOK, Refusals
<1>1. CASE stopped = "cancel"
    BY <1>1
<1>2. CASE stopped # "cancel" /\ (stopped = "timeout" \/ (c \in {"124", "137"} /\ age # "early"))
    BY <1>2
<1>3. CASE stopped # "cancel" /\ ~(stopped = "timeout" \/ (c \in {"124", "137"} /\ age # "early"))
  <2>1. stopped = "no"
      BY <1>3
  <2>2. CASE a = [error |-> "exit", code |-> c]
      BY <2>1, <2>2
  <2>3. CASE a # [error |-> "exit", code |-> c]
    <3>1. PICK e \in SudoError : a = Refusal(e) /\ ~marked /\ c = "1"
        BY <1>3, <2>3
    <3>2. a \in Answers /\ a.error = e /\ e # "none"
        BY <3>1 DEF SudoError
    <3> QED
        BY <2>1, <3>1, <3>2
  <2> QED
      BY <2>2, <2>3
<1> QED
    BY <1>1, <1>2, <1>3

\* The run channel closes, dies or is abandoned.
LEMMA SettleStep ==
  ASSUME ExecInv, pc = "run", NEW c \in Status \cup {NoStatus}, Settle(c),
         UNCHANGED <<control, kills, hostVars>>, faults' \in 0 .. MaxFaults,
         c # NoStatus => proc = "over" /\ code = c,
         c = NoStatus => stopped # "no" \/ faults' > 0
  PROVE  ExecInv' /\ Promise
<1>1. PICK a \in LabelOf(c) : Return(a)
    BY DEF Settle
<1>2. chan' = "closed" /\ closing' = FALSE
      /\ UNCHANGED <<bash, preferRoot, aborted, age, stopped>>
      /\ UNCHANGED <<control, kills, file, proc, code, marked, hostEffect>>
    BY DEF Settle, hostVars
<1>3. /\ a \in Answers /\ a.error # "none"
      /\ \/ a.error = "CANCELLED" /\ stopped = "cancel"
         \/ a.error = "TIMEOUT" /\ stopped # "cancel" /\ (stopped = "timeout" \/ age # "early")
         \/ a.error = "exit" /\ a = [error |-> "exit", code |-> c] /\ stopped = "no"
         \/ a.error \in SudoError /\ ~marked /\ c = "1" /\ stopped = "no"
    BY LabelCases DEF ExecInv
<1>4. /\ asRoot' \in BOOLEAN /\ sudo' \in {"none", "nopasswd", "password"}
      /\ \/ a.error \in SudoError /\ pc' = "start" /\ answer' = NoAnswer
         \/ pc' = "answered" /\ answer' = a
    BY <1>1, <1>3, ReturnCases DEF ExecInv
<1>5. NoAnswer \in Answers /\ NoAnswer.error = "none"
    BY AnswerType
<1>6. ExecTypeOK'
  <2>1. pc' \in {"start", "probe", "upload", "run", "answered"} /\ answer' \in Answers
      BY <1>3, <1>4, <1>5
  <2>2. chan' \in {"none", "opening", "open", "closed"} /\ closing' \in BOOLEAN
      BY <1>2
  <2> QED
      BY <1>2, <1>4, <2>1, <2>2 DEF ExecInv, ExecTypeOK
<1>7. a.error \in SudoError => proc = "over" /\ hostEffect = "none"
    BY <1>3 DEF ExecInv, HostIsSound, SudoError, NoStatus
<1>8. CallIsSound'
    BY <1>2, <1>3, <1>4, <1>5 DEF ExecInv, CallIsSound, SudoError
<1>9. StopIsSound'
    BY <1>2 DEF ExecInv, StopIsSound
<1>10. HostIsSound'
    BY <1>2, <1>4, <1>7 DEF ExecInv, HostIsSound
<1>11. AnswerIsFinal'
  <2>1. CASE answer' = NoAnswer
    <3>1. VerdictFor(answer)' = "none"
        BY <1>5, <2>1, VerdictOf
    <3> QED
        BY <3>1 DEF AnswerIsFinal
  <2>2. CASE answer' = a /\ c = NoStatus
    <3>1. VerdictFor(a) = "unknown"
        BY <1>3, <2>2, VerdictOf DEF SudoError, NoStatus
    <3>2. VerdictFor(answer)' = "unknown"
        BY <2>2, <3>1
    <3> QED
        BY <3>2 DEF AnswerIsFinal
  <2>3. CASE answer' = a /\ c # NoStatus
      BY <1>2, <2>3 DEF AnswerIsFinal
  <2> QED
      BY <1>4, <2>1, <2>2, <2>3
<1>12. LabelIsTrue'
  <2>1. kills' = (IF stopped' = "no" THEN 0 ELSE 1)
      BY <1>2 DEF ExecInv, LabelIsTrue
  <2>2. CASE answer' = NoAnswer
      BY <1>5, <2>1, <2>2, AnswerType DEF LabelIsTrue
  <2>3. CASE answer' = a
    <3>1. a.error = "CANCELLED" => aborted /\ stopped = "cancel"
        BY <1>3 DEF ExecInv, StopIsSound, SudoError
    <3>2. a.error = "TIMEOUT" => age # "early" /\ stopped # "cancel"
        BY <1>3 DEF ExecInv, StopIsSound, SudoError
    <3>3. a.error = "exit" => stopped = "no"
        BY <1>3 DEF SudoError
    <3>4. a = Refusal("exit") => faults' > 0
      <4> SUFFICES ASSUME a = Refusal("exit") PROVE faults' > 0
          OBVIOUS
      <4>1. a.error = "exit" /\ a.code = NoStatus
          BY AnswerType
      <4>2. c = NoStatus /\ stopped = "no"
          BY <1>3, <4>1 DEF SudoError
      <4> QED
          BY <4>2
    <3> QED
        BY <1>2, <2>1, <2>3, <3>1, <3>2, <3>3, <3>4, Refusal("exit")' = Refusal("exit")
           DEF LabelIsTrue
  <2> QED
      BY <1>4, <2>2, <2>3
<1>13. Promise
  <2>1. a.error \in Refusals => hostEffect = "none"
      BY <1>3, <1>7 DEF Refusals, SudoError
  <2>2. a.error = "exit" /\ a.code = "0" => hostEffect = "whole"
      BY <1>3 DEF ExecInv, HostIsSound, SudoError, NoStatus
  <2> QED
      BY <1>1, <1>2, <1>3, <2>1, <2>2, ReturnKeepsPromise
<1> QED
    BY <1>6, <1>8, <1>9, <1>10, <1>11, <1>12, <1>13 DEF ExecInv

\* The run channel cannot be opened: the host was never asked.
LEMMA OpenFailsStep ==
  ASSUME ExecInv, ChannelOpenFails
  PROVE  ExecInv' /\ Promise
<1> DEFINE a == Refusal("UPLOAD_FAILED")
<1>1. a \in Answers /\ a.error = "UPLOAD_FAILED" /\ a # Refusal("exit")
    BY AnswerType DEF Refusals
<1>2. pc = "run" /\ proc = "requested" /\ hostEffect = "none" /\ Return(a)
    BY DEF ChannelOpenFails, ExecInv, CallIsSound, HostIsSound
<1>3. /\ chan' = "closed" /\ closing' = FALSE /\ proc' = "absent"
      /\ control' = control \cup {"rm"} /\ faults' \in 0 .. MaxFaults
      /\ UNCHANGED <<bash, preferRoot, aborted, age, stopped, kills, file, code, marked, hostEffect>>
    BY DEF ChannelOpenFails, Fault, ExecInv, ExecTypeOK
<1>4. /\ asRoot' \in BOOLEAN /\ sudo' \in {"none", "nopasswd", "password"}
      /\ pc' = "answered" /\ answer' = a
    BY <1>1, <1>2, ReturnCases DEF ExecInv, SudoError
<1> HIDE DEF a
<1>5. ExecTypeOK'
    BY <1>1, <1>3, <1>4 DEF ExecInv, ExecTypeOK
<1>6. CallIsSound' /\ StopIsSound'
    BY <1>1, <1>3, <1>4 DEF ExecInv, CallIsSound, StopIsSound
<1>7. HostIsSound' /\ AnswerIsFinal'
    BY <1>2, <1>3, <1>4 DEF ExecInv, HostIsSound, AnswerIsFinal
<1>8. LabelIsTrue'
    BY <1>1, <1>3, <1>4, Refusal("exit")' = Refusal("exit") DEF ExecInv, LabelIsTrue
<1>9. Promise
    BY <1>1, <1>2, <1>3, ReturnKeepsPromise
<1> QED
    BY <1>5, <1>6, <1>7, <1>8, <1>9 DEF ExecInv

\* Steps that leave the answer and the host alone: the channel opens, time passes, the
\* caller aborts before or after the run, the run is stopped.
LEMMA StopStep ==
  ASSUME ExecInv, UNCHANGED <<bash, asRoot, preferRoot, pc, sudo, answer, hostVars>>,
         \/ ChannelOpens \/ Age \/ Deadline \/ Abort
  PROVE  ExecInv' /\ Promise
<1> USE DEF ExecInv, hostVars
<1>1. VerdictFor(answer)' = VerdictFor(answer) /\ Promise
    BY QuietStep
<1>2. HostIsSound' \/ stopped' # stopped
    BY DEF HostIsSound, ChannelOpens, Age, Deadline, Abort, callVars
<1>3. AnswerIsFinal'
    BY <1>1 DEF AnswerIsFinal
<1>4. pc # "answered" => answer.error = "none" /\ answer # Refusal("exit")
    BY AnswerType DEF CallIsSound
<1>5. CASE ChannelOpens
  <2>1. ExecTypeOK' /\ CallIsSound' /\ StopIsSound' /\ HostIsSound'
      BY <1>5 DEF ChannelOpens, callVars, ExecTypeOK, CallIsSound, StopIsSound, HostIsSound
  <2>2. LabelIsTrue'
      BY <1>5, Refusal("exit")' = Refusal("exit") DEF ChannelOpens, callVars, LabelIsTrue
  <2> QED
      BY <1>1, <1>3, <2>1, <2>2
<1>6. CASE Age
  <2>1. ExecTypeOK' /\ CallIsSound' /\ StopIsSound' /\ HostIsSound'
      BY <1>6 DEF Age, channelVars, ExecTypeOK, CallIsSound, StopIsSound, HostIsSound
  <2>2. LabelIsTrue'
      BY <1>4, <1>6, Refusal("exit")' = Refusal("exit") DEF Age, channelVars, LabelIsTrue
  <2> QED
      BY <1>1, <1>3, <2>1, <2>2
<1>7. ASSUME NEW reason \in {"timeout", "cancel"}, Stop(reason), pc = "run",
             reason = "timeout" => age = "overdue" /\ aborted' = aborted,
             reason = "cancel" => aborted' = TRUE,
             UNCHANGED <<age, chan, faults>>
      PROVE  ExecInv'
  <2>1. stopped = "no" /\ kills = 0 /\ stopped' = reason /\ kills' = 1 /\ closing' = TRUE
        /\ control' = control \cup {"kill"}
      BY <1>7 DEF Stop, CanStop, LabelIsTrue
  <2>2. ExecTypeOK'
    <3>1. kills' \in 0 .. 1 /\ stopped' \in {"no", "timeout", "cancel"}
        BY <2>1
    <3>2. control' \subseteq {"kill", "rm"}
        BY <2>1 DEF ExecTypeOK
    <3>3. aborted' \in BOOLEAN
        BY <1>7 DEF ExecTypeOK
    <3>4. closing' \in BOOLEAN
        BY <2>1
    <3> QED
        BY <1>7, <3>1, <3>2, <3>3, <3>4 DEF ExecTypeOK
  <2>3. CallIsSound' /\ StopIsSound'
      BY <1>7, <2>1 DEF CallIsSound, StopIsSound
  <2>4. HostIsSound'
      BY <1>7, <2>1 DEF HostIsSound
  <2>5. LabelIsTrue'
      BY <1>4, <1>7, <2>1, Refusal("exit")' = Refusal("exit") DEF LabelIsTrue
  <2> QED
      BY <1>3, <2>2, <2>3, <2>4, <2>5
<1>8. CASE Deadline
    BY <1>1, <1>7, <1>8 DEF Deadline
<1>9. CASE Abort /\ pc = "run" /\ CanStop
    BY <1>1, <1>7, <1>9 DEF Abort
<1>10. CASE Abort /\ ~(pc = "run" /\ CanStop)
  <2>1. aborted' = TRUE /\ UNCHANGED <<stopped, control, kills, closing, age, chan, faults>>
      BY <1>10 DEF Abort
  <2>2. ExecTypeOK' /\ CallIsSound' /\ StopIsSound' /\ HostIsSound'
      BY <2>1 DEF ExecTypeOK, CallIsSound, StopIsSound, HostIsSound
  <2>3. LabelIsTrue'
      BY <2>1, Refusal("exit")' = Refusal("exit") DEF LabelIsTrue
  <2> QED
      BY <1>1, <1>3, <2>2, <2>3
<1> QED
    BY <1>5, <1>6, <1>8, <1>9, <1>10

------------------------------------------------------------------------------
(* The host *)

\* A step of the host's process, or of a control channel, keeps the invariant as long
\* as the process does nothing that the answer excludes.
LEMMA HostInv ==
  ASSUME ExecInv, UNCHANGED callVars, UNCHANGED <<chan, kills>>, faults' \in faults .. MaxFaults,
         control' \subseteq control,
         file' \in BOOLEAN, marked' \in BOOLEAN, code' \in Status \cup {NoStatus},
         hostEffect' \in {"none", "partial", "whole"},
         \/ proc' = proc
         \/ proc = "requested" /\ proc' \in {"script", "over"}
         \/ proc = "script" /\ proc' = "over",
         HostIsSound'
  PROVE  ExecInv'
<1> USE DEF ExecInv, callVars
<1>1. ExecTypeOK'
  <2>1. proc' \in {"absent", "requested", "script", "over"} /\ control' \subseteq {"kill", "rm"}
      BY DEF ExecTypeOK
  <2>2. faults' \in 0 .. MaxFaults
      BY DEF ExecTypeOK
  <2> QED
      BY <2>1, <2>2 DEF ExecTypeOK
<1>2. CallIsSound' /\ StopIsSound'
    BY DEF CallIsSound, StopIsSound
<1>3. AnswerIsFinal'
  <2>1. VerdictFor(answer)' = VerdictFor(answer)
      OBVIOUS
  <2> QED
      BY <2>1 DEF AnswerIsFinal
<1>4. LabelIsTrue'
    BY Refusal("exit")' = Refusal("exit") DEF LabelIsTrue, ExecTypeOK
<1> QED
    BY <1>1, <1>2, <1>3, <1>4

\* The script works only while no final answer has been given.
LEMMA WorkStep ==
  ASSUME ExecInv, ScriptWorks
  PROVE  ExecInv' /\ Promise
<1>1. proc = "script" /\ hostEffect # "whole" /\ hostEffect' \in {"partial", "whole"}
      /\ UNCHANGED callVars /\ UNCHANGED <<chan, control, kills, faults>>
      /\ UNCHANGED <<file, proc, code, marked>>
    BY DEF ScriptWorks, channelVars
<1>2. HostIsSound'
    BY <1>1 DEF ExecInv, HostIsSound, callVars
<1>3. ExecInv'
    BY <1>1, <1>2, HostInv DEF ExecInv, ExecTypeOK
<1>4. VerdictFor(answer) \in {"none", "unknown"} /\ VerdictFor(answer)' = VerdictFor(answer)
  <2>1. answer.error \in {"none", "exit", "CANCELLED", "TIMEOUT"} \cup Refusals
        /\ answer.code \in Status \cup {NoStatus}
      BY DEF ExecInv, ExecTypeOK, Answers, Refusals
  <2>2. VerdictFor(answer) \in {"none", "ok", "failed", "unknown", "refused"}
      BY <2>1, VerdictOf DEF ExecInv, ExecTypeOK
  <2>3. VerdictFor(answer)' = VerdictFor(answer)
      BY <1>1 DEF callVars
  <2> QED
      BY <1>1, <2>2, <2>3 DEF ExecInv, AnswerIsFinal
<1>5. Script!Work
    BY <1>1, <1>4 DEF Script!Work
<1> QED
    BY <1>3, <1>5 DEF Promise, Script!Next

LEMMA HostStep ==
  ASSUME ExecInv,
         \/ SudoRejects \/ HostStarts \/ ScriptEnds \/ RemoteTimeout
         \/ KillArrives \/ RmArrives \/ ControlFails
  PROVE  ExecInv' /\ Promise
<1>0. ExecTypeOK /\ HostIsSound /\ StopIsSound /\ faults \in faults .. MaxFaults
      /\ "1" \in Status /\ NoStatus \notin Status
    BY DEF ExecInv, ExecTypeOK, Status, NoStatus
<1>1. UNCHANGED callVars /\ UNCHANGED <<chan, kills, hostEffect>>
    BY DEF SudoRejects, HostStarts, ScriptEnds, RemoteTimeout, KillArrives, RmArrives,
           ControlFails, channelVars, hostVars
<1>2. Promise
    BY <1>1, QuietStep DEF callVars
<1>3. CASE SudoRejects
  <2>1. HostIsSound'
      BY <1>0, <1>1, <1>3 DEF SudoRejects, End, HostIsSound, callVars, NoStatus
  <2> QED
      BY <1>0, <1>1, <1>2, <1>3, <2>1, HostInv DEF SudoRejects, End, channelVars, ExecTypeOK
<1>4. CASE HostStarts
  <2>1. HostIsSound'
      BY <1>0, <1>1, <1>4 DEF HostStarts, End, HostIsSound, callVars, NoStatus
  <2> QED
      BY <1>0, <1>1, <1>2, <1>4, <2>1, HostInv DEF HostStarts, End, channelVars, ExecTypeOK
<1>5. ASSUME NEW c \in Status \cup {NoStatus}, proc = "script", End(c), marked' = marked,
             c = "0" => hostEffect = "whole", c = NoStatus => stopped # "no"
      PROVE  HostIsSound' /\ file' \in BOOLEAN /\ code' \in Status \cup {NoStatus} /\ proc' = "over"
    BY <1>0, <1>1, <1>5 DEF End, HostIsSound, callVars
<1>6. CASE ScriptEnds
  <2>1. PICK c \in Status : (c = "0" => hostEffect = "whole") /\ End(c)
      BY <1>6 DEF ScriptEnds
  <2> QED
      BY <1>0, <1>1, <1>2, <1>5, <1>6, <2>1, HostInv DEF ScriptEnds, channelVars, ExecTypeOK
<1>7. CASE RemoteTimeout
  <2>1. PICK c \in {"124", "137"} : End(c)
      BY <1>7 DEF RemoteTimeout
  <2>2. c \in Status /\ c # "0" /\ c # NoStatus
      BY DEF Status, NoStatus
  <2> QED
      BY <1>0, <1>1, <1>2, <1>5, <1>7, <2>1, <2>2, HostInv
         DEF RemoteTimeout, channelVars, ExecTypeOK
<1>8. CASE KillArrives
  <2>1. stopped # "no" /\ control' \subseteq control /\ faults' = faults /\ marked' = marked
      BY <1>0, <1>8 DEF KillArrives, StopIsSound
  <2>2. CASE proc = "script"
    <3>1. PICK c \in {"1", "137", NoStatus} : End(c)
        BY <1>8, <2>2 DEF KillArrives
    <3>2. c \in Status \cup {NoStatus} /\ c # "0"
        BY DEF Status, NoStatus
    <3> QED
        BY <1>0, <1>1, <1>2, <1>5, <2>1, <2>2, <3>1, <3>2, HostInv DEF ExecTypeOK
  <2>3. CASE proc # "script"
    <3>1. file' = FALSE /\ UNCHANGED <<proc, code>>
        BY <1>8, <2>3 DEF KillArrives
    <3>2. HostIsSound'
        BY <1>0, <1>1, <2>1, <3>1 DEF HostIsSound, callVars
    <3> QED
        BY <1>0, <1>1, <1>2, <2>1, <3>1, <3>2, HostInv DEF ExecTypeOK
  <2> QED
      BY <2>2, <2>3
<1>9. CASE RmArrives
  <2>1. HostIsSound'
      BY <1>0, <1>1, <1>9 DEF RmArrives, HostIsSound, callVars
  <2> QED
      BY <1>0, <1>1, <1>2, <1>9, <2>1, HostInv DEF RmArrives, ExecTypeOK
<1>10. CASE ControlFails
  <2>1. HostIsSound'
      BY <1>0, <1>1, <1>10 DEF ControlFails, HostIsSound, hostVars, callVars
  <2>2. faults' \in faults .. MaxFaults /\ control' \subseteq control
      BY <1>0, <1>10 DEF ControlFails, Fault, ExecTypeOK
  <2> QED
      BY <1>0, <1>1, <1>2, <1>10, <2>1, <2>2, HostInv DEF ControlFails, hostVars, ExecTypeOK
<1> QED
    BY <1>3, <1>4, <1>6, <1>7, <1>8, <1>9, <1>10

------------------------------------------------------------------------------

LEMMA ExecStep == ExecInv /\ [ExecNext]_execVars => ExecInv' /\ Promise
<1> SUFFICES ASSUME ExecInv, [ExecNext]_execVars PROVE ExecInv' /\ Promise
    OBVIOUS
<1>0. ExecTypeOK
    BY DEF ExecInv
<1>1. CASE StartCall \/ ProbeFails \/ ProbeAnswers \/ UploadFails \/ UploadRefused \/ UploadDone
    BY <1>1, BeforeRunStep
<1>2. CASE ChannelOpens \/ Age \/ Deadline \/ Abort
  <2>1. UNCHANGED <<bash, asRoot, preferRoot, pc, sudo, answer, hostVars>>
      BY <1>2 DEF ChannelOpens, Age, Deadline, Abort, callVars
  <2> QED
      BY <1>2, <2>1, StopStep
<1>3. CASE ChannelOpenFails
    BY <1>3, OpenFailsStep
<1>4. CASE ChannelCloses
  <2>1. pc = "run" /\ proc = "over" /\ code \in Status \cup {NoStatus} /\ Settle(code)
        /\ UNCHANGED <<control, kills, hostVars>> /\ faults' \in 0 .. MaxFaults
      BY <1>0, <1>4 DEF ChannelCloses, ExecInv, CallIsSound, ExecTypeOK
  <2>2. code = NoStatus => stopped # "no"
      BY <2>1 DEF ExecInv, HostIsSound
  <2> QED
      BY <2>1, <2>2, SettleStep
<1>5. CASE ChannelDies
  <2>1. pc = "run" /\ Settle(NoStatus) /\ UNCHANGED <<control, kills, hostVars>>
        /\ faults' \in 0 .. MaxFaults /\ faults' > 0
      BY <1>0, <1>5 DEF ChannelDies, Fault, ExecInv, CallIsSound, ExecTypeOK
  <2> QED
      BY <2>1, SettleStep
<1>6. CASE CloseTimer
  <2>1. pc = "run" /\ stopped # "no" /\ Settle(NoStatus) /\ UNCHANGED <<control, kills, hostVars>>
        /\ faults' \in 0 .. MaxFaults
      BY <1>0, <1>6 DEF CloseTimer, ExecInv, CallIsSound, StopIsSound, ExecTypeOK
  <2> QED
      BY <2>1, SettleStep
<1>7. CASE ScriptWorks
    BY <1>7, WorkStep
<1>8. CASE \/ SudoRejects \/ HostStarts \/ ScriptEnds \/ RemoteTimeout
           \/ KillArrives \/ RmArrives \/ ControlFails
    BY <1>8, HostStep
<1>9. CASE UNCHANGED execVars
  <2>1. Promise
      BY <1>9, QuietStep DEF execVars, callVars, hostVars
  <2>2. ExecTypeOK' /\ CallIsSound' /\ StopIsSound' /\ HostIsSound'
      BY <1>9 DEF execVars, callVars, channelVars, hostVars, ExecInv, ExecTypeOK, CallIsSound,
                  StopIsSound, HostIsSound
  <2>3. VerdictFor(answer)' = VerdictFor(answer) /\ Refusal("exit")' = Refusal("exit")
      BY <1>9 DEF execVars, callVars
  <2>4. AnswerIsFinal' /\ LabelIsTrue'
      BY <1>9, <2>3 DEF execVars, callVars, channelVars, hostVars, ExecInv, AnswerIsFinal,
                        LabelIsTrue
  <2> QED
      BY <2>1, <2>2, <2>4 DEF ExecInv
<1> QED
    BY <1>1, <1>2, <1>3, <1>4, <1>5, <1>6, <1>7, <1>8, <1>9 DEF ExecNext

\* Every reachable state of a call, its channels and the host is well typed.
THEOREM ExecTypeCorrect == ExecSpec => []ExecTypeOK
<1>1. ExecInv => ExecTypeOK
    BY DEF ExecInv
<1> QED
    BY <1>1, ExecInitInv, ExecStep, PTL DEF ExecSpec

\* Whatever races between timeout, cancellation and the channel's own end, the label
\* run.done gives the outcome is the true one, and there is one kill at most.
THEOREM LabelsAreTrue == ExecSpec => []LabelIsTrue
<1>1. ExecInv => LabelIsTrue
    BY DEF ExecInv
<1> QED
    BY <1>1, ExecInitInv, ExecStep, PTL DEF ExecSpec

\* execRemoteScript and execPreferRoot implement RemoteScript: each step of a call is a
\* step of the promise or is not seen, so a script takes effect once at most, a refused
\* one never, and a success is complete.
THEOREM ExecImplementsScript == ExecSpec => ScriptSpec
<1>1. ExecInit => Script!Init
    BY ExecInitInv
<1>2. ExecInv /\ [ExecNext]_execVars => [Script!Next]_<<hostEffect, VerdictFor(answer)>>
    BY ExecStep DEF Promise
<1> QED
    BY <1>1, <1>2, ExecInitInv, ExecStep, PTL DEF ExecSpec, ScriptSpec, Script!Spec

------------------------------------------------------------------------------
(***************************************************************************)
(* The slots of the terminals.  Books are kept per socket: whoever cleans  *)
(* a socket up first gives back the slot it holds, and no handler that     *)
(* comes later finds one to give (SocketSound).                            *)
(***************************************************************************)

USE TerminalAssumption

------------------------------------------------------------------------------

\* A socket in use holds a slot until it is cleaned up; what its SSH connection has
\* opened is its own, or came after the cleanup.
SocketSound(s) ==
  /\ ws[s] \in {"new", "upgraded"} => step[s] = "idle" /\ ~counted[s] /\ ~cleanedUp[s]
  /\ counted[s] => ~cleanedUp[s]
  /\ step[s] # "idle" /\ ~cleanedUp[s] => counted[s]
  /\ client[s] = "live" => counted[s] \/ lateConnect[s]
  /\ shell[s] => step[s] = "shell" /\ (counted[s] \/ lateConnect[s])

SocketsAreSound == \A s \in Socket : SocketSound(s)

TerminalInv == TerminalTypeOK /\ SocketsAreSound /\ SlotsAreCounted

\* The slots of a set of sockets are a number.
LEMMA SlotsAreFinite ==
  ASSUME NEW S \in SUBSET Socket
  PROVE  /\ IsFiniteSet({s \in S : counted[s]})
         /\ Counted(S) \in Nat
         /\ \A s \in S : counted[s] => Counted(S) > 0
<1> DEFINE C == {s \in S : counted[s]}
<1>1. IsFiniteSet(C)
    BY FS_Subset
<1>2. Cardinality(C) \in Nat
    BY <1>1, FS_CardinalityType
<1>3. ASSUME NEW s \in S, counted[s] PROVE Cardinality(C) # 0
    BY <1>1, <1>3, FS_EmptySet
<1> QED
    BY <1>1, <1>2, <1>3 DEF Counted

\* Giving a slot, and taking it back, is counted wherever the socket belongs.
LEMMA SlotGiven ==
  ASSUME TerminalTypeOK, NEW S \in SUBSET Socket, NEW s \in Socket, ~counted[s],
         counted' = [counted EXCEPT ![s] = TRUE]
  PROVE  Cardinality({t \in S : counted'[t]}) = Counted(S) + (IF s \in S THEN 1 ELSE 0)
<1> DEFINE C == {t \in S : counted[t]}
           D == {t \in S : counted'[t]}
<1>1. IsFiniteSet(C)
    BY SlotsAreFinite
<1>2. CASE s \in S
  <2>1. D = C \cup {s} /\ s \notin C
      BY <1>2 DEF TerminalTypeOK
  <2> QED
      BY <1>1, <1>2, <2>1, FS_AddElement DEF Counted
<1>3. CASE s \notin S
  <2>1. D = C
      BY <1>3 DEF TerminalTypeOK
  <2> QED
      BY <1>3, <2>1, SlotsAreFinite DEF Counted
<1> QED
    BY <1>2, <1>3

LEMMA SlotTaken ==
  ASSUME TerminalTypeOK, NEW S \in SUBSET Socket, NEW s \in Socket, counted[s],
         counted' = [counted EXCEPT ![s] = FALSE]
  PROVE  Cardinality({t \in S : counted'[t]}) = Counted(S) - (IF s \in S THEN 1 ELSE 0)
<1> DEFINE C == {t \in S : counted[t]}
           D == {t \in S : counted'[t]}
<1> SUFFICES Cardinality(D) = Cardinality(C) - (IF s \in S THEN 1 ELSE 0)
    BY DEF Counted
<1>1. IsFiniteSet(C)
    BY SlotsAreFinite
<1>2. CASE s \in S
  <2>1. D = C \ {s} /\ s \in C
      BY <1>2 DEF TerminalTypeOK
  <2> HIDE DEF C, D
  <2> QED
      BY <1>1, <1>2, <2>1, FS_RemoveElement
<1>3. CASE s \notin S
  <2>1. D = C
      BY <1>3 DEF TerminalTypeOK
  <2>2. Cardinality(C) \in Nat
      BY <1>1, FS_CardinalityType
  <2> HIDE DEF C, D
  <2> QED
      BY <1>3, <2>1, <2>2
<1> QED
    BY <1>2, <1>3

LEMMA TerminalInitInv == TerminalInit => TerminalInv
<1> SUFFICES ASSUME TerminalInit PROVE TerminalInv
    OBVIOUS
<1>1. TerminalTypeOK
    BY DEF TerminalInit, TerminalTypeOK
<1>2. SocketsAreSound
    BY DEF TerminalInit, SocketsAreSound, SocketSound
<1>3. \A S \in SUBSET Socket : Counted(S) = 0
  <2> SUFFICES ASSUME NEW S \in SUBSET Socket PROVE Counted(S) = 0
      OBVIOUS
  <2>1. {s \in S : counted[s]} = {}
      BY DEF TerminalInit
  <2> QED
      BY <2>1, FS_EmptySet DEF Counted
<1>4. SlotsAreCounted
    BY <1>3 DEF TerminalInit, SlotsAreCounted, Of
<1> QED
    BY <1>1, <1>2, <1>4 DEF TerminalInv

\* The counters are those of the sockets; of a step that counts nothing they stay so.
Books == activeCount = Counted(Socket) /\ activeCount <= Cap
           /\ \A p \in Person : perUser[p] = Counted(Of(p))

LEMMA BooksStay ==
  ASSUME Books, UNCHANGED <<activeCount, perUser, counted, owner>>
  PROVE  Books'
BY DEF Books, Counted, Of

\* Cleaning up gives back the slot the socket holds, and no other.
LEMMA CleanupInv ==
  ASSUME TerminalInv, NEW s \in Socket, Cleanup(s), UNCHANGED owner
  PROVE  /\ Books'
         /\ activeCount' \in 0 .. Cap /\ perUser' \in [Person -> 0 .. Cap]
         /\ counted' \in [Socket -> BOOLEAN] /\ cleanedUp' \in [Socket -> BOOLEAN]
         /\ shell' \in [Socket -> BOOLEAN] /\ maxTimer' \in [Socket -> BOOLEAN]
         /\ client' \in [Socket -> {"none", "live", "ended"}]
         /\ ~counted'[s] /\ cleanedUp'[s]
         /\ shell'[s] => shell[s] /\ cleanedUp[s]
         /\ client'[s] = "live" => client[s] = "live" /\ cleanedUp[s]
         /\ \A t \in Socket \ {s} :
              /\ counted'[t] = counted[t] /\ cleanedUp'[t] = cleanedUp[t]
              /\ shell'[t] = shell[t] /\ client'[t] = client[t]
<1> USE DEF TerminalInv, TerminalTypeOK, SocketsAreSound, SocketSound
<1>1. CASE cleanedUp[s]
  <2>1. /\ Books /\ activeCount' = activeCount /\ perUser' = perUser /\ counted' = counted
        /\ cleanedUp' = cleanedUp /\ shell' = shell /\ client' = client /\ maxTimer' = maxTimer
      BY <1>1 DEF Cleanup, Books, SlotsAreCounted
  <2>2. Books'
      BY <2>1, BooksStay
  <2>3. ~counted[s]
      BY <1>1
  <2>4. /\ activeCount' \in 0 .. Cap /\ perUser' \in [Person -> 0 .. Cap]
        /\ counted' \in [Socket -> BOOLEAN] /\ cleanedUp' \in [Socket -> BOOLEAN]
        /\ shell' \in [Socket -> BOOLEAN] /\ maxTimer' \in [Socket -> BOOLEAN]
        /\ client' \in [Socket -> {"none", "live", "ended"}]
      BY <2>1
  <2>5. /\ ~counted'[s] /\ cleanedUp'[s]
        /\ shell'[s] => shell[s] /\ cleanedUp[s]
        /\ client'[s] = "live" => client[s] = "live" /\ cleanedUp[s]
      BY <1>1, <2>1, <2>3
  <2>6. \A t \in Socket \ {s} :
          /\ counted'[t] = counted[t] /\ cleanedUp'[t] = cleanedUp[t]
          /\ shell'[t] = shell[t] /\ client'[t] = client[t]
      BY <2>1
  <2> QED
      BY <2>2, <2>4, <2>5, <2>6
<1>2. CASE ~cleanedUp[s] /\ ~counted[s]
  <2>1. Books /\ activeCount' = activeCount /\ perUser' = perUser /\ counted' = counted
      BY <1>2 DEF Cleanup, Books, SlotsAreCounted
  <2>2. Books'
      BY <2>1, BooksStay
  <2>3. /\ cleanedUp' = [cleanedUp EXCEPT ![s] = TRUE]
        /\ maxTimer' = [maxTimer EXCEPT ![s] = FALSE]
        /\ shell' = [shell EXCEPT ![s] = FALSE]
        /\ client' = [client EXCEPT ![s] = IF @ = "live" THEN "ended" ELSE @]
      BY <1>2 DEF Cleanup
  <2>4. /\ activeCount' \in 0 .. Cap /\ perUser' \in [Person -> 0 .. Cap]
        /\ counted' \in [Socket -> BOOLEAN] /\ cleanedUp' \in [Socket -> BOOLEAN]
        /\ shell' \in [Socket -> BOOLEAN] /\ maxTimer' \in [Socket -> BOOLEAN]
        /\ client' \in [Socket -> {"none", "live", "ended"}]
      BY <2>1, <2>3
  <2>5. ~counted'[s] /\ cleanedUp'[s] /\ ~shell'[s] /\ client'[s] # "live"
      BY <1>2, <2>1, <2>3
  <2>6. \A t \in Socket \ {s} :
          /\ counted'[t] = counted[t] /\ cleanedUp'[t] = cleanedUp[t]
          /\ shell'[t] = shell[t] /\ client'[t] = client[t]
      BY <2>1, <2>3
  <2> QED
      BY <2>2, <2>4, <2>5, <2>6
<1>3. CASE ~cleanedUp[s] /\ counted[s]
  <2>1. counted' = [counted EXCEPT ![s] = FALSE]
      BY <1>3 DEF Cleanup
  <2>2. Books
      BY DEF Books, SlotsAreCounted
  <2>3. \A S \in SUBSET Socket : Cardinality({t \in S : counted'[t]})
                                   = Counted(S) - (IF s \in S THEN 1 ELSE 0)
      BY <1>3, <2>1, SlotTaken
  <2>4. activeCount > 0 /\ perUser[owner[s]] > 0
    <3>1. Counted(Socket) > 0
        BY <1>3, SlotsAreFinite
    <3>2. owner[s] \in Person /\ s \in Of(owner[s]) /\ Of(owner[s]) \in SUBSET Socket
        BY DEF Of
    <3>3. Counted(Of(owner[s])) > 0
        BY <1>3, <3>2, SlotsAreFinite
    <3> QED
        BY <2>2, <3>1, <3>2, <3>3 DEF Books
  <2>5. activeCount' = activeCount - 1
        /\ perUser' = [perUser EXCEPT ![owner[s]] = perUser[owner[s]] - 1]
      BY <1>3, <2>4 DEF Cleanup, Less
  <2>6. activeCount' = Counted(Socket)'
      BY <2>2, <2>3, <2>5 DEF Books, Counted
  <2>7. ASSUME NEW p \in Person PROVE perUser'[p] = Counted(Of(p))'
    <3>1. Of(p)' = Of(p) /\ Of(p) \in SUBSET Socket /\ (s \in Of(p) <=> p = owner[s])
        BY DEF Of
    <3>2. perUser[p] = Counted(Of(p))
        BY <2>2 DEF Books
    <3>3. perUser'[p] = perUser[p] - (IF s \in Of(p) THEN 1 ELSE 0)
        BY <2>5, <3>1
    <3>4. Counted(Of(p))' = Counted(Of(p)) - (IF s \in Of(p) THEN 1 ELSE 0)
        BY <2>3, <3>1 DEF Counted
    <3> QED
        BY <3>2, <3>3, <3>4
  <2>8. activeCount' \in 0 .. Cap /\ perUser' \in [Person -> 0 .. Cap]
      BY <2>4, <2>5
  <2>9. Books'
      BY <2>6, <2>7, <2>8 DEF Books
  <2>10. /\ cleanedUp' = [cleanedUp EXCEPT ![s] = TRUE]
         /\ maxTimer' = [maxTimer EXCEPT ![s] = FALSE]
         /\ shell' = [shell EXCEPT ![s] = FALSE]
         /\ client' = [client EXCEPT ![s] = IF @ = "live" THEN "ended" ELSE @]
      BY <1>3 DEF Cleanup
  <2>11. /\ counted' \in [Socket -> BOOLEAN] /\ cleanedUp' \in [Socket -> BOOLEAN]
         /\ shell' \in [Socket -> BOOLEAN] /\ maxTimer' \in [Socket -> BOOLEAN]
         /\ ~counted'[s] /\ cleanedUp'[s] /\ ~shell'[s]
         /\ \A t \in Socket \ {s} :
              counted'[t] = counted[t] /\ cleanedUp'[t] = cleanedUp[t] /\ shell'[t] = shell[t]
      BY <2>1, <2>10
  <2>12. /\ client' \in [Socket -> {"none", "live", "ended"}] /\ client'[s] # "live"
         /\ \A t \in Socket \ {s} : client'[t] = client[t]
      BY <2>10
  <2> QED
      BY <2>8, <2>9, <2>11, <2>12
<1> QED
    BY <1>1, <1>2, <1>3

\* The conditions of a socket that a step leaves alone.
LEMMA OthersStay ==
  ASSUME SocketsAreSound, NEW t \in Socket,
         ws'[t] = ws[t], step'[t] = step[t], counted'[t] = counted[t],
         cleanedUp'[t] = cleanedUp[t], client'[t] = client[t], shell'[t] = shell[t],
         lateConnect'[t] = lateConnect[t]
  PROVE  SocketSound(t)'
BY DEF SocketsAreSound, SocketSound

\* What is asked of the one socket a step is about is asked of all.
LEMMA TerminalStep == TerminalInv /\ [TerminalNext]_terminalVars => TerminalInv'
<1> SUFFICES ASSUME TerminalInv, [TerminalNext]_terminalVars PROVE TerminalInv'
    OBVIOUS
<1>a. TerminalTypeOK /\ SocketsAreSound /\ Books /\ \A s \in Socket : SocketSound(s)
    BY DEF TerminalInv, SlotsAreCounted, Books, SocketsAreSound
<1>b. TerminalTypeOK' /\ SocketsAreSound' /\ Books' => TerminalInv'
    BY DEF TerminalInv, SlotsAreCounted, Books, SocketsAreSound, SocketSound
<1> USE <1>a
<1>1. ASSUME NEW p \in Person, Deauthorize(p) PROVE TerminalInv'
    BY <1>1, <1>b, BooksStay, OthersStay DEF Deauthorize, TerminalTypeOK, SocketsAreSound
\* Cleaning up is what ends a socket, whichever handler comes to it first.
<1>2. ASSUME NEW s \in Socket, Cleanup(s), UNCHANGED <<owner, allowed, lateConnect>>,
             step' \in [Socket -> {"idle", "connecting", "prompt", "retrying", "opening", "shell"}],
             ws' \in [Socket -> {"new", "upgraded", "open", "closing", "closed"}],
             attempts' \in [Socket -> 0 .. MaxAttempts],
             \A t \in Socket \ {s} : step'[t] = step[t] /\ ws'[t] = ws[t],
             step'[s] = step[s] \/ (step'[s] = "idle" /\ step[s] # "shell"),
             ws[s] \notin {"new", "upgraded"}, ws'[s] \notin {"new", "upgraded"}
      PROVE  TerminalInv'
  <2>1. TerminalTypeOK' /\ Books'
      BY <1>2, CleanupInv DEF TerminalTypeOK
  <2>2. \A t \in Socket \ {s} : SocketSound(t)'
      BY <1>2, CleanupInv, OthersStay
  <2>3. SocketSound(s)'
      BY <1>2, CleanupInv DEF SocketSound, TerminalTypeOK
  <2> QED
      BY <1>b, <2>1, <2>2, <2>3 DEF SocketsAreSound
<1>3. ASSUME NEW s \in Socket, Admit(s) PROVE TerminalInv'
  <2>1. counted' = [counted EXCEPT ![s] = TRUE] /\ ~counted[s]
      BY <1>3 DEF Admit, SocketSound
  <2>2. \A S \in SUBSET Socket : Counted(S)' = Counted(S) + (IF s \in S THEN 1 ELSE 0)
      BY <2>1, SlotGiven DEF Counted
  <2>3. activeCount < Cap /\ perUser[owner[s]] < Cap
      BY <1>3 DEF Admit, Full, TerminalTypeOK
  <2>4. TerminalTypeOK'
      BY <1>3, <2>3 DEF Admit, TerminalTypeOK
  <2>5. activeCount' = Counted(Socket)' /\ activeCount' <= Cap
      BY <1>3, <2>2, <2>3 DEF Admit, Books, TerminalTypeOK
  <2>6. ASSUME NEW p \in Person PROVE perUser'[p] = Counted(Of(p))'
    <3>1. Of(p)' = Of(p) /\ Of(p) \in SUBSET Socket /\ (s \in Of(p) <=> p = owner[s])
        BY <1>3 DEF Of, Admit
    <3>2. perUser'[p] = perUser[p] + (IF s \in Of(p) THEN 1 ELSE 0)
        BY <1>3, <3>1 DEF Admit, TerminalTypeOK
    <3>3. Counted(Of(p))' = Counted(Of(p)) + (IF s \in Of(p) THEN 1 ELSE 0)
        BY <2>2, <3>1 DEF Counted
    <3> QED
        BY <3>2, <3>3 DEF Books
  <2>7. \A t \in Socket \ {s} : SocketSound(t)'
      BY <1>3, OthersStay DEF Admit, TerminalTypeOK
  <2>8. SocketSound(s)'
      BY <1>3 DEF Admit, SocketSound, TerminalTypeOK
  <2> QED
      BY <1>b, <2>4, <2>5, <2>6, <2>7, <2>8 DEF SocketsAreSound, Books
\* The handlers that neither count nor clean up.
<1>4. ASSUME NEW s \in Socket, UNCHANGED <<activeCount, perUser, owner, counted, cleanedUp>>,
             \A t \in Socket \ {s} :
               /\ ws'[t] = ws[t] /\ step'[t] = step[t] /\ client'[t] = client[t]
               /\ shell'[t] = shell[t] /\ lateConnect'[t] = lateConnect[t],
             TerminalTypeOK', SocketSound(s)'
      PROVE  TerminalInv'
  <2>1. \A t \in Socket \ {s} : SocketSound(t)'
      BY <1>4, OthersStay
  <2> QED
      BY <1>4, <1>b, <2>1, BooksStay DEF SocketsAreSound
<1>5. ASSUME NEW s \in Socket, TurnAway(s) PROVE TerminalInv'
    BY <1>4, <1>5 DEF TurnAway, TerminalTypeOK, SocketSound
<1>6. ASSUME NEW s \in Socket, Connected(s) PROVE TerminalInv'
  <2>1. TerminalTypeOK'
      BY <1>6 DEF Connected, TerminalTypeOK
  <2>2. SocketSound(s)'
      BY <1>6 DEF Connected, Connecting, TerminalTypeOK, SocketSound
  <2> QED
      BY <1>4, <1>6, <2>1, <2>2 DEF Connected, TerminalTypeOK
<1>7. ASSUME NEW s \in Socket, AskPassword(s) PROVE TerminalInv'
  <2>1. TerminalTypeOK'
      BY <1>7 DEF AskPassword, TerminalTypeOK
  <2>2. SocketSound(s)'
      BY <1>7 DEF AskPassword, Connecting, TerminalTypeOK, SocketSound
  <2> QED
      BY <1>4, <1>7, <2>1, <2>2 DEF AskPassword, TerminalTypeOK
<1>8. ASSUME NEW s \in Socket, ConnectFails(s) PROVE TerminalInv'
  <2>1. attempts' \in [Socket -> 0 .. MaxAttempts]
      BY <1>8 DEF ConnectFails, TerminalTypeOK
  <2> QED
      BY <1>2, <1>8, <2>1 DEF ConnectFails, Connecting, CloseAndCleanup, Closing, TerminalTypeOK,
                             SocketSound
<1>9. ASSUME NEW s \in Socket, Password(s) PROVE TerminalInv'
    BY <1>4, <1>9 DEF Password, TerminalTypeOK, SocketSound
<1>10. ASSUME NEW s \in Socket, ShellOpens(s) PROVE TerminalInv'
  <2>1. TerminalTypeOK'
      BY <1>10 DEF ShellOpens, TerminalTypeOK
  <2>2. SocketSound(s)'
      BY <1>10 DEF ShellOpens, TerminalTypeOK, SocketSound
  <2> QED
      BY <1>4, <1>10, <2>1, <2>2 DEF ShellOpens, TerminalTypeOK
<1>11. ASSUME NEW s \in Socket, ShellFails(s) PROVE TerminalInv'
    BY <1>2, <1>11 DEF ShellFails, CloseAndCleanup, Closing, TerminalTypeOK, SocketSound
<1>12. ASSUME NEW s \in Socket, Hangup(s) PROVE TerminalInv'
    BY <1>4, <1>12 DEF Hangup, Closing, TerminalTypeOK, SocketSound
<1>13. ASSUME NEW s \in Socket, MaxTimer(s) PROVE TerminalInv'
    BY <1>4, <1>13 DEF MaxTimer, Closing, TerminalTypeOK, SocketSound
<1>14. ASSUME NEW s \in Socket, OnClose(s) PROVE TerminalInv'
    BY <1>2, <1>14 DEF OnClose, TerminalTypeOK
<1>15. ASSUME NEW s \in Socket, Reauthorize(s) PROVE TerminalInv'
    BY <1>2, <1>15 DEF Reauthorize, Reauthorizing, CloseAndCleanup, Closing, TerminalTypeOK,
                       SocketSound
<1>16. ASSUME NEW s \in Socket, CheckFails(s) PROVE TerminalInv'
    BY <1>2, <1>16 DEF CheckFails, Reauthorizing, CloseAndCleanup, Closing, TerminalTypeOK,
                       SocketSound
<1>17. ASSUME NEW s \in Socket, Upgrade(s) PROVE TerminalInv'
    BY <1>4, <1>17 DEF Upgrade, TerminalTypeOK, SocketSound
<1>18. CASE UNCHANGED terminalVars
    BY <1>18, <1>b, BooksStay, OthersStay DEF terminalVars, TerminalTypeOK, SocketsAreSound
<1> QED
    BY <1>1, <1>3, <1>5, <1>6, <1>7, <1>8, <1>9, <1>10, <1>11, <1>12, <1>13, <1>14, <1>15,
       <1>16, <1>17, <1>18 DEF TerminalNext

\* The sockets are sound, and the slots counted, in every reachable state.
THEOREM TerminalInvariant == TerminalSpec => []TerminalInv
BY TerminalInitInv, TerminalStep, PTL DEF TerminalSpec

\* However closing, failing and timing out interleave, for any number of sockets and
\* any cap, slots neither leak nor are given back twice (ws/ssh.ws.ts, cleanup).
THEOREM SlotsNeverLeak == TerminalSpec => []SlotsAreCounted
<1>1. TerminalInv => SlotsAreCounted
    BY DEF TerminalInv
<1> QED
    BY TerminalInvariant, <1>1, PTL

------------------------------------------------------------------------------
(* The status checks *)

USE StatusAssumption

\* What a check writes from what it has read, a row is (status.service.ts, runCheck).
THEOREM StatusTypeCorrect == StatusSpec => []StatusTypeOK
<1>1. StatusInit => StatusTypeOK
  <2> SUFFICES ASSUME StatusInit PROVE StatusTypeOK
      OBVIOUS
  <2>1. 0 \in 0 .. Threshold /\ 0 \in 0 .. MaxFlips /\ 0 \in 0 .. MaxMishaps
      OBVIOUS
  <2>2. Fresh \in StatusRow
      BY <2>1 DEF Fresh, StatusRow
  <2> QED
      BY <2>1, <2>2 DEF StatusInit, StatusTypeOK, NoProbe, NoSweep
<1>2. StatusTypeOK /\ [StatusNext]_statusVars => StatusTypeOK'
  <2> SUFFICES ASSUME StatusTypeOK, [StatusNext]_statusVars PROVE StatusTypeOK'
      OBVIOUS
  <2> USE DEF StatusTypeOK, StatusRow, Fresh, NoProbe, NoSweep
  <2>1. CASE Flip
    <3>1. /\ flips' \in 0 .. MaxFlips
          /\ UNCHANGED <<row, probe, told, flipLost, sweep, memory, metricTold, metricForgotten,
                        mishaps>>
        BY <2>1 DEF Flip, checkVars, metricVars
    <3>2. isUp' \in BOOLEAN /\ high' \in BOOLEAN
        BY <2>1 DEF Flip
    <3> QED
        BY <3>1, <3>2
  <2>2. ASSUME NEW c \in Checker, Check(c) PROVE StatusTypeOK'
    <3>1. CASE ReadRow(c)
      <4>1. probe' \in [Checker -> [pc : {"idle", "probe", "write", "claim", "down", "up"},
                                     read : StatusRow, found : {"unknown", "up", "down"}]]
          BY <3>1 DEF ReadRow
      <4> QED
          BY <3>1, <4>1 DEF ReadRow, metricVars
    <3>2. CASE Probe(c)
      <4> DEFINE Probes == [pc : {"idle", "probe", "write", "claim", "down", "up"},
                            read : StatusRow, found : {"unknown", "up", "down"}]
                 found == IF isUp THEN "up" ELSE "down"
                 writing == [probe[c] EXCEPT !.pc = "write"]
      <4>1. found \in {"unknown", "up", "down"}
          OBVIOUS
      <4>2. writing \in Probes
          OBVIOUS
      <4>3. probe' = [probe EXCEPT ![c] = [writing EXCEPT !.found = found]]
          BY <3>2 DEF Probe
      <4> HIDE DEF found, writing
      <4>4. probe' \in [Checker -> Probes]
          BY <4>1, <4>2, <4>3
      <4> QED
          BY <3>2, <4>4 DEF Probe, metricVars
    <3>3. CASE WriteRow(c)
      <4>1. NewStreak(c) \in 0 .. Threshold
          BY DEF NewStreak, MoreDown
      <4>2. row' \in StatusRow
          BY <3>3, <4>1 DEF WriteRow
      <4>3. probe' \in [Checker -> [pc : {"idle", "probe", "write", "claim", "down", "up"},
                                     read : StatusRow, found : {"unknown", "up", "down"}]]
          BY <3>3 DEF WriteRow
      <4> QED
          BY <3>3, <4>2, <4>3 DEF WriteRow, metricVars
    <3>4. CASE ClaimNotice(c)
      <4>1. row' \in StatusRow
          BY <3>4 DEF ClaimNotice
      <4>2. probe' \in [Checker -> [pc : {"idle", "probe", "write", "claim", "down", "up"},
                                     read : StatusRow, found : {"unknown", "up", "down"}]]
          BY <3>4 DEF ClaimNotice
      <4> QED
          BY <3>4, <4>1, <4>2 DEF ClaimNotice, metricVars
    <3>5. CASE NotifyFlip(c)
      <4>1. 0 \in 0 .. Threshold
          OBVIOUS
      <4>2. told' \in {"up", "down"} /\ flipLost' \in BOOLEAN
          BY <3>5 DEF NotifyFlip
      <4>3. probe' \in [Checker -> [pc : {"idle", "probe", "write", "claim", "down", "up"},
                                     read : StatusRow, found : {"unknown", "up", "down"}]]
          BY <3>5, <4>1 DEF NotifyFlip
      <4> QED
          BY <3>5, <4>2, <4>3 DEF NotifyFlip, metricVars
    <3> QED
        BY <2>2, <3>1, <3>2, <3>3, <3>4, <3>5 DEF Check
  <2>3. ASSUME NEW c \in Checker, Sweep(c) PROVE StatusTypeOK'
    <3>1. CASE Measure(c)
        BY <3>1 DEF Measure, checkVars
    <3>2. CASE Judge(c)
        BY <3>2 DEF Judge, checkVars
    <3>3. CASE Remember(c)
        BY <3>3 DEF Remember, checkVars
    <3> QED
        BY <2>3, <3>1, <3>2, <3>3 DEF Sweep
  <2>4. ASSUME NEW c \in Checker, Mishap(c) PROVE StatusTypeOK'
    <3>1. CASE EmailFails(c)
        BY <3>1 DEF EmailFails, checkVars
    <3>2. CASE Restart(c)
      <4>1. 0 \in 0 .. Threshold
          OBVIOUS
      <4>2. /\ probe' \in [Checker -> [pc : {"idle", "probe", "write", "claim", "down", "up"},
                                        read : StatusRow, found : {"unknown", "up", "down"}]]
            /\ sweep' \in [Checker -> [pc : {"idle", "judge", "remember"}, isHigh : BOOLEAN]]
            /\ memory' \in [Checker -> BOOLEAN]
          BY <3>2, <4>1 DEF Restart
      <4> QED
          BY <3>2, <4>2 DEF Restart
    <3> QED
        BY <2>4, <3>1, <3>2 DEF Mishap
  <2>5. CASE UNCHANGED statusVars
      BY <2>5 DEF statusVars, checkVars, metricVars
  <2> QED
      BY <2>1, <2>2, <2>3, <2>4, <2>5 DEF StatusNext
<1> QED
    BY <1>1, <1>2, PTL DEF StatusSpec
=================================================================================
