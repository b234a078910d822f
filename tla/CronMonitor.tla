------------------------------ MODULE CronMonitor ------------------------------
(***************************************************************************)
(* A crontab line and the heartbeats behind it: monitoring a job, taking   *)
(* the monitor off, rotating the token with the crontab rewritten          *)
(* (services/heartbeat-cron.service.ts, cron.service.ts and rotate-token   *)
(* in modules/heartbeats/heartbeat.routes.ts).                             *)
(*                                                                         *)
(* One line of one crontab is followed; `rest` is everything else in the   *)
(* file, so the file's hash is the whole record.  A write is a read, a     *)
(* comparison here, then a script on the host that compares again and      *)
(* writes, without a lock between the two.  What a script's answer means   *)
(* is what RemoteScript promises.                                          *)
(***************************************************************************)
EXTENDS Integers

CONSTANTS
  Operator,    \* requests being served
  MaxRows,     \* bound: heartbeats ever created
  MaxTokens,   \* bound: tokens ever generated
  MaxEdits,    \* bound: edits of the rest of the file
  MaxUnknown   \* bound: host commands whose outcome is not learned

ASSUME CronMonitorAssumption ==
  MaxRows \in Nat /\ MaxTokens \in Nat /\ MaxEdits \in Nat /\ MaxUnknown \in Nat

VARIABLES
  content,   \* the file on the host
  hb,        \* the heartbeat rows
  rows, tokens,   \* how many rows and tokens there have been
  op,        \* where each request is
  script,    \* its write script on the host
  unknown,
  tangled    \* a write ended unconfirmed or over another's, or two requests were at
             \* one heartbeat at the same time

cronVars == <<content, hb, rows, tokens, op, script, unknown, tangled>>

------------------------------------------------------------------------------

\* tok and mark are 0 on a line that is not wrapped, or carries no marker.
File == [tok : 0 .. MaxTokens, mark : 0 .. MaxRows, rest : 0 .. MaxEdits]
Plain == [tok |-> 0, mark |-> 0, rest |-> 0]

NoRow == [token |-> 0, linked |-> FALSE, state |-> "gone"]
Row == [token : 0 .. MaxTokens, linked : BOOLEAN, state : {"gone", "active", "paused"}]
Exists(i) == hb[i].state # "gone"

NoScript == [state |-> "none", base |-> Plain, new |-> Plain]
Idle == [kind |-> "none", pc |-> "idle", snap |-> Plain, want |-> Plain, id |-> 0, old |-> 0]

CronTypeOK ==
  /\ content \in File
  /\ hb \in [1 .. MaxRows -> Row]
  /\ rows \in 0 .. MaxRows /\ tokens \in 0 .. MaxTokens
  /\ op \in [Operator ->
       [kind : {"none", "monitor", "unmonitor", "rotate"},
        pc : {"idle", "create", "update", "find", "check", "write", "readback",
              "rollback", "unlink"},
        snap : File, want : File, id : 0 .. MaxRows, old : 0 .. MaxTokens]]
  /\ script \in [Operator ->
       [state : {"none", "sent", "checked", "written", "conflict", "failed"},
        base : File, new : File]]
  /\ unknown \in 0 .. MaxUnknown
  /\ tangled \in BOOLEAN

CronInit ==
  /\ content = Plain
  /\ hb = [i \in 1 .. MaxRows |-> NoRow]
  /\ rows = 0 /\ tokens = 0
  /\ op = [o \in Operator |-> Idle]
  /\ script = [o \in Operator |-> NoScript]
  /\ unknown = 0 /\ tangled = FALSE

At(o, pc) == op[o].pc = pc
Free(o) == At(o, "idle") /\ script[o].state = "none"
Go(o, pc) == op' = [op EXCEPT ![o].pc = pc]
Done(o) == op' = [op EXCEPT ![o] = Idle]

\* findLinkedHeartbeat: by the token, else by the marker; linked to this file.
ByToken(c) == {i \in 1 .. MaxRows : Exists(i) /\ hb[i].linked /\ hb[i].token = c.tok}
ByMark(c) == {i \in 1 .. MaxRows : Exists(i) /\ hb[i].linked /\ i = c.mark}
Linked(c) == IF c.tok # 0 /\ ByToken(c) # {} THEN ByToken(c) ELSE ByMark(c)

\* Request o begins with a heartbeat, which another may be at.
TakesOn(o) ==
  tangled' = (tangled \/ \E p \in Operator \ {o} : op[p].id # 0 /\ op'[p].id = op'[o].id)

------------------------------------------------------------------------------
(* Monitoring a job *)

\* readTarget, and the refusal of a line that is already monitored.
Monitor(o) ==
  /\ Free(o)
  /\ content.tok = 0 /\ ByMark(content) = {}
  /\ op' = [op EXCEPT ![o] = [Idle EXCEPT !.kind = "monitor", !.pc = "create", !.snap = content]]
  /\ UNCHANGED <<content, hb, rows, tokens, script, unknown, tangled>>

CreateRow(o) ==
  /\ At(o, "create")
  /\ rows < MaxRows /\ tokens < MaxTokens
  /\ rows' = rows + 1 /\ tokens' = tokens + 1
  /\ hb' = [hb EXCEPT ![rows'] = [token |-> tokens', linked |-> TRUE, state |-> "active"]]
  /\ op' = [op EXCEPT ![o].pc = "check", ![o].id = rows',
                      ![o].want = [op[o].snap EXCEPT !.tok = tokens', !.mark = rows']]
  /\ UNCHANGED <<content, script, unknown, tangled>>

(* Taking the monitor off *)

Unmonitor(o) ==
  /\ Free(o)
  /\ content.tok # 0 \/ content.mark # 0
  /\ \E i \in IF Linked(content) = {} THEN {0} ELSE Linked(content) :
       op' = [op EXCEPT ![o] =
                [Idle EXCEPT !.kind = "unmonitor", !.pc = "check", !.id = i, !.snap = content,
                             !.want = [Plain EXCEPT !.rest = content.rest]]]
  /\ TakesOn(o)
  /\ UNCHANGED <<content, hb, rows, tokens, script, unknown>>

\* The row is deleted, or parked and unlinked, by its id; it may be gone.
Unlink(o) ==
  /\ At(o, "unlink")
  /\ IF op[o].id # 0 /\ Exists(op[o].id)
     THEN \/ hb' = [hb EXCEPT ![op[o].id] = NoRow]
          \/ hb' = [hb EXCEPT ![op[o].id].linked = FALSE, ![op[o].id].state = "paused"]
     ELSE UNCHANGED hb
  /\ Done(o)
  /\ UNCHANGED <<content, rows, tokens, script, unknown, tangled>>

(* Rotating a token, with rewriteCron *)

\* loadHeartbeat: `old` is the token the row will be put back to.
Rotate(o) ==
  /\ Free(o)
  /\ \E i \in 1 .. MaxRows :
       /\ Exists(i) /\ hb[i].linked
       /\ op' = [op EXCEPT ![o] = [Idle EXCEPT !.kind = "rotate", !.pc = "update",
                                               !.id = i, !.old = hb[i].token]]
  /\ TakesOn(o)
  /\ UNCHANGED <<content, hb, rows, tokens, script, unknown>>

\* The new token replaces the old one first; a row deleted meanwhile is an error.
UpdateToken(o) ==
  /\ At(o, "update")
  /\ IF Exists(op[o].id)
     THEN /\ tokens < MaxTokens
          /\ tokens' = tokens + 1
          /\ hb' = [hb EXCEPT ![op[o].id].token = tokens']
          /\ op' = [op EXCEPT ![o].pc = "find", ![o].want.tok = tokens']
     ELSE Done(o) /\ UNCHANGED <<tokens, hb>>
  /\ UNCHANGED <<content, rows, script, unknown, tangled>>

\* findRotationLine: the old token's line, or the line marked with this row
\* whose token belongs to no other heartbeat.
OwnedByOther(c, i) == \E j \in 1 .. MaxRows \ {i} : Exists(j) /\ hb[j].token = c.tok
RotationLine(c, i, old) ==
  c.tok # 0 /\ (c.tok = old \/ (c.mark = i /\ ~OwnedByOther(c, i)))

FindLine(o) ==
  /\ At(o, "find")
  /\ IF RotationLine(content, op[o].id, op[o].old)
     THEN op' = [op EXCEPT ![o].pc = "check", ![o].snap = content,
                           ![o].want = [content EXCEPT !.tok = op[o].want.tok,
                                                       !.mark = op[o].id]]
     ELSE Go(o, "rollback")
  /\ UNCHANGED <<content, hb, rows, tokens, script, unknown, tangled>>

\* The host cannot be read: the rotation is rolled back.
FindFails(o) ==
  /\ At(o, "find") /\ unknown < MaxUnknown
  /\ unknown' = unknown + 1
  /\ Go(o, "rollback")
  /\ UNCHANGED <<content, hb, rows, tokens, script, tangled>>

------------------------------------------------------------------------------
(* writeCronTarget and writeCronOrConfirm *)

\* Mutant: a failed write rolls nothing back.
FailedKeeping(o) == Done(o)

\* The write provably failed.
Failed(o) == IF op[o].kind = "unmonitor" THEN Done(o) ELSE Go(o, "rollback")
Succeeded(o) == IF op[o].kind = "unmonitor" THEN Go(o, "unlink") ELSE Done(o)

\* An ambiguous failure: read back, except that unmonitoring just fails.
Ambiguous(o) ==
  IF op[o].kind = "unmonitor"
  THEN Done(o) /\ tangled' = TRUE
  ELSE Go(o, "readback") /\ UNCHANGED tangled

CheckHash(o) ==
  /\ At(o, "check")
  /\ IF content = op[o].snap
     THEN /\ Go(o, "write")
          /\ script' = [script EXCEPT ![o] = [state |-> "sent", base |-> op[o].snap,
                                              new |-> op[o].want]]
     ELSE Failed(o) /\ UNCHANGED script
  /\ UNCHANGED <<content, hb, rows, tokens, unknown, tangled>>

\* Unreachable, sudo refused, upload failed: the script never started.
NeverStarted(o) ==
  /\ At(o, "check") /\ unknown < MaxUnknown
  /\ unknown' = unknown + 1
  /\ Failed(o)
  /\ UNCHANGED <<content, hb, rows, tokens, script, tangled>>

HostCompares(o) ==
  /\ script[o].state = "sent"
  /\ script' = [script EXCEPT ![o].state =
                  IF content = script[o].base THEN "checked" ELSE "conflict"]
  /\ UNCHANGED <<content, hb, rows, tokens, op, unknown, tangled>>

HostWrites(o) ==
  /\ script[o].state = "checked"
  /\ \/ /\ script' = [script EXCEPT ![o].state = "written"]
        /\ content' = script[o].new
        /\ tangled' = (tangled \/ ~At(o, "write") \/ content # script[o].base)
     \/ /\ script' = [script EXCEPT ![o].state = "failed"]
        /\ UNCHANGED <<content, tangled>>
  /\ UNCHANGED <<hb, rows, tokens, op, unknown>>

\* The script's verdict arrives.  crontab's refusal of a user's file is proof
\* that nothing changed; a failure under /etc is read back.
ScriptAnswers(o) ==
  /\ At(o, "write")
  /\ \/ script[o].state = "written" /\ Succeeded(o) /\ UNCHANGED tangled
     \/ script[o].state \in {"conflict", "failed"} /\ Failed(o) /\ UNCHANGED tangled
     \/ script[o].state = "failed" /\ Ambiguous(o)
  /\ script' = [script EXCEPT ![o] = NoScript]
  /\ UNCHANGED <<content, hb, rows, tokens, unknown>>

\* TIMEOUT, or a connection lost: the script was killed, or is still there.
AnswerLost(o) ==
  /\ At(o, "write") /\ unknown < MaxUnknown
  /\ unknown' = unknown + 1
  /\ Ambiguous(o)
  /\ script' \in {script, [script EXCEPT ![o] = NoScript]}
  /\ UNCHANGED <<content, hb, rows, tokens>>

\* A script nobody waits for any more comes to its end.
ScriptGone(o) ==
  /\ ~At(o, "write")
  /\ script[o].state \in {"written", "conflict", "failed"}
  /\ script' = [script EXCEPT ![o] = NoScript]
  /\ UNCHANGED <<content, hb, rows, tokens, op, unknown, tangled>>

\* `ok` when the new line is live, a plain failure when it is absent.
ReadBack(o) ==
  /\ At(o, "readback")
  /\ IF content.tok = op[o].want.tok THEN Succeeded(o) ELSE Failed(o)
  /\ UNCHANGED <<content, hb, rows, tokens, script, unknown, tangled>>

\* CronWriteUnconfirmedError: nothing is rolled back.
ReadBackFails(o) ==
  /\ At(o, "readback") /\ unknown < MaxUnknown
  /\ unknown' = unknown + 1
  /\ Done(o) /\ tangled' = TRUE
  /\ UNCHANGED <<content, hb, rows, tokens, script>>

\* The new heartbeat is deleted; the old token is put back.
RollBack(o) ==
  /\ At(o, "rollback")
  /\ hb' = IF ~Exists(op[o].id) THEN hb
           ELSE IF op[o].kind = "monitor" THEN [hb EXCEPT ![op[o].id] = NoRow]
           ELSE [hb EXCEPT ![op[o].id].token = op[o].old]
  /\ Done(o)
  /\ UNCHANGED <<content, rows, tokens, script, unknown, tangled>>

\* Somebody edits another line, on the host or in the cron editor.
Edit ==
  /\ content.rest < MaxEdits
  /\ content' = [content EXCEPT !.rest = @ + 1]
  /\ UNCHANGED <<hb, rows, tokens, op, script, unknown, tangled>>

CronNext ==
  \/ Edit
  \/ \E o \in Operator :
       \/ Monitor(o) \/ CreateRow(o) \/ Unmonitor(o) \/ Unlink(o)
       \/ Rotate(o) \/ UpdateToken(o) \/ FindLine(o) \/ FindFails(o)
       \/ CheckHash(o) \/ NeverStarted(o) \/ HostCompares(o) \/ HostWrites(o)
       \/ ScriptAnswers(o) \/ AnswerLost(o) \/ ScriptGone(o)
       \/ ReadBack(o) \/ ReadBackFails(o) \/ RollBack(o)

CronSpec == CronInit /\ [][CronNext]_cronVars

------------------------------------------------------------------------------
(* Properties *)

\* No request is under way, no script is left, and nothing was tangled.
Settled ==
  /\ \A o \in Operator : Free(o)
  /\ ~tangled

\* Whatever failed on the way, the token on the host's line is one RackMap
\* accepts, so the job's pings land; and an active heartbeat linked to this
\* crontab is pinged by its line: "a half-done monitor never leaves a heartbeat
\* that nothing pings" and "the crontab still carries the old token: put it back
\* so the job keeps working".
MonitorIsWhole ==
  Settled =>
    /\ content.tok # 0 => \E i \in 1 .. MaxRows : Exists(i) /\ hb[i].token = content.tok
    /\ \A i \in 1 .. MaxRows :
         hb[i].state = "active" /\ hb[i].linked => content.tok = hb[i].token
=================================================================================
