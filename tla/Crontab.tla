--------------------------------- MODULE Crontab ---------------------------------
(***************************************************************************)
(* The text of one crontab as the editor changes it                        *)
(* (packages/shared/src/cron.ts): it is parsed into lines, one job is      *)
(* edited, inserted or removed, the lines are written back and parsed      *)
(* again.  A job's label and the mark of its heartbeat are kept in a       *)
(* comment directly above it, so they hold by position alone.              *)
(*                                                                         *)
(* `text` is the whole of a job's own line, whether disabled or not; lines *)
(* of any other kind (blank, comment, setting, invalid) are "other".       *)
(***************************************************************************)
EXTENDS Integers, SequencesExt

CONSTANTS
  Texts,       \* what may stand on the line of a job
  Labels, Marks, Unnamed,
  MaxLines     \* bound: lines of the file

ASSUME CrontabAssumption == Unnamed \notin Labels \cup Marks /\ MaxLines \in Nat

VARIABLE crontab    \* the lines of the file

--------------------------------------------------------------------------------

Name == [label : Labels \cup {Unnamed}, mark : Marks \cup {Unnamed}]
NoName == [label |-> Unnamed, mark |-> Unnamed]
NameOf(l) == [label |-> l.label, mark |-> l.mark]

LabelLine(name) == [type |-> "label", label |-> name.label, mark |-> name.mark]
JobLine(t) == [type |-> "job", text |-> t]
Entry(t, name) == [type |-> "job", text |-> t, label |-> name.label, mark |-> name.mark]

FileLine == {[type |-> "other"]} \cup {JobLine(t) : t \in Texts} \cup {LabelLine(m) : m \in Name}

IsJob(lines, i) == i \in DOMAIN lines /\ lines[i].type = "job"
IsLabel(lines, i) == i \in DOMAIN lines /\ lines[i].type = "label"

\* A job takes the name of the label line directly above it.
parseCrontab(file) ==
  [i \in DOMAIN file |->
    IF ~IsJob(file, i) THEN file[i]
    ELSE Entry(file[i].text, IF IsLabel(file, i - 1) THEN NameOf(file[i - 1]) ELSE NoName)]

\* The jobs among parsed lines, each with its name.
Listing(lines) ==
  FlattenSeq([i \in DOMAIN lines |->
    IF lines[i].type = "job"
    THEN <<[text |-> lines[i].text, label |-> lines[i].label, mark |-> lines[i].mark]>>
    ELSE <<>>])

JobsOf(file) == Listing(parseCrontab(file))

\* Mutant: a label line is only looked at when its own job has changed.
KeepsLabel(lines, i) == TRUE

\* A label line goes when the job below it has another name by now, or none.
LabelStands(lines, i) ==
  ~IsJob(lines, i + 1) \/ NameOf(lines[i]) = NameOf(lines[i + 1])

NeedsLabel(lines, i) ==
  /\ NameOf(lines[i]) # NoName
  /\ ~(IsLabel(lines, i - 1) /\ LabelStands(lines, i - 1))

Rendered(lines, i) ==
  IF IsJob(lines, i)
  THEN (IF NeedsLabel(lines, i) THEN <<LabelLine(NameOf(lines[i]))>> ELSE <<>>)
         \o <<JobLine(lines[i].text)>>
  ELSE IF IsLabel(lines, i) /\ ~LabelStands(lines, i) THEN <<>>
  ELSE <<lines[i]>>

serializeCrontab(lines) == FlattenSeq([i \in DOMAIN lines |-> Rendered(lines, i)])

updateCronEntry(lines, i, entry) == [lines EXCEPT ![i] = entry]

insertCronEntry(lines, entry, i) == InsertAt(lines, i + 1, entry)

\* Together with its label line.
removeCronEntry(lines, i) ==
  SubSeq(lines, 1, IF IsLabel(lines, i - 1) THEN i - 2 ELSE i - 1)
    \o SubSeq(lines, i + 1, Len(lines))

--------------------------------------------------------------------------------
(* The line diff that is shown before a crontab is saved *)

\* Mutant: the common suffix may reach into the common prefix.
SuffixAnywhere(a, b, pre) == 0 .. (IF Len(a) < Len(b) THEN Len(a) ELSE Len(b))

SuffixRoom(a, b, pre) == 0 .. ((IF Len(a) < Len(b) THEN Len(a) ELSE Len(b)) - pre)

Largest(S) == CHOOSE n \in S : \A k \in S : k <= n

CommonPrefix(a, b) ==
  Largest({n \in SuffixRoom(a, b, 0) : SubSeq(a, 1, n) = SubSeq(b, 1, n)})
CommonSuffix(a, b, pre) ==
  Largest({n \in SuffixRoom(a, b, pre) :
             SubSeq(a, Len(a) - n + 1, Len(a)) = SubSeq(b, Len(b) - n + 1, Len(b))})

Ops(op, lines) == [i \in DOMAIN lines |-> [op |-> op, line |-> lines[i]]]

\* The longest common subsequence by its table, and the walk along it.
MiddleOps(a, b) ==
  LET lcs[i \in 1 .. Len(a) + 1, j \in 1 .. Len(b) + 1] ==
        IF i > Len(a) \/ j > Len(b) THEN 0
        ELSE IF a[i] = b[j] THEN lcs[i + 1, j + 1] + 1
        ELSE Largest({lcs[i + 1, j], lcs[i, j + 1]})
      walk[i \in 1 .. Len(a) + 1, j \in 1 .. Len(b) + 1] ==
        IF i > Len(a) THEN Ops("add", SubSeq(b, j, Len(b)))
        ELSE IF j > Len(b) THEN Ops("del", SubSeq(a, i, Len(a)))
        ELSE IF a[i] = b[j] THEN Ops("same", <<a[i]>>) \o walk[i + 1, j + 1]
        ELSE IF lcs[i, j + 1] >= lcs[i + 1, j] THEN Ops("add", <<b[j]>>) \o walk[i, j + 1]
        ELSE Ops("del", <<a[i]>>) \o walk[i + 1, j]
  IN walk[1, 1]

diffCronLines(a, b) ==
  LET pre == CommonPrefix(a, b)
      suf == CommonSuffix(a, b, pre)
  IN Ops("same", SubSeq(a, 1, pre))
       \o MiddleOps(SubSeq(a, pre + 1, Len(a) - suf), SubSeq(b, pre + 1, Len(b) - suf))
       \o Ops("same", SubSeq(a, Len(a) - suf + 1, Len(a)))

--------------------------------------------------------------------------------
(* One edit after another, each of the file as it was parsed anew *)

Parsed == parseCrontab(crontab)
Write(lines) ==
  /\ crontab' = serializeCrontab(lines)
  /\ Len(crontab') <= MaxLines

\* The dialog, and the switch that disables a job.
EditJob(i) ==
  \E t \in Texts, l \in Labels \cup {Unnamed} :
    Write(updateCronEntry(Parsed, i, [Parsed[i] EXCEPT !.text = t, !.label = l]))

\* Monitoring gives a job a mark, and a label if it had none.
MonitorJob(i) ==
  \E t \in Texts, m \in Marks, l \in Labels \cup {Parsed[i].label} :
    /\ Parsed[i].label # Unnamed => l = Parsed[i].label
    /\ Write(updateCronEntry(Parsed, i, Entry(t, [label |-> l, mark |-> m])))

\* The label goes if it came with the monitor.
UnmonitorJob(i) ==
  \E t \in Texts, l \in {Unnamed, Parsed[i].label} :
    Write(updateCronEntry(Parsed, i, Entry(t, [label |-> l, mark |-> Unnamed])))

RemoveJob(i) == Write(removeCronEntry(Parsed, i))

\* A new job goes to the end of the file, a copy below its original.
InsertJob ==
  \E t \in Texts, l \in Labels \cup {Unnamed},
     i \in {Len(crontab)} \cup {k \in DOMAIN crontab : IsJob(crontab, k)} :
    Write(insertCronEntry(Parsed, Entry(t, [label |-> l, mark |-> Unnamed]), i))

CrontabNext ==
  \/ InsertJob
  \/ \E i \in DOMAIN crontab :
       /\ IsJob(crontab, i)
       /\ EditJob(i) \/ MonitorJob(i) \/ UnmonitorJob(i) \/ RemoveJob(i)

\* Two label lines in a row: people may have left them, the editor never does.
Stacked(file) == \E i \in DOMAIN file : IsLabel(file, i) /\ IsLabel(file, i + 1)

CrontabInit ==
  /\ crontab \in BoundedSeq(FileLine, MaxLines)
  /\ ~Stacked(crontab)

CrontabSpec == CrontabInit /\ [][CrontabNext]_crontab

--------------------------------------------------------------------------------
(* Properties *)

\* However the lines lie, an edit is of one job: read back, every other job has the
\* place, the label and the heartbeat it had ("Inverse of parseCrontab").
Listed == INSTANCE JobList WITH jobs <- JobsOf(crontab)
JobListSpec == Listed!Spec

\* The diff shown for an edit is one of exactly these two files: with the additions
\* struck out it is the old one, with the deletions struck out the new one, and it
\* keeps as many lines as any diff could.
Lines(ops, kinds) ==
  LET kept == SelectSeq(ops, LAMBDA o : o.op \in kinds) IN [i \in DOMAIN kept |-> kept[i].line]
Subsequences(s) ==
  {LET picked == SelectSeq([i \in DOMAIN s |-> i], LAMBDA i : i \in S)
   IN [n \in DOMAIN picked |-> s[picked[n]]] : S \in SUBSET DOMAIN s}
DiffIsExact ==
  [][crontab' # crontab =>
     LET ops == diffCronLines(crontab, crontab') IN
     /\ Lines(ops, {"same", "del"}) = crontab
     /\ Lines(ops, {"same", "add"}) = crontab'
     /\ \A s \in Subsequences(crontab) \cap Subsequences(crontab') :
          Len(s) <= Len(Lines(ops, {"same"}))]_crontab
==================================================================================
