--------------------------------- MODULE JobList ---------------------------------
(***************************************************************************)
(* What editing a crontab through RackMap promises: it is a list of jobs,  *)
(* each with the text of its line, a label and the mark of the heartbeat   *)
(* that watches it; an edit is of one job, and every other one keeps its   *)
(* place, its label and its heartbeat.                                     *)
(***************************************************************************)
EXTENDS Integers, Sequences

CONSTANTS Texts, Labels, Marks, Unnamed

VARIABLE jobs

Job == [text : Texts, label : Labels \cup {Unnamed}, mark : Marks \cup {Unnamed}]

Init == jobs \in Seq(Job)

\* The dialog and the switch leave the heartbeat alone.
Edit(n) ==
  \E t \in Texts, l \in Labels \cup {Unnamed} :
    jobs' = [jobs EXCEPT ![n].text = t, ![n].label = l]

\* Monitoring, taking the monitor off, rotating its token.
Link(n) == \E j \in Job : jobs' = [jobs EXCEPT ![n] = j]

Remove(n) == jobs' = SubSeq(jobs, 1, n - 1) \o SubSeq(jobs, n + 1, Len(jobs))

\* A new job, or a copy, is not watched.
Insert ==
  /\ Len(jobs') = Len(jobs) + 1
  /\ \E n \in 0 .. Len(jobs), j \in Job :
       /\ j.mark = Unnamed
       /\ jobs' = SubSeq(jobs, 1, n) \o <<j>> \o SubSeq(jobs, n + 1, Len(jobs))

Next == Insert \/ \E n \in DOMAIN jobs : Edit(n) \/ Link(n) \/ Remove(n)

Spec == Init /\ [][Next]_jobs
==================================================================================
