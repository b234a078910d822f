-------------------------- MODULE MCRunbookExecutor --------------------------
(* Instances of RunbookExecutor for TLC. *)
EXTENDS RunbookExecutor, TLC

CONSTANTS h1, h2, h3, w1, w2

\* Hosts are interchangeable.
HostSymmetry == Permutations(Host)

\* Hosts and workers are interchangeable (only where nobody is a survivor).
FullSymmetry == Permutations(Host) \cup Permutations(Worker)
==============================================================================
