----------------------------- MODULE MCHeartbeats -----------------------------
(* One job, sweepers and a person, for TLC.                                *)
EXTENDS Heartbeats, TLC

CONSTANTS j1, j2, s1, s2, e1

Symmetric == Permutations({s1, s2}) \cup Permutations({j1, j2})
===============================================================================
