---------------------------- MODULE MCAccessGrants ----------------------------
(* One grant, two people (one of them its creator) and up to two sweeping  *)
(* replicas, for TLC.                                                      *)
EXTENDS AccessGrants, TLC

CONSTANTS alice, bob, s1, s2

Sweepers == Permutations({s1, s2})
===============================================================================
