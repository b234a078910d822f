---------------------------- MODULE MCAlertDispatch ----------------------------
(* Two replicas and the deliveries of one incident, for TLC.               *)
EXTENDS AlertDispatch, TLC

CONSTANTS r1, r2, tester

Replicas == Permutations({r1, r2})
================================================================================
