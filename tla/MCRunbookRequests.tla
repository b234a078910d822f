-------------------------- MODULE MCRunbookRequests --------------------------
(* Instances of RunbookRequests for TLC. *)
EXTENDS RunbookRequests, TLC

CONSTANTS admin1, admin2, editor

\* The two admins are interchangeable.
AdminSymmetry == Permutations({admin1, admin2})
==============================================================================
