----------------------- MODULE MCPendingMutationStore -----------------------
(***************************************************************************)
(* PendingMutationStore with two students, two proposals, two requests at  *)
(* a time and a clock that goes past the TTL.                              *)
(***************************************************************************)
EXTENDS PendingMutationStore, TLC

CONSTANTS s1, s2, i1, i2, r1, r2

\* Requests are interchangeable.
Slots == Permutations({r1, r2})
=============================================================================
