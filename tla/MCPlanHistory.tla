---------------------------- MODULE MCPlanHistory ----------------------------
(***************************************************************************)
(* PlanHistory with two request slots that overlap, fail and die.          *)
(***************************************************************************)
EXTENDS PlanHistory, TLC

CONSTANTS d1, d2, d3, p1, p2, r1, r2

\* d2 and d3 differ only in fields the fingerprint leaves out.
FpOf == [d \in Dprs |-> IF d = d3 THEN d2 ELSE d]

\* The later reports show the course of the first edit as completed.
CompletedLater == [d \in Dprs |-> IF d = d1 THEN {} ELSE {p1}]

\* The slots are interchangeable: no action tells one from another.
Alike == Permutations(Requests)
=============================================================================
