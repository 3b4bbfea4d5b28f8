--------------------------- MODULE MCPlanLifecycle ---------------------------
(***************************************************************************)
(* PlanLifecycle on small instances: two request slots (or one), one to    *)
(* three proposals, and up to three reports.                               *)
(***************************************************************************)
EXTENDS PlanLifecycle

CONSTANTS d1, d2, d3, p1, p2, p3, r1, r2

\* d2 and d3 differ only in fields the fingerprint leaves out, such as
\* requirementGroups.
FpOf == [d \in Dprs |-> IF d = d3 THEN d2 ELSE d]

\* The later reports show the course of the first edit as completed.
CompletedLater == [d \in Dprs |-> IF d = d1 THEN {} ELSE {p1}]
NothingCompleted == [d \in Dprs |-> {}]
=============================================================================
