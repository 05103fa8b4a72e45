--------------------------- MODULE MCPlanExecution ---------------------------
(***************************************************************************)
(* Constants for TLC.  One plan of two steps and two calls executing it:   *)
(* the second step is what a cancel must prevent, the second call is the   *)
(* double run.  One cancel and one decision at a time, again and again.    *)
(***************************************************************************)
EXTENDS PlanExecution

CONSTANTS r1, r2, p1, c1, d1

OnePlan == {p1}
TwoRuns == {r1, r2}
OneCancel == {c1}
OneDecision == {d1}

=============================================================================
