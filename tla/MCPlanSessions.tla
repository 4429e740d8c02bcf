--------------------------- MODULE MCPlanSessions ---------------------------
(***************************************************************************)
(* A plan-first task of a server and two commands that execute plans.      *)
(***************************************************************************)
EXTENDS PlanSessions

CONSTANTS p1, c1, c2
=============================================================================
