---------------------------- MODULE MC_PlanOutput ----------------------------
(* Three invocations race for one name.                                      *)
EXTENDS PlanOutput
CONSTANTS p1, p2, p3
MCProc == {p1, p2, p3}
=============================================================================
