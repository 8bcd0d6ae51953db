------------------------------- MODULE MCPlan -------------------------------
(***************************************************************************)
(* PlanTotals for TLC, with three versions of kopsrox.ini.                 *)
(***************************************************************************)
EXTENDS PlanTotals

Ini(m, w) == [masters |-> m, workers |-> w, opts |-> "a"]
Scaling   == {Ini(1, 1), Ini(1, 2), Ini(3, 1)}
=============================================================================
