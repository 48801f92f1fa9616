---------------------------- MODULE MCPlanEngine ----------------------------
(* PlanEngine for TLC: an epic with three children, a and b with edges     *)
(* that close a cycle when both are added, and c whose merge can start a   *)
(* pass; a is merged and closed at the same time.                          *)
EXTENDS PlanEngine, TLC

CONSTANTS epic, a, b, c

Tree  == (epic :> NoIssue) @@ [i \in {a, b, c} |-> epic]
Wants == {<<a, "merged">>, <<a, "closed">>, <<c, "merged">>, <<epic, "closed">>}
Cycle == {<<a, b>>, <<b, a>>}
=============================================================================
