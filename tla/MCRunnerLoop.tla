---------------------------- MODULE MCRunnerLoop ----------------------------
(* Two runners for TLC: one runs a job at a time, the other two.              *)
EXTENDS RunnerLoop

CONSTANTS narrow, wide

SlotsOfEach == [r \in Runner |-> IF r = narrow THEN 1 ELSE 2]
=============================================================================
