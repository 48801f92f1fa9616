--------------------------- MODULE MCAgentSession ---------------------------
(* AgentSession for TLC: the events are interchangeable, and a run with a  *)
(* stop or a reset in it leaves out the deletes and the faults.            *)
EXTENDS AgentSession, TLC

Interchangeable == Permutations(Causes)
StopsComeAlone  == stops > 0 => deletes + faults = 0
=============================================================================
