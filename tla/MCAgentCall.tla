---------------------------- MODULE MCAgentCall ----------------------------
(* Instances of AgentCall for TLC. *)
EXTENDS AgentCall, TLC

CONSTANTS t1, t2, r1, r2, evaluator

\* Two runs at the same step.
TwoRuns == (t1 :> r1) @@ (t2 :> r2)
SameAgent == [t \in Threads |-> evaluator]

=============================================================================
