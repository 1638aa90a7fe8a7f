--------------------------- MODULE MCOrchestrator ---------------------------
(* Instances of Orchestrator for TLC. *)
EXTENDS Orchestrator, TLC

CONSTANTS d1, d2, r1, r2, r3, w1, w2, e1, e2, e3, e4, written, revised, blocked, none

OneDeal == [r \in Runs |-> d1]
TwoDeals == [r \in Runs |-> IF r = r3 THEN d2 ELSE d1]

Interchangeable == Permutations(EnvelopeIds) \cup Permutations(Workers)

InterchangeableRuns == Interchangeable \cup Permutations({r1, r2})

=============================================================================
