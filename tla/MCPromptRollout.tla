-------------------------- MODULE MCPromptRollout --------------------------
(* Instances of PromptRollout for TLC. *)
EXTENDS PromptRollout, TLC

CONSTANTS followup, outreach, crm, a1, b1, t1, t2, l1, none

FollowupOnly == [r \in Runs |-> followup]

\* All went well, or nothing did.
ExtremeOutcomes == {[k \in Metrics \ {"rejections"} |-> n] : n \in {0, 1}}

\* In percent, scaled up like the exposures are scaled down: a difference of rates
\* can be below, at and above its threshold.
Thresholds == [k \in Metrics |-> IF k = "meetings" THEN 25 ELSE 50]

InterchangeableThreads == Permutations(Threads)

=============================================================================
