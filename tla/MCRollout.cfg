\* One workflow and two threads, one run in the canary bucket and one
\* outside; the thresholds are scaled down (and one vote is a quorum), so that
\* advance, rollback, promotion and rollback again are within the bounds.
SPECIFICATION Spec
CONSTANTS
  followup = followup outreach = outreach crm = crm a1 = a1 b1 = b1
  t1 = t1 t2 = t2 l1 = l1 none = none
  None = none
  WorkflowIds = {followup}
  DefaultWorkflow = followup
  CrmWorkflow = followup
  Runs = {a1, b1}
  WorkflowOf <- FollowupOnly
  CanaryRuns = {b1}
  Threads = {t1, t2}
  Releases = {l1}
  ReleaseInputs = {"active"}
  Outcomes <- ExtremeOutcomes
  CanaryAfter = 2
  JudgeAfter = 2
  PromoteAfter = 3
  ApprovalsNeeded = 1
  Degradation <- Thresholds
  MaxExposures = 4
  MaxVotes = 1
SYMMETRY InterchangeableThreads
INVARIANT TypeOK
INVARIANT ChangelogTellsPhase
INVARIANT OneCanary
INVARIANT CandidateNeedsCanary
INVARIANT FullWasApproved
INVARIANT RatesAreFractions
\* The counters are bounded, so the model stops.
CHECK_DEADLOCK FALSE
