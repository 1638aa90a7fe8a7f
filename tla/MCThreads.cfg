\* Two threads decide about one run at the same time.  No symmetry: the run
\* checks a liveness property.
SPECIFICATION FairSpec
CONSTANTS
  d1 = d1 d2 = d2 r1 = r1 r2 = r2 r3 = r3 w1 = w1 w2 = w2
  e1 = e1 e2 = e2 e3 = e3 e4 = e4
  written = written revised = revised blocked = blocked none = none
  None = none
  Deals = {d1}
  Runs = {r1}
  DealOf <- OneDeal
  Workers = {w1, w2}
  EnvelopeIds = {e1, e2, e3}
  NSteps = 2
  PreAgents = 0
  Bodies = {written, revised}
  Flagged = {}
  Generated = {written}
  EditTexts = {revised}
  Scopes = {0}
  Workflows = {"outreach", "crm_sync"}
  Faults = {}
  MayRestart = FALSE
  SendCap = 1
INVARIANT OutcomeHasExecution
INVARIANT CompletedRunHasOutcome
INVARIANT SendsAreRecorded
PROPERTY ApprovalCompletesRun
\* A behaviour may stop: requests are never forced, and runs are finite.
CHECK_DEADLOCK FALSE
