\* One step is rejected, another approved.
SPECIFICATION Spec
CONSTANTS
  d1 = d1 d2 = d2 r1 = r1 r2 = r2 r3 = r3 w1 = w1 w2 = w2
  e1 = e1 e2 = e2 e3 = e3 e4 = e4
  written = written revised = revised blocked = blocked none = none
  None = none
  Deals = {d1}
  Runs = {r1}
  DealOf <- OneDeal
  Workers = {w1}
  EnvelopeIds = {e1, e2}
  NSteps = 2
  PreAgents = 0
  Bodies = {written, revised}
  Flagged = {}
  Generated = {written}
  EditTexts = {}
  Scopes = {0, 1, 2}
  Workflows = {"outreach"}
  Faults = {}
  MayRestart = FALSE
  SendCap = 2
SYMMETRY Interchangeable
INVARIANT RejectedStepIsNotSent
\* A behaviour may stop: requests are never forced, and runs are finite.
CHECK_DEADLOCK FALSE
