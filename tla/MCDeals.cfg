\* Two runs of one deal and one of another, one request at a time, with crashes
\* and failing agents.
SPECIFICATION Spec
CONSTANTS
  d1 = d1 d2 = d2 r1 = r1 r2 = r2 r3 = r3 w1 = w1 w2 = w2
  e1 = e1 e2 = e2 e3 = e3 e4 = e4
  written = written revised = revised blocked = blocked none = none
  None = none
  Deals = {d1, d2}
  Runs = {r1, r2, r3}
  DealOf <- TwoDeals
  Workers = {w1}
  EnvelopeIds = {e1, e2, e3}
  NSteps = 1
  PreAgents = 0
  Bodies = {written, revised}
  Flagged = {}
  Generated = {written}
  EditTexts = {}
  Scopes = {0}
  Workflows = {"outreach"}
  Faults = {"agent"}
  MayRestart = TRUE
  SendCap = 1
SYMMETRY InterchangeableRuns
INVARIANT EffectsNeedGrant
INVARIANT FiledOnOwnDeal
\* A behaviour may stop: requests are never forced, and runs are finite.
CHECK_DEADLOCK FALSE
