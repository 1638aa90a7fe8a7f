\* The same agent's step in two runs at the same time.  No symmetry: the run
\* checks a liveness property.
SPECIFICATION FairSpec
CONSTANTS
  t1 = t1 t2 = t2 r1 = r1 r2 = r2 evaluator = evaluator
  None = None
  Threads = {t1, t2}
  Statuses = {401, 429}
  MaxRequests = 2
  RunOf <- TwoRuns
  AgentOf <- SameAgent
  StepRetries = 1
  Templates = {"common", "missing"}
  Defects = {"contract", "lint"}
  Unlucky = {t1}
INVARIANT TypeOK
INVARIANT RowTellsItsCall
INVARIANT CountersCoverRows
INVARIANT StepIsBounded
PROPERTY ImplementsModelAnswer
PROPERTY StepEnds
\* A behaviour may stop: a step is never forced to begin.
CHECK_DEADLOCK FALSE
