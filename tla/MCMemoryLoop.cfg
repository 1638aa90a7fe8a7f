\* Two runs of one persona, after histories of earlier ones.
SPECIFICATION Spec
CONSTANTS
  r1 = r1 r2 = r2 t1 = t1 t2 = t2 p = p q = q
  None = None
  Personas = {p, q}
  Runs = {r1, r2}
  PersonaOf <- OnePersona
  BaselineOf <- Baselines
  Stages = {5}
  History <- Histories
  Modelled = {r2}
  ModelDecisions <- Decisions
  ModelOutcomes <- Outcomes
  Threads = {t1, t2}
  LastDay = 20
  MaxResumed = 2
SYMMETRY InterchangeableThreads
INVARIANT TypeOK
INVARIANT StricterStageUsesLess
INVARIANT EvidenceWasEarned
INVARIANT LiftIsEarned
INVARIANT RoiEvidenceNeedsPerson
INVARIANT CompletedRunTaught
