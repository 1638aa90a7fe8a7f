SPECIFICATION Spec
CONSTANTS
  None = None
  Deals = {d1}
  Threads = {t1}
  Keys = {k1, k2, k3}
  Stages = {"proposal", "won", "lost"}
  Operations = {"fetch", "stage", "note"}
  Expected = {None, 1, 2, 3}
SYMMETRY KeySymmetry
INVARIANTS
  TypeOK
  EffectOncePerKey
  RefusedIsNotWritten
  AnsweredIsWritten
  VersionCountsWrites
  StagesFollowTimeline
PROPERTIES
  ExpectedVersionHolds
  ImplementsRecord
CHECK_DEADLOCK FALSE
