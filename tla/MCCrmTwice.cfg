SPECIFICATION Spec
CONSTANTS
  None = None
  Deals = {d1}
  Threads = {t1, t2}
  Keys = {k1, k2}
  Stages = {"proposal", "won"}
  Operations = {"note"}
  Expected = {None}
INVARIANT EffectOncePerKey
CHECK_DEADLOCK FALSE
