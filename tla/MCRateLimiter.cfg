\* Two replicas, one tick apart, and pipelines one tick late.
CONSTANTS
  r1 = r1  r2 = r2  r3 = r3  r4 = r4  p1 = p1  p2 = p2
  Requests = {r1, r2, r3, r4}
  Replicas = {p1, p2}
  Ahead <- Skewed
  Limit = 2
  Window = 4
  MaxDelay = 1
  MaxTime = 8
SPECIFICATION Spec
SYMMETRY RequestSymmetry
INVARIANTS
  TypeOK
  AtMostLimit
  RefusedHadAttempts
CHECK_DEADLOCK FALSE
