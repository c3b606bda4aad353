CONSTANTS
  p1 = p1
  p2 = p2
  LoadOrder <- TwoLoads
  Keys = {a, b}
  Contexts = {c0, c1, c2}
  Start = c0
  KERNEL = KERNEL
  NULL = NULL
  MaxKeys = 2
SPECIFICATION Spec
INVARIANTS TypeOK AwayOnlyByInterrupt FirstRunsLastTypes
CHECK_DEADLOCK FALSE
