CONSTANTS
  Size = 3
  Wrap = 6
  Keys = {a, b}
  NUL = NUL
SPECIFICATION Spec
INVARIANTS TypeOK NoGapUnlessMisused
PROPERTY KeyQueueImplemented
