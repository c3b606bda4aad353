CONSTANTS
  Blocks = 3
  BlockSize = 4
  Word = 32
  Sizes <- AllSizes
  Procs = {p1, p2}
  Slots = 2
  LowEntries = 2
SPECIFICATION PSpec
CONSTRAINT UpToMisfreed
SYMMETRY AnyProcess
INVARIANTS PTypeOK RecordedOnce
PROPERTIES MemoryIsolated HeapUsedProperly LostOnlyByFullTable
CHECK_DEADLOCK FALSE
