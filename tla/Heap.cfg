CONSTANTS
  Blocks = 7
  BlockSize = 4
  Word = 32
  Sizes <- MixedSizes
SPECIFICATION LoopSpec
INVARIANTS TypeOK Disjoint TableMatchesGrants RefusalIsHonest
PROPERTIES AllocatorImplemented LoopsImplementHeap
