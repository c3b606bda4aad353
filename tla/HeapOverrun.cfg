CONSTANTS
  Blocks = 4
  BlockSize = 4
  Word = 32
  Sizes <- MixedSizes
SPECIFICATION Spec
INVARIANT GrantsInsidePool
