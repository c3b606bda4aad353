CONSTANTS
  SectorSize = 2
  SectorsPerCluster = 2
  EndingSector = 3
  Clusters = {1, 2, 3}
  First = 2
  REFUSED = REFUSED
  Requests <- SmallReads
SPECIFICATION Spec
INVARIANTS BufferIsFilled BytesFromChain
PROPERTY ReadEnds
CHECK_DEADLOCK FALSE
