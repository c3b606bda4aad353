CONSTANTS
  MaxDescriptors = 3
  Privates = {d1, d2, d3, d4}
  f1 = f1
  missing = missing
  Root <- OneFile
  Paths <- ClientPaths
  NULL = NULL
SPECIFICATION FilesSpec
INVARIANTS FilesTypeOK PrivatesExclusive HolderReachesFile
PROPERTY LostOnlyByOpen
SYMMETRY AddressSymmetry
