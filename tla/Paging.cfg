CONSTANTS
  PageSize = 4
  EntriesPerTable = 13
  TablesPerDirectory = 2
  FirstHeapPage = 6
  LastHeapPage = 23
  ProgramAddress = 16
  StackEnd = 4
  StackSize = 8
  Tasks = {t1, t2}
  NULL = NULL
  Programs <- FourPrograms
  MaxKept = 2
SPECIFICATION Spec
INVARIANTS TypeOK PagesUsedOnce AddressSpaceAsLinked WritesStayOwn
SYMMETRY TaskSymmetry
CHECK_DEADLOCK FALSE
