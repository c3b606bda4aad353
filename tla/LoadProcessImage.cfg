CONSTANTS
  Tasks = {t1, t2, t3}
  NULL = NULL
  MaxProcesses = 2
  MaxDescriptors = 2
  Privates = {d1, d2}
  elf = elf
  odd = odd
  raw = raw
  broken = broken
  missing = missing
  Root <- Files4
  Paths <- RootPaths
  Content <- ContentOf
SPECIFICATION LSpec
INVARIANT LoadedProcessHasImage
CHECK_DEADLOCK FALSE
