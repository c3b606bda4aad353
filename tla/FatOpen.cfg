CONSTANTS
  Chars <- CharsUsed
  MaxPath = 7
  Digits = {"0", "1"}
  SLASH = "/"
  COLON = ":"
  DOT = "."
  DELETED = "E5"
  Drive = "0"
  RootEntries = 3
  NameWidth = 2
  ExtWidth = 1
  PLAIN = PLAIN
  READ_ONLY = READ_ONLY
  SUBDIRECTORY = SUBDIRECTORY
  NULL = NULL
  Items <- EightItems
  LowerOf <- LowerLetters
  Opens <- OpensTried
SPECIFICATION Spec
INVARIANTS ParsedAsSplit FindsNamedFile LosesPathAndNamesakes
PROPERTY OpenEnds
CHECK_DEADLOCK FALSE
