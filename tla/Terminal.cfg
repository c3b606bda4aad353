CONSTANTS
  VGA_WIDTH = 3
  VGA_HEIGHT = 2
  Word = 10
  SPACE = SPACE
  NEWLINE = NEWLINE
  BACKSPACE = BACKSPACE
  Chars = {SPACE, a}
  MaxText = 10
SPECIFICATION Spec
INVARIANTS TypeOK ScreenShowsText
PROPERTY StrayOnlyBelow
CHECK_DEADLOCK FALSE
