------------------------------ MODULE Terminal ------------------------------
(***************************************************************************)
(* The text screen (kernel.c).  print and the putchar system call send     *)
(* characters to terminal_writechar one by one; a step is one character.   *)
(* The screen does not scroll, and its counters are 16 bits wide.          *)
(***************************************************************************)
EXTENDS Integers, Sequences, FiniteSetsExt

CONSTANTS
  VGA_WIDTH, VGA_HEIGHT,
  Word,                \* 2^16, the modulus of terminal_row and terminal_col
  Chars,               \* the characters that are shown, SPACE among them
  SPACE, NEWLINE, BACKSPACE,
  MaxText              \* bound: characters sent in one behaviour

ASSUME TerminalAssumption ==
  /\ {VGA_WIDTH, VGA_HEIGHT, Word, MaxText} \subseteq Nat \ {0}
  /\ VGA_WIDTH > 1
  /\ Word > VGA_WIDTH * (VGA_HEIGHT + 1)
  /\ SPACE \in Chars
  /\ {NEWLINE, BACKSPACE} \cap Chars = {}
  /\ NEWLINE # BACKSPACE

VARIABLES
  terminal_row, terminal_col,
  video_mem,   \* the VGA_HEIGHT rows that terminal_initialize clears
  stray,       \* a character was written outside of them
  sent,        \* how many characters were sent
  text,        \* history: the text the user expects to read
  astray       \* history: a backspace went over the start of a line

cursor == <<terminal_row, terminal_col>>
vars == <<cursor, video_mem, stray, sent, text, astray>>

Cells == 0 .. VGA_WIDTH * VGA_HEIGHT - 1

(* terminal_initialize *)
Init ==
  /\ terminal_row = 0 /\ terminal_col = 0
  /\ video_mem = [i \in Cells |-> SPACE]
  /\ stray = FALSE
  /\ sent = 0 /\ text = <<>> /\ astray = FALSE

-----------------------------------------------------------------------------
terminal_putchar(x, y, c) ==
  LET i == y * VGA_WIDTH + x IN
  /\ video_mem' = IF i \in Cells THEN [video_mem EXCEPT ![i] = c] ELSE video_mem
  /\ stray' = (stray \/ i \notin Cells)

(* Mutant: the column wraps one character late. *)
WrapsLate(x, y) ==
  IF (x + 1) % Word > VGA_WIDTH
  THEN [x |-> 0, y |-> (y + 1) % Word] ELSE [x |-> (x + 1) % Word, y |-> y]

(* Where the cursor goes when a character was written at (x, y).           *)
Advanced(x, y) ==
  IF (x + 1) % Word >= VGA_WIDTH
  THEN [x |-> 0, y |-> (y + 1) % Word] ELSE [x |-> (x + 1) % Word, y |-> y]

(* The text is followed until a backspace goes over the start of a line.   *)
Read(t) == text' = IF astray THEN text ELSE t

newline ==
  /\ terminal_row' = (terminal_row + 1) % Word
  /\ terminal_col' = 0
  /\ Read(Append(text, NEWLINE))
  /\ UNCHANGED <<video_mem, stray, astray>>

writechar(c) ==
  /\ terminal_putchar(terminal_col, terminal_row, c)
  /\ terminal_row' = Advanced(terminal_col, terminal_row).y
  /\ terminal_col' = Advanced(terminal_col, terminal_row).x
  /\ Read(Append(text, c))
  /\ UNCHANGED astray

(* At the start of a line the cursor goes behind the end of the line before*)
(* and nothing is erased.                                                  *)
backspace_over_line ==
  /\ terminal_col = 0 /\ terminal_row > 0
  /\ terminal_row' = terminal_row - 1
  /\ terminal_col' = VGA_WIDTH
  /\ astray' = TRUE
  /\ UNCHANGED <<video_mem, stray, text>>

(* Mutant: the column is an int, not a uint16_t. *)
StepBackSigned(x) == x - 1

(* Mutant: the column is taken back once only. *)
StepBackOnce(x) == x % Word

(* --terminal_col *)
StepBack(x) == (x + Word - 1) % Word

(* The blank is written by terminal_writechar, which moves the cursor on   *)
(* and may go to the next line, before the column is taken back again.     *)
backspace_in_line ==
  /\ terminal_col > 0
  /\ terminal_putchar(terminal_col - 1, terminal_row, SPACE)
  /\ terminal_row' = Advanced(terminal_col - 1, terminal_row).y
  /\ terminal_col' = StepBack(Advanced(terminal_col - 1, terminal_row).x)
  /\ Read(SubSeq(text, 1, Len(text) - 1))
  /\ UNCHANGED astray

(* In the first cell of the screen a backspace does nothing.               *)
terminal_backspace ==
  \/ backspace_over_line
  \/ backspace_in_line
  \/ terminal_col = 0 /\ terminal_row = 0
     /\ UNCHANGED <<cursor, video_mem, stray, text, astray>>

terminal_writechar(c) ==
  /\ sent < MaxText
  /\ sent' = sent + 1
  /\ \/ c = NEWLINE /\ newline
     \/ c = BACKSPACE /\ terminal_backspace
     \/ c \in Chars /\ writechar(c)

Next == \E c \in Chars \cup {NEWLINE, BACKSPACE} : terminal_writechar(c)

Spec == Init /\ [][Next]_vars

-----------------------------------------------------------------------------
(***************************************************************************)
(* The cursor is in a line, unless a backspace went over the start of one: *)
(* then it may be behind its end, and a second backspace leaves it at the  *)
(* end of the counter's range.                                             *)
(***************************************************************************)
TypeOK ==
  /\ terminal_row \in 0 .. Word - 1
  /\ terminal_col \in 0 .. VGA_WIDTH \cup {Word - 1}
  /\ terminal_col >= VGA_WIDTH => astray
  /\ video_mem \in [Cells -> Chars]
  /\ {stray, astray} \subseteq BOOLEAN
  /\ sent \in 0 .. MaxText
  /\ text \in Seq(Chars \cup {NEWLINE})

(* The row and column the first k characters of a text take the cursor to: *)
(* every line of it takes as many rows as it fills, and one more.          *)
Breaks(t, k) == {i \in 1 .. k : t[i] = NEWLINE}
Since(t, k) == k - Max(Breaks(t, k) \cup {0})
Column(t, k) == Since(t, k) % VGA_WIDTH
Row(t, k) ==
  LET above[i \in 0 .. k] ==
        IF i = 0 THEN 0
        ELSE IF t[i] = NEWLINE
             THEN above[i - 1] + (Since(t, i - 1) \div VGA_WIDTH) + 1
             ELSE above[i - 1]
  IN above[k] + (Since(t, k) \div VGA_WIDTH)
CellOf(t, k) == Row(t, k - 1) * VGA_WIDTH + Column(t, k - 1)

(***************************************************************************)
(* What was sent, less what was erased, is what the screen shows, each line*)
(* broken at the width of the screen, and the cursor is behind it: through *)
(* any mixture of characters, newlines and backspaces, until a backspace   *)
(* goes over the start of a line or the row wraps at 2^16.                 *)
(***************************************************************************)
Shown(t, i) == {k \in 1 .. Len(t) : t[k] # NEWLINE /\ CellOf(t, k) = i}

ScreenShowsText ==
  ~ astray /\ Row(text, Len(text)) < Word =>
    /\ terminal_row = Row(text, Len(text)) /\ terminal_col = Column(text, Len(text))
    /\ \A i \in Cells :
         video_mem[i] = IF Shown(text, i) = {} THEN SPACE ELSE text[Max(Shown(text, i))]

(***************************************************************************)
(* A character is only written outside of the screen in the rows below it, *)
(* which the text reaches because nothing scrolls, or when a backspace went*)
(* over the start of a line before.                                        *)
(***************************************************************************)
StrayOnlyBelow ==
  [][stray' /\ ~ stray => terminal_row >= VGA_HEIGHT \/ astray]_vars
=============================================================================
