--------------------------- MODULE TerminalProofs ---------------------------
(***************************************************************************)
(* Where the cursor and the characters go, for a screen of any width and   *)
(* height, and any text.                                                   *)
(***************************************************************************)
EXTENDS Terminal, TLAPS, WellFoundedInduction

(* A counter counts on, and starts again from 0 at its end. *)
LEMMA CounterUp ==
  ASSUME NEW x \in 0 .. Word - 1
  PROVE  (x + 1) % Word = IF x + 1 = Word THEN 0 ELSE x + 1
<1>1. Word \in Nat \ {0}
  BY TerminalAssumption
<1>. QED BY <1>1

(* It counts back from 0 to the end of its range. *)
LEMMA CounterDown ==
  ASSUME NEW x \in 0 .. Word - 1
  PROVE  StepBack(x) = IF x = 0 THEN Word - 1 ELSE x - 1
<1>1. Word \in Nat \ {0}
  BY TerminalAssumption
<1>2. CASE x = 0
  BY <1>1, <1>2 DEF StepBack
<1>3. CASE x # 0
  BY <1>1, <1>3 DEF StepBack
<1>. QED BY <1>2, <1>3

(* The counters have room for more than the width of a line. *)
LEMMA Widths ==
  /\ VGA_WIDTH \in Nat /\ VGA_HEIGHT \in Nat /\ Word \in Nat /\ MaxText \in Nat
  /\ VGA_WIDTH > 1 /\ VGA_HEIGHT > 0 /\ Word > VGA_WIDTH + 1
<1>1. /\ VGA_WIDTH \in Nat /\ VGA_HEIGHT \in Nat /\ Word \in Nat /\ MaxText \in Nat
      /\ VGA_WIDTH > 1 /\ VGA_HEIGHT > 0 /\ Word > VGA_WIDTH * (VGA_HEIGHT + 1)
  BY TerminalAssumption
<1>2. VGA_WIDTH * (VGA_HEIGHT + 1) >= VGA_WIDTH + VGA_WIDTH
  BY <1>1
<1>. QED BY <1>1, <1>2

(* A cell in a row of the screen is a cell of the screen. *)
LEMMA CellOnScreen ==
  ASSUME NEW x \in 0 .. VGA_WIDTH - 1, NEW y \in 0 .. VGA_HEIGHT - 1
  PROVE  y * VGA_WIDTH + x \in Cells
<1>1. PICK d \in Nat : VGA_HEIGHT = y + 1 + d
  <2>1. VGA_HEIGHT - y - 1 \in Nat /\ VGA_HEIGHT = y + 1 + (VGA_HEIGHT - y - 1)
    BY Widths
  <2>. QED BY <2>1
<1>2. VGA_WIDTH * VGA_HEIGHT = y * VGA_WIDTH + VGA_WIDTH + d * VGA_WIDTH
  BY <1>1, Widths
<1>3. PICK a \in Nat, b \in Nat : a = y * VGA_WIDTH /\ b = d * VGA_WIDTH
  BY <1>1, Widths
<1>. QED BY <1>2, <1>3, Widths DEF Cells

(* Where a character written at (x, y) leaves the cursor. *)
LEMMA AdvancedType ==
  ASSUME NEW x \in 0 .. Word - 1, NEW y \in 0 .. Word - 1
  PROVE  /\ Advanced(x, y).y \in 0 .. Word - 1
         /\ Advanced(x, y).x = IF x + 1 \in 1 .. VGA_WIDTH - 1 THEN x + 1 ELSE 0
<1>1. /\ (x + 1) % Word = IF x + 1 = Word THEN 0 ELSE x + 1
      /\ (y + 1) % Word \in 0 .. Word - 1
  BY CounterUp, Widths
<1>. QED BY <1>1, Widths DEF Advanced

(* A character is written: the screen keeps its cells. *)
LEMMA PutcharType ==
  ASSUME NEW x, NEW y, NEW c \in Chars, TypeOK, terminal_putchar(x, y, c)
  PROVE  video_mem' \in [Cells -> Chars] /\ stray' \in BOOLEAN
<1>1. video_mem' \in [Cells -> Chars]
  BY DEF TypeOK, terminal_putchar
<1>2. stray' = (stray \/ y * VGA_WIDTH + x \notin Cells)
  BY DEF terminal_putchar
<1>. QED BY <1>1, <1>2

-----------------------------------------------------------------------------
(* An empty screen. *)
LEMMA InitTypeOK == Init => TypeOK
<1>. SUFFICES ASSUME Init PROVE TypeOK
  OBVIOUS
<1>1. video_mem \in [Cells -> Chars]
  BY TerminalAssumption DEF Init
<1>2. /\ terminal_row \in 0 .. Word - 1
      /\ terminal_col \in 0 .. VGA_WIDTH \cup {Word - 1}
      /\ ~ (terminal_col >= VGA_WIDTH)
      /\ sent \in 0 .. MaxText
  BY Widths DEF Init
<1>3. stray = FALSE /\ astray = FALSE
  BY DEF Init
<1>4. text \in Seq(Chars \cup {NEWLINE})
  BY DEF Init
<1>. QED BY <1>1, <1>2, <1>3, <1>4 DEF TypeOK

(* A newline. *)
LEMMA NewlineType ==
  ASSUME TypeOK, sent < MaxText, sent' = sent + 1, newline
  PROVE  TypeOK'
<1>1. terminal_row' \in 0 .. Word - 1 /\ terminal_col' = 0
  BY CounterUp, Widths DEF newline, TypeOK
<1>2. text' \in Seq(Chars \cup {NEWLINE})
  BY DEF newline, Read, TypeOK
<1>. QED BY <1>1, <1>2, Widths DEF newline, TypeOK

(* A character that is shown. *)
LEMMA WritecharType ==
  ASSUME TypeOK, sent < MaxText, sent' = sent + 1, NEW c \in Chars, writechar(c)
  PROVE  TypeOK'
<1>1. terminal_col \in 0 .. Word - 1 /\ terminal_row \in 0 .. Word - 1
  BY Widths DEF TypeOK
<1>2. terminal_row' \in 0 .. Word - 1 /\ terminal_col' \in 0 .. VGA_WIDTH - 1
  BY <1>1, AdvancedType, Widths DEF writechar
<1>3. video_mem' \in [Cells -> Chars] /\ stray' \in BOOLEAN
  BY PutcharType DEF writechar
<1>4. text' \in Seq(Chars \cup {NEWLINE})
  BY DEF writechar, Read, TypeOK
<1>. QED BY <1>2, <1>3, <1>4, Widths DEF writechar, TypeOK

(* A backspace: it leaves the column in the line, behind its end, or at    *)
(* the end of the counter, the last two only when it went over the start.  *)
LEMMA BackspaceType ==
  ASSUME TypeOK, sent < MaxText, sent' = sent + 1, terminal_backspace
  PROVE  TypeOK'
<1>1. terminal_col \in 0 .. Word - 1 /\ terminal_row \in 0 .. Word - 1
  BY Widths DEF TypeOK
<1>2. CASE backspace_over_line
  BY <1>1, <1>2, Widths DEF backspace_over_line, TypeOK
<1>3. CASE backspace_in_line
  <2>0. terminal_col > 0
    BY <1>3 DEF backspace_in_line
  <2>1. terminal_col - 1 \in 0 .. Word - 1
    BY <1>1, <2>0, Widths
  <2>2. video_mem' \in [Cells -> Chars] /\ stray' \in BOOLEAN
    BY <1>3, PutcharType, TerminalAssumption DEF backspace_in_line
  <2>3. text' \in Seq(Chars \cup {NEWLINE})
    <3>1. ASSUME NEW s \in Seq(Chars \cup {NEWLINE})
          PROVE  SubSeq(s, 1, Len(s) - 1) \in Seq(Chars \cup {NEWLINE})
      OBVIOUS
    <3>. QED BY <1>3, <3>1 DEF backspace_in_line, Read, TypeOK
  <2>4. terminal_row' \in 0 .. Word - 1
    BY <1>1, <1>3, <2>1, AdvancedType DEF backspace_in_line
  <2>5. terminal_col' = IF terminal_col \in 1 .. VGA_WIDTH - 1
                        THEN terminal_col - 1 ELSE Word - 1
    <3>1. PICK x \in 0 .. Word - 1 :
            /\ x = Advanced(terminal_col - 1, terminal_row).x
            /\ x = IF terminal_col \in 1 .. VGA_WIDTH - 1 THEN terminal_col ELSE 0
      BY <1>1, <2>1, AdvancedType, Widths
    <3>2. terminal_col' = StepBack(x)
      BY <1>3, <3>1 DEF backspace_in_line
    <3>. QED BY <3>1, <3>2, CounterDown
  <2>6. /\ terminal_col' \in 0 .. VGA_WIDTH \cup {Word - 1}
        /\ terminal_col' >= VGA_WIDTH => astray
    BY <2>0, <2>5, Widths DEF TypeOK
  <2>7. astray' = astray /\ astray \in BOOLEAN /\ sent' \in 0 .. MaxText
    BY <1>3, Widths DEF backspace_in_line, TypeOK
  <2>. QED BY <2>2, <2>3, <2>4, <2>6, <2>7 DEF TypeOK
<1>4. CASE UNCHANGED <<cursor, video_mem, stray, text, astray>>
  <2>1. UNCHANGED <<terminal_row, terminal_col, video_mem, stray, text, astray>>
    BY <1>4 DEF cursor
  <2>. QED BY <2>1, Widths DEF TypeOK
<1>. QED BY <1>2, <1>3, <1>4 DEF terminal_backspace

(* Every character sent keeps the cursor and the screen in their types. *)
LEMMA TypeInductive ==
  ASSUME TypeOK, [Next]_vars
  PROVE  TypeOK'
<1>1. CASE UNCHANGED vars
  BY <1>1 DEF vars, cursor, TypeOK
<1>2. ASSUME NEW c \in Chars \cup {NEWLINE, BACKSPACE}, terminal_writechar(c)
      PROVE  TypeOK'
  BY <1>2, NewlineType, WritecharType, BackspaceType DEF terminal_writechar
<1>. QED BY <1>1, <1>2 DEF Next

-----------------------------------------------------------------------------
(***************************************************************************)
(* The column stays in its line until a backspace goes over the start of   *)
(* one; even then it is only ever behind the end of the line or at the end *)
(* of the counter's range.                                                 *)
(***************************************************************************)
THEOREM TerminalTypeCorrect == Spec => []TypeOK
<1>1. TypeOK /\ [Next]_vars => TypeOK'
  BY TypeInductive
<1>. QED BY InitTypeOK, <1>1, PTL DEF Spec

(* A step that writes outside of the screen writes below it, or went astray.*)
LEMMA StrayStep ==
  ASSUME TypeOK, Next, stray', ~ stray, ~ astray
  PROVE  terminal_row >= VGA_HEIGHT
<1>. SUFFICES ASSUME ~ (terminal_row >= VGA_HEIGHT) PROVE FALSE
  OBVIOUS
<1>1. /\ terminal_col \in 0 .. VGA_WIDTH - 1
      /\ terminal_row \in 0 .. VGA_HEIGHT - 1
  BY Widths DEF TypeOK
<1>2. PICK c \in Chars \cup {NEWLINE, BACKSPACE} : terminal_writechar(c)
  BY DEF Next
<1>3. \/ writechar(c)
      \/ backspace_in_line
  BY <1>2 DEF terminal_writechar, newline, terminal_backspace, backspace_over_line
<1>4. CASE writechar(c)
  <2>1. terminal_row * VGA_WIDTH + terminal_col \in Cells
    BY <1>1, CellOnScreen
  <2>. QED BY <1>4, <2>1 DEF writechar, terminal_putchar
<1>5. CASE backspace_in_line
  <2>0. terminal_col > 0
    BY <1>5 DEF backspace_in_line
  <2>1. terminal_col - 1 \in 0 .. VGA_WIDTH - 1
    BY <1>1, <2>0, Widths
  <2>2. terminal_row * VGA_WIDTH + (terminal_col - 1) \in Cells
    BY <1>1, <2>1, CellOnScreen
  <2>. QED BY <1>5, <2>2 DEF backspace_in_line, terminal_putchar
<1>. QED BY <1>3, <1>4, <1>5

(***************************************************************************)
(* As long as no backspace goes over the start of a line, characters only  *)
(* leave video memory at its end, in the rows below the last.              *)
(***************************************************************************)
THEOREM TerminalStrayOnlyBelow == Spec => StrayOnlyBelow
<1>1. TypeOK /\ [Next]_vars
        => [stray' /\ ~ stray => terminal_row >= VGA_HEIGHT \/ astray]_vars
  BY StrayStep
<1>. QED BY <1>1, TerminalTypeCorrect, PTL DEF Spec, StrayOnlyBelow

-----------------------------------------------------------------------------
(* Only one quotient and one remainder fit. *)
LEMMA DivMod ==
  ASSUME NEW n \in Nat \ {0}, NEW x \in Nat, NEW q \in Nat,
         NEW r \in 0 .. n - 1, x = q * n + r
  PROVE  x % n = r /\ x \div n = q
<1>1. PICK p \in Int, s \in 0 .. n - 1 :
        x = p * n + s /\ p = x \div n /\ s = x % n
  <2>1. /\ x \div n \in Int /\ x % n \in 0 .. n - 1
        /\ x = (x \div n) * n + (x % n)
    OBVIOUS
  <2>. QED BY <2>1
<1>2. PICK z \in Int, a \in Int, b \in Int :
        z = p - q /\ a = p * n /\ b = q * n /\ z * n = a - b
  OBVIOUS
<1>3. -n < a - b /\ a - b < n
  BY <1>1, <1>2
<1>4. z >= 1 => z * n >= n
  OBVIOUS
<1>5. z <= -1 => z * n <= -n
  OBVIOUS
<1>6. z = 0
  BY <1>2, <1>3, <1>4, <1>5
<1>. QED BY <1>1, <1>2, <1>6

-----------------------------------------------------------------------------
(* Induction over an interval, with the property as a set. *)
LEMMA IntervalInduction ==
  ASSUME NEW n \in Nat, NEW P, 0 \in P, \A i \in 1 .. n : i - 1 \in P => i \in P
  PROVE  \A i \in 0 .. n : i \in P
<1>. DEFINE T == {i \in 0 .. n : i \notin P}
<1>1. ASSUME T # {} PROVE FALSE
  <2>1. PICK m \in T : \A y \in T : ~ (<<y, m>> \in OpToRel(<, Nat))
    <3>1. T \subseteq Nat
      OBVIOUS
    <3>. QED BY <1>1, <3>1, NatLessThanWellFounded, WFMin
  <2>2. m \in 1 .. n /\ m - 1 \in 0 .. n /\ m \notin P
    OBVIOUS
  <2>3. m - 1 \notin T
    <3>1. <<m - 1, m>> \in OpToRel(<, Nat)
      <4>1. <<m - 1, m>> \in Nat \X Nat /\ m - 1 < m
        BY <2>2
      <4>. QED BY <4>1 DEF OpToRel
    <3>. QED BY <2>1, <3>1
  <2>. QED BY <2>2, <2>3
<1>. QED BY <1>1

(* Counting up from 0. *)
Counts(g, n, d) ==
  /\ g \in [0 .. n -> Nat]
  /\ g[0] = 0
  /\ \A i \in 1 .. n : g[i] = g[i - 1] + d[i]

LEMMA CountsExist ==
  ASSUME NEW n \in Nat, NEW d \in [1 .. n -> Nat]
  PROVE  \E g : Counts(g, n, d)
<1>. DEFINE P == {k \in 0 .. n : \E g : Counts(g, k, d)}
<1>1. 0 \in P
  <2>. DEFINE g == [i \in 0 .. 0 |-> 0]
  <2>1. g \in [0 .. 0 -> Nat] /\ g[0] = 0 /\ 1 .. 0 = {}
    OBVIOUS
  <2>2. Counts(g, 0, d)
    BY <2>1 DEF Counts
  <2>. QED BY <2>2
<1>2. ASSUME NEW k \in 1 .. n, NEW g, Counts(g, k - 1, d)
      PROVE  \E h : Counts(h, k, d)
  <2>. DEFINE h == [i \in 0 .. k |-> IF i = k THEN g[k - 1] + d[k] ELSE g[i]]
  <2>1. /\ g \in [0 .. k - 1 -> Nat] /\ g[0] = 0
        /\ \A i \in 1 .. k - 1 : g[i] = g[i - 1] + d[i]
    BY <1>2 DEF Counts
  <2>2. g[k - 1] + d[k] \in Nat
    BY <2>1
  <2>3. h \in [0 .. k -> Nat] /\ h[0] = 0
    BY <2>1, <2>2
  <2>4. ASSUME NEW i \in 1 .. k
        PROVE  h[i] = h[i - 1] + d[i]
    <3>1. CASE i \in 1 .. k - 1
      BY <2>1, <3>1
    <3>2. CASE i = k
      BY <3>2
    <3>. QED BY <3>1, <3>2
  <2>5. Counts(h, k, d)
    BY <2>3, <2>4 DEF Counts
  <2>. QED BY <2>5
<1>3. \A k \in 1 .. n : k - 1 \in P => k \in P
  BY <1>2
<1>. HIDE DEF P
<1>4. \A k \in 0 .. n : k \in P
  BY <1>1, <1>3, IntervalInduction
<1>5. n \in P
  BY <1>4
<1>. QED BY <1>5 DEF P

(* Counts agree as far as what they count does. *)
Alike(d, e, k) == \A i \in 1 .. k : d[i] = e[i]

LEMMA CountsAgree ==
  ASSUME NEW n \in Nat, NEW m \in Nat, NEW k \in Nat, k <= n, k <= m,
         NEW d, NEW e, Alike(d, e, k),
         NEW g, Counts(g, n, d), NEW h, Counts(h, m, e)
  PROVE  \A i \in 0 .. k : g[i] = h[i]
<1>. DEFINE P == {i \in 0 .. k : g[i] = h[i]}
<1>1. 0 \in P
  BY DEF Counts
<1>2. \A i \in 1 .. k : i - 1 \in P => i \in P
  BY DEF Counts, Alike
<1>. HIDE DEF P
<1>3. \A i \in 0 .. k : i \in P
  BY <1>1, <1>2, IntervalInduction
<1>. QED BY <1>3 DEF P

-----------------------------------------------------------------------------
Texts == Seq(Chars \cup {NEWLINE})

(* The largest element, where there is one. *)
LEMMA MaxIs ==
  ASSUME NEW S, S \subseteq Int, NEW m \in S, \A k \in S : k <= m
  PROVE  Max(S) = m
<1>1. \E x \in S : \A y \in S : x >= y
  OBVIOUS
<1>2. Max(S) \in S /\ \A y \in S : Max(S) >= y
  BY <1>1, Zenon DEF Max
<1>3. Max(S) \in Int /\ m \in Int /\ Max(S) >= m /\ Max(S) <= m
  BY <1>2
<1>. QED BY <1>3

(* The characters of a line are counted from its start. *)
LEMMA SinceSteps ==
  ASSUME NEW t \in Texts
  PROVE  /\ Since(t, 0) = 0
         /\ \A k \in 0 .. Len(t) : Since(t, k) \in 0 .. k
         /\ \A k \in 1 .. Len(t) :
              Since(t, k) = IF t[k] = NEWLINE THEN 0 ELSE Since(t, k - 1) + 1
<1>. DEFINE S(k) == Breaks(t, k) \cup {0}
<1>0. Len(t) \in Nat
  BY DEF Texts
<1>1. Since(t, 0) = 0
  <2>1. S(0) = {0}
    BY DEF Breaks
  <2>2. Max(S(0)) = 0
    <3>1. 0 \in {0} /\ {0} \subseteq Int /\ \A k \in {0} : k <= 0
      OBVIOUS
    <3>. QED BY <2>1, <3>1, MaxIs
  <2>. QED BY <2>2 DEF Since
<1>2. \A k \in 0 .. Len(t) : \E m \in S(k) : \A i \in S(k) : i <= m
  <2>. DEFINE P == {k \in 0 .. Len(t) : \E m \in S(k) : \A i \in S(k) : i <= m}
  <2>1. 0 \in P
    <3>1. S(0) = {0}
      BY DEF Breaks
    <3>2. 0 \in 0 .. Len(t)
      BY <1>0
    <3>. QED BY <3>1, <3>2
  <2>2. ASSUME NEW k \in 1 .. Len(t), k - 1 \in P PROVE k \in P
    <3>1. PICK m \in S(k - 1) : \A i \in S(k - 1) : i <= m
      BY <2>2
    <3>2. S(k) = IF t[k] = NEWLINE THEN S(k - 1) \cup {k} ELSE S(k - 1)
      BY <1>0 DEF Breaks
    <3>3. m \in 0 .. k - 1
      BY <1>0 DEF Breaks
    <3>4. CASE t[k] = NEWLINE
      <4>1. k \in S(k) /\ \A i \in S(k) : i <= k
        BY <1>0, <3>1, <3>2, <3>3, <3>4
      <4>. QED BY <1>0, <4>1
    <3>5. CASE t[k] # NEWLINE
      BY <1>0, <3>1, <3>2, <3>5
    <3>. QED BY <3>4, <3>5
  <2>. HIDE DEF P
  <2>3. \A k \in 0 .. Len(t) : k \in P
    BY <1>0, <2>1, <2>2, IntervalInduction
  <2>. QED BY <2>3 DEF P
<1>3. ASSUME NEW k \in 0 .. Len(t)
      PROVE  /\ Max(S(k)) \in S(k) /\ \A i \in S(k) : i <= Max(S(k))
             /\ Max(S(k)) \in 0 .. k
  <2>1. PICK m \in S(k) : \A i \in S(k) : i <= m
    BY <1>2
  <2>2. S(k) \subseteq 0 .. k /\ k \in Nat
    BY <1>0 DEF Breaks
  <2>3. Max(S(k)) = m
    <3>. HIDE DEF S
    <3>1. S(k) \subseteq Int
      BY <2>2
    <3>. QED BY <2>1, <3>1, MaxIs
  <2>. QED BY <2>1, <2>2, <2>3
<1>4. ASSUME NEW k \in 0 .. Len(t)
      PROVE  Since(t, k) \in 0 .. k
  <2>1. Max(S(k)) \in 0 .. k /\ k \in Nat
    BY <1>0, <1>3
  <2>. QED BY <2>1 DEF Since
<1>5. ASSUME NEW k \in 1 .. Len(t)
      PROVE  Since(t, k) = IF t[k] = NEWLINE THEN 0 ELSE Since(t, k - 1) + 1
  <2>1. S(k) = IF t[k] = NEWLINE THEN S(k - 1) \cup {k} ELSE S(k - 1)
    BY <1>0 DEF Breaks
  <2>2. k \in Int /\ k - 1 \in 0 .. Len(t)
    BY <1>0
  <2>3. CASE t[k] = NEWLINE
    <3>1. S(k) \subseteq Int /\ k \in S(k) /\ \A i \in S(k) : i <= k
      BY <1>0, <2>1, <2>3 DEF Breaks
    <3>2. Max(S(k)) = k
      <4>. HIDE DEF S
      <4>. QED BY <3>1, MaxIs
    <3>. QED BY <2>2, <2>3, <3>2 DEF Since
  <2>4. CASE t[k] # NEWLINE
    <3>1. S(k) = S(k - 1)
      BY <2>1, <2>4
    <3>2. Max(S(k - 1)) \in 0 .. k - 1
      BY <1>3, <2>2
    <3>3. Since(t, k) = k - Max(S(k - 1)) /\ Since(t, k - 1) = (k - 1) - Max(S(k - 1))
      BY <3>1 DEF Since
    <3>. QED BY <2>2, <2>4, <3>2, <3>3
  <2>. QED BY <2>3, <2>4
<1>. QED BY <1>1, <1>4, <1>5

(* One further is in the same round, or the next one begins. *)
LEMMA OneFurther ==
  ASSUME NEW n \in Nat \ {0}, NEW x \in Nat
  PROVE  /\ x \div n \in Nat /\ x % n \in 0 .. n - 1
         /\ IF (x % n) + 1 = n
            THEN (x + 1) % n = 0 /\ (x + 1) \div n = (x \div n) + 1
            ELSE (x + 1) % n = (x % n) + 1 /\ (x + 1) \div n = x \div n
<1>1. PICK q \in Nat, r \in 0 .. n - 1 :
        q = x \div n /\ r = x % n /\ x = q * n + r
  <2>1. x \div n \in Nat /\ x % n \in 0 .. n - 1 /\ x = (x \div n) * n + (x % n)
    OBVIOUS
  <2>. QED BY <2>1
<1>2. CASE r + 1 = n
  <2>1. x + 1 = (q + 1) * n + 0 /\ 0 \in 0 .. n - 1 /\ x + 1 \in Nat /\ q + 1 \in Nat
    BY <1>1, <1>2
  <2>2. (x + 1) % n = 0 /\ (x + 1) \div n = q + 1
    BY <2>1, DivMod
  <2>. QED BY <1>1, <1>2, <2>2
<1>3. CASE r + 1 # n
  <2>1. x + 1 = q * n + (r + 1) /\ r + 1 \in 0 .. n - 1 /\ x + 1 \in Nat
    <3>1. q * n \in Nat
      OBVIOUS
    <3>. QED BY <1>1, <1>3, <3>1
  <2>2. (x + 1) % n = r + 1 /\ (x + 1) \div n = q
    BY <2>1, DivMod
  <2>. QED BY <1>1, <1>3, <2>2
<1>. QED BY <1>2, <1>3

(* How many rows the i-th character ends: those of the line it breaks. *)
Ends(t, i) == IF t[i] = NEWLINE THEN (Since(t, i - 1) \div VGA_WIDTH) + 1 ELSE 0

LEMMA EndsType ==
  ASSUME NEW t \in Texts
  PROVE  /\ \A i \in 1 .. Len(t) : Ends(t, i) \in Nat
         /\ \A k \in 0 .. Len(t) : /\ Since(t, k) \in Nat
                                   /\ Since(t, k) \div VGA_WIDTH \in Nat
                                   /\ Column(t, k) \in 0 .. VGA_WIDTH - 1
<1>1. Len(t) \in Nat
  BY DEF Texts
<1>2. ASSUME NEW k \in 0 .. Len(t)
      PROVE  /\ Since(t, k) \in Nat
             /\ Since(t, k) \div VGA_WIDTH \in Nat
             /\ Column(t, k) \in 0 .. VGA_WIDTH - 1
  <2>1. Since(t, k) \in Nat
    BY <1>1, SinceSteps
  <2>2. VGA_WIDTH \in Nat \ {0}
    BY Widths
  <2>. QED BY <2>1, <2>2, OneFurther DEF Column
<1>3. ASSUME NEW i \in 1 .. Len(t)
      PROVE  Ends(t, i) \in Nat
  <2>1. i - 1 \in 0 .. Len(t)
    BY <1>1
  <2>2. PICK q \in Nat : q = Since(t, i - 1) \div VGA_WIDTH
    BY <1>2, <2>1
  <2>. QED BY <2>2 DEF Ends
<1>. QED BY <1>2, <1>3

(* The rows above the line that character k is in. *)
Above(t, g, k) ==
  /\ Counts(g, k, [i \in 1 .. k |-> Ends(t, i)])
  /\ Row(t, k) = g[k] + (Since(t, k) \div VGA_WIDTH)

LEMMA RowCounts ==
  ASSUME NEW t \in Texts, NEW k \in 0 .. Len(t)
  PROVE  \E g : Above(t, g, k)
<1>. DEFINE d == [i \in 1 .. k |-> Ends(t, i)]
     Body(g) == [i \in 0 .. k |->
                   IF i = 0 THEN 0
                   ELSE IF t[i] = NEWLINE
                        THEN g[i - 1] + (Since(t, i - 1) \div VGA_WIDTH) + 1
                        ELSE g[i - 1]]
     above == CHOOSE g : g = Body(g)
<1>0. Len(t) \in Nat /\ k \in Nat
  BY DEF Texts
<1>1. Row(t, k) = above[k] + (Since(t, k) \div VGA_WIDTH)
  BY Zenon DEF Row
<1>2. d \in [1 .. k -> Nat] /\ \A i \in 1 .. k : d[i] = Ends(t, i)
  BY <1>0, EndsType
<1>3. ASSUME NEW i \in 1 .. k, NEW g, g[i - 1] \in Nat
      PROVE  Body(g)[i] = g[i - 1] + Ends(t, i)
  <2>1. i - 1 \in 0 .. Len(t) /\ i \in 1 .. Len(t)
    BY <1>0
  <2>2. PICK x \in Nat : x = Since(t, i - 1) \div VGA_WIDTH
    BY <2>1, EndsType
  <2>3. Body(g)[i] = IF t[i] = NEWLINE THEN g[i - 1] + x + 1 ELSE g[i - 1]
    BY <2>2
  <2>4. Ends(t, i) = IF t[i] = NEWLINE THEN x + 1 ELSE 0
    BY <2>2 DEF Ends
  <2>. QED BY <1>3, <2>3, <2>4
<1>4. \A g : Body(g) = [i \in 0 .. k |-> Body(g)[i]] /\ Body(g)[0] = 0
  BY <1>0
<1>5. PICK g : Counts(g, k, d)
  <2>. HIDE DEF d
  <2>. QED BY <1>0, <1>2, CountsExist
<1>. HIDE DEF d
<1>6. g = Body(g)
  <2>1. g \in [0 .. k -> Nat] /\ g[0] = 0 /\ \A i \in 1 .. k : g[i] = g[i - 1] + Ends(t, i)
    BY <1>2, <1>5 DEF Counts
  <2>2. \A i \in 1 .. k : Body(g)[i] = g[i]
    <3>1. ASSUME NEW i \in 1 .. k PROVE g[i - 1] \in Nat
      BY <1>0, <2>1
    <3>. HIDE DEF Body
    <3>. QED BY <1>3, <2>1, <3>1
  <2>. HIDE DEF Body
  <2>3. \A i \in 0 .. k : Body(g)[i] = g[i]
    BY <1>0, <1>4, <2>1, <2>2
  <2>4. g = [i \in 0 .. k |-> g[i]]
    BY <2>1
  <2>. QED BY <1>4, <2>3, <2>4
<1>. HIDE DEF Body
<1>7. above = Body(above)
  BY <1>6, Zenon
<1>. HIDE DEF above
<1>8. \A i \in 0 .. k : above[i] \in Nat
  <2>. DEFINE P == {i \in 0 .. k : above[i] \in Nat}
  <2>1. 0 \in P
    BY <1>0, <1>4, <1>7
  <2>2. ASSUME NEW i \in 1 .. k, i - 1 \in P PROVE i \in P
    <3>1. above[i] = above[i - 1] + Ends(t, i)
      BY <1>3, <1>7, <2>2
    <3>2. Ends(t, i) \in Nat
      BY <1>0, EndsType
    <3>. QED BY <2>2, <3>1, <3>2
  <2>. HIDE DEF P
  <2>3. \A i \in 0 .. k : i \in P
    BY <1>0, <2>1, <2>2, IntervalInduction
  <2>. QED BY <2>3 DEF P
<1>9. \A i \in 1 .. k : above[i] = above[i - 1] + d[i]
  <2>1. \A i \in 1 .. k : i - 1 \in 0 .. k
    BY <1>0
  <2>. QED BY <1>2, <1>3, <1>7, <1>8, <2>1
<1>10. Counts(above, k, d)
  <2>1. above \in [0 .. k -> Nat] /\ above[0] = 0
    BY <1>4, <1>7, <1>8
  <2>. QED BY <1>9, <2>1 DEF Counts
<1>. QED BY <1>1, <1>10 DEF Above, d

(***************************************************************************)
(* Where the k-th character takes the cursor from where it was: down, to   *)
(* the right, or around.                                                   *)
(***************************************************************************)
LEMMA RowSteps ==
  ASSUME NEW t \in Texts
  PROVE  /\ Row(t, 0) = 0 /\ Column(t, 0) = 0
         /\ \A k \in 0 .. Len(t) : Row(t, k) \in Nat /\ Column(t, k) \in 0 .. VGA_WIDTH - 1
         /\ \A k \in 1 .. Len(t) :
              IF t[k] = NEWLINE \/ Column(t, k - 1) + 1 = VGA_WIDTH
              THEN Row(t, k) = Row(t, k - 1) + 1 /\ Column(t, k) = 0
              ELSE Row(t, k) = Row(t, k - 1) /\ Column(t, k) = Column(t, k - 1) + 1
<1>0. Len(t) \in Nat
  BY DEF Texts
<1>1. ASSUME NEW k \in 0 .. Len(t) PROVE Row(t, k) \in Nat
  <2>1. PICK g : Above(t, g, k)
    BY RowCounts
  <2>2. g[k] \in Nat
    BY <1>0, <2>1 DEF Above, Counts
  <2>3. Since(t, k) \div VGA_WIDTH \in Nat
    BY EndsType
  <2>. QED BY <2>1, <2>2, <2>3 DEF Above
<1>2. Row(t, 0) = 0 /\ Column(t, 0) = 0
  <2>1. PICK g : Above(t, g, 0)
    BY <1>0, RowCounts
  <2>2. Since(t, 0) = 0 /\ 0 \div VGA_WIDTH = 0 /\ 0 % VGA_WIDTH = 0
    BY SinceSteps, Widths
  <2>. QED BY <2>1, <2>2 DEF Above, Counts, Column
<1>3. ASSUME NEW k \in 1 .. Len(t)
      PROVE  IF t[k] = NEWLINE \/ Column(t, k - 1) + 1 = VGA_WIDTH
             THEN Row(t, k) = Row(t, k - 1) + 1 /\ Column(t, k) = 0
             ELSE Row(t, k) = Row(t, k - 1) /\ Column(t, k) = Column(t, k - 1) + 1
  <2>0. k \in Nat /\ k - 1 \in Nat /\ k - 1 \in 0 .. Len(t) /\ k \in 0 .. Len(t)
    BY <1>0
  <2>1. PICK g : Above(t, g, k)
    BY <2>0, RowCounts
  <2>2. PICK h : Above(t, h, k - 1)
    BY <2>0, RowCounts
  <2>3. g[k - 1] = h[k - 1]
    <3>. DEFINE d == [i \in 1 .. k |-> Ends(t, i)]
                e == [i \in 1 .. k - 1 |-> Ends(t, i)]
    <3>1. \A i \in 1 .. k - 1 : d[i] = e[i]
      BY <2>0
    <3>2. Counts(g, k, d) /\ Counts(h, k - 1, e)
      BY <2>1, <2>2 DEF Above
    <3>. HIDE DEF d, e
    <3>3. PICK n \in Nat : n = k - 1 /\ n <= k /\ n <= n
      BY <2>0
    <3>4. Alike(d, e, n) /\ Counts(h, n, e)
      BY <3>1, <3>2, <3>3 DEF Alike
    <3>5. \A i \in 0 .. n : g[i] = h[i]
      BY <2>0, <3>2, <3>3, <3>4, CountsAgree
    <3>. QED BY <2>0, <3>3, <3>5
  <2>4. g[k] = g[k - 1] + Ends(t, k) /\ g[k - 1] \in Nat
    <3>1. k \in 1 .. k /\ k - 1 \in 0 .. k
      BY <2>0
    <3>2. Counts(g, k, [i \in 1 .. k |-> Ends(t, i)])
      BY <2>1 DEF Above
    <3>. QED BY <3>1, <3>2 DEF Counts
  <2>5. PICK x \in Nat, q \in Nat, r \in 0 .. VGA_WIDTH - 1 :
          x = Since(t, k - 1) /\ q = x \div VGA_WIDTH /\ r = x % VGA_WIDTH
    BY <2>0, EndsType DEF Column
  <2>6. Row(t, k - 1) = g[k - 1] + q /\ Column(t, k - 1) = r
    BY <2>2, <2>3, <2>5 DEF Above, Column
  <2>7. CASE t[k] = NEWLINE
    <3>1. Since(t, k) = 0 /\ Ends(t, k) = q + 1
      BY <2>5, <2>7, SinceSteps DEF Ends
    <3>2. 0 \div VGA_WIDTH = 0 /\ 0 % VGA_WIDTH = 0
      BY Widths
    <3>3. Row(t, k) = g[k - 1] + (q + 1) + 0 /\ Column(t, k) = 0
      BY <2>1, <2>4, <3>1, <3>2 DEF Above, Column
    <3>. QED BY <2>4, <2>6, <2>7, <3>3
  <2>8. CASE t[k] # NEWLINE
    <3>1. Since(t, k) = x + 1 /\ Ends(t, k) = 0
      BY <2>5, <2>8, SinceSteps DEF Ends
    <3>2. /\ Row(t, k) = g[k - 1] + 0 + ((x + 1) \div VGA_WIDTH)
          /\ Column(t, k) = (x + 1) % VGA_WIDTH
      BY <2>1, <2>4, <3>1 DEF Above, Column
    <3>3. IF r + 1 = VGA_WIDTH
          THEN (x + 1) % VGA_WIDTH = 0 /\ (x + 1) \div VGA_WIDTH = q + 1
          ELSE (x + 1) % VGA_WIDTH = r + 1 /\ (x + 1) \div VGA_WIDTH = q
      <4>1. VGA_WIDTH \in Nat \ {0}
        BY Widths
      <4>. QED BY <2>5, <4>1, OneFurther
    <3>. QED BY <2>4, <2>6, <2>8, <3>2, <3>3
  <2>. QED BY <2>7, <2>8
<1>. QED BY <1>1, <1>2, <1>3, EndsType

(* Texts that begin alike take the cursor the same way. *)
LEMMA SamePlace ==
  ASSUME NEW t \in Texts, NEW u \in Texts, NEW n \in 0 .. Len(t), n <= Len(u),
         Alike(t, u, n)
  PROVE  \A k \in 0 .. n : Row(t, k) = Row(u, k) /\ Column(t, k) = Column(u, k)
<1>. DEFINE P == {k \in 0 .. n : Row(t, k) = Row(u, k) /\ Column(t, k) = Column(u, k)}
<1>0. Len(t) \in Nat /\ Len(u) \in Nat /\ n \in Nat
  BY DEF Texts
<1>1. 0 \in P
  BY <1>0, RowSteps
<1>2. ASSUME NEW k \in 1 .. n, k - 1 \in P
      PROVE  k \in P
  <2>1. k \in 1 .. Len(t) /\ k \in 1 .. Len(u) /\ t[k] = u[k] /\ k \in 0 .. n
    BY <1>0 DEF Alike
  <2>2. Row(t, k - 1) = Row(u, k - 1) /\ Column(t, k - 1) = Column(u, k - 1)
    BY <1>2
  <2>3. IF t[k] = NEWLINE \/ Column(t, k - 1) + 1 = VGA_WIDTH
        THEN Row(t, k) = Row(t, k - 1) + 1 /\ Column(t, k) = 0
        ELSE Row(t, k) = Row(t, k - 1) /\ Column(t, k) = Column(t, k - 1) + 1
    BY <2>1, RowSteps
  <2>4. IF u[k] = NEWLINE \/ Column(u, k - 1) + 1 = VGA_WIDTH
        THEN Row(u, k) = Row(u, k - 1) + 1 /\ Column(u, k) = 0
        ELSE Row(u, k) = Row(u, k - 1) /\ Column(u, k) = Column(u, k - 1) + 1
    BY <2>1, RowSteps
  <2>. QED BY <2>1, <2>2, <2>3, <2>4
<1>. HIDE DEF P
<1>3. \A k \in 0 .. n : k \in P
  BY <1>0, <1>1, <1>2, IntervalInduction
<1>. QED BY <1>3 DEF P

(* The place the first k characters take the cursor to. *)
Place(t, k) == Row(t, k) * VGA_WIDTH + Column(t, k)

(***************************************************************************)
(* Every character takes the cursor onward, so no two are written in the   *)
(* same cell.                                                              *)
(***************************************************************************)
LEMMA Onward ==
  ASSUME NEW t \in Texts, NEW k \in 0 .. Len(t)
  PROVE  Place(t, k) \in Nat /\ \A j \in 0 .. k - 1 : Place(t, j) < Place(t, k)
<1>0. Len(t) \in Nat
  BY DEF Texts
<1>1. ASSUME NEW i \in 0 .. Len(t) PROVE Place(t, i) \in Nat
  <2>1. PICK r \in Nat, c \in Nat : r = Row(t, i) /\ c = Column(t, i)
    BY RowSteps
  <2>2. r * VGA_WIDTH \in Nat
    BY Widths
  <2>. QED BY <2>1, <2>2 DEF Place
<1>2. ASSUME NEW i \in 1 .. Len(t) PROVE Place(t, i - 1) < Place(t, i)
  <2>1. i - 1 \in 0 .. Len(t)
    BY <1>0
  <2>2. PICK r \in Nat, c \in 0 .. VGA_WIDTH - 1 : r = Row(t, i - 1) /\ c = Column(t, i - 1)
    BY <2>1, RowSteps
  <2>3. \/ Row(t, i) = r + 1 /\ Column(t, i) = 0
        \/ Row(t, i) = r /\ Column(t, i) = c + 1
    BY <2>2, RowSteps
  <2>4. PICK a \in Nat : a = r * VGA_WIDTH /\ (r + 1) * VGA_WIDTH = a + VGA_WIDTH
    BY Widths
  <2>5. Place(t, i - 1) = a + c
    BY <2>2, <2>4 DEF Place
  <2>6. Place(t, i) \in {a + VGA_WIDTH + 0, a + (c + 1)}
    BY <2>3, <2>4 DEF Place
  <2>. QED BY <2>5, <2>6, Widths
<1>. DEFINE P == {i \in 0 .. Len(t) : \A j \in 0 .. i - 1 : Place(t, j) < Place(t, i)}
<1>3. 0 \in P
  BY <1>0
<1>4. ASSUME NEW i \in 1 .. Len(t), i - 1 \in P PROVE i \in P
  <2>1. ASSUME NEW j \in 0 .. i - 1 PROVE Place(t, j) < Place(t, i)
    <3>1. Place(t, i - 1) < Place(t, i)
      BY <1>2
    <3>2. CASE j = i - 1
      BY <3>1, <3>2
    <3>3. CASE j \in 0 .. (i - 1) - 1
      <4>1. Place(t, j) < Place(t, i - 1)
        BY <1>4, <3>3
      <4>2. Place(t, j) \in Nat /\ Place(t, i - 1) \in Nat /\ Place(t, i) \in Nat
        BY <1>0, <1>1, <3>3
      <4>. QED BY <3>1, <4>1, <4>2
    <3>. QED BY <3>2, <3>3
  <2>. QED BY <1>0, <2>1
<1>. HIDE DEF P
<1>5. \A i \in 0 .. Len(t) : i \in P
  BY <1>0, <1>3, <1>4, IntervalInduction
<1>. QED BY <1>1, <1>5 DEF P

(* What a text leaves in a cell. *)
Reads(t, i) == IF Shown(t, i) = {} THEN SPACE ELSE t[Max(Shown(t, i))]

LEMMA ShownOnce ==
  ASSUME NEW t \in Texts, NEW i, NEW k \in Shown(t, i)
  PROVE  Shown(t, i) = {k} /\ Reads(t, i) = t[k] /\ k \in 1 .. Len(t)
         /\ Place(t, k - 1) = i
<1>0. Len(t) \in Nat
  BY DEF Texts
<1>1. \A j \in Shown(t, i) : j \in 1 .. Len(t) /\ Place(t, j - 1) = i
  BY DEF Shown, CellOf, Place
<1>2. ASSUME NEW j \in Shown(t, i), NEW l \in Shown(t, i), j < l PROVE FALSE
  <2>1. j \in 1 .. Len(t) /\ l \in 1 .. Len(t)
    BY <1>1
  <2>2. l - 1 \in 0 .. Len(t) /\ j - 1 \in 0 .. (l - 1) - 1
    BY <1>0, <1>2, <2>1
  <2>3. Place(t, j - 1) < Place(t, l - 1) /\ Place(t, l - 1) \in Nat
    BY <2>2, Onward
  <2>. QED BY <1>1, <2>3
<1>3. \A j \in Shown(t, i) : j = k
  BY <1>1, <1>2
<1>4. Shown(t, i) = {k}
  BY <1>3
<1>5. Max({k}) = k
  <2>1. k \in Int
    BY <1>1
  <2>2. {k} \subseteq Int /\ k \in {k} /\ \A j \in {k} : j <= k
    BY <2>1
  <2>. QED BY <2>2, MaxIs
<1>. QED BY <1>1, <1>4, <1>5 DEF Reads

(* A character more shows itself, and nothing else changes. *)
LEMMA OneMore ==
  ASSUME NEW t \in Texts, NEW c \in Chars \cup {NEWLINE}
  PROVE  /\ Append(t, c) \in Texts
         /\ Len(Append(t, c)) = Len(t) + 1 /\ Append(t, c)[Len(t) + 1] = c
         /\ \A k \in 0 .. Len(t) : /\ Row(Append(t, c), k) = Row(t, k)
                                   /\ Column(Append(t, c), k) = Column(t, k)
         /\ \A i : Reads(Append(t, c), i) =
                     IF c # NEWLINE /\ i = Place(t, Len(t)) THEN c ELSE Reads(t, i)
         /\ Reads(t, Place(t, Len(t))) = SPACE
<1>. DEFINE u == Append(t, c)
            n == Len(t)
<1>1. u \in Texts /\ n \in Nat /\ Len(u) = n + 1 /\ u[n + 1] = c
      /\ \A k \in 1 .. n : u[k] = t[k]
  BY DEF Texts
<1>. HIDE DEF u
<1>2. \A k \in 0 .. n : Row(u, k) = Row(t, k) /\ Column(u, k) = Column(t, k)
  <2>1. Alike(t, u, n) /\ n \in 0 .. Len(t) /\ n <= Len(u)
    BY <1>1 DEF Alike
  <2>. QED BY <1>1, <2>1, SamePlace
<1>3. \A k \in 0 .. n : Place(u, k) = Place(t, k)
  BY <1>2 DEF Place
<1>4. ASSUME NEW i, NEW k \in 1 .. n
      PROVE  k \in Shown(u, i) <=> k \in Shown(t, i)
  <2>1. k - 1 \in 0 .. n /\ k \in 1 .. Len(u)
    BY <1>1
  <2>2. CellOf(u, k) = CellOf(t, k)
    BY <1>2, <2>1 DEF CellOf
  <2>. QED BY <1>1, <2>1, <2>2 DEF Shown
<1>5. ASSUME NEW i
      PROVE  n + 1 \in Shown(u, i) <=> c # NEWLINE /\ i = Place(t, n)
  <2>1. n + 1 \in 1 .. Len(u) /\ (n + 1) - 1 = n /\ n \in 0 .. n
    BY <1>1
  <2>2. CellOf(u, n + 1) = Place(t, n)
    BY <1>3, <2>1 DEF CellOf, Place
  <2>. QED BY <1>1, <2>1, <2>2 DEF Shown
<1>6. ASSUME NEW i, NEW k \in Shown(t, i)
      PROVE  k \in 1 .. n /\ i # Place(t, n)
  <2>1. k \in 1 .. n /\ Place(t, k - 1) = i
    BY ShownOnce
  <2>2. n \in 0 .. Len(t) /\ k - 1 \in 0 .. n - 1
    BY <1>1, <2>1
  <2>3. Place(t, k - 1) < Place(t, n) /\ Place(t, n) \in Nat
    BY <2>2, Onward
  <2>. QED BY <2>1, <2>3
<1>7. \A i : Reads(u, i) = IF c # NEWLINE /\ i = Place(t, n) THEN c ELSE Reads(t, i)
  <2>1. ASSUME NEW i
        PROVE  Reads(u, i) = IF c # NEWLINE /\ i = Place(t, n) THEN c ELSE Reads(t, i)
    <3>1. CASE c # NEWLINE /\ i = Place(t, n)
      <4>1. n + 1 \in Shown(u, i)
        BY <1>5, <3>1
      <4>2. Reads(u, i) = u[n + 1]
        BY <1>1, <4>1, ShownOnce
      <4>. QED BY <1>1, <3>1, <4>2
    <3>2. CASE ~ (c # NEWLINE /\ i = Place(t, n)) /\ Shown(t, i) # {}
      <4>1. PICK k : k \in Shown(t, i)
        BY <3>2
      <4>2. k \in 1 .. n /\ k \in Shown(u, i)
        BY <1>4, <1>6, <4>1
      <4>. QED BY <1>1, <3>2, <4>1, <4>2, ShownOnce
    <3>3. CASE ~ (c # NEWLINE /\ i = Place(t, n)) /\ Shown(t, i) = {}
      <4>1. \A k \in Shown(u, i) : k \in 1 .. n \/ k = n + 1
        BY <1>1 DEF Shown
      <4>2. Shown(u, i) = {}
        BY <1>4, <1>5, <3>3, <4>1
      <4>. QED BY <3>3, <4>2 DEF Reads
    <3>. QED BY <3>1, <3>2, <3>3
  <2>. QED BY <2>1
<1>8. Reads(t, Place(t, n)) = SPACE
  <2>1. Shown(t, Place(t, n)) = {}
    BY <1>6
  <2>. QED BY <2>1 DEF Reads
<1>. QED BY <1>1, <1>2, <1>7, <1>8 DEF u

-----------------------------------------------------------------------------
(***************************************************************************)
(* The cursor is behind the text, also after the row has wrapped, and the  *)
(* screen shows the text until then.                                       *)
(***************************************************************************)
CursorBehindText ==
  /\ terminal_col = Column(text, Len(text))
  /\ terminal_row = Row(text, Len(text)) % Word
  /\ Row(text, Len(text)) < Word =>
       \A i \in Cells : video_mem[i] = Reads(text, i)

ScreenInv == TypeOK /\ (~ astray => CursorBehindText)

(* The cursor is on the screen's row of the text until the row wraps. *)
LEMMA RowShown ==
  ASSUME NEW r \in Nat
  PROVE  r < Word => r % Word = r
BY Widths

LEMMA RowAfter ==
  ASSUME NEW r \in Nat
  PROVE  r % Word \in 0 .. Word - 1 /\ ((r % Word) + 1) % Word = (r + 1) % Word
<1>1. Word \in Nat \ {0}
  BY Widths
<1>2. r % Word \in 0 .. Word - 1
  BY <1>1, OneFurther
<1>3. ((r % Word) + 1) % Word = IF (r % Word) + 1 = Word THEN 0 ELSE (r % Word) + 1
  BY <1>2, CounterUp
<1>4. (r + 1) % Word = IF (r % Word) + 1 = Word THEN 0 ELSE (r % Word) + 1
  BY <1>1, OneFurther
<1>. QED BY <1>2, <1>3, <1>4

(* The text while nothing went astray. *)
LEMMA TextPlace ==
  ASSUME ScreenInv, ~ astray
  PROVE  /\ text \in Texts /\ Len(text) \in Nat
         /\ Row(text, Len(text)) \in Nat
         /\ terminal_col = Column(text, Len(text))
         /\ terminal_col \in 0 .. VGA_WIDTH - 1
         /\ terminal_row = Row(text, Len(text)) % Word
         /\ terminal_row \in 0 .. Word - 1
<1>1. text \in Texts /\ Len(text) \in Nat /\ Len(text) \in 0 .. Len(text)
  BY DEF ScreenInv, TypeOK, Texts
<1>2. Row(text, Len(text)) \in Nat /\ Column(text, Len(text)) \in 0 .. VGA_WIDTH - 1
  BY <1>1, RowSteps
<1>. QED BY <1>1, <1>2 DEF ScreenInv, TypeOK, CursorBehindText

(* An empty screen shows the empty text. *)
LEMMA InitScreen == Init => ScreenInv
<1>. SUFFICES ASSUME Init PROVE ScreenInv
  OBVIOUS
<1>1. TypeOK
  BY InitTypeOK
<1>2. text = <<>> /\ text \in Texts /\ Len(text) = 0
  BY DEF Init, Texts
<1>3. Row(text, 0) = 0 /\ Column(text, 0) = 0
  BY <1>2, RowSteps
<1>4. 0 % Word = 0
  BY Widths
<1>5. \A i : Reads(text, i) = SPACE
  <2>1. \A i : Shown(text, i) = {}
    BY <1>2 DEF Shown
  <2>. QED BY <2>1 DEF Reads
<1>. QED BY <1>1, <1>2, <1>3, <1>4, <1>5 DEF ScreenInv, CursorBehindText, Init

(* A character that is shown, at the place the text leads to. *)
LEMMA WritecharScreen ==
  ASSUME ScreenInv, ~ astray, NEW c \in Chars, writechar(c)
  PROVE  CursorBehindText'
<1>. DEFINE n == Len(text)
<1>1. /\ text \in Texts /\ n \in Nat /\ Row(text, n) \in Nat
      /\ terminal_col = Column(text, n) /\ terminal_col \in 0 .. VGA_WIDTH - 1
      /\ terminal_row = Row(text, n) % Word /\ terminal_row \in 0 .. Word - 1
  BY TextPlace
<1>2. /\ terminal_row' = Advanced(terminal_col, terminal_row).y
      /\ terminal_col' = Advanced(terminal_col, terminal_row).x
      /\ terminal_putchar(terminal_col, terminal_row, c)
      /\ text' = Append(text, c)
  BY DEF writechar, Read
<1>3. c \in Chars \cup {NEWLINE} /\ c # NEWLINE
  BY TerminalAssumption
<1>4. /\ text' \in Texts /\ Len(text') = n + 1 /\ text'[n + 1] = c
      /\ Row(text', n) = Row(text, n) /\ Column(text', n) = Column(text, n)
      /\ \A i : Reads(text', i) = IF i = Place(text, n) THEN c ELSE Reads(text, i)
  BY <1>1, <1>2, <1>3, OneMore
<1>5. IF Column(text, n) + 1 = VGA_WIDTH
      THEN Row(text', n + 1) = Row(text, n) + 1 /\ Column(text', n + 1) = 0
      ELSE Row(text', n + 1) = Row(text, n) /\ Column(text', n + 1) = Column(text, n) + 1
  <2>1. n + 1 \in 1 .. Len(text') /\ (n + 1) - 1 = n
    BY <1>1, <1>4
  <2>. QED BY <1>3, <1>4, <2>1, RowSteps
<1>6. Advanced(terminal_col, terminal_row)
        = IF terminal_col + 1 = VGA_WIDTH
          THEN [x |-> 0, y |-> (terminal_row + 1) % Word]
          ELSE [x |-> terminal_col + 1, y |-> terminal_row]
  <2>1. terminal_col \in 0 .. Word - 1
    BY <1>1, Widths
  <2>2. (terminal_col + 1) % Word = terminal_col + 1
    BY <1>1, <2>1, CounterUp, Widths
  <2>3. VGA_WIDTH \in Nat /\ terminal_col \in Nat /\ terminal_col < VGA_WIDTH
    BY <1>1, Widths
  <2>4. (terminal_col + 1) % Word >= VGA_WIDTH <=> terminal_col + 1 = VGA_WIDTH
    BY <2>2, <2>3
  <2>. QED BY <2>2, <2>4, Zenon DEF Advanced
<1>7. terminal_col' = Column(text', n + 1)
  BY <1>1, <1>2, <1>5, <1>6
<1>8. terminal_row' = Row(text', n + 1) % Word
  <2>1. (terminal_row + 1) % Word = (Row(text, n) + 1) % Word
    BY <1>1, RowAfter
  <2>. QED BY <1>1, <1>2, <1>5, <1>6, <2>1
<1>9. ASSUME Row(text', n + 1) < Word, NEW i \in Cells
      PROVE  video_mem'[i] = Reads(text', i)
  <2>1. Row(text, n) < Word
    BY <1>1, <1>5, <1>9, Widths
  <2>2. terminal_row = Row(text, n)
    BY <1>1, <2>1, RowShown
  <2>3. terminal_row * VGA_WIDTH + terminal_col = Place(text, n)
    BY <1>1, <2>2 DEF Place
  <2>4. video_mem'[i] = IF i = Place(text, n) THEN c ELSE video_mem[i]
    BY <1>2, <1>9, <2>3 DEF terminal_putchar, ScreenInv, TypeOK
  <2>5. video_mem[i] = Reads(text, i)
    BY <1>9, <2>1 DEF ScreenInv, CursorBehindText
  <2>. QED BY <1>4, <2>4, <2>5
<1>. QED BY <1>4, <1>7, <1>8, <1>9 DEF CursorBehindText, Reads, Shown, CellOf, Row,
         Column, Since, Breaks

(* A newline shows nothing. *)
LEMMA NewlineScreen ==
  ASSUME ScreenInv, ~ astray, newline
  PROVE  CursorBehindText'
<1>. DEFINE n == Len(text)
<1>1. /\ text \in Texts /\ n \in Nat /\ Row(text, n) \in Nat
      /\ terminal_row = Row(text, n) % Word
  BY TextPlace
<1>2. /\ terminal_row' = (terminal_row + 1) % Word /\ terminal_col' = 0
      /\ video_mem' = video_mem /\ text' = Append(text, NEWLINE)
  BY DEF newline, Read
<1>3. /\ text' \in Texts /\ Len(text') = n + 1 /\ text'[n + 1] = NEWLINE
      /\ Row(text', n) = Row(text, n) /\ \A i : Reads(text', i) = Reads(text, i)
  BY <1>1, <1>2, OneMore
<1>4. Row(text', n + 1) = Row(text, n) + 1 /\ Column(text', n + 1) = 0
  <2>1. n + 1 \in 1 .. Len(text') /\ (n + 1) - 1 = n
    BY <1>1, <1>3
  <2>. QED BY <1>3, <2>1, RowSteps
<1>5. terminal_row' = Row(text', n + 1) % Word
  BY <1>1, <1>2, <1>4, RowAfter
<1>6. ASSUME Row(text', n + 1) < Word, NEW i \in Cells
      PROVE  video_mem'[i] = Reads(text', i)
  <2>1. Row(text, n) < Word
    BY <1>1, <1>4, <1>6, Widths
  <2>. QED BY <1>2, <1>3, <1>6, <2>1 DEF ScreenInv, CursorBehindText
<1>. QED BY <1>2, <1>3, <1>4, <1>5, <1>6 DEF CursorBehindText

(***************************************************************************)
(* A backspace inside a line takes the last character back: it is no       *)
(* newline and did not wrap, as the cursor is not at the start of a line.  *)
(***************************************************************************)
LEMMA BackspaceScreen ==
  ASSUME ScreenInv, ~ astray, backspace_in_line
  PROVE  CursorBehindText'
<1>. DEFINE n == Len(text)
            u == SubSeq(text, 1, n - 1)
            c == text[n]
<1>1. /\ text \in Texts /\ n \in Nat /\ Row(text, n) \in Nat
      /\ terminal_col = Column(text, n) /\ terminal_col \in 0 .. VGA_WIDTH - 1
      /\ terminal_row = Row(text, n) % Word /\ terminal_row \in 0 .. Word - 1
  BY TextPlace
<1>2. /\ terminal_col > 0
      /\ terminal_row' = Advanced(terminal_col - 1, terminal_row).y
      /\ terminal_col' = StepBack(Advanced(terminal_col - 1, terminal_row).x)
      /\ terminal_putchar(terminal_col - 1, terminal_row, SPACE)
      /\ text' = u
  BY DEF backspace_in_line, Read
<1>3. n > 0
  <2>1. n # 0
    BY <1>1, <1>2, RowSteps
  <2>. QED BY <1>1, <2>1
<1>4. u \in Texts /\ Len(u) = n - 1 /\ c \in Chars \cup {NEWLINE} /\ text = Append(u, c)
  <2>1. ASSUME NEW S, NEW s \in Seq(S), Len(s) > 0
        PROVE  /\ SubSeq(s, 1, Len(s) - 1) \in Seq(S)
               /\ Len(SubSeq(s, 1, Len(s) - 1)) = Len(s) - 1
               /\ s[Len(s)] \in S
               /\ s = Append(SubSeq(s, 1, Len(s) - 1), s[Len(s)])
    <3>1. /\ SubSeq(s, 1, Len(s) - 1) \in Seq(S)
          /\ Len(SubSeq(s, 1, Len(s) - 1)) = Len(s) - 1
          /\ s[Len(s)] \in S
      BY <2>1
    <3>2. s = Append(SubSeq(s, 1, Len(s) - 1), s[Len(s)])
      BY <2>1
    <3>. QED BY <3>1, <3>2
  <2>. QED BY <1>1, <1>3, <2>1 DEF Texts
<1>. HIDE DEF u, c
<1>5. /\ \A k \in 0 .. n - 1 : Row(text, k) = Row(u, k) /\ Column(text, k) = Column(u, k)
      /\ \A i : Reads(text, i) =
                  IF c # NEWLINE /\ i = Place(u, n - 1) THEN c ELSE Reads(u, i)
      /\ Reads(u, Place(u, n - 1)) = SPACE
  BY <1>4, OneMore
<1>6. /\ c # NEWLINE
      /\ Row(u, n - 1) = Row(text, n) /\ Column(u, n - 1) + 1 = terminal_col
      /\ Column(u, n - 1) \in 0 .. VGA_WIDTH - 1
  <2>1. n \in 1 .. n /\ n - 1 \in 0 .. n - 1
    BY <1>1, <1>3
  <2>2. IF text[n] = NEWLINE \/ Column(text, n - 1) + 1 = VGA_WIDTH
        THEN Row(text, n) = Row(text, n - 1) + 1 /\ Column(text, n) = 0
        ELSE Row(text, n) = Row(text, n - 1) /\ Column(text, n) = Column(text, n - 1) + 1
    BY <1>1, <2>1, RowSteps
  <2>3. text[n] # NEWLINE /\ Row(text, n) = Row(text, n - 1)
        /\ Column(text, n) = Column(text, n - 1) + 1
    BY <1>1, <1>2, <2>2
  <2>4. Column(u, n - 1) \in 0 .. VGA_WIDTH - 1
    BY <1>4, <2>1, RowSteps
  <2>. QED BY <1>1, <1>5, <2>1, <2>3, <2>4 DEF c
<1>7. /\ terminal_row' = terminal_row /\ terminal_col' = terminal_col - 1
  <2>1. terminal_col - 1 \in 0 .. Word - 1 /\ terminal_col \in 0 .. Word - 1
    BY <1>1, <1>2, Widths
  <2>2. ((terminal_col - 1) + 1) % Word = terminal_col
    BY <1>1, <2>1, CounterUp, Widths
  <2>3. Advanced(terminal_col - 1, terminal_row) = [x |-> terminal_col, y |-> terminal_row]
    BY <1>1, <2>2, Widths DEF Advanced
  <2>4. StepBack(terminal_col) = terminal_col - 1
    BY <1>2, <2>1, CounterDown
  <2>. QED BY <1>2, <2>3, <2>4
<1>8. ASSUME Row(text', n - 1) < Word, NEW i \in Cells
      PROVE  video_mem'[i] = Reads(text', i)
  <2>1. Row(text, n) < Word
    BY <1>2, <1>6, <1>8
  <2>2. terminal_row = Row(u, n - 1)
    BY <1>1, <1>6, <2>1, RowShown
  <2>3. terminal_row * VGA_WIDTH + (terminal_col - 1) = Place(u, n - 1)
    <3>1. terminal_col - 1 = Column(u, n - 1)
      BY <1>1, <1>6
    <3>. QED BY <2>2, <3>1 DEF Place
  <2>4. video_mem'[i] = IF i = Place(u, n - 1) THEN SPACE ELSE video_mem[i]
    BY <1>2, <1>8, <2>3 DEF terminal_putchar, ScreenInv, TypeOK
  <2>5. video_mem[i] = Reads(text, i)
    BY <1>8, <2>1 DEF ScreenInv, CursorBehindText
  <2>. QED BY <1>2, <1>5, <2>4, <2>5
<1>9. Len(text') = n - 1 /\ text' = u
  BY <1>2, <1>4
<1>10. /\ terminal_col' = Column(text', n - 1)
       /\ terminal_row' = Row(text', n - 1) % Word
  <2>1. terminal_col - 1 = Column(u, n - 1)
    BY <1>1, <1>6
  <2>. QED BY <1>1, <1>6, <1>7, <1>9, <2>1
<1>. QED BY <1>8, <1>9, <1>10 DEF CursorBehindText

(* Every character keeps the screen and the text together. *)
LEMMA ScreenInductive ==
  ASSUME ScreenInv, [Next]_vars
  PROVE  ScreenInv'
<1>1. TypeOK'
  BY TypeInductive DEF ScreenInv
<1>2. SUFFICES ASSUME ~ astray' PROVE CursorBehindText'
  BY <1>1 DEF ScreenInv
<1>3. ASSUME UNCHANGED <<cursor, video_mem, text, astray>>
      PROVE  CursorBehindText'
  <2>1. UNCHANGED <<terminal_row, terminal_col, video_mem, text, astray>>
    BY <1>3 DEF cursor
  <2>. QED BY <1>2, <2>1 DEF ScreenInv, CursorBehindText, Reads, Shown
<1>4. CASE UNCHANGED vars
  BY <1>3, <1>4 DEF vars
<1>5. ASSUME NEW c \in Chars \cup {NEWLINE, BACKSPACE}, terminal_writechar(c)
      PROVE  CursorBehindText'
  <2>1. CASE newline
    BY <1>2, <2>1, NewlineScreen DEF newline
  <2>2. CASE c \in Chars /\ writechar(c)
    BY <1>2, <2>2, WritecharScreen DEF writechar
  <2>3. CASE terminal_backspace
    <3>1. CASE backspace_over_line
      BY <1>2, <3>1 DEF backspace_over_line
    <3>2. CASE backspace_in_line
      BY <1>2, <3>2, BackspaceScreen DEF backspace_in_line
    <3>3. CASE UNCHANGED <<cursor, video_mem, stray, text, astray>>
      BY <1>3, <3>3
    <3>. QED BY <2>3, <3>1, <3>2, <3>3 DEF terminal_backspace
  <2>. QED BY <1>5, <2>1, <2>2, <2>3 DEF terminal_writechar
<1>. QED BY <1>4, <1>5 DEF Next

(* The cursor is behind the text in every execution. *)
THEOREM TerminalInvariant == Spec => []ScreenInv
<1>1. ScreenInv /\ [Next]_vars => ScreenInv'
  BY ScreenInductive
<1>. QED BY InitScreen, <1>1, PTL DEF Spec

(***************************************************************************)
(* The screen shows what was sent, less what was erased, on a screen of any*)
(* size, until the row wraps or a backspace goes over the start of a line. *)
(***************************************************************************)
THEOREM TerminalShowsText == Spec => []ScreenShowsText
<1>1. ScreenInv => ScreenShowsText
  <2>1. SUFFICES ASSUME ScreenInv, ~ astray, Row(text, Len(text)) < Word
                 PROVE  /\ terminal_row = Row(text, Len(text))
                        /\ terminal_col = Column(text, Len(text))
                        /\ \A i \in Cells : video_mem[i] = Reads(text, i)
    BY DEF ScreenShowsText, Reads
  <2>2. terminal_row = Row(text, Len(text))
    BY <2>1, TextPlace, RowShown
  <2>. QED BY <2>1, <2>2 DEF ScreenInv, CursorBehindText
<1>. QED BY <1>1, TerminalInvariant, PTL
=============================================================================
