------------------------ MODULE KeyboardBufferProofs ------------------------
(***************************************************************************)
(* The ring of keyboard.c is a queue, for every size, every wrap that is a *)
(* multiple of it and every set of keys.                                   *)
(***************************************************************************)
EXTENDS KeyboardBuffer, Sequences, TLAPS

-----------------------------------------------------------------------------
(* Arithmetic of the remainder. *)

LEMMA NoMultipleBetween ==
  ASSUME NEW n \in Nat \ {0}, NEW m \in Int, -n < m * n, m * n < n
  PROVE  m = 0
<1>1. CASE m >= 1
  <2>1. m * n >= n
    BY <1>1
  <2> QED BY <2>1
<1>2. CASE m <= -1
  <2>1. m * n <= -n
    BY <1>2
  <2> QED BY <2>1
<1> QED BY <1>1, <1>2

LEMMA Quotient ==
  ASSUME NEW n \in Nat \ {0}, NEW x \in Int
  PROVE  /\ x % n \in 0 .. n - 1
         /\ \E q \in Int : x = q * n + (x % n)
<1>1. x % n \in 0 .. n - 1
  OBVIOUS
<1>2. x = (x \div n) * n + (x % n) /\ x \div n \in Int
  OBVIOUS
<1> QED BY <1>1, <1>2

(* Only one remainder fits. *)
LEMMA RemainderIs ==
  ASSUME NEW n \in Nat \ {0}, NEW x \in Int, NEW q \in Int,
         NEW r \in 0 .. n - 1, x = q * n + r
  PROVE  x % n = r
<1>1. PICK p \in Int : x = p * n + (x % n)
  BY Quotient
<1>2. x % n \in 0 .. n - 1
  BY Quotient
<1>3. (p - q) * n = r - (x % n)
  <2>1. (p - q) * n = p * n - q * n
    OBVIOUS
  <2>2. p * n \in Int /\ q * n \in Int
    OBVIOUS
  <2> QED BY <1>1, <1>2, <2>1, <2>2
<1>4. p - q \in Int /\ -n < (p - q) * n /\ (p - q) * n < n
  BY <1>2, <1>3
<1>5. p - q = 0
  BY <1>4, NoMultipleBetween
<1>6. p = q
  BY <1>5
<1>7. q * n \in Int
  OBVIOUS
<1> QED BY <1>1, <1>2, <1>6, <1>7

(* A counter that is kept modulo a multiple of n counts as well modulo n. *)
LEMMA CounterShift ==
  ASSUME NEW n \in Nat \ {0}, NEW W \in Nat \ {0}, NEW w \in Int, W = w * n
  PROVE  \A x \in Int, k \in Int : /\ ((x % W) + k) % n = (x + k) % n
                                   /\ (k - (x % W)) % n = (k - x) % n
<1> TAKE x \in Int, k \in Int
<1>1. PICK q \in Int : x = q * W + (x % W)
  BY Quotient
<1>2. PICK r \in Int : r = x % W
  BY Quotient
<1>3. q * W = (q * w) * n /\ q * w \in Int
  OBVIOUS
<1>4. PICK a \in Int : a = q * w
  BY <1>3
<1>5. PICK y \in Int : y = r + k
  OBVIOUS
<1>6. PICK z \in Int : z = k - r
  OBVIOUS
<1>7. PICK p \in Int : y = p * n + (y % n)
  BY Quotient
<1>8. PICK m \in Int : z = m * n + (z % n)
  BY Quotient
<1>9. y % n \in 0 .. n - 1 /\ z % n \in 0 .. n - 1
  BY Quotient
<1>10. x = a * n + r
  BY <1>1, <1>2, <1>3, <1>4
<1>11. /\ (a + p) * n = a * n + p * n /\ (m - a) * n = m * n - a * n
       /\ a * n \in Int /\ p * n \in Int /\ m * n \in Int
  OBVIOUS
<1>12. PICK u \in Int : u = x + k
  OBVIOUS
<1>13. PICK v \in Int : v = k - x
  OBVIOUS
<1>14. u = (a + p) * n + (y % n)
  BY <1>5, <1>7, <1>9, <1>10, <1>11, <1>12
<1>15. v = (m - a) * n + (z % n)
  BY <1>6, <1>8, <1>9, <1>10, <1>11, <1>13
<1>16. a + p \in Int /\ m - a \in Int
  OBVIOUS
<1>17. u % n = y % n /\ v % n = z % n
  BY <1>9, <1>14, <1>15, <1>16, RemainderIs
<1> QED BY <1>2, <1>5, <1>6, <1>12, <1>13, <1>17

(* Positions less than a round apart are different slots. *)
LEMMA SlotsDiffer ==
  ASSUME NEW n \in Nat \ {0}, NEW x \in Int, NEW y \in Int, x < y, y < x + n
  PROVE  x % n # y % n
<1> SUFFICES ASSUME x % n = y % n PROVE FALSE
  OBVIOUS
<1>1. PICK p \in Int : x = p * n + (x % n)
  BY Quotient
<1>2. PICK q \in Int : y = q * n + (y % n)
  BY Quotient
<1>3. x % n \in Int /\ y % n \in Int
  BY Quotient
<1>4. (q - p) * n = q * n - p * n /\ p * n \in Int /\ q * n \in Int
  OBVIOUS
<1>5. (q - p) * n = y - x
  BY <1>1, <1>2, <1>3, <1>4
<1>6. q - p = 0
  BY <1>5, NoMultipleBetween
<1>7. q = p
  BY <1>6
<1>8. y - x = 0
  BY <1>1, <1>2, <1>3, <1>4, <1>7
<1> QED BY <1>8

LEMMA WrapIsRounds == \E w \in Int : Wrap = w * Size
<1>1. Size \in Nat \ {0} /\ Wrap \in Int /\ Wrap % Size = 0
  BY BufferAssumption
<1>2. \E w \in Int : Wrap = w * Size + (Wrap % Size)
  BY <1>1, Quotient, Zenon
<1>3. ASSUME NEW w \in Int, Wrap = w * Size + (Wrap % Size)
      PROVE  Wrap = w * Size
  <2>1. PICK b \in Int : b = w * Size
    BY <1>1
  <2> QED BY <1>1, <1>3, <2>1
<1> QED BY <1>2, <1>3, Zenon

-----------------------------------------------------------------------------
(***************************************************************************)
(* How the counters move: tail is at the slot after the last pending key,  *)
(* and each operation moves Pending by one, or misuses the ring.           *)
(***************************************************************************)
LEMMA Counters ==
  ASSUME NEW h \in 0 .. Wrap - 1, NEW t \in 0 .. Wrap - 1, NEW p,
         p = (t - h) % Wrap
  PROVE  /\ p \in Nat
         /\ t % Size = (h + p) % Size
         /\ (t - 1) % Wrap \in 0 .. Wrap - 1
         /\ ((t - 1) % Wrap) % Size = (h + (p - 1)) % Size
         /\ \A k \in Int : (((h + 1) % Wrap) + k) % Size = (h + (1 + k)) % Size
         /\ p < Size => (((t + 1) % Wrap) - h) % Wrap = p + 1
         /\ 1 <= p => /\ (((t - 1) % Wrap) - h) % Wrap = p - 1
                      /\ (t - ((h + 1) % Wrap)) % Wrap = p - 1
<1>1. /\ Size \in Nat \ {0} /\ Wrap \in Nat \ {0} /\ Size < Wrap
      /\ h \in Int /\ t \in Int /\ t - h \in Int
  BY BufferAssumption
<1>2. PICK w \in Int : Wrap = w * Size
  BY WrapIsRounds
<1>0. /\ -h \in Int /\ h - 1 \in Int /\ h + 1 \in Int
      /\ t - 1 \in Int /\ t + 1 \in Int
      /\ 0 \in Int /\ 1 \in Int /\ -1 \in Int
  BY <1>1
<1>3. p \in 0 .. Wrap - 1
  BY <1>1, Quotient
<1>4. Wrap = 1 * Wrap /\ 1 \in Int
  BY BufferAssumption
<1>5. \A x \in Int, k \in Int : /\ ((x % Wrap) + k) % Size = (x + k) % Size
                                /\ (k - (x % Wrap)) % Size = (k - x) % Size
  BY <1>1, <1>2, CounterShift, Zenon
<1>6. \A x \in Int, k \in Int : /\ ((x % Wrap) + k) % Wrap = (x + k) % Wrap
                                /\ (k - (x % Wrap)) % Wrap = (k - x) % Wrap
  BY <1>1, <1>4, CounterShift, Zenon
<1>7. \A r \in 0 .. Wrap - 1 : r % Wrap = r
  <2> TAKE r \in 0 .. Wrap - 1
  <2>1. r = 0 * Wrap + r /\ r \in Int
    BY <1>1
  <2> QED BY <1>1, <2>1, RemainderIs
<1>8. t % Size = (h + p) % Size
  <2>1. ((t - h) % Wrap) + h = h + p /\ (t - h) + h = t
    BY <1>1, <1>3
  <2>2. (((t - h) % Wrap) + h) % Size = ((t - h) + h) % Size
    BY <1>0, <1>1, <1>5, Zenon
  <2> QED BY <2>1, <2>2
<1>9. (t - 1) % Wrap \in 0 .. Wrap - 1
  BY <1>1, Quotient
<1>10. ((t - 1) % Wrap) % Size = (h + (p - 1)) % Size
  <2>1. (((t - 1) % Wrap) + 0) % Size = ((t - 1) + 0) % Size
    BY <1>0, <1>1, <1>5, Zenon
  <2>2. (((t - h) % Wrap) + (h - 1)) % Size = ((t - h) + (h - 1)) % Size
    BY <1>0, <1>1, <1>5, Zenon
  <2>3. /\ ((t - 1) % Wrap) + 0 = (t - 1) % Wrap
        /\ (t - 1) + 0 = t - 1
        /\ (t - h) + (h - 1) = t - 1
        /\ p + (h - 1) = h + (p - 1)
    BY <1>1, <1>3, <1>9
  <2> QED BY <2>1, <2>2, <2>3
<1>11. ASSUME NEW k \in Int
       PROVE  (((h + 1) % Wrap) + k) % Size = (h + (1 + k)) % Size
  <2>1. (((h + 1) % Wrap) + k) % Size = ((h + 1) + k) % Size
    BY <1>0, <1>1, <1>5, Zenon
  <2>2. (h + 1) + k = h + (1 + k)
    BY <1>1
  <2> QED BY <2>1, <2>2
<1>12. ASSUME p < Size PROVE (((t + 1) % Wrap) - h) % Wrap = p + 1
  <2>1. (((t + 1) % Wrap) + (-h)) % Wrap = ((t + 1) + (-h)) % Wrap
    BY <1>0, <1>1, <1>6, Zenon
  <2>2. (((t - h) % Wrap) + 1) % Wrap = ((t - h) + 1) % Wrap
    BY <1>0, <1>1, <1>6, Zenon
  <2>3. (t + 1) % Wrap \in Int
    BY <1>1, Quotient
  <2>4. /\ ((t + 1) % Wrap) + (-h) = ((t + 1) % Wrap) - h
        /\ (t + 1) + (-h) = (t - h) + 1
    BY <1>1, <2>3
  <2>5. p + 1 \in 0 .. Wrap - 1
    BY <1>1, <1>3, <1>12
  <2>6. (p + 1) % Wrap = p + 1
    BY <1>7, <2>5
  <2> QED BY <2>1, <2>2, <2>4, <2>6
<1>13. ASSUME 1 <= p PROVE /\ (((t - 1) % Wrap) - h) % Wrap = p - 1
                           /\ (t - ((h + 1) % Wrap)) % Wrap = p - 1
  <2>1. (((t - 1) % Wrap) + (-h)) % Wrap = ((t - 1) + (-h)) % Wrap
    BY <1>0, <1>1, <1>6, Zenon
  <2>2. (((t - h) % Wrap) + (-1)) % Wrap = ((t - h) + (-1)) % Wrap
    BY <1>0, <1>1, <1>6, Zenon
  <2>3. (t - ((h + 1) % Wrap)) % Wrap = (t - (h + 1)) % Wrap
    BY <1>0, <1>1, <1>6, Zenon
  <2>4. /\ ((t - 1) % Wrap) + (-h) = ((t - 1) % Wrap) - h
        /\ (t - 1) + (-h) = (t - h) + (-1)
        /\ t - (h + 1) = (t - h) + (-1)
        /\ p + (-1) = p - 1
    BY <1>1, <1>3, <1>9
  <2>5. p - 1 \in 0 .. Wrap - 1
    BY <1>1, <1>3, <1>13
  <2>6. (p - 1) % Wrap = p - 1
    BY <1>7, <2>5
  <2> QED BY <2>1, <2>2, <2>3, <2>4, <2>6
<1> QED BY <1>3, <1>8, <1>9, <1>10, <1>11, <1>12, <1>13

-----------------------------------------------------------------------------
(***************************************************************************)
(* The inductive invariant.  Until misuse, a slot holds a key exactly when *)
(* it is one of the Pending slots from head on.                            *)
(***************************************************************************)
KInv == TypeOK /\ NoGapUnlessMisused

(* The k-th slot from head on. *)
Slot(k) == (head + k) % Size

(* The facts about a state that the steps need. *)
LEMMA SlotFacts ==
  ASSUME TypeOK
  PROVE  /\ Size \in Nat \ {0} /\ Wrap \in Nat /\ 1 < Wrap
         /\ Pending \in Nat
         /\ \A k \in Int : Slot(k) \in 0 .. Size - 1
         /\ head % Size = Slot(0)
         /\ tail % Size = Slot(Pending)
         /\ \A j \in Int, k \in Int : j < k /\ k < j + Size => Slot(j) # Slot(k)
<1>1. head \in 0 .. Wrap - 1 /\ tail \in 0 .. Wrap - 1
  BY DEF TypeOK
<1>2. Size \in Nat \ {0} /\ Wrap \in Nat /\ 1 < Wrap
  BY BufferAssumption
<1>3. Pending \in Nat /\ tail % Size = Slot(Pending)
  BY <1>1, Counters DEF Pending, Slot
<1>4. ASSUME NEW k \in Int PROVE Slot(k) \in 0 .. Size - 1
  <2>1. head + k \in Int
    BY <1>1, <1>2
  <2> QED BY <1>2, <2>1, Quotient DEF Slot
<1>5. head % Size = Slot(0)
  <2>1. head + 0 = head
    BY <1>1, <1>2
  <2> QED BY <2>1 DEF Slot
<1>6. ASSUME NEW j \in Int, NEW k \in Int, j < k, k < j + Size
      PROVE  Slot(j) # Slot(k)
  <2>1. PICK x \in Int : x = head + j
    BY <1>1, <1>2
  <2>2. PICK y \in Int : y = head + k
    BY <1>1, <1>2
  <2>3. x < y /\ y < x + Size
    BY <1>1, <1>2, <1>6, <2>1, <2>2
  <2>4. x % Size # y % Size
    BY <1>2, <2>3, SlotsDiffer
  <2> QED BY <2>1, <2>2, <2>4 DEF Slot
<1> QED BY <1>2, <1>3, <1>4, <1>5, <1>6

(***************************************************************************)
(* What each operation does to the counters and to the slot it touches,    *)
(* while the ring is used as it should be.                                 *)
(***************************************************************************)
LEMMA PushMoves ==
  ASSUME TypeOK, NEW c \in Keys \cup {NUL}, keyboard_push(c)
  PROVE  /\ TypeOK' /\ c # NUL
         /\ buffer' = [buffer EXCEPT ![Slot(Pending)] = c]
         /\ Pending < Size => Pending' = Pending + 1
         /\ \A k \in Int : Slot(k)' = Slot(k)
<1>1. head \in 0 .. Wrap - 1 /\ tail \in 0 .. Wrap - 1
  BY DEF TypeOK
<1>2. /\ c # NUL /\ buffer' = [buffer EXCEPT ![tail % Size] = c]
      /\ tail' = (tail + 1) % Wrap /\ head' = head /\ returned' = returned
      /\ misused' = (misused \/ Pending = Size)
  BY DEF keyboard_push
<1>3. tail % Size = Slot(Pending)
  BY SlotFacts
<1>4. tail' \in 0 .. Wrap - 1
  BY <1>1, <1>2, BufferAssumption, Quotient
<1>5. buffer' \in [0 .. Size - 1 -> Keys \cup {NUL}] /\ misused' \in BOOLEAN
  BY <1>2 DEF TypeOK
<1>6. TypeOK'
  BY <1>1, <1>2, <1>4, <1>5 DEF TypeOK
<1>7. Pending < Size => Pending' = Pending + 1
  BY <1>1, <1>2, Counters DEF Pending
<1> QED BY <1>2, <1>3, <1>6, <1>7 DEF Slot

LEMMA PopMoves ==
  ASSUME TypeOK, keyboard_pop
  PROVE  /\ TypeOK' /\ misused' = misused /\ returned' = buffer[Slot(0)]
         /\ buffer[Slot(0)] = NUL => UNCHANGED <<buffer, head, tail>>
         /\ buffer[Slot(0)] # NUL =>
              /\ buffer' = [buffer EXCEPT ![Slot(0)] = NUL]
              /\ 1 <= Pending => Pending' = Pending - 1
              /\ \A k \in Int : Slot(k)' = Slot(1 + k)
<1>1. head \in 0 .. Wrap - 1 /\ tail \in 0 .. Wrap - 1
  BY DEF TypeOK
<1>2. /\ tail' = tail /\ misused' = misused
      /\ returned' = buffer[head % Size]
      /\ \/ buffer[head % Size] = NUL /\ buffer' = buffer /\ head' = head
         \/ /\ buffer[head % Size] # NUL
            /\ buffer' = [buffer EXCEPT ![head % Size] = NUL]
            /\ head' = (head + 1) % Wrap
  BY DEF keyboard_pop
<1>3. head % Size = Slot(0) /\ Slot(0) \in 0 .. Size - 1
  BY SlotFacts
<1>4. (head + 1) % Wrap \in 0 .. Wrap - 1
  BY <1>1, BufferAssumption, Quotient
<1>5. TypeOK'
  BY <1>1, <1>2, <1>3, <1>4 DEF TypeOK
<1>6. ASSUME buffer[Slot(0)] # NUL
      PROVE  /\ 1 <= Pending => Pending' = Pending - 1
             /\ \A k \in Int : Slot(k)' = Slot(1 + k)
  <2>1. tail' = tail /\ head' = (head + 1) % Wrap
    BY <1>2, <1>3, <1>6
  <2>2. 1 <= Pending => Pending' = Pending - 1
    BY <1>1, <2>1, Counters DEF Pending
  <2>3. \A k \in Int : Slot(k)' = Slot(1 + k)
    BY <1>1, <2>1, Counters DEF Slot
  <2> QED BY <2>2, <2>3
<1> QED BY <1>2, <1>3, <1>5, <1>6

LEMMA BackspaceMoves ==
  ASSUME TypeOK, keyboard_backspace
  PROVE  /\ TypeOK' /\ returned' = returned
         /\ buffer' = [buffer EXCEPT ![Slot(Pending - 1)] = NUL]
         /\ 1 <= Pending => Pending' = Pending - 1
         /\ \A k \in Int : Slot(k)' = Slot(k)
         /\ misused' = (misused \/ Pending = 0)
<1>1. head \in 0 .. Wrap - 1 /\ tail \in 0 .. Wrap - 1
  BY DEF TypeOK
<1>2. /\ buffer' = [buffer EXCEPT ![tail' % Size] = NUL]
      /\ tail' = (tail - 1) % Wrap /\ head' = head /\ returned' = returned
      /\ misused' = (misused \/ Pending = 0)
  BY DEF keyboard_backspace
<1>3. tail' \in 0 .. Wrap - 1 /\ tail' % Size = Slot(Pending - 1)
  BY <1>1, <1>2, Counters DEF Pending, Slot
<1>4. buffer' \in [0 .. Size - 1 -> Keys \cup {NUL}] /\ misused' \in BOOLEAN
  BY <1>2 DEF TypeOK
<1>5. TypeOK'
  BY <1>1, <1>2, <1>3, <1>4 DEF TypeOK
<1>6. 1 <= Pending => Pending' = Pending - 1
  BY <1>1, <1>2, Counters DEF Pending
<1> QED BY <1>2, <1>3, <1>5, <1>6 DEF Slot

-----------------------------------------------------------------------------
Full(i) == buffer[i] # NUL
Occupied(i) == \E k \in 0 .. Pending - 1 : i = Slot(k)

(* NoGapUnlessMisused in terms of slots. *)
LEMMA NoGapMeans ==
  NoGapUnlessMisused <=>
    (~ misused => /\ Pending <= Size
                  /\ \A i \in 0 .. Size - 1 : Full(i) <=> Occupied(i))
BY DEF NoGapUnlessMisused, Full, Occupied, Slot

LEMMA PushKeeps ==
  ASSUME KInv, NEW c \in Keys \cup {NUL}, keyboard_push(c)
  PROVE  KInv'
<1>1. TypeOK /\ NoGapUnlessMisused
  BY DEF KInv
<1>2. /\ TypeOK' /\ c # NUL
      /\ buffer' = [buffer EXCEPT ![Slot(Pending)] = c]
      /\ Pending < Size => Pending' = Pending + 1
      /\ \A k \in Int : Slot(k)' = Slot(k)
  BY <1>1, PushMoves
<1>3. /\ Size \in Nat \ {0} /\ Pending \in Nat
      /\ \A k \in Int : Slot(k) \in 0 .. Size - 1
  BY <1>1, SlotFacts
<1>4. ASSUME ~ misused'
      PROVE  /\ Pending' <= Size
             /\ \A i \in 0 .. Size - 1 : Full(i)' <=> Occupied(i)'
  <2>1. ~ misused /\ Pending # Size
    BY <1>4 DEF keyboard_push
  <2>2. /\ Pending <= Size
        /\ \A i \in 0 .. Size - 1 : Full(i) <=> Occupied(i)
    BY <1>1, <2>1, NoGapMeans
  <2>3. Pending' = Pending + 1 /\ Pending' <= Size
    BY <1>2, <1>3, <2>1, <2>2
  <2>4. ASSUME NEW i \in 0 .. Size - 1
        PROVE  Full(i)' <=> Occupied(i)'
    <3>1. Full(i)' <=> i = Slot(Pending) \/ Full(i)
      BY <1>1, <1>2 DEF Full, TypeOK
    <3>2. Occupied(i)' <=> \E k \in 0 .. Pending : i = Slot(k)
      BY <1>2, <1>3, <2>3 DEF Occupied
    <3>3. (\E k \in 0 .. Pending : i = Slot(k)) <=> i = Slot(Pending) \/ Occupied(i)
      BY <1>3 DEF Occupied
    <3> QED BY <2>2, <3>1, <3>2, <3>3
  <2> QED BY <2>3, <2>4
<1>5. NoGapUnlessMisused'
  BY <1>4 DEF NoGapUnlessMisused, Full, Occupied, Slot
<1> QED BY <1>2, <1>5 DEF KInv

LEMMA PopKeeps ==
  ASSUME KInv, keyboard_pop
  PROVE  KInv'
<1>1. TypeOK /\ NoGapUnlessMisused
  BY DEF KInv
<1>2. /\ TypeOK' /\ misused' = misused
      /\ buffer[Slot(0)] = NUL => UNCHANGED <<buffer, head, tail>>
      /\ buffer[Slot(0)] # NUL =>
           /\ buffer' = [buffer EXCEPT ![Slot(0)] = NUL]
           /\ 1 <= Pending => Pending' = Pending - 1
           /\ \A k \in Int : Slot(k)' = Slot(1 + k)
  BY <1>1, PopMoves
<1>3. /\ Size \in Nat \ {0} /\ Pending \in Nat
      /\ \A k \in Int : Slot(k) \in 0 .. Size - 1
      /\ \A j \in Int, k \in Int : j < k /\ k < j + Size => Slot(j) # Slot(k)
  BY <1>1, SlotFacts
<1>4. ASSUME ~ misused'
      PROVE  /\ Pending' <= Size
             /\ \A i \in 0 .. Size - 1 : Full(i)' <=> Occupied(i)'
  <2>1. /\ Pending <= Size
        /\ \A i \in 0 .. Size - 1 : Full(i) <=> Occupied(i)
    BY <1>1, <1>2, <1>4, NoGapMeans
  <2>2. CASE buffer[Slot(0)] = NUL
    <3>1. Pending' = Pending /\ \A k \in Int : Slot(k)' = Slot(k)
      BY <1>2, <2>2 DEF Pending, Slot
    <3>2. buffer' = buffer
      BY <1>2, <2>2
    <3> QED BY <1>3, <2>1, <3>1, <3>2 DEF Full, Occupied
  <2>3. CASE buffer[Slot(0)] # NUL
    <3>1. 1 <= Pending
      BY <1>3, <2>1, <2>3 DEF Full, Occupied
    <3>2. /\ Pending' = Pending - 1
          /\ buffer' = [buffer EXCEPT ![Slot(0)] = NUL]
          /\ \A k \in Int : Slot(k)' = Slot(1 + k)
      BY <1>2, <2>3, <3>1
    <3>3. ASSUME NEW i \in 0 .. Size - 1
          PROVE  Full(i)' <=> Occupied(i)'
      <4>1. Full(i)' <=> i # Slot(0) /\ Full(i)
        BY <1>1, <3>2 DEF Full, TypeOK
      <4>2. Occupied(i)' <=> \E k \in 0 .. Pending - 2 : i = Slot(1 + k)
        <5>1. Occupied(i)' <=> \E k \in 0 .. Pending' - 1 : i = Slot(k)'
          BY DEF Occupied
        <5>2. Pending' - 1 = Pending - 2
          BY <1>3, <3>2
        <5>3. \A k \in 0 .. Pending - 2 : Slot(k)' = Slot(1 + k)
          BY <1>3, <3>2
        <5> QED BY <5>1, <5>2, <5>3, Zenon
      <4>3. (\E k \in 0 .. Pending - 2 : i = Slot(1 + k))
              <=> \E k \in 1 .. Pending - 1 : i = Slot(k)
        <5>1. ASSUME NEW k \in 1 .. Pending - 1, i = Slot(k)
              PROVE  \E j \in 0 .. Pending - 2 : i = Slot(1 + j)
          <6>1. k - 1 \in 0 .. Pending - 2 /\ 1 + (k - 1) = k
            BY <1>3
          <6> QED BY <5>1, <6>1
        <5>2. ASSUME NEW k \in 0 .. Pending - 2, i = Slot(1 + k)
              PROVE  \E j \in 1 .. Pending - 1 : i = Slot(j)
          <6>1. 1 + k \in 1 .. Pending - 1
            BY <1>3
          <6> QED BY <5>2, <6>1
        <5> QED BY <5>1, <5>2
      <4>4. \A k \in 1 .. Pending - 1 : Slot(0) # Slot(k)
        BY <1>3, <2>1
      <4>5. Occupied(i) <=> i = Slot(0) \/ \E k \in 1 .. Pending - 1 : i = Slot(k)
        BY <1>3, <3>1 DEF Occupied
      <4> QED BY <2>1, <4>1, <4>2, <4>3, <4>4, <4>5
    <3> QED BY <1>3, <2>1, <3>2, <3>3
  <2> QED BY <2>2, <2>3
<1>5. NoGapUnlessMisused'
  BY <1>4 DEF NoGapUnlessMisused, Full, Occupied, Slot
<1> QED BY <1>2, <1>5 DEF KInv

LEMMA BackspaceKeeps ==
  ASSUME KInv, keyboard_backspace
  PROVE  KInv'
<1>1. TypeOK /\ NoGapUnlessMisused
  BY DEF KInv
<1>2. /\ TypeOK'
      /\ buffer' = [buffer EXCEPT ![Slot(Pending - 1)] = NUL]
      /\ 1 <= Pending => Pending' = Pending - 1
      /\ \A k \in Int : Slot(k)' = Slot(k)
      /\ misused' = (misused \/ Pending = 0)
  BY <1>1, BackspaceMoves
<1>3. /\ Size \in Nat \ {0} /\ Pending \in Nat
      /\ \A k \in Int : Slot(k) \in 0 .. Size - 1
      /\ \A j \in Int, k \in Int : j < k /\ k < j + Size => Slot(j) # Slot(k)
  BY <1>1, SlotFacts
<1>4. ASSUME ~ misused'
      PROVE  /\ Pending' <= Size
             /\ \A i \in 0 .. Size - 1 : Full(i)' <=> Occupied(i)'
  <2>1. ~ misused /\ 1 <= Pending
    <3>1. ~ misused /\ Pending # 0
      BY <1>2, <1>4, Zenon
    <3> QED BY <1>3, <3>1
  <2>2. /\ Pending <= Size
        /\ \A i \in 0 .. Size - 1 : Full(i) <=> Occupied(i)
    BY <1>1, <2>1, NoGapMeans
  <2>3. Pending' = Pending - 1
    BY <1>2, <2>1
  <2>4. ASSUME NEW i \in 0 .. Size - 1
        PROVE  Full(i)' <=> Occupied(i)'
    <3>1. Full(i)' <=> i # Slot(Pending - 1) /\ Full(i)
      BY <1>1, <1>2 DEF Full, TypeOK
    <3>2. Occupied(i)' <=> \E k \in 0 .. Pending - 2 : i = Slot(k)
      <4>1. Occupied(i)' <=> \E k \in 0 .. Pending' - 1 : i = Slot(k)'
        BY DEF Occupied
      <4>2. Pending' - 1 = Pending - 2
        BY <1>3, <2>3
      <4> QED BY <1>2, <1>3, <4>1, <4>2
    <3>3. \A k \in 0 .. Pending - 2 : Slot(k) # Slot(Pending - 1)
      BY <1>3, <2>2
    <3>4. Occupied(i) <=> \/ i = Slot(Pending - 1)
                          \/ \E k \in 0 .. Pending - 2 : i = Slot(k)
      BY <1>3, <2>1 DEF Occupied
    <3> QED BY <2>2, <3>1, <3>2, <3>3, <3>4
  <2> QED BY <1>3, <2>2, <2>3, <2>4
<1>5. NoGapUnlessMisused'
  BY <1>4 DEF NoGapUnlessMisused, Full, Occupied, Slot
<1> QED BY <1>2, <1>5 DEF KInv

LEMMA InitKInv == Init => KInv
<1> SUFFICES ASSUME Init PROVE KInv
  OBVIOUS
<1>1. Size \in Nat \ {0} /\ Wrap \in Nat /\ 0 < Wrap
  BY BufferAssumption
<1>2. TypeOK
  <2>1. head \in 0 .. Wrap - 1 /\ tail \in 0 .. Wrap - 1
    BY <1>1 DEF Init
  <2>2. /\ buffer \in [0 .. Size - 1 -> Keys \cup {NUL}]
        /\ returned \in Keys \cup {NUL} /\ misused \in BOOLEAN
    BY DEF Init
  <2> QED BY <2>1, <2>2 DEF TypeOK
<1>3. Pending = 0
  <2>1. 0 = 0 * Wrap + 0 /\ 0 - 0 = 0
    BY <1>1
  <2>2. 0 % Wrap = 0
    BY <1>1, <2>1, RemainderIs
  <2> QED BY <2>1, <2>2 DEF Init, Pending
<1>4. NoGapUnlessMisused
  BY <1>1, <1>3 DEF Init, NoGapUnlessMisused
<1> QED BY <1>2, <1>4 DEF KInv

LEMMA NextKInv == KInv /\ [Next]_vars => KInv'
<1> SUFFICES ASSUME KInv, [Next]_vars PROVE KInv'
  OBVIOUS
<1>1. CASE \E c \in Keys \cup {NUL} : keyboard_push(c)
  BY <1>1, PushKeeps
<1>2. CASE keyboard_pop
  BY <1>2, PopKeeps
<1>3. CASE keyboard_backspace
  BY <1>3, BackspaceKeeps
<1>4. CASE UNCHANGED vars
  <2>1. TypeOK'
    BY <1>4 DEF KInv, TypeOK, vars
  <2>2. NoGapUnlessMisused'
    BY <1>4 DEF KInv, NoGapUnlessMisused, Pending, vars
  <2> QED BY <2>1, <2>2 DEF KInv
<1> QED BY <1>1, <1>2, <1>3, <1>4 DEF Next

THEOREM KeyboardInvariant == Spec => []KInv
<1>1. Init => KInv
  BY InitKInv
<1>2. KInv /\ [Next]_vars => KInv'
  BY NextKInv
<1> QED BY <1>1, <1>2, PTL DEF Spec

(* The counters stay 32-bit values, the slots hold keys or 0 (keyboard.c). *)
THEOREM KeyboardTypeCorrect == Spec => []TypeOK
<1>1. KInv => TypeOK
  BY DEF KInv
<1> QED BY <1>1, KeyboardInvariant, PTL

(* The reader of keyboard_pop stalls in front of a key only after misuse. *)
THEOREM KeyboardNoGap == Spec => []NoGapUnlessMisused
<1>1. KInv => NoGapUnlessMisused
  BY DEF KInv
<1> QED BY <1>1, KeyboardInvariant, PTL

-----------------------------------------------------------------------------
(* Every step until misuse is a step of the queue, or changes nothing of it.*)

LEMMA InitIsQueueInit == Init => KeyQueueSpec!Init
<1> SUFFICES ASSUME Init PROVE Contents = <<>> /\ returned = NUL
  BY DEF KeyQueueSpec!Init
<1>1. Pending = 0
  <2>1. Wrap \in Nat \ {0}
    BY BufferAssumption
  <2>2. 0 = 0 * Wrap + 0 /\ 0 - 0 = 0 /\ 0 \in 0 .. Wrap - 1
    BY <2>1
  <2>3. 0 % Wrap = 0
    BY <2>1, <2>2, RemainderIs
  <2> QED BY <2>2, <2>3 DEF Init, Pending
<1> QED BY <1>1 DEF Init, Contents

ContentsSpelled ==
  /\ Contents \in Seq(Keys \cup {NUL})
  /\ Len(Contents) = Pending
  /\ \A i \in 1 .. Pending : Contents[i] = buffer[Slot(i - 1)]

LEMMA ContentsIsSequence == TypeOK => ContentsSpelled
<1> SUFFICES ASSUME TypeOK PROVE ContentsSpelled
  OBVIOUS
<1>1. Pending \in Nat /\ \A k \in Int : Slot(k) \in 0 .. Size - 1
  BY SlotFacts
<1>2. head \in Int
  BY BufferAssumption DEF TypeOK
<1>3. \A i \in Int : head + i - 1 = head + (i - 1)
  BY <1>2
<1>4. Contents = [i \in 1 .. Pending |-> buffer[Slot(i - 1)]]
  BY <1>1, <1>3 DEF Contents, Slot
<1>5. \A i \in 1 .. Pending : buffer[Slot(i - 1)] \in Keys \cup {NUL}
  BY <1>1 DEF TypeOK
<1> QED BY <1>1, <1>4, <1>5 DEF ContentsSpelled

LEMMA SameSequence ==
  ASSUME NEW S, NEW s \in Seq(S), NEW t \in Seq(S), Len(s) = Len(t),
         \A i \in 1 .. Len(s) : s[i] = t[i]
  PROVE  s = t
OBVIOUS

LEMMA FrontOfSequence ==
  ASSUME NEW S, NEW s \in Seq(S), 1 <= Len(s)
  PROVE  /\ SubSeq(s, 1, Len(s) - 1) \in Seq(S)
         /\ Len(SubSeq(s, 1, Len(s) - 1)) = Len(s) - 1
<1>1. Len(s) \in Nat
  OBVIOUS
<1>2. \A i \in 1 .. Len(s) - 1 : s[i] \in S
  BY <1>1
<1>3. PICK n \in Nat : n = Len(s) - 1
  BY <1>1
<1>4. SubSeq(s, 1, Len(s) - 1) = [i \in 1 .. n |-> s[i]]
  BY <1>1, <1>3
<1>5. /\ [i \in 1 .. n |-> s[i]] \in Seq(S)
      /\ Len([i \in 1 .. n |-> s[i]]) = n
  BY <1>2, <1>3
<1> QED BY <1>3, <1>4, <1>5

(* The step of the queue that each operation takes. *)
LEMMA PushIsType ==
  ASSUME KInv, NEW c \in Keys \cup {NUL}, keyboard_push(c), ~ misused'
  PROVE  KeyQueueSpec!Type(c) /\ c \in Keys
<1>1. TypeOK /\ NoGapUnlessMisused /\ TypeOK'
  BY PushKeeps DEF KInv
<1>0. ContentsSpelled'
  <2>1. TypeOK'
    BY <1>1
  <2> QED BY <2>1, ContentsIsSequence, PTL
<1>2. ~ misused /\ Pending # Size /\ c # NUL /\ returned' = returned
  BY DEF keyboard_push
<1>3. Pending <= Size
  BY <1>1, <1>2 DEF NoGapUnlessMisused
<1>4. /\ Size \in Nat /\ Pending \in Nat
      /\ \A k \in Int : Slot(k) \in 0 .. Size - 1
      /\ \A j \in Int, k \in Int : j < k /\ k < j + Size => Slot(j) # Slot(k)
  BY <1>1, SlotFacts
<1>5. Pending < Size
  BY <1>2, <1>3, <1>4
<1>6. /\ buffer' = [buffer EXCEPT ![Slot(Pending)] = c]
      /\ Pending' = Pending + 1
      /\ \A k \in Int : Slot(k)' = Slot(k)
  BY <1>1, <1>5, PushMoves
<1>7. /\ Contents \in Seq(Keys \cup {NUL}) /\ Len(Contents) = Pending
      /\ \A i \in 1 .. Pending : Contents[i] = buffer[Slot(i - 1)]
  BY <1>1, ContentsIsSequence DEF ContentsSpelled
<1>8. /\ Contents' \in Seq(Keys \cup {NUL}) /\ Len(Contents') = Pending'
      /\ \A i \in 1 .. Pending' : Contents'[i] = buffer'[Slot(i - 1)']
  BY <1>0 DEF ContentsSpelled
<1>9. ASSUME NEW i \in 1 .. Pending + 1
      PROVE  Contents'[i] = Append(Contents, c)[i]
  <2>1. i \in Int /\ i - 1 \in Int
    BY <1>4
  <2>4. i \in 1 .. Pending' /\ Slot(i - 1)' = Slot(i - 1)
    BY <1>6, <2>1
  <2>5. Contents'[i] = buffer'[Slot(i - 1)]
    BY <1>8, <2>4
  <2>2. CASE i = Pending + 1
    <3>1. i - 1 = Pending
      BY <1>4, <2>2
    <3>2. buffer'[Slot(Pending)] = c
      BY <1>1, <1>4, <1>6 DEF TypeOK
    <3>3. Append(Contents, c)[i] = c
      BY <1>7, <2>2
    <3> QED BY <2>5, <3>1, <3>2, <3>3
  <2>3. CASE i \in 1 .. Pending
    <3>1. Slot(i - 1) # Slot(Pending)
      BY <1>4, <1>5, <2>1, <2>3
    <3>2. buffer'[Slot(i - 1)] = buffer[Slot(i - 1)]
      BY <1>1, <1>4, <1>6, <2>1, <3>1 DEF TypeOK
    <3>3. Append(Contents, c)[i] = Contents[i]
      BY <1>7, <2>3
    <3> QED BY <1>7, <2>3, <2>5, <3>2, <3>3
  <2>6. i = Pending + 1 \/ i \in 1 .. Pending
    BY <1>4
  <2> QED BY <2>2, <2>3, <2>6
<1>10. Contents' = Append(Contents, c)
  <2>1. /\ Append(Contents, c) \in Seq(Keys \cup {NUL})
        /\ Len(Append(Contents, c)) = Pending + 1
    BY <1>7
  <2> QED BY <1>6, <1>8, <1>9, <2>1, SameSequence
<1> QED BY <1>2, <1>5, <1>7, <1>10 DEF KeyQueueSpec!Type

LEMMA PopIsRead ==
  ASSUME KInv, keyboard_pop, ~ misused'
  PROVE  KeyQueueSpec!Read
<1>1. TypeOK /\ NoGapUnlessMisused /\ TypeOK'
  BY PopKeeps DEF KInv
<1>0. ContentsSpelled'
  <2>1. TypeOK'
    BY <1>1
  <2> QED BY <2>1, ContentsIsSequence, PTL
<1>2. /\ misused' = misused /\ returned' = buffer[Slot(0)]
      /\ buffer[Slot(0)] = NUL => UNCHANGED <<buffer, head, tail>>
      /\ buffer[Slot(0)] # NUL =>
           /\ buffer' = [buffer EXCEPT ![Slot(0)] = NUL]
           /\ 1 <= Pending => Pending' = Pending - 1
           /\ \A k \in Int : Slot(k)' = Slot(1 + k)
  BY <1>1, PopMoves
<1>3. /\ Size \in Nat /\ Pending \in Nat
      /\ \A k \in Int : Slot(k) \in 0 .. Size - 1
      /\ \A j \in Int, k \in Int : j < k /\ k < j + Size => Slot(j) # Slot(k)
  BY <1>1, SlotFacts
<1>4. /\ Pending <= Size
      /\ \A i \in 0 .. Size - 1 : Full(i) <=> Occupied(i)
  BY <1>1, <1>2, NoGapMeans
<1>5. /\ Contents \in Seq(Keys \cup {NUL}) /\ Len(Contents) = Pending
      /\ \A i \in 1 .. Pending : Contents[i] = buffer[Slot(i - 1)]
  BY <1>1, ContentsIsSequence DEF ContentsSpelled
<1>6. CASE buffer[Slot(0)] = NUL
  <2>1. ~ Occupied(Slot(0))
    BY <1>3, <1>4, <1>6 DEF Full
  <2>2. Pending = 0
    BY <1>3, <2>1 DEF Occupied
  <2>3. Contents = <<>>
    BY <1>5, <2>2
  <2>4. Contents' = Contents
    BY <1>2, <1>6 DEF Contents, Pending
  <2> QED BY <1>2, <1>6, <2>3, <2>4 DEF KeyQueueSpec!Read
<1>7. CASE buffer[Slot(0)] # NUL
  <2>1. Occupied(Slot(0))
    BY <1>3, <1>4, <1>7 DEF Full
  <2>2. 1 <= Pending
    BY <1>3, <2>1 DEF Occupied
  <2>3. /\ buffer' = [buffer EXCEPT ![Slot(0)] = NUL]
        /\ Pending' = Pending - 1
        /\ \A k \in Int : Slot(k)' = Slot(1 + k)
    BY <1>2, <1>7, <2>2
  <2>4. /\ Contents' \in Seq(Keys \cup {NUL}) /\ Len(Contents') = Pending'
        /\ \A i \in 1 .. Pending' : Contents'[i] = buffer'[Slot(i - 1)']
    BY <1>0 DEF ContentsSpelled
  <2>5. ASSUME NEW i \in 1 .. Pending - 1
        PROVE  Contents'[i] = Tail(Contents)[i]
    <3>1. i - 1 \in Int /\ 1 + (i - 1) = i /\ i \in Int /\ i < 0 + Size /\ 0 < i
      BY <1>3, <1>4
    <3>2. Contents'[i] = buffer'[Slot(i)]
      BY <1>3, <2>3, <2>4, <3>1
    <3>3. Slot(0) # Slot(i)
      BY <1>3, <3>1
    <3>4. buffer'[Slot(i)] = buffer[Slot(i)]
      BY <1>1, <1>3, <2>3, <3>1, <3>3 DEF TypeOK
    <3>5. Contents[i + 1] = buffer[Slot(i)]
      <4>1. i + 1 \in 1 .. Pending /\ (i + 1) - 1 = i
        BY <1>3
      <4> QED BY <1>5, <4>1
    <3> QED BY <1>3, <1>5, <3>2, <3>4, <3>5
  <2>6. Contents' = Tail(Contents)
    <3>1. /\ Tail(Contents) \in Seq(Keys \cup {NUL})
          /\ Len(Tail(Contents)) = Pending - 1
      BY <1>3, <1>5, <2>2
    <3> QED BY <2>3, <2>4, <2>5, <3>1, SameSequence
  <2>7. Head(Contents) = buffer[Slot(0)] /\ Contents # <<>>
    <3>1. 1 \in 1 .. Pending /\ 1 - 1 = 0
      BY <1>3, <2>2
    <3>2. Contents[1] = buffer[Slot(0)]
      BY <1>5, <3>1
    <3> QED BY <1>5, <2>2, <3>2
  <2> QED BY <1>2, <2>6, <2>7 DEF KeyQueueSpec!Read
<1> QED BY <1>6, <1>7

LEMMA BackspaceIsErase ==
  ASSUME KInv, keyboard_backspace, ~ misused'
  PROVE  KeyQueueSpec!Erase
<1>1. TypeOK /\ NoGapUnlessMisused /\ TypeOK'
  BY BackspaceKeeps DEF KInv
<1>0. ContentsSpelled'
  <2>1. TypeOK'
    BY <1>1
  <2> QED BY <2>1, ContentsIsSequence, PTL
<1>2. /\ returned' = returned
      /\ buffer' = [buffer EXCEPT ![Slot(Pending - 1)] = NUL]
      /\ 1 <= Pending => Pending' = Pending - 1
      /\ \A k \in Int : Slot(k)' = Slot(k)
      /\ misused' = (misused \/ Pending = 0)
  BY <1>1, BackspaceMoves
<1>3. /\ Size \in Nat /\ Pending \in Nat
      /\ \A k \in Int : Slot(k) \in 0 .. Size - 1
      /\ \A j \in Int, k \in Int : j < k /\ k < j + Size => Slot(j) # Slot(k)
  BY <1>1, SlotFacts
<1>4. ~ misused /\ Pending # 0
  BY <1>2, Zenon
<1>5. Pending <= Size /\ 1 <= Pending
  BY <1>1, <1>3, <1>4 DEF NoGapUnlessMisused
<1>6. /\ Contents \in Seq(Keys \cup {NUL}) /\ Len(Contents) = Pending
      /\ \A i \in 1 .. Pending : Contents[i] = buffer[Slot(i - 1)]
  BY <1>1, ContentsIsSequence DEF ContentsSpelled
<1>7. /\ Contents' \in Seq(Keys \cup {NUL}) /\ Len(Contents') = Pending'
      /\ \A i \in 1 .. Pending' : Contents'[i] = buffer'[Slot(i - 1)']
  BY <1>0 DEF ContentsSpelled
<1>8. Pending' = Pending - 1
  BY <1>2, <1>5
<1>9. ASSUME NEW i \in 1 .. Pending - 1
      PROVE  Contents'[i] = SubSeq(Contents, 1, Len(Contents) - 1)[i]
  <2>1. i \in Int /\ i - 1 \in Int /\ i \in 1 .. Pending
    BY <1>3
  <2>6. i \in 1 .. Pending' /\ Slot(i - 1)' = Slot(i - 1)
    BY <1>2, <1>8, <2>1
  <2>7. Contents'[i] = buffer'[Slot(i - 1)]
    BY <1>7, <2>6
  <2>2. Pending - 1 \in Int /\ i - 1 < Pending - 1 /\ Pending - 1 < (i - 1) + Size
    BY <1>3, <1>5
  <2>3. Slot(i - 1) # Slot(Pending - 1)
    BY <1>3, <2>1, <2>2
  <2>4. buffer'[Slot(i - 1)] = buffer[Slot(i - 1)]
    BY <1>1, <1>2, <1>3, <2>1, <2>3 DEF TypeOK
  <2>5. Contents[i] = buffer[Slot(i - 1)]
    BY <1>6, <2>1
  <2>8. SubSeq(Contents, 1, Len(Contents) - 1)[i] = Contents[i]
    BY <1>3, <1>6
  <2> QED BY <2>4, <2>5, <2>7, <2>8
<1>10. Contents' = SubSeq(Contents, 1, Len(Contents) - 1)
  <2>1. /\ SubSeq(Contents, 1, Len(Contents) - 1) \in Seq(Keys \cup {NUL})
        /\ Len(SubSeq(Contents, 1, Len(Contents) - 1)) = Pending - 1
    BY <1>3, <1>5, <1>6, FrontOfSequence
  <2> QED BY <1>7, <1>8, <1>9, <2>1, SameSequence
<1>11. Contents # <<>>
  BY <1>5, <1>6
<1> QED BY <1>2, <1>10, <1>11 DEF KeyQueueSpec!Erase

(***************************************************************************)
(* keyboard_push, keyboard_pop and keyboard_backspace implement the queue  *)
(* of KeyQueue until the ring is misused.                                  *)
(***************************************************************************)
THEOREM KeyboardIsQueue == Spec => KeyQueueImplemented
<1>1. Init => KeyQueueSpec!Init
  BY InitIsQueueInit
<1>2. KInv /\ [Next]_vars
        => [misused' \/ KeyQueueSpec!Next]_<<Contents, returned>>
  <2> SUFFICES ASSUME KInv, [Next]_vars, ~ misused',
                      ~ UNCHANGED <<Contents, returned>>
               PROVE  KeyQueueSpec!Next
    OBVIOUS
  <2>1. CASE \E c \in Keys \cup {NUL} : keyboard_push(c)
    BY <2>1, PushIsType DEF KeyQueueSpec!Next
  <2>2. CASE keyboard_pop
    BY <2>2, PopIsRead DEF KeyQueueSpec!Next
  <2>3. CASE keyboard_backspace
    BY <2>3, BackspaceIsErase DEF KeyQueueSpec!Next
  <2>4. CASE UNCHANGED vars
    BY <2>4 DEF vars, Contents, Pending
  <2> QED BY <2>1, <2>2, <2>3, <2>4 DEF Next
<1> QED BY <1>1, <1>2, KeyboardInvariant, PTL DEF Spec, KeyQueueImplemented
=============================================================================
