--------------------------- MODULE KeyboardBuffer ---------------------------
(***************************************************************************)
(* The key buffer of one process (keyboard.c): a ring of bytes in which an *)
(* empty slot holds 0, a head the reader advances and a tail the keyboard  *)
(* interrupt advances, both free running 32-bit counters.                  *)
(***************************************************************************)
EXTENDS Integers

CONSTANTS
  Size,   \* VARGOOS_MAX_KEYBOARD_BUFFER_SIZE
  Wrap,   \* 2^32, where head and tail start again from 0
  Keys,   \* the key codes
  NUL     \* the byte 0x00

ASSUME BufferAssumption ==
  /\ Size \in Nat \ {0}
  /\ Wrap \in Nat
  /\ Size < Wrap      \* a full ring differs from an empty one
  /\ Wrap % Size = 0
  /\ NUL \notin Keys

VARIABLES
  buffer, head, tail,
  returned,   \* what the last keyboard_pop returned
  misused     \* history: a push met a full ring or a backspace an empty one

vars == <<buffer, head, tail, returned, misused>>

(* process_init clears the keyboard with the rest of the process. *)
Init ==
  /\ buffer = [i \in 0 .. Size - 1 |-> NUL]
  /\ head = 0
  /\ tail = 0
  /\ returned = NUL
  /\ misused = FALSE

(* How many keys lie between head and tail, and which. *)
Pending == (tail - head) % Wrap
Contents == [i \in 1 .. Pending |-> buffer[(head + i - 1) % Size]]

-----------------------------------------------------------------------------
(* Mutant: the counter does not wrap. *)
PushUnbounded(c) ==
  /\ c # NUL
  /\ buffer' = [buffer EXCEPT ![tail % Size] = c]
  /\ tail' = tail + 1
  /\ misused' = (misused \/ Pending = Size)
  /\ UNCHANGED <<head, returned>>

keyboard_push(c) ==
  /\ c # NUL
  /\ buffer' = [buffer EXCEPT ![tail % Size] = c]
  /\ tail' = (tail + 1) % Wrap
  /\ misused' = (misused \/ Pending = Size)
  /\ UNCHANGED <<head, returned>>

(* Mutant: the slot that was read keeps its key. *)
PopKeepsByte ==
  LET popped == buffer[head % Size] IN
  /\ returned' = popped
  /\ head' = IF popped = NUL THEN head ELSE (head + 1) % Wrap
  /\ UNCHANGED <<buffer, tail, misused>>

keyboard_pop ==
  LET popped == buffer[head % Size] IN
  /\ returned' = popped
  /\ \/ popped = NUL /\ UNCHANGED <<buffer, head>>
     \/ /\ popped # NUL
        /\ buffer' = [buffer EXCEPT ![head % Size] = NUL]
        /\ head' = (head + 1) % Wrap
  /\ UNCHANGED <<tail, misused>>

(* Mutant: the slot is cleared before the tail moves back. *)
BackspaceClearsFirst ==
  /\ tail' = (tail - 1) % Wrap
  /\ buffer' = [buffer EXCEPT ![tail % Size] = NUL]
  /\ misused' = (misused \/ Pending = 0)
  /\ UNCHANGED <<head, returned>>

keyboard_backspace ==
  /\ tail' = (tail - 1) % Wrap
  /\ buffer' = [buffer EXCEPT ![tail' % Size] = NUL]
  /\ misused' = (misused \/ Pending = 0)
  /\ UNCHANGED <<head, returned>>

Next ==
  \/ \E c \in Keys \cup {NUL} : keyboard_push(c)
  \/ keyboard_pop
  \/ keyboard_backspace

Spec == Init /\ [][Next]_vars

-----------------------------------------------------------------------------
TypeOK ==
  /\ buffer \in [0 .. Size - 1 -> Keys \cup {NUL}]
  /\ head \in 0 .. Wrap - 1
  /\ tail \in 0 .. Wrap - 1
  /\ returned \in Keys \cup {NUL}
  /\ misused \in BOOLEAN

(***************************************************************************)
(* The reader only sees the ring stall (a key waiting, but not at head)    *)
(* after misuse: until then the occupied slots are exactly the Pending     *)
(* ones from head on, across the wrap of the counters as well.             *)
(***************************************************************************)
NoGapUnlessMisused ==
  ~ misused =>
    /\ Pending <= Size
    /\ \A i \in 0 .. Size - 1 :
         buffer[i] # NUL <=> \E k \in 0 .. Pending - 1 : i = (head + k) % Size

(***************************************************************************)
(* Until a push meets a full ring or a backspace an empty one, the ring    *)
(* implements the queue of keys a process expects, whatever the pushes of  *)
(* the interrupt and the pops of the reader, and across the counters' wrap.*)
(***************************************************************************)
KeyQueueSpec ==
  INSTANCE KeyQueue WITH queue <- Contents, NoKey <- NUL, Capacity <- Size
KeyQueueImplemented ==
  /\ KeyQueueSpec!Init
  /\ [][misused' \/ KeyQueueSpec!Next]_<<Contents, returned>>
=============================================================================
