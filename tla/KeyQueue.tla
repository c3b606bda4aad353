------------------------------ MODULE KeyQueue ------------------------------
(***************************************************************************)
(* What a process expects of its keyboard: the keys typed and not yet read,*)
(* oldest first.  Reading takes the oldest, or finds none; erasing takes   *)
(* back the newest.                                                        *)
(***************************************************************************)
EXTENDS Naturals, Sequences

CONSTANTS Keys, NoKey, Capacity

VARIABLES
  queue,     \* the keys typed and not yet read
  returned   \* what the last read returned

Init == queue = <<>> /\ returned = NoKey

Type(k) ==
  /\ Len(queue) < Capacity
  /\ queue' = Append(queue, k)
  /\ UNCHANGED returned

Read ==
  \/ /\ queue # <<>>
     /\ returned' = Head(queue)
     /\ queue' = Tail(queue)
  \/ /\ queue = <<>>
     /\ returned' = NoKey
     /\ UNCHANGED queue

Erase ==
  /\ queue # <<>>
  /\ queue' = SubSeq(queue, 1, Len(queue) - 1)
  /\ UNCHANGED returned

Next == (\E k \in Keys : Type(k)) \/ Read \/ Erase

Spec == Init /\ [][Next]_<<queue, returned>>
=============================================================================
