--------------------------- MODULE AllocatorSpec ---------------------------
(***************************************************************************)
(* What a client of the kernel heap is promised, with no table and no      *)
(* search: a grant is a run of blocks of the pool that no other grant in   *)
(* force overlaps, and a release ends exactly one grant.                   *)
(***************************************************************************)
EXTENDS Integers

CONSTANT Blocks

VARIABLE owned   \* the grants in force

Pool == 0 .. Blocks - 1
Extent == [start : Int, len : Nat]
BlocksOf(e) == e.start .. e.start + e.len - 1

Init == owned = {}

Grant(e) ==
  /\ e.len > 0
  /\ BlocksOf(e) \subseteq Pool
  /\ \A o \in owned : BlocksOf(e) \cap BlocksOf(o) = {}
  /\ owned' = owned \cup {e}

Release(e) ==
  /\ e \in owned
  /\ owned' = owned \ {e}

Next ==
  \/ \E s \in Pool, n \in 1 .. Blocks : Grant([start |-> s, len |-> n])
  \/ \E e \in owned : Release(e)

Spec == Init /\ [][Next]_owned
=============================================================================
