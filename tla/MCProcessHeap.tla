--------------------------- MODULE MCProcessHeap ---------------------------
(***************************************************************************)
(* Two processes with two slots each over a small heap of four-byte        *)
(* blocks: requests of no block, one and two, and one that wraps to none.  *)
(***************************************************************************)
EXTENDS ProcessHeap, TLC

AllSizes == {0, 4, 5, 29}

AnyProcess == Permutations(Procs)

(***************************************************************************)
(* Behaviours are followed to the first pointer without memory that        *)
(* releases a grant: no property says anything of what follows.            *)
(***************************************************************************)
UpToMisfreed == ~ misfreed
=============================================================================
