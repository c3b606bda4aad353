------------------------------- MODULE MCHeap -------------------------------
(* The heap without its loops, on the sizes of MCHeapLoops. *)
EXTENDS Heap

MixedSizes == {1, 8, 9}
=============================================================================
