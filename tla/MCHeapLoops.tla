---------------------------- MODULE MCHeapLoops ----------------------------
(***************************************************************************)
(* Blocks of four bytes and 32 as the word size, so that one, two and      *)
(* three blocks are asked for with sizes that need rounding and sizes that *)
(* do not.                                                                 *)
(***************************************************************************)
EXTENDS HeapLoops

MixedSizes == {1, 8, 9}
=============================================================================
