----------------------------- MODULE MCPaging -----------------------------
(***************************************************************************)
(* 26 pages of four bytes under two tables, the heap in 18 of them.        *)
(* Programs: a flat one; an ELF file whose segments start and end inside   *)
(* pages, the second linked where the heap begins; one with memory its     *)
(* image does not have; and one whose length runs over the end of memory,  *)
(* which cannot be mapped.                                                 *)
(***************************************************************************)
EXTENDS Paging, TLC

TaskSymmetry == Permutations(Tasks)

Header(vaddr, offset, memsz, writable) ==
  [vaddr |-> vaddr, offset |-> offset, memsz |-> memsz, writable |-> writable]

FourPrograms ==
  {[kind |-> "binary", size |-> 6, segments |-> <<>>],
   [kind |-> "elf", size |-> 11,
    segments |-> <<Header(17, 1, 5, FALSE), Header(26, 6, 4, TRUE)>>],
   [kind |-> "elf", size |-> 4, segments |-> <<Header(16, 0, 6, TRUE)>>],
   [kind |-> "elf", size |-> 3, segments |-> <<Header(16, 0, 84, TRUE)>>]}
=============================================================================
