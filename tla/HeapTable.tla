----------------------------- MODULE HeapTable -----------------------------
(***************************************************************************)
(* The block table of the kernel heap and the functions of heap.c that     *)
(* read and rewrite it.  Block b stands for the address                    *)
(* start_address + b * VARGOOS_HEAP_BLOCK_SIZE (heap_block_to_address), so *)
(* a pointer returned by heap_malloc is modelled by its block number.      *)
(***************************************************************************)
EXTENDS Integers

CONSTANTS
  Blocks,     \* heap_table.total_entries
  BlockSize,  \* VARGOOS_HEAP_BLOCK_SIZE, in bytes
  Word        \* 2^32: the modulus of the uint32_t arithmetic on sizes

ASSUME HeapTableAssumption ==
  /\ Blocks \in Nat \ {0}
  /\ BlockSize \in Nat \ {0}
  /\ Word \in Nat \ {0}

Index == 0 .. Blocks - 1

(* A table entry is the set of the bits set in its byte. *)
Flag == {"TAKEN", "FIRST", "HAS_NEXT"}
HEAP_BLOCK_TABLE_ENTRY == SUBSET Flag
HEAP_BLOCK_TABLE_ENTRY_FREE == {}

Table == [Index -> HEAP_BLOCK_TABLE_ENTRY]

(* The null address; also the block of a failed search. *)
NULL == -1

IsFree(t, i) == "TAKEN" \notin t[i]

-----------------------------------------------------------------------------
(* Rounding a size in bytes up to blocks, in 32-bit arithmetic. *)

heap_align_value_to_upper(value) ==
  IF value % BlockSize = 0
  THEN value
  ELSE ((value - (value % BlockSize)) + BlockSize) % Word

TotalBlocks(size) == heap_align_value_to_upper(size) \div BlockSize

-----------------------------------------------------------------------------
(* A maximal run of free blocks starts at s. *)
RunStart(t, s) == IsFree(t, s) /\ (s > 0 => ~ IsFree(t, s - 1))

(* The n > 0 blocks from s on are in the table and free. *)
FitsAt(t, s, n) ==
  /\ n > 0
  /\ s + n <= Blocks
  /\ \A j \in s .. s + n - 1 : IsFree(t, j)

(* The blocks from s to the end of the table are free. *)
FreeToEnd(t, s) == \A j \in s .. Blocks - 1 : IsFree(t, j)

Candidate(t, s, n) == RunStart(t, s) /\ FitsAt(t, s, n)

(***************************************************************************)
(* The search loop returns s: the start of the first free run that holds n *)
(* blocks; when there is none, whatever run the loop was still counting    *)
(* when it left the table (bs is not reset there, even though bc < n); and *)
(* NULL (-ENOMEM) when the last block is taken.  With n = 0 the loop never *)
(* meets bc = n and ends in one of the last two cases.                     *)
(***************************************************************************)
heap_get_start_block(t, n, s) ==
  \/ /\ s \in Index
     /\ Candidate(t, s, n)
     /\ \A c \in Index : Candidate(t, c, n) => s <= c
  \/ /\ \A c \in Index : ~ Candidate(t, c, n)
     /\ \/ s \in Index /\ RunStart(t, s) /\ FreeToEnd(t, s)
        \/ s = NULL /\ ~ IsFree(t, Blocks - 1)

(* The byte heap_mark_taken_blocks writes for block i of the run s .. s+n-1. *)
TakenEntry(s, n, i) ==
  {"TAKEN"} \cup (IF i = s THEN {"FIRST"} ELSE {})
            \cup (IF i < s + n - 1 THEN {"HAS_NEXT"} ELSE {})

heap_mark_taken_blocks(t, s, n) ==
  [i \in Index |-> IF s <= i /\ i < s + n THEN TakenEntry(s, n, i) ELSE t[i]]

(* The bytes beyond the table that the same loop writes. *)
WritesPastTable(s, n) == {i \in s .. s + n - 1 : i >= Blocks}

(* Mutant: the release goes on while blocks are taken. *)
MarkFreeRunsOn(t, start) ==
  [i \in Index |->
     IF i >= start /\ \A j \in start .. i : "TAKEN" \in t[j]
     THEN HEAP_BLOCK_TABLE_ENTRY_FREE
     ELSE t[i]]

(***************************************************************************)
(* The release loop clears entries from start on and stops after the first *)
(* one without HAS_NEXT, or at the end of the table.                       *)
(***************************************************************************)
heap_mark_free_blocks(t, start) ==
  [i \in Index |->
     IF i >= start /\ \A j \in start .. i - 1 : "HAS_NEXT" \in t[j]
     THEN HEAP_BLOCK_TABLE_ENTRY_FREE
     ELSE t[i]]
=============================================================================
