---------------------------- MODULE ProcessHeap ----------------------------
(***************************************************************************)
(* The memory the processes take from the kernel heap (process_malloc and  *)
(* process_free, behind the malloc and free system calls).  Every process  *)
(* may ask for any size, 0 and sizes whose rounding wraps included, and    *)
(* hand any pointer to process_free: its own, another process's, the       *)
(* inside of a run, or 0.                                                  *)
(*                                                                         *)
(* A malloc of no block returns the address of a free block and marks      *)
(* nothing.  Holding it disturbs nobody.  The block can be granted while   *)
(* it is held, and freeing the pointer then releases the grant: the        *)
(* history variable misfreed says that this has happened, and what a       *)
(* process may rely on, it may rely on until then.                         *)
(***************************************************************************)
EXTENDS Heap

CONSTANTS
  Procs,      \* the loaded processes
  Slots,      \* VARGOOS_MAX_PROGRAM_ALLOCATIONS
  LowEntries  \* VARGOOS_HEAP_ADDRESS \div VARGOOS_HEAP_BLOCK_SIZE

ASSUME ProcessHeapAssumption ==
  /\ Slots \in Nat \ {0}
  /\ LowEntries \in Nat \ {0}

VARIABLES
  allocations,  \* process->allocations of each process
  empty,        \* history: the slots whose pointer came from a malloc of no block
  misfreed,     \* history: such a pointer was freed while its block was granted
  low,          \* HAS_NEXT of the bytes below the table, from address 0's entry on
  wiped         \* kzalloc has cleared the whole memory, the kernel with it

pvars == <<entries, stray, live, allocations, empty, misfreed, low, wiped>>

Slot == 0 .. Slots - 1
Low == 1 .. LowEntries

(***************************************************************************)
(* process_init clears the process.  The bytes below the table are those   *)
(* of the boot sector and what lies before it; its jump and the name that  *)
(* follows have no bit 7.                                                  *)
(***************************************************************************)
PInit ==
  /\ Init
  /\ allocations = [p \in Procs |-> [k \in Slot |-> NULL]]
  /\ empty = {}
  /\ misfreed = FALSE
  /\ low \in [Low -> BOOLEAN]
  /\ \E i \in Low : ~ low[i]
  /\ wiped = FALSE

-----------------------------------------------------------------------------
(* The scans stop at the lowest slot that holds ptr; an empty slot holds 0.*)
SlotOf(p, ptr, k) ==
  /\ allocations[p][k] = ptr
  /\ \A j \in Slot : j < k => allocations[p][j] # ptr

is_process_pointer(p, ptr) == \E k \in Slot : allocations[p][k] = ptr

(***************************************************************************)
(* kzalloc succeeds with block s.  Nothing is marked for a request of no   *)
(* block; if its size is not 0 but wrapped, memset clears size bytes from  *)
(* s on, which is all of the memory.                                       *)
(***************************************************************************)
kzalloc(size, s) ==
  \/ /\ TotalBlocks(size) > 0
     /\ GrantAt(TotalBlocks(size), s)
     /\ UNCHANGED wiped
  \/ /\ TotalBlocks(size) = 0
     /\ heap_get_start_block(entries, 0, s)
     /\ wiped' = (size > 0)
     /\ UNCHANGED <<entries, stray, live>>

(* The slot the pointer is stored in; empty remembers what kind it is of.  *)
Record(p, size, s) ==
  \E k \in Slot :
    /\ SlotOf(p, NULL, k)
    /\ allocations' = [allocations EXCEPT ![p][k] = s]
    /\ empty' = IF TotalBlocks(size) = 0 THEN empty \cup {<<p, k>>} ELSE empty

(* Mutant: the scan's error code is stored when the heap is exhausted. *)
MallocStoresError(p, size) ==
  /\ \/ /\ heap_get_start_block(entries, TotalBlocks(size), NULL)
        /\ Record(p, size, -3)
        /\ UNCHANGED <<entries, stray, live, wiped>>
     \/ \E s \in Index : kzalloc(size, s) /\ Record(p, size, s)
  /\ UNCHANGED <<misfreed, low>>

(***************************************************************************)
(* kzalloc first; with every slot in use the block it returned is dropped. *)
(* Once the memory is wiped nothing is left to record it.                  *)
(***************************************************************************)
process_malloc(p, size) ==
  \/ /\ heap_get_start_block(entries, TotalBlocks(size), NULL)
     /\ UNCHANGED pvars
  \/ /\ \E s \in Index :
          /\ kzalloc(size, s)
          /\ \/ ~ wiped' /\ Record(p, size, s)
             \/ /\ wiped' \/ ~ is_process_pointer(p, NULL)
                /\ UNCHANGED <<allocations, empty>>
     /\ UNCHANGED <<misfreed, low>>

(* The bytes below the table that a release from address 0 on reaches. *)
Reached(i) == \A j \in 1 .. i - 1 : low[j]

(***************************************************************************)
(* kfree of a recorded pointer, or of 0, whose entry lies LowEntries below *)
(* the table: the release runs up from there, into the table if every byte *)
(* on the way has HAS_NEXT.                                                *)
(***************************************************************************)
kfree(ptr) ==
  \/ /\ ptr # NULL
     /\ entries' = heap_mark_free_blocks(entries, ptr)
     /\ UNCHANGED <<stray, low>>
  \/ /\ ptr = NULL
     /\ low' = [i \in Low |-> low[i] /\ ~ Reached(i)]
     /\ stray' = stray \cup {i - LowEntries - 1 : i \in {j \in Low : Reached(j)}}
     /\ entries' = IF \A i \in Low : low[i]
                   THEN heap_mark_free_blocks(entries, 0) ELSE entries

(***************************************************************************)
(* Who gave what back when slot k of p was freed: the grant it recorded,   *)
(* or, if its pointer came from a malloc of no block, whatever has been    *)
(* granted there since.                                                    *)
(***************************************************************************)
GaveBack(p, k) ==
  /\ IF <<p, k>> \in empty
     THEN /\ misfreed' = (misfreed \/ ~ IsFree(entries, allocations[p][k]))
          /\ UNCHANGED live
     ELSE /\ live' = {a \in live : a.start # allocations[p][k]}
          /\ UNCHANGED misfreed
  /\ empty' = empty \ {<<p, k>>}

(* Mutant: the slot is not cleared. *)
FreeKeepsSlot(p, ptr) ==
  \/ ~ is_process_pointer(p, ptr) /\ UNCHANGED pvars
  \/ \E k \in Slot :
       /\ SlotOf(p, ptr, k)
       /\ kfree(ptr)
       /\ GaveBack(p, k)
       /\ UNCHANGED <<allocations, wiped>>

(* Mutant: whose pointer it is is not asked. *)
FreeOfAnyone(p, ptr) ==
  \E q \in Procs, k \in Slot :
    /\ allocations[q][k] = ptr
    /\ kfree(ptr)
    /\ GaveBack(q, k)
    /\ allocations' = IF p = q THEN [allocations EXCEPT ![q][k] = NULL] ELSE allocations
    /\ UNCHANGED wiped

(* Mutant: any address is released, inside a run too. *)
FreeUnchecked(p, ptr) ==
  /\ ptr \in Index
  /\ kfree(ptr)
  /\ live' = {a \in live : a.start # ptr}
  /\ UNCHANGED <<allocations, empty, misfreed, wiped>>

(* Mutant: the slot is cleared and the memory kept. *)
FreeKeepsMemory(p, ptr) ==
  \E k \in Slot :
    /\ SlotOf(p, ptr, k)
    /\ allocations' = [allocations EXCEPT ![p][k] = NULL]
    /\ empty' = empty \ {<<p, k>>}
    /\ UNCHANGED <<entries, stray, live, misfreed, low, wiped>>

(* mark_free_allocation, then kfree; a pointer of somebody else is ignored.*)
process_free(p, ptr) ==
  \/ /\ ~ is_process_pointer(p, ptr)
     /\ UNCHANGED pvars
  \/ \E k \in Slot :
       /\ SlotOf(p, ptr, k)
       /\ allocations' = [allocations EXCEPT ![p][k] = NULL]
       /\ kfree(ptr)
       /\ GaveBack(p, k)
       /\ UNCHANGED wiped

PNext ==
  /\ ~ wiped
  /\ \/ \E p \in Procs, size \in Sizes : process_malloc(p, size)
     \/ \E p \in Procs, ptr \in Index \cup {NULL} : process_free(p, ptr)

PSpec == PInit /\ [][PNext]_pvars

-----------------------------------------------------------------------------
(***************************************************************************)
(* A slot holds a block or 0, and only one that holds a block is empty.    *)
(* Some byte below the table goes on ending what a release of 0 clears.    *)
(***************************************************************************)
PTypeOK ==
  /\ allocations \in [Procs -> [Slot -> Index \cup {NULL}]]
  /\ empty \subseteq Procs \X Slot
  /\ \A p \in Procs, k \in Slot : <<p, k>> \in empty => allocations[p][k] # NULL
  /\ misfreed \in BOOLEAN
  /\ wiped \in BOOLEAN
  /\ low \in [Low -> BOOLEAN]
  /\ \E i \in Low : ~ low[i]

(* Slot k of p records memory that was granted to p. *)
Full(p, k) == allocations[p][k] # NULL /\ <<p, k>> \notin empty

(***************************************************************************)
(* A recorded pointer to memory is an outstanding grant of the heap and is *)
(* recorded once, in one process: no history of mallocs, of no block too,  *)
(* frees, double frees and frees of foreign pointers makes two processes   *)
(* own the same memory or leaves one with memory that was given away.      *)
(* The one way out is the free of a pointer from a malloc of no block      *)
(* whose block has been granted in the meantime.                           *)
(***************************************************************************)
RecordedOnce ==
  ~ misfreed =>
    /\ \A p \in Procs, k \in Slot :
         Full(p, k) => \E a \in live : a.start = allocations[p][k]
    /\ \A p, q \in Procs, j, k \in Slot :
         Full(p, j) /\ Full(q, k) /\ allocations[p][j] = allocations[q][k]
           => p = q /\ j = k

(***************************************************************************)
(* While a process keeps memory, no step of any process changes its table  *)
(* entries: neither a free, of a pointer that never had memory or of 0     *)
(* included, nor a malloc that runs off the table.  The way out is again   *)
(* the free of a pointer without memory whose block has been granted.      *)
(***************************************************************************)
KeptMemoryUntouched ==
  misfreed' \/ \A p \in Procs, k \in Slot, a \in live :
    Full(p, k) /\ allocations[p][k] = a.start /\ allocations'[p][k] = a.start
      => \A i \in Index : Covers(a, i) => entries'[i] = entries[i]
MemoryIsolated == [][KeptMemoryUntouched]_pvars

(***************************************************************************)
(* However the processes call malloc and free, the heap only sees requests *)
(* and releases of outstanding grants, or is left alone, until a pointer   *)
(* without memory releases somebody's grant: what Heap promises holds here *)
(* up to then.                                                             *)
(***************************************************************************)
HeapUsedProperly == Init /\ [][misfreed' \/ Next]_<<entries, live>>

(***************************************************************************)
(* allocations is "All the dynamic allocated memory by the process"        *)
(* (process.h:23) with one way out: a malloc of a process whose slots are  *)
(* all in use, of pointers without memory too.  The block it takes is      *)
(* recorded nowhere and never released; no other history of mallocs and    *)
(* frees loses memory.                                                     *)
(***************************************************************************)
Unrecorded ==
  {a \in live : \A p \in Procs, k \in Slot : Full(p, k) => allocations[p][k] # a.start}
LostOnlyWithFullTable ==
  misfreed' \/
    /\ Unrecorded \subseteq Unrecorded'
    /\ Unrecorded' # Unrecorded =>
         /\ UNCHANGED allocations
         /\ \E p \in Procs : ~ is_process_pointer(p, NULL)
LostOnlyByFullTable == [][LostOnlyWithFullTable]_pvars
=============================================================================
