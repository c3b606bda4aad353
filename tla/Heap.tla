-------------------------------- MODULE Heap --------------------------------
(***************************************************************************)
(* The kernel heap (kernel_heap.c over heap.c) and its clients.  A client  *)
(* obtains pointers from kmalloc/kzalloc and gives each back to kfree at   *)
(* most once; which pointers are outstanding is the history variable live. *)
(* kzalloc differs from kmalloc by a memset of the granted bytes, whose    *)
(* contents are not modelled.                                              *)
(***************************************************************************)
EXTENDS HeapTable

CONSTANT Sizes   \* the sizes, in bytes, the clients ask for

ASSUME SizesAssumption == Sizes \subseteq 0 .. Word - 1

VARIABLES
  entries,  \* kernel_heap_table.entries
  stray,    \* indices outside the table whose bytes the heap has written
  live      \* history: the grants returned and not yet freed

vars == <<entries, stray, live>>

Grant(s, n) == [start |-> s, len |-> n]
Covers(a, i) == a.start <= i /\ i < a.start + a.len

(* kernel_heap_init: heap_create accepts the aligned pool and clears it. *)
Init ==
  /\ entries = [i \in Index |-> HEAP_BLOCK_TABLE_ENTRY_FREE]
  /\ stray = {}
  /\ live = {}

-----------------------------------------------------------------------------
(* The search failed: heap_malloc returns 0 and nothing has changed. *)
MallocRefused(n) ==
  /\ heap_get_start_block(entries, n, NULL)
  /\ UNCHANGED vars

(* The search found s: the blocks are marked and their address returned. *)
GrantAt(n, s) ==
  /\ heap_get_start_block(entries, n, s)
  /\ entries' = heap_mark_taken_blocks(entries, s, n)
  /\ stray' = stray \cup WritesPastTable(s, n)
  /\ live' = live \cup {Grant(s, n)}

MallocGranted(n) == \E s \in Index : GrantAt(n, s)

heap_malloc(size) ==
  \/ MallocRefused(TotalBlocks(size))
  \/ MallocGranted(TotalBlocks(size))

(* kfree of a pointer the client holds. *)
heap_free(a) ==
  /\ a \in live
  /\ entries' = heap_mark_free_blocks(entries, a.start)
  /\ live' = live \ {a}
  /\ UNCHANGED stray

Next ==
  \/ \E size \in Sizes : heap_malloc(size)
  \/ \E a \in live : heap_free(a)

Spec == Init /\ [][Next]_vars

(* The same heap as long as every request meets a free run that holds it.  *)
RoomyNext ==
  \/ \E size \in Sizes :
       /\ \E s \in Index : FitsAt(entries, s, TotalBlocks(size))
       /\ heap_malloc(size)
  \/ \E a \in live : heap_free(a)

RoomySpec == Init /\ [][RoomyNext]_vars

(* Every request is for at least one block. *)
PositiveRequests == \A size \in Sizes : TotalBlocks(size) > 0

-----------------------------------------------------------------------------
TypeOK ==
  /\ entries \in Table
  /\ stray \subseteq Int
  /\ live \subseteq [start : Index, len : Nat]

(***************************************************************************)
(* No block belongs to two outstanding grants: first-fit search, marking   *)
(* and release never hand the same memory to two clients, in whatever      *)
(* order they allocate and free, also when a grant runs off the table.     *)
(***************************************************************************)
Disjoint ==
  \A a, b \in live :
    a # b => \/ a.start + a.len <= b.start
             \/ b.start + b.len <= a.start

(***************************************************************************)
(* The table says exactly what is outstanding: the entries of a grant are  *)
(* one FIRST block chained by HAS_NEXT to its last, every other entry is   *)
(* free.  heap_mark_free_blocks relies on it: a chain that ran one block   *)
(* too far would release a neighbour's memory.                             *)
(***************************************************************************)
TableMatchesGrants ==
  \A i \in Index :
    /\ \A a \in live : Covers(a, i) => entries[i] = TakenEntry(a.start, a.len, i)
    /\ (\A a \in live : ~ Covers(a, i)) => entries[i] = HEAP_BLOCK_TABLE_ENTRY_FREE

(***************************************************************************)
(* status.h:7 names ENOMEM "no memory (out of memory)", and heap.c:28 has  *)
(* it returned as an error: a request that no free run holds is refused,   *)
(* so a grant never leaves the pool.                                       *)
(***************************************************************************)
GrantsInsidePool == \A a \in live : a.start + a.len <= Blocks

-----------------------------------------------------------------------------
(* The grants the table itself records, read from its flags alone. *)
ChainAt(t, s, n) ==
  /\ n > 0 /\ s + n <= Blocks
  /\ \A i \in s .. s + n - 1 : t[i] = TakenEntry(s, n, i)

RecordedGrants(t) ==
  {g \in [start : Index, len : 1 .. Blocks] : ChainAt(t, g.start, g.len)}

(***************************************************************************)
(* The heap implements the allocator its clients rely on, the grants being *)
(* the chains found in the table.  A grant that runs off the table has no  *)
(* last block there and so is not one the allocator made.                  *)
(***************************************************************************)
Allocator == INSTANCE AllocatorSpec WITH owned <- RecordedGrants(entries)
AllocatorImplemented == Allocator!Spec
=============================================================================
