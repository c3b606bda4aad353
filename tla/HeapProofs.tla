----------------------------- MODULE HeapProofs -----------------------------
(***************************************************************************)
(* The kernel heap's invariants and its refinement of AllocatorSpec, for   *)
(* tables, block sizes and word sizes of every size; and the ownership of  *)
(* process memory on top of it, for any number of processes and slots.     *)
(***************************************************************************)
EXTENDS ProcessHeap, HeapLoops, TLAPS, WellFoundedInduction

(* The strengthening that is inductive: outstanding grants are not empty.  *)
IInv ==
  /\ TypeOK
  /\ \A a \in live : a.len > 0
  /\ Disjoint
  /\ TableMatchesGrants

-----------------------------------------------------------------------------
(* A nonempty set of naturals has a least element. *)
LEMMA LeastNatural ==
  ASSUME NEW T, T \subseteq Nat, T # {}
  PROVE  \E m \in T : \A k \in T : m <= k
<1>1. PICK m \in T : \A y \in T : ~ (<<y, m>> \in OpToRel(<, Nat))
  BY NatLessThanWellFounded, WFMin
<1>2. ASSUME NEW k \in T PROVE m <= k
  <2>1. ~ (<<k, m>> \in OpToRel(<, Nat))
    BY <1>1
  <2>2. <<k, m>> \in Nat \X Nat
    OBVIOUS
  <2>3. ~ (k < m)
    BY <2>1, <2>2 DEF OpToRel
  <2>. QED BY <2>3
<1>. QED BY <1>2

(* The rounding of heap_malloc yields a number of blocks, wrapped or not. *)
LEMMA TotalBlocksType ==
  ASSUME NEW size \in Nat
  PROVE  TotalBlocks(size) \in Nat
<1>. DEFINE v == heap_align_value_to_upper(size)
<1>1. size % BlockSize \in Nat /\ size % BlockSize <= size
  BY HeapTableAssumption
<1>2. v \in Nat
  <2>1. CASE size % BlockSize = 0
    BY <2>1 DEF heap_align_value_to_upper
  <2>2. CASE size % BlockSize # 0
    <3>1. (size - (size % BlockSize)) + BlockSize \in Nat
      BY <1>1, HeapTableAssumption
    <3>2. ((size - (size % BlockSize)) + BlockSize) % Word \in Nat
      BY <3>1, HeapTableAssumption
    <3>. QED BY <2>2, <3>2 DEF heap_align_value_to_upper
  <2>. QED BY <2>1, <2>2
<1>. HIDE DEF v
<1>3. v \div BlockSize \in Nat
  BY <1>2, HeapTableAssumption
<1>. QED BY <1>3 DEF TotalBlocks, v

(* Where n blocks fit, the maximal run they lie in also holds n blocks. *)
LEMMA RunStartExists ==
  ASSUME NEW t \in Table, NEW n \in Nat, NEW s \in Index, FitsAt(t, s, n)
  PROVE  \E c \in Index : Candidate(t, c, n)
<1>. DEFINE T == {c \in 0 .. s : \A j \in c .. s : IsFree(t, j)}
<1>1. s \in T
  BY HeapTableAssumption DEF FitsAt, Index
<1>2. PICK c \in T : \A k \in T : c <= k
  <2>1. T \subseteq Nat /\ T # {}
    BY <1>1
  <2>. QED BY <2>1, LeastNatural
<1>3. c \in Index /\ c <= s /\ \A j \in c .. s : IsFree(t, j)
  BY HeapTableAssumption DEF Index
<1>4. RunStart(t, c)
  <2>1. IsFree(t, c)
    BY <1>3 DEF Index
  <2>2. ASSUME c > 0, IsFree(t, c - 1) PROVE FALSE
    <3>1. c - 1 \in 0 .. s
      BY <2>2, <1>3 DEF Index
    <3>2. \A j \in c - 1 .. s : IsFree(t, j)
      BY <2>2, <1>3 DEF Index
    <3>3. c - 1 \in T
      BY <3>1, <3>2
    <3>. QED BY <3>3, <1>2, <1>3 DEF Index
  <2>. QED BY <2>1, <2>2 DEF RunStart
<1>5. FitsAt(t, c, n)
  <2>1. n > 0 /\ c + n <= Blocks
    BY <1>3, HeapTableAssumption DEF FitsAt, Index
  <2>2. ASSUME NEW j \in c .. c + n - 1 PROVE IsFree(t, j)
    <3>1. j <= s \/ (s <= j /\ j <= s + n - 1)
      BY <1>3, HeapTableAssumption DEF Index
    <3>2. CASE j <= s
      BY <3>2, <1>3 DEF Index
    <3>3. CASE s <= j /\ j <= s + n - 1
      <4>1. j \in s .. s + n - 1
        BY <3>3, <1>3 DEF Index
      <4>. QED BY <4>1 DEF FitsAt
    <3>. QED BY <3>1, <3>2, <3>3
  <2>. QED BY <2>1, <2>2 DEF FitsAt
<1>. QED BY <1>3, <1>4, <1>5 DEF Candidate

(* If some run holds the request, the search's answer is such a run. *)
LEMMA SearchFindsFit ==
  ASSUME NEW t \in Table, NEW n \in Nat, NEW s0 \in Index, FitsAt(t, s0, n),
         NEW s, heap_get_start_block(t, n, s)
  PROVE  s \in Index /\ FitsAt(t, s, n)
<1>1. \E c \in Index : Candidate(t, c, n)
  BY RunStartExists
<1>. QED BY <1>1 DEF heap_get_start_block, Candidate

(* What the search returns starts a stretch of free blocks that reaches    *)
(* the request's end or the end of the table.                              *)
LEMMA SearchedIsFree ==
  ASSUME NEW t \in Table, NEW n \in Nat, NEW s \in Index,
         heap_get_start_block(t, n, s)
  PROVE  \A j \in Index : s <= j /\ j < s + n => IsFree(t, j)
<1>1. CASE Candidate(t, s, n)
  BY <1>1 DEF Candidate, FitsAt, Index
<1>2. CASE FreeToEnd(t, s)
  BY <1>2 DEF FreeToEnd, Index
<1>3. s # NULL
  BY HeapTableAssumption DEF Index, NULL
<1>. QED BY <1>1, <1>2, <1>3 DEF heap_get_start_block
(* What the search returns starts a stretch of blocks no grant covers. *)
LEMMA GrantedIsUncovered ==
  ASSUME IInv, NEW n \in Nat, NEW s \in Index,
         heap_get_start_block(entries, n, s),
         NEW a \in live, NEW j \in Index, s <= j, j < s + n
  PROVE  ~ Covers(a, j)
<1>1. IsFree(entries, j)
  BY SearchedIsFree DEF IInv, TypeOK
<1>2. Covers(a, j) => entries[j] = TakenEntry(a.start, a.len, j)
  BY DEF IInv, TableMatchesGrants
<1>. QED BY <1>1, <1>2 DEF IsFree, TakenEntry

(* A new grant is disjoint from every outstanding one. *)
LEMMA GrantedIsDisjoint ==
  ASSUME IInv, NEW n \in Nat, n > 0, NEW s \in Index,
         heap_get_start_block(entries, n, s),
         NEW a \in live
  PROVE  s + n <= a.start \/ a.start + a.len <= s
<1>1. a.start \in Index /\ a.len \in Nat /\ a.len > 0
  BY DEF IInv, TypeOK
<1>2. ~ Covers(a, s)
  BY GrantedIsUncovered, HeapTableAssumption DEF Index
<1>3. CASE a.start + a.len <= s
  BY <1>3
<1>4. CASE s < a.start
  <2>1. Covers(a, a.start)
    BY <1>1 DEF Covers, Index
  <2>2. ~ (a.start < s + n)
    BY <1>1, <1>4, <2>1, GrantedIsUncovered DEF Index
  <2>. QED BY <1>1, <2>2 DEF Index
<1>. QED BY <1>1, <1>2, <1>3, <1>4 DEF Covers, Index

(* Releasing a grant clears exactly the entries it covers. *)
LEMMA ChainIsGrant ==
  ASSUME IInv, NEW a \in live, NEW i \in Index
  PROVE  (i >= a.start /\ \A j \in a.start .. i - 1 : "HAS_NEXT" \in entries[j])
           <=> Covers(a, i)
<1>1. a.start \in Index /\ a.len \in Nat /\ a.len > 0
  BY DEF IInv, TypeOK
<1>2. \A j \in Index : Covers(a, j) => entries[j] = TakenEntry(a.start, a.len, j)
  BY DEF IInv, TableMatchesGrants
<1>3. ASSUME Covers(a, i), NEW j \in a.start .. i - 1
      PROVE  "HAS_NEXT" \in entries[j]
  <2>1. j \in Index /\ Covers(a, j) /\ j < a.start + a.len - 1
    BY <1>1, <1>3, HeapTableAssumption DEF Covers, Index
  <2>2. entries[j] = TakenEntry(a.start, a.len, j)
    BY <1>2, <2>1
  <2>. QED BY <2>1, <2>2 DEF TakenEntry
<1>4. ASSUME i >= a.start, ~ Covers(a, i)
      PROVE  \E j \in a.start .. i - 1 : "HAS_NEXT" \notin entries[j]
  <2>. DEFINE last == a.start + a.len - 1
  <2>1. last \in a.start .. i - 1 /\ last \in Index /\ Covers(a, last)
    BY <1>1, <1>4, HeapTableAssumption DEF Covers, Index
  <2>2. entries[last] = TakenEntry(a.start, a.len, last)
    BY <1>2, <2>1
  <2>3. "HAS_NEXT" \notin TakenEntry(a.start, a.len, last)
    BY <1>1 DEF TakenEntry, Index
  <2>. QED BY <2>1, <2>2, <2>3
<1>5. Covers(a, i) => i >= a.start
  BY <1>1 DEF Covers, Index
<1>. QED BY <1>3, <1>4, <1>5

-----------------------------------------------------------------------------
(* A granted request keeps the invariant. *)
LEMMA GrantAtInductive ==
  ASSUME IInv, NEW n \in Nat, n > 0, NEW s \in Index, GrantAt(n, s)
  PROVE  IInv'
<1>1. /\ heap_get_start_block(entries, n, s)
      /\ entries' = heap_mark_taken_blocks(entries, s, n)
      /\ stray' = stray \cup WritesPastTable(s, n)
      /\ live' = live \cup {Grant(s, n)}
  BY DEF GrantAt
<1>2. Grant(s, n) \in [start : Index, len : Nat]
  BY DEF Grant
<1>3. TypeOK'
  <2>1. entries' \in Table
    BY <1>1 DEF IInv, TypeOK, Table, heap_mark_taken_blocks, TakenEntry,
                HEAP_BLOCK_TABLE_ENTRY, Flag
  <2>2. stray' \subseteq Int
    <3>1. WritesPastTable(s, n) \subseteq Int
      BY HeapTableAssumption DEF WritesPastTable, Index
    <3>2. stray \subseteq Int
      BY DEF IInv, TypeOK
    <3>. QED BY <1>1, <3>1, <3>2
  <2>3. live' \subseteq [start : Index, len : Nat]
    BY <1>1, <1>2 DEF IInv, TypeOK
  <2>. QED BY <2>1, <2>2, <2>3 DEF TypeOK
<1>4. \A a \in live' : a.len > 0
  BY <1>1 DEF IInv, Grant
<1>5. Disjoint'
  <2>1. \A a \in live : s + n <= a.start \/ a.start + a.len <= s
    BY <1>1, GrantedIsDisjoint
  <2>2. ASSUME NEW a \in live', NEW b \in live', a # b
        PROVE  a.start + a.len <= b.start \/ b.start + b.len <= a.start
    <3>1. CASE a \in live /\ b \in live
      BY <2>2, <3>1 DEF IInv, Disjoint
    <3>2. CASE a = Grant(s, n) /\ b \in live
      BY <2>1, <3>2 DEF Grant
    <3>3. CASE b = Grant(s, n) /\ a \in live
      BY <2>1, <3>3 DEF Grant
    <3>. QED BY <1>1, <2>2, <3>1, <3>2, <3>3
  <2>. QED BY <2>2 DEF Disjoint
<1>6. TableMatchesGrants'
  <2>. SUFFICES ASSUME NEW i \in Index
       PROVE  /\ \A a \in live' : Covers(a, i) => entries'[i] = TakenEntry(a.start, a.len, i)
              /\ (\A a \in live' : ~ Covers(a, i)) => entries'[i] = HEAP_BLOCK_TABLE_ENTRY_FREE
    BY DEF TableMatchesGrants, Covers
  <2>1. /\ \A a \in live : Covers(a, i) => entries[i] = TakenEntry(a.start, a.len, i)
        /\ (\A a \in live : ~ Covers(a, i)) => entries[i] = HEAP_BLOCK_TABLE_ENTRY_FREE
    BY DEF IInv, TableMatchesGrants
  <2>2. Covers(Grant(s, n), i) <=> (s <= i /\ i < s + n)
    BY DEF Covers, Grant
  <2>3. CASE s <= i /\ i < s + n
    <3>1. entries'[i] = TakenEntry(s, n, i)
      BY <1>1, <2>3 DEF heap_mark_taken_blocks
    <3>2. \A a \in live : ~ Covers(a, i)
      BY <1>1, <2>3, GrantedIsUncovered
    <3>3. Grant(s, n).start = s /\ Grant(s, n).len = n
      BY DEF Grant
    <3>. QED BY <1>1, <2>2, <2>3, <3>1, <3>2, <3>3
  <2>4. CASE ~ (s <= i /\ i < s + n)
    <3>1. entries'[i] = entries[i]
      BY <1>1, <2>4 DEF heap_mark_taken_blocks
    <3>. QED BY <1>1, <2>1, <2>2, <2>4, <3>1
  <2>. QED BY <2>3, <2>4
<1>. QED BY <1>3, <1>4, <1>5, <1>6 DEF IInv

(* A release keeps the invariant. *)
LEMMA FreeInductive ==
  ASSUME IInv, NEW a \in live, heap_free(a)
  PROVE  IInv'
<1>1. /\ entries' = heap_mark_free_blocks(entries, a.start)
      /\ live' = live \ {a}
      /\ stray' = stray
  BY DEF heap_free
<1>2. \A i \in Index :
        entries'[i] = IF Covers(a, i) THEN HEAP_BLOCK_TABLE_ENTRY_FREE ELSE entries[i]
  BY <1>1, ChainIsGrant DEF heap_mark_free_blocks
<1>3. TypeOK'
  BY <1>1 DEF IInv, TypeOK, Table, heap_mark_free_blocks,
              HEAP_BLOCK_TABLE_ENTRY, HEAP_BLOCK_TABLE_ENTRY_FREE
<1>4. (\A b \in live' : b.len > 0) /\ Disjoint'
  BY <1>1 DEF IInv, Disjoint
<1>5. TableMatchesGrants'
  <2>. SUFFICES ASSUME NEW i \in Index
       PROVE  /\ \A b \in live' : Covers(b, i) => entries'[i] = TakenEntry(b.start, b.len, i)
              /\ (\A b \in live' : ~ Covers(b, i)) => entries'[i] = HEAP_BLOCK_TABLE_ENTRY_FREE
    BY DEF TableMatchesGrants, Covers
  <2>1. /\ \A b \in live : Covers(b, i) => entries[i] = TakenEntry(b.start, b.len, i)
        /\ (\A b \in live : ~ Covers(b, i)) => entries[i] = HEAP_BLOCK_TABLE_ENTRY_FREE
    BY DEF IInv, TableMatchesGrants
  <2>2. CASE Covers(a, i)
    <3>1. ASSUME NEW b \in live' PROVE ~ Covers(b, i)
      <4>1. b \in live /\ b # a
        BY <1>1
      <4>2. /\ a.start \in Index /\ a.len \in Nat
            /\ b.start \in Index /\ b.len \in Nat
        BY <4>1 DEF IInv, TypeOK
      <4>3. a.start + a.len <= b.start \/ b.start + b.len <= a.start
        BY <4>1 DEF IInv, Disjoint
      <4>. QED BY <2>2, <4>2, <4>3 DEF Covers, Index
    <3>. QED BY <1>2, <2>2, <3>1
  <2>3. CASE ~ Covers(a, i)
    BY <1>1, <1>2, <2>1, <2>3
  <2>. QED BY <2>2, <2>3
<1>. QED BY <1>3, <1>4, <1>5 DEF IInv

(* Every step of the heap keeps the invariant. *)
LEMMA IInvInductive ==
  ASSUME PositiveRequests, IInv, [Next]_vars
  PROVE  IInv'
<1>1. CASE UNCHANGED vars
  BY <1>1 DEF vars, IInv, TypeOK, Disjoint, TableMatchesGrants, Covers
<1>2. ASSUME NEW size \in Sizes, heap_malloc(size) PROVE IInv'
  <2>1. TotalBlocks(size) \in Nat /\ TotalBlocks(size) > 0
    <3>1. size \in Nat
      BY SizesAssumption
    <3>. QED BY <3>1, TotalBlocksType DEF PositiveRequests
  <2>2. CASE MallocRefused(TotalBlocks(size))
    BY <2>2, <1>1 DEF MallocRefused
  <2>3. CASE MallocGranted(TotalBlocks(size))
    BY <2>1, <2>3, GrantAtInductive DEF MallocGranted
  <2>. QED BY <1>2, <2>2, <2>3 DEF heap_malloc
<1>3. ASSUME NEW a \in live, heap_free(a) PROVE IInv'
  BY <1>3, FreeInductive
<1>. QED BY <1>1, <1>2, <1>3 DEF Next

(* The cleared table of kernel_heap_init satisfies the invariant. *)
LEMMA InitIInv == Init => IInv
BY DEF Init, IInv, TypeOK, Table, HEAP_BLOCK_TABLE_ENTRY,
       HEAP_BLOCK_TABLE_ENTRY_FREE, Disjoint, TableMatchesGrants
-----------------------------------------------------------------------------
(***************************************************************************)
(* The invariant holds of every execution of the heap whose clients ask    *)
(* for at least one block.                                                 *)
(***************************************************************************)
THEOREM HeapInvariant ==
  ASSUME PositiveRequests
  PROVE  Spec => []IInv
<1>1. Init => IInv
  BY InitIInv
<1>2. IInv /\ [Next]_vars => IInv'
  BY IInvInductive
<1>. QED BY <1>1, <1>2, PTL DEF Spec

(***************************************************************************)
(* Table entries, stray writes and grants keep their types, whatever sizes *)
(* heap_malloc is asked to round.                                          *)
(***************************************************************************)
THEOREM HeapTypeCorrect ==
  ASSUME PositiveRequests
  PROVE  Spec => []TypeOK
<1>1. IInv => TypeOK
  BY DEF IInv
<1>. QED BY <1>1, HeapInvariant, PTL

(***************************************************************************)
(* heap_malloc never hands out a block of an outstanding grant, also not   *)
(* when a grant runs off the end of the table.                             *)
(***************************************************************************)
THEOREM HeapDisjoint ==
  ASSUME PositiveRequests
  PROVE  Spec => []Disjoint
<1>1. IInv => Disjoint
  BY DEF IInv
<1>. QED BY <1>1, HeapInvariant, PTL

(***************************************************************************)
(* The flags written by heap_mark_taken_blocks and cleared by              *)
(* heap_mark_free_blocks always describe the outstanding grants.           *)
(***************************************************************************)
THEOREM HeapTableMatchesGrants ==
  ASSUME PositiveRequests
  PROVE  Spec => []TableMatchesGrants
<1>1. IInv => TableMatchesGrants
  BY DEF IInv
<1>. QED BY <1>1, HeapInvariant, PTL

-----------------------------------------------------------------------------
(* What holds besides as long as every request meets a run that holds it.  *)
RoomyInv == IInv /\ GrantsInsidePool

(* A request that some free run holds is granted inside the pool. *)
LEMMA RoomyGrant ==
  ASSUME IInv, NEW size \in Sizes,
         \E s \in Index : FitsAt(entries, s, TotalBlocks(size)),
         heap_malloc(size)
  PROVE  /\ TotalBlocks(size) \in Nat
         /\ TotalBlocks(size) > 0
         /\ \/ UNCHANGED vars
            \/ /\ MallocGranted(TotalBlocks(size))
               /\ \E s \in Index :
                    /\ s + TotalBlocks(size) <= Blocks
                    /\ heap_get_start_block(entries, TotalBlocks(size), s)
                    /\ live' = live \cup {Grant(s, TotalBlocks(size))}
<1>. DEFINE n == TotalBlocks(size)
<1>1. n \in Nat
  <2>1. size \in Nat
    BY SizesAssumption
  <2>. QED BY <2>1, TotalBlocksType
<1>2. n > 0
  BY DEF FitsAt
<1>3. \A s \in Index : heap_get_start_block(entries, n, s) => s + n <= Blocks
  <2>. HIDE DEF n
  <2>1. \A s : heap_get_start_block(entries, n, s) => FitsAt(entries, s, n)
    BY <1>1, SearchFindsFit DEF IInv, TypeOK, n
  <2>. QED BY <2>1 DEF FitsAt
<1>4. CASE MallocRefused(n)
  BY <1>1, <1>2, <1>4 DEF MallocRefused
<1>5. CASE MallocGranted(n)
  BY <1>1, <1>2, <1>3, <1>5 DEF MallocGranted, GrantAt
<1>. QED BY <1>4, <1>5 DEF heap_malloc

(* Every step of the roomy heap keeps its invariant. *)
LEMMA RoomyInductive ==
  ASSUME RoomyInv, [RoomyNext]_vars
  PROVE  RoomyInv'
<1>1. CASE UNCHANGED vars
  BY <1>1 DEF vars, RoomyInv, IInv, TypeOK, Disjoint, TableMatchesGrants,
              Covers, GrantsInsidePool
<1>2. ASSUME NEW size \in Sizes,
             \E s \in Index : FitsAt(entries, s, TotalBlocks(size)),
             heap_malloc(size)
      PROVE  RoomyInv'
  <2>. DEFINE n == TotalBlocks(size)
  <2>1. /\ n \in Nat /\ n > 0
        /\ \/ UNCHANGED vars
           \/ /\ MallocGranted(n)
              /\ \E s \in Index : s + n <= Blocks /\ live' = live \cup {Grant(s, n)}
    BY <1>2, RoomyGrant DEF RoomyInv
  <2>. HIDE DEF n
  <2>2. CASE UNCHANGED vars
    BY <1>1, <2>2
  <2>3. CASE /\ MallocGranted(n)
             /\ \E s \in Index : s + n <= Blocks /\ live' = live \cup {Grant(s, n)}
    <3>1. IInv'
      BY <2>1, <2>3, GrantAtInductive DEF RoomyInv, MallocGranted
    <3>2. GrantsInsidePool'
      BY <2>3 DEF RoomyInv, GrantsInsidePool, Grant
    <3>. QED BY <3>1, <3>2 DEF RoomyInv
  <2>. QED BY <2>1, <2>2, <2>3
<1>3. ASSUME NEW a \in live, heap_free(a) PROVE RoomyInv'
  <2>1. IInv'
    BY <1>3, FreeInductive DEF RoomyInv
  <2>2. GrantsInsidePool'
    BY <1>3 DEF RoomyInv, GrantsInsidePool, heap_free
  <2>. QED BY <2>1, <2>2 DEF RoomyInv
<1>. QED BY <1>1, <1>2, <1>3 DEF RoomyNext

(***************************************************************************)
(* As long as every request meets a free run that holds it, no grant       *)
(* leaves the pool: the overrun of heap.c:91 needs a request that should   *)
(* have been refused.                                                      *)
(***************************************************************************)
THEOREM RoomyGrantsInsidePool == RoomySpec => []GrantsInsidePool
<1>1. Init => RoomyInv
  BY InitIInv DEF RoomyInv, Init, GrantsInsidePool
<1>2. RoomyInv /\ [RoomyNext]_vars => RoomyInv'
  BY RoomyInductive
<1>3. RoomyInv => GrantsInsidePool
  BY DEF RoomyInv
<1>. QED BY <1>1, <1>2, <1>3, PTL DEF RoomySpec

(* The grants that lie inside the pool. *)
Fitting == {a \in live : a.start + a.len <= Blocks}

(* The chains in the table are exactly the grants that lie inside the pool:*)
(* one that runs off the table has no last block there.                    *)
LEMMA RecordedGrantsAreFitting == IInv => RecordedGrants(entries) = Fitting
<1>. SUFFICES ASSUME IInv PROVE RecordedGrants(entries) = Fitting
  OBVIOUS
<1>0. /\ \A a \in live : /\ a.start \in Index /\ a.len \in Nat /\ a.len > 0
                         /\ a = [start |-> a.start, len |-> a.len]
      /\ \A i \in Index, a \in live :
            Covers(a, i) => entries[i] = TakenEntry(a.start, a.len, i)
      /\ \A i \in Index : (\A a \in live : ~ Covers(a, i)) => entries[i] = {}
  BY DEF IInv, TypeOK, TableMatchesGrants, HEAP_BLOCK_TABLE_ENTRY_FREE
<1>1. ASSUME NEW a \in Fitting PROVE a \in RecordedGrants(entries)
  <2>1. a \in [start : Index, len : 1 .. Blocks]
    <3>1. a.len \in 1 .. Blocks
      BY <1>0, HeapTableAssumption DEF Index, Fitting
    <3>. QED BY <1>0, <3>1 DEF Fitting
  <2>2. ASSUME NEW i \in a.start .. a.start + a.len - 1
        PROVE  entries[i] = TakenEntry(a.start, a.len, i)
    <3>1. i \in Index /\ Covers(a, i)
      BY <1>0, HeapTableAssumption DEF Covers, Index, Fitting
    <3>. QED BY <1>0, <3>1 DEF Fitting
  <2>. QED BY <1>0, <2>1, <2>2 DEF RecordedGrants, ChainAt, Fitting
<1>2. ASSUME NEW g \in RecordedGrants(entries) PROVE g \in Fitting
  <2>1. /\ g.start \in Index /\ g.len \in Nat /\ g.len > 0
        /\ g.start + g.len <= Blocks
        /\ g = [start |-> g.start, len |-> g.len]
    BY HeapTableAssumption DEF RecordedGrants, ChainAt
  <2>2. \A i \in Index : Covers(g, i) => entries[i] = TakenEntry(g.start, g.len, i)
    BY <2>1 DEF RecordedGrants, ChainAt, Covers, Index
  <2>3. "FIRST" \in entries[g.start]
    <3>1. Covers(g, g.start)
      BY <2>1 DEF Covers, Index
    <3>. QED BY <2>1, <2>2, <3>1 DEF TakenEntry
  <2>4. PICK a \in live : Covers(a, g.start)
    BY <1>0, <2>1, <2>3
  <2>5. a.start = g.start
    BY <1>0, <2>1, <2>3, <2>4 DEF TakenEntry
  <2>6. ~ (a.len < g.len)
    <3>. SUFFICES ASSUME a.len < g.len PROVE FALSE
      OBVIOUS
    <3>. DEFINE i == a.start + a.len - 1
    <3>1. i \in Index /\ Covers(a, i) /\ Covers(g, i) /\ i < g.start + g.len - 1
      BY <1>0, <2>1, <2>5, HeapTableAssumption DEF Covers, Index
    <3>2. "HAS_NEXT" \in entries[i]
      BY <2>2, <3>1 DEF TakenEntry
    <3>3. "HAS_NEXT" \notin entries[i]
      BY <1>0, <3>1 DEF TakenEntry, Index
    <3>. QED BY <3>2, <3>3
  <2>7. ~ (g.len < a.len)
    <3>. SUFFICES ASSUME g.len < a.len PROVE FALSE
      OBVIOUS
    <3>. DEFINE i == g.start + g.len - 1
    <3>1. i \in Index /\ Covers(a, i) /\ Covers(g, i) /\ i < a.start + a.len - 1
      BY <1>0, <2>1, <2>5, HeapTableAssumption DEF Covers, Index
    <3>2. "HAS_NEXT" \in entries[i]
      BY <1>0, <3>1 DEF TakenEntry
    <3>3. "HAS_NEXT" \notin entries[i]
      BY <2>1, <2>2, <3>1 DEF TakenEntry, Index
    <3>. QED BY <3>2, <3>3
  <2>8. a.len = g.len
    BY <1>0, <2>1, <2>6, <2>7
  <2>. QED BY <1>0, <2>1, <2>5, <2>8 DEF Fitting
<1>. QED BY <1>1, <1>2

(* The same of the state a step leads to. *)
LEMMA RecordedGrantsStayFitting == IInv' => (RecordedGrants(entries) = Fitting)'
BY RecordedGrantsAreFitting, PTL

(* A grant is an allocator's grant if it lies inside the pool, and not     *)
(* seen by the allocator if it does not.                                   *)
LEMMA GrantSimulates ==
  ASSUME IInv, NEW n \in Nat, n > 0, NEW s \in Index,
         heap_get_start_block(entries, n, s),
         live' = live \cup {Grant(s, n)},
         RecordedGrants(entries) = Fitting, RecordedGrants(entries') = Fitting'
  PROVE  [Allocator!Next]_(RecordedGrants(entries))
<1>1. CASE s + n > Blocks
  BY <1>1, HeapTableAssumption DEF Fitting, Grant, Index
<1>2. CASE s + n <= Blocks
  <2>1. Fitting' = Fitting \cup {Grant(s, n)}
    BY <1>2 DEF Fitting, Grant
  <2>2. Grant(s, n).len > 0
    BY DEF Grant
  <2>3. Allocator!BlocksOf(Grant(s, n)) \subseteq Allocator!Pool
    BY <1>2, HeapTableAssumption
       DEF Grant, Index, Allocator!BlocksOf, Allocator!Pool
  <2>4. ASSUME NEW o \in Fitting
        PROVE  Allocator!BlocksOf(Grant(s, n)) \cap Allocator!BlocksOf(o) = {}
    <3>1. s + n <= o.start \/ o.start + o.len <= s
      BY <2>4, GrantedIsDisjoint DEF Fitting
    <3>2. o.start \in Index /\ o.len \in Nat
      BY <2>4 DEF IInv, TypeOK, Fitting
    <3>. QED BY <3>1, <3>2 DEF Grant, Index, Allocator!BlocksOf
  <2>5. s \in Allocator!Pool /\ n \in 1 .. Blocks
    BY <1>2, HeapTableAssumption DEF Allocator!Pool, Index
  <2>6. Allocator!Grant([start |-> s, len |-> n])
    BY <2>1, <2>2, <2>3, <2>4 DEF Grant, Allocator!Grant
  <2>. QED BY <2>5, <2>6 DEF Allocator!Next
<1>. QED BY <1>1, <1>2, HeapTableAssumption DEF Index

(* Each step of the heap is a step of the allocator or a stutter. *)
LEMMA StepSimulates ==
  ASSUME PositiveRequests, IInv, IInv', [Next]_vars
  PROVE  [Allocator!Next]_(RecordedGrants(entries))
<1>1. RecordedGrants(entries) = Fitting
  BY RecordedGrantsAreFitting
<1>2. RecordedGrants(entries') = Fitting'
  BY RecordedGrantsStayFitting DEF RecordedGrants, ChainAt
<1>3. CASE UNCHANGED vars
  BY <1>1, <1>2, <1>3 DEF vars, Fitting
<1>4. ASSUME NEW size \in Sizes, heap_malloc(size)
      PROVE  [Allocator!Next]_(RecordedGrants(entries))
  <2>. DEFINE n == TotalBlocks(size)
  <2>1. n \in Nat /\ n > 0
    <3>1. size \in Nat
      BY SizesAssumption
    <3>. QED BY <3>1, TotalBlocksType DEF PositiveRequests
  <2>. HIDE DEF n
  <2>2. CASE MallocRefused(n)
    BY <1>3, <2>2 DEF MallocRefused
  <2>3. CASE MallocGranted(n)
    <3>1. PICK s \in Index : GrantAt(n, s)
      BY <2>3 DEF MallocGranted
    <3>. QED BY <1>1, <1>2, <2>1, <3>1, GrantSimulates DEF GrantAt
  <2>. QED BY <1>4, <2>2, <2>3 DEF heap_malloc, n
<1>5. ASSUME NEW a \in live, heap_free(a)
      PROVE  [Allocator!Next]_(RecordedGrants(entries))
  <2>1. CASE a \in Fitting
    <3>1. Allocator!Release(a)
      BY <1>1, <1>2, <1>5, <2>1 DEF heap_free, Fitting, Allocator!Release
    <3>. QED BY <1>1, <2>1, <3>1 DEF Allocator!Next
  <2>2. CASE a \notin Fitting
    BY <1>1, <1>2, <1>5, <2>2 DEF heap_free, Fitting
  <2>. QED BY <2>1, <2>2
<1>. QED BY <1>3, <1>4, <1>5 DEF Next

(***************************************************************************)
(* The heap of heap.c implements the allocator its clients rely on, the    *)
(* grants being the chains its flags spell; a grant that runs off the      *)
(* table (heap.c:91) is one the allocator never sees.                      *)
(***************************************************************************)
THEOREM HeapImplementsAllocator ==
  ASSUME PositiveRequests
  PROVE  Spec => AllocatorImplemented
<1>1. Init => IInv
  BY InitIInv
<1>2. IInv /\ [Next]_vars => IInv'
  BY IInvInductive
<1>3. Init => Allocator!Init
  <2>. SUFFICES ASSUME Init PROVE RecordedGrants(entries) = {}
    BY DEF Allocator!Init
  <2>. QED BY <1>1, RecordedGrantsAreFitting DEF Init, Fitting
<1>4. IInv /\ IInv' /\ [Next]_vars => [Allocator!Next]_(RecordedGrants(entries))
  BY StepSimulates
<1>. QED BY <1>1, <1>2, <1>3, <1>4, PTL
         DEF Spec, AllocatorImplemented, Allocator!Spec

-----------------------------------------------------------------------------
(***************************************************************************)
(* The processes' side: until a pointer without memory has released a      *)
(* grant, the heap's invariant holds and memory is recorded once.          *)
(***************************************************************************)
PInv ==
  /\ PTypeOK
  /\ RecordedOnce
  /\ ~ misfreed => IInv

-----------------------------------------------------------------------------
(* A block the search returns is not yet the start of any grant. *)
LEMMA GrantedStartIsNew ==
  ASSUME IInv, NEW n \in Nat, n > 0, NEW s \in Index, GrantAt(n, s),
         NEW a \in live
  PROVE  a.start # s
<1>1. heap_get_start_block(entries, n, s)
  BY DEF GrantAt
<1>2. ~ Covers(a, s)
  BY <1>1, GrantedIsUncovered, HeapTableAssumption DEF Index
<1>3. a.start \in Index /\ a.len \in Nat /\ a.len > 0
  BY DEF IInv, TypeOK
<1>. QED BY <1>2, <1>3 DEF Covers, Index

(* Grants start at blocks, no two at the same one. *)
LEMMA StartsDiffer ==
  ASSUME IInv, NEW a \in live
  PROVE  /\ a.start \in Index /\ a.start # NULL
         /\ \A b \in live : a # b => a.start # b.start
<1>1. \A b \in live : b.start \in Index /\ b.len \in Nat /\ b.len > 0
  BY DEF IInv, TypeOK
<1>2. \A b \in live : a # b => a.start + a.len <= b.start \/ b.start + b.len <= a.start
  BY DEF IInv, Disjoint
<1>. QED BY <1>1, <1>2, HeapTableAssumption DEF Index, NULL

(* Releasing from a free block on changes nothing. *)
LEMMA FreeOfFreeBlock ==
  ASSUME IInv, NEW i \in Index, IsFree(entries, i)
  PROVE  heap_mark_free_blocks(entries, i) = entries
<1>1. entries[i] = HEAP_BLOCK_TABLE_ENTRY_FREE
  <2>1. \A a \in live : ~ Covers(a, i)
    BY DEF IInv, TableMatchesGrants, IsFree, TakenEntry
  <2>. QED BY <2>1 DEF IInv, TableMatchesGrants
<1>2. ASSUME NEW j \in Index, j > i
      PROVE  ~ \A k \in i .. j - 1 : "HAS_NEXT" \in entries[k]
  <2>1. i \in i .. j - 1
    BY <1>2, HeapTableAssumption DEF Index
  <2>. QED BY <1>1, <2>1 DEF HEAP_BLOCK_TABLE_ENTRY_FREE
<1>3. \A j \in Index : heap_mark_free_blocks(entries, i)[j] = entries[j]
  <2>. SUFFICES ASSUME NEW j \in Index
       PROVE  heap_mark_free_blocks(entries, i)[j] = entries[j]
    OBVIOUS
  <2>1. i \in Int /\ j \in Int
    BY HeapTableAssumption DEF Index
  <2>2. CASE j = i
    BY <1>1, <2>2 DEF heap_mark_free_blocks
  <2>3. CASE j < i
    BY <2>1, <2>3 DEF heap_mark_free_blocks
  <2>4. CASE j > i
    BY <1>2, <2>4 DEF heap_mark_free_blocks
  <2>. QED BY <2>1, <2>2, <2>3, <2>4
<1>4. entries = [j \in Index |-> entries[j]]
  BY DEF IInv, TypeOK, Table
<1>. QED BY <1>3, <1>4 DEF heap_mark_free_blocks

(* Storing a value in a slot changes that slot alone. *)
LEMMA StoreSlot ==
  ASSUME PTypeOK, NEW p \in Procs, NEW k \in Slot, NEW v \in Index \cup {NULL},
         allocations' = [allocations EXCEPT ![p][k] = v]
  PROVE  /\ allocations' \in [Procs -> [Slot -> Index \cup {NULL}]]
         /\ \A q \in Procs, j \in Slot :
              allocations'[q][j] = IF q = p /\ j = k THEN v ELSE allocations[q][j]
BY DEF PTypeOK

-----------------------------------------------------------------------------
(* What a malloc of n blocks may do: nothing; give out a free block for    *)
(* none; take blocks and drop them; take blocks and record them.           *)
GivesNothing == UNCHANGED <<entries, stray, live, allocations, empty>>

GivesEmpty(p) ==
  \E k \in Slot, s \in Index :
    /\ UNCHANGED <<entries, stray, live>>
    /\ SlotOf(p, NULL, k)
    /\ allocations' = [allocations EXCEPT ![p][k] = s]
    /\ empty' = empty \cup {<<p, k>>}

DropsGrant(p, n) ==
  \E s \in Index :
    /\ GrantAt(n, s)
    /\ ~ is_process_pointer(p, NULL)
    /\ UNCHANGED <<allocations, empty>>

GivesGrant(p, n) ==
  \E k \in Slot, s \in Index :
    /\ GrantAt(n, s)
    /\ SlotOf(p, NULL, k)
    /\ allocations' = [allocations EXCEPT ![p][k] = s]
    /\ UNCHANGED empty

LEMMA MallocCases ==
  ASSUME NEW p \in Procs, NEW size \in Sizes, ~ wiped, process_malloc(p, size)
  PROVE  /\ UNCHANGED <<misfreed, low>>
         /\ \/ GivesNothing
            \/ GivesEmpty(p)
            \/ \E n \in Nat : n > 0 /\ (DropsGrant(p, n) \/ GivesGrant(p, n))
<1>1. TotalBlocks(size) \in Nat
  <2>1. size \in Nat
    BY SizesAssumption
  <2>. QED BY <2>1, TotalBlocksType
<1>2. PICK n \in Nat : n = TotalBlocks(size)
  BY <1>1
<1>3. CASE UNCHANGED pvars
  BY <1>3 DEF pvars, GivesNothing
<1>4. ASSUME NEW s \in Index, kzalloc(size, s), UNCHANGED <<misfreed, low>>,
             \/ ~ wiped' /\ Record(p, size, s)
             \/ /\ wiped' \/ ~ is_process_pointer(p, NULL)
                /\ UNCHANGED <<allocations, empty>>
      PROVE  \/ GivesNothing
             \/ GivesEmpty(p)
             \/ DropsGrant(p, n) /\ n > 0
             \/ GivesGrant(p, n) /\ n > 0
  <2>1. CASE n > 0 /\ GrantAt(n, s) /\ UNCHANGED wiped
    BY <1>2, <1>4, <2>1 DEF Record, DropsGrant, GivesGrant
  <2>2. CASE n = 0 /\ UNCHANGED <<entries, stray, live>>
    BY <1>2, <1>4, <2>2 DEF Record, GivesNothing, GivesEmpty
  <2>. QED BY <1>2, <1>4, <2>1, <2>2 DEF kzalloc
<1>5. \/ UNCHANGED pvars
      \/ /\ UNCHANGED <<misfreed, low>>
         /\ \E s \in Index :
              /\ kzalloc(size, s)
              /\ \/ ~ wiped' /\ Record(p, size, s)
                 \/ /\ wiped' \/ ~ is_process_pointer(p, NULL)
                    /\ UNCHANGED <<allocations, empty>>
  BY DEF process_malloc
<1>6. UNCHANGED <<misfreed, low>>
  BY <1>5 DEF pvars
<1>. QED BY <1>2, <1>3, <1>4, <1>5, <1>6

(* What freeing slot k of p does to the heap while the invariant holds:    *)
(* nothing, if it recorded no memory; else it releases what it recorded.   *)
ClearsSlot(p, k) ==
  /\ allocations' = [allocations EXCEPT ![p][k] = NULL]
  /\ empty' = empty \ {<<p, k>>}

FreesNothing(p, k) ==
  /\ ~ Full(p, k)
  /\ ClearsSlot(p, k)
  /\ UNCHANGED <<entries, live>>
  /\ stray' \subseteq Int

FreesGrant(p, k) ==
  /\ Full(p, k)
  /\ ClearsSlot(p, k)
  /\ \E a \in live : a.start = allocations[p][k] /\ heap_free(a)

LEMMA FreeCases ==
  ASSUME PInv, NEW p \in Procs, NEW ptr \in Index \cup {NULL},
         process_free(p, ptr), ~ misfreed'
  PROVE  /\ ~ misfreed
         /\ \/ UNCHANGED pvars
            \/ \E k \in Slot : FreesNothing(p, k) \/ FreesGrant(p, k)
<1>1. CASE UNCHANGED pvars
  BY <1>1 DEF pvars
<1>2. ASSUME NEW k \in Slot, SlotOf(p, ptr, k), kfree(ptr), GaveBack(p, k),
             allocations' = [allocations EXCEPT ![p][k] = NULL]
      PROVE  ~ misfreed /\ (FreesNothing(p, k) \/ FreesGrant(p, k))
  <2>1. allocations[p][k] = ptr /\ ClearsSlot(p, k)
    BY <1>2 DEF SlotOf, GaveBack, ClearsSlot
  <2>2. ~ misfreed
    BY <1>2 DEF GaveBack
  <2>3. IInv /\ stray \subseteq Int
    BY <2>2 DEF PInv, IInv, TypeOK
  <2>4. CASE ptr = NULL
    <3>1. <<p, k>> \notin empty
      BY <2>1, <2>4 DEF PInv, PTypeOK
    <3>2. live' = {a \in live : a.start # NULL}
      BY <1>2, <2>1, <2>4, <3>1 DEF GaveBack
    <3>3. live' = live
      BY <2>3, <3>2, StartsDiffer
    <3>4. entries' = entries
      BY <1>2, <2>4 DEF kfree, PInv, PTypeOK
    <3>5. stray' \subseteq Int
      <4>1. \A i \in Low : i - LowEntries - 1 \in Int
        BY ProcessHeapAssumption DEF Low
      <4>2. stray' = stray \cup {i - LowEntries - 1 : i \in {j \in Low : Reached(j)}}
        BY <1>2, <2>4 DEF kfree
      <4>. QED BY <2>3, <4>1, <4>2
    <3>. QED BY <2>1, <2>2, <2>4, <3>3, <3>4, <3>5 DEF FreesNothing, Full
  <2>5. CASE ptr # NULL /\ <<p, k>> \in empty
    <3>1. IsFree(entries, ptr) /\ live' = live
      BY <1>2, <2>1, <2>5 DEF GaveBack
    <3>2. entries' = entries /\ stray' = stray
      BY <1>2, <2>3, <2>5, <3>1, FreeOfFreeBlock DEF kfree
    <3>. QED BY <2>1, <2>2, <2>3, <2>5, <3>1, <3>2 DEF FreesNothing, Full
  <2>6. CASE ptr # NULL /\ <<p, k>> \notin empty
    <3>1. Full(p, k)
      BY <2>1, <2>6 DEF Full
    <3>2. PICK a \in live : a.start = ptr
      BY <2>1, <2>2, <3>1 DEF PInv, RecordedOnce
    <3>3. live' = {b \in live : b.start # ptr}
      BY <1>2, <2>1, <2>6 DEF GaveBack
    <3>4. live' = live \ {a}
      BY <2>3, <3>2, <3>3, StartsDiffer
    <3>5. heap_free(a)
      BY <1>2, <2>6, <3>2, <3>4 DEF kfree, heap_free
    <3>. QED BY <2>1, <2>2, <3>1, <3>2, <3>5 DEF FreesGrant
  <2>. QED BY <2>4, <2>5, <2>6
<1>3. ASSUME UNCHANGED pvars PROVE ~ misfreed
  BY <1>3 DEF pvars
<1>. QED BY <1>2, <1>3 DEF process_free

-----------------------------------------------------------------------------
(* The bytes below the table: one without HAS_NEXT stays one. *)
LEMMA LowKeepsEnd ==
  ASSUME PTypeOK, NEW ptr, kfree(ptr)
  PROVE  low' \in [Low -> BOOLEAN] /\ \E i \in Low : ~ low'[i]
<1>1. low \in [Low -> BOOLEAN] /\ \E i \in Low : ~ low[i]
  BY DEF PTypeOK
<1>2. CASE low' = low
  BY <1>1, <1>2
<1>3. CASE low' = [i \in Low |-> low[i] /\ ~ Reached(i)]
  BY <1>1, <1>3
<1>. QED BY <1>2, <1>3 DEF kfree

(* Types are kept whatever has happened before. *)
LEMMA PTypeInductive ==
  ASSUME PTypeOK, [PNext]_pvars
  PROVE  PTypeOK'
<1>1. CASE UNCHANGED pvars
  BY <1>1 DEF pvars, PTypeOK
<1>2. ASSUME NEW p \in Procs, NEW k \in Slot, NEW s \in Index, SlotOf(p, NULL, k),
             allocations' = [allocations EXCEPT ![p][k] = s],
             empty' = empty \cup {<<p, k>>} \/ empty' = empty
      PROVE  /\ allocations' \in [Procs -> [Slot -> Index \cup {NULL}]]
             /\ empty' \subseteq Procs \X Slot
             /\ \A q \in Procs, j \in Slot : <<q, j>> \in empty' => allocations'[q][j] # NULL
  <2>1. s # NULL /\ s \in Index \cup {NULL}
    BY HeapTableAssumption DEF Index, NULL
  <2>2. /\ allocations' \in [Procs -> [Slot -> Index \cup {NULL}]]
        /\ \A q \in Procs, j \in Slot :
             allocations'[q][j] = IF q = p /\ j = k THEN s ELSE allocations[q][j]
    BY <1>2, <2>1, StoreSlot
  <2>3. empty' \subseteq Procs \X Slot
    BY <1>2 DEF PTypeOK
  <2>4. ASSUME NEW q \in Procs, NEW j \in Slot, <<q, j>> \in empty'
        PROVE  allocations'[q][j] # NULL
    <3>1. CASE q = p /\ j = k
      BY <2>1, <2>2, <3>1
    <3>2. CASE ~ (q = p /\ j = k)
      <4>1. <<q, j>> \in empty
        BY <1>2, <2>4, <3>2
      <4>. QED BY <2>2, <3>2, <4>1 DEF PTypeOK
    <3>. QED BY <3>1, <3>2
  <2>. QED BY <2>2, <2>3, <2>4
<1>3. ASSUME NEW p \in Procs, NEW size \in Sizes, ~ wiped, process_malloc(p, size)
      PROVE  PTypeOK'
  <2>1. UNCHANGED <<misfreed, low>>
    BY <1>3, MallocCases
  <2>2. wiped' \in BOOLEAN
    <3>1. \/ wiped' = wiped
          \/ wiped' = (size > 0)
      BY <1>3, Zenon DEF process_malloc, kzalloc, pvars
    <3>2. (size > 0) \in BOOLEAN
      <4>1. size \in Nat
        BY SizesAssumption
      <4>. QED BY <4>1
    <3>. QED BY <3>1, <3>2 DEF PTypeOK
  <2>3. \/ UNCHANGED <<allocations, empty>>
        \/ \E k \in Slot, s \in Index :
             /\ SlotOf(p, NULL, k)
             /\ allocations' = [allocations EXCEPT ![p][k] = s]
             /\ (empty' = empty \cup {<<p, k>>} \/ empty' = empty)
    BY <1>3, MallocCases DEF GivesNothing, GivesEmpty, DropsGrant, GivesGrant
  <2>4. /\ allocations' \in [Procs -> [Slot -> Index \cup {NULL}]]
        /\ empty' \subseteq Procs \X Slot
        /\ \A q \in Procs, j \in Slot : <<q, j>> \in empty' => allocations'[q][j] # NULL
    <3>1. CASE UNCHANGED <<allocations, empty>>
      BY <3>1 DEF PTypeOK
    <3>. QED BY <1>2, <2>3, <3>1
  <2>. QED BY <2>1, <2>2, <2>4 DEF PTypeOK
<1>4. ASSUME NEW p \in Procs, NEW ptr \in Index \cup {NULL}, NEW k \in Slot,
             allocations' = [allocations EXCEPT ![p][k] = NULL],
             kfree(ptr), GaveBack(p, k), UNCHANGED wiped
      PROVE  PTypeOK'
  <2>1. /\ allocations' \in [Procs -> [Slot -> Index \cup {NULL}]]
        /\ \A q \in Procs, j \in Slot :
             allocations'[q][j] = IF q = p /\ j = k THEN NULL ELSE allocations[q][j]
    BY <1>4, StoreSlot
  <2>2. low' \in [Low -> BOOLEAN] /\ \E i \in Low : ~ low'[i]
    BY <1>4, LowKeepsEnd
  <2>3. misfreed' \in BOOLEAN /\ empty' = empty \ {<<p, k>>}
    BY <1>4 DEF GaveBack, IsFree, PTypeOK
  <2>4. \A q \in Procs, j \in Slot : <<q, j>> \in empty' => allocations'[q][j] # NULL
    BY <2>1, <2>3 DEF PTypeOK
  <2>. QED BY <1>4, <2>1, <2>2, <2>3, <2>4 DEF PTypeOK
<1>5. ASSUME NEW p \in Procs, NEW ptr \in Index \cup {NULL}, process_free(p, ptr)
      PROVE  PTypeOK'
  BY <1>1, <1>4, <1>5 DEF process_free
<1>. QED BY <1>1, <1>3, <1>5 DEF PNext

-----------------------------------------------------------------------------
(* The two halves of RecordedOnce. *)
RecordsGrants ==
  \A p \in Procs, k \in Slot :
    Full(p, k) => \E a \in live : a.start = allocations[p][k]
RecordsOnce ==
  \A p, q \in Procs, j, k \in Slot :
    Full(p, j) /\ Full(q, k) /\ allocations[p][j] = allocations[q][k]
      => p = q /\ j = k

(* What is recorded does not depend on how it is written down. *)
LEMMA RecordedParts ==
  ASSUME PInv, ~ misfreed
  PROVE  IInv /\ PTypeOK /\ RecordsGrants /\ RecordsOnce
BY DEF PInv, RecordedOnce, RecordsGrants, RecordsOnce

(* The slots that are full after a step: those that were, but not slot k   *)
(* of p; or slot k of p, with s, besides.                                  *)
LeavesFull(p, k) ==
  \A q \in Procs, j \in Slot :
    /\ Full(q, j)' <=> (Full(q, j) /\ ~ (q = p /\ j = k))
    /\ Full(q, j)' => allocations'[q][j] = allocations[q][j]
AddsFull(p, k, s) ==
  \A q \in Procs, j \in Slot :
    /\ Full(q, j)' <=> (Full(q, j) \/ (q = p /\ j = k))
    /\ allocations'[q][j] = IF q = p /\ j = k THEN s ELSE allocations[q][j]

(* A slot that has got a pointer without memory or has been cleared. *)
LEMMA FullWithout ==
  ASSUME PTypeOK, NEW p \in Procs, NEW k \in Slot, NEW v \in Index \cup {NULL},
         allocations' = [allocations EXCEPT ![p][k] = v],
         \/ empty' = empty \cup {<<p, k>>}
         \/ v = NULL /\ empty' = empty \ {<<p, k>>}
  PROVE  LeavesFull(p, k)
<1>1. \A q \in Procs, j \in Slot :
        allocations'[q][j] = IF q = p /\ j = k THEN v ELSE allocations[q][j]
  BY StoreSlot
<1>. QED BY <1>1 DEF Full, LeavesFull

(* Memory recorded in a free slot. *)
LEMMA FullWith ==
  ASSUME PTypeOK, NEW p \in Procs, NEW k \in Slot, NEW s \in Index,
         SlotOf(p, NULL, k), allocations' = [allocations EXCEPT ![p][k] = s],
         UNCHANGED empty
  PROVE  AddsFull(p, k, s)
<1>1. s \in Index \cup {NULL} /\ s # NULL
  BY HeapTableAssumption DEF Index, NULL
<1>2. \A q \in Procs, j \in Slot :
        allocations'[q][j] = IF q = p /\ j = k THEN s ELSE allocations[q][j]
  BY <1>1, StoreSlot
<1>3. <<p, k>> \notin empty
  BY DEF SlotOf, PTypeOK
<1>. QED BY <1>1, <1>2, <1>3 DEF Full, AddsFull

(* Memory recorded as before, of grants still outstanding. *)
LEMMA RecordedAsBefore ==
  ASSUME PTypeOK, RecordsGrants, RecordsOnce, live \subseteq live',
         UNCHANGED <<allocations, empty>>
  PROVE  RecordsGrants' /\ RecordsOnce'
BY DEF RecordsGrants, RecordsOnce, Full

(* Every malloc keeps the process invariant. *)
LEMMA ProcessMallocInductive ==
  ASSUME PInv, ~ misfreed, NEW p \in Procs, NEW size \in Sizes, ~ wiped,
         process_malloc(p, size)
  PROVE  IInv' /\ RecordsGrants' /\ RecordsOnce'
<1>0. IInv /\ PTypeOK /\ RecordsGrants /\ RecordsOnce
  BY RecordedParts
<1>1. UNCHANGED <<entries, stray, live>> => IInv'
  BY <1>0 DEF IInv, TypeOK, Disjoint, TableMatchesGrants, Covers
<1>2. CASE GivesNothing
  BY <1>0, <1>1, <1>2, RecordedAsBefore DEF GivesNothing
<1>3. CASE GivesEmpty(p)
  <2>1. PICK k \in Slot, s \in Index :
          /\ UNCHANGED <<entries, stray, live>>
          /\ allocations' = [allocations EXCEPT ![p][k] = s]
          /\ empty' = empty \cup {<<p, k>>}
    BY <1>3 DEF GivesEmpty
  <2>2. LeavesFull(p, k)
    <3>1. s \in Index \cup {NULL}
      OBVIOUS
    <3>. QED BY <1>0, <2>1, <3>1, FullWithout
  <2>3. RecordsGrants' /\ RecordsOnce'
    BY <1>0, <2>1, <2>2 DEF RecordsGrants, RecordsOnce, LeavesFull
  <2>. QED BY <1>1, <2>1, <2>3
<1>4. ASSUME NEW n \in Nat, n > 0, DropsGrant(p, n)
      PROVE  IInv' /\ RecordsGrants' /\ RecordsOnce'
  <2>1. PICK s \in Index : GrantAt(n, s) /\ UNCHANGED <<allocations, empty>>
    BY <1>4 DEF DropsGrant
  <2>2. IInv'
    BY <1>0, <1>4, <2>1, GrantAtInductive
  <2>3. live \subseteq live'
    BY <2>1 DEF GrantAt
  <2>. QED BY <1>0, <2>1, <2>2, <2>3, RecordedAsBefore
<1>5. ASSUME NEW n \in Nat, n > 0, GivesGrant(p, n)
      PROVE  IInv' /\ RecordsGrants' /\ RecordsOnce'
  <2>1. PICK k \in Slot, s \in Index :
          /\ GrantAt(n, s) /\ SlotOf(p, NULL, k) /\ UNCHANGED empty
          /\ allocations' = [allocations EXCEPT ![p][k] = s]
    BY <1>5 DEF GivesGrant
  <2>2. IInv'
    BY <1>0, <1>5, <2>1, GrantAtInductive
  <2>3. live' = live \cup {Grant(s, n)} /\ Grant(s, n).start = s
    BY <2>1 DEF GrantAt, Grant
  <2>4. \A q \in Procs, j \in Slot :
          /\ Full(q, j)' <=> (Full(q, j) \/ (q = p /\ j = k))
          /\ allocations'[q][j] = IF q = p /\ j = k THEN s ELSE allocations[q][j]
    <3>1. AddsFull(p, k, s)
      BY <1>0, <2>1, FullWith
    <3>. QED BY <3>1 DEF AddsFull
  <2>5. \A q \in Procs, j \in Slot : Full(q, j) => allocations[q][j] # s
    <3>1. \A a \in live : a.start # s
      BY <1>0, <1>5, <2>1, GrantedStartIsNew
    <3>. QED BY <1>0, <3>1 DEF RecordsGrants
  <2>6. ~ Full(p, k)
    BY <2>1 DEF SlotOf, Full
  <2>7. ASSUME NEW q \in Procs, NEW j \in Slot, Full(q, j)'
        PROVE  \E a \in live' : a.start = allocations'[q][j]
    <3>1. CASE q = p /\ j = k
      BY <2>3, <2>4, <3>1
    <3>2. CASE ~ (q = p /\ j = k)
      BY <1>0, <2>3, <2>4, <2>7, <3>2 DEF RecordsGrants
    <3>. QED BY <3>1, <3>2
  <2>8. ASSUME NEW q \in Procs, NEW r \in Procs, NEW i \in Slot, NEW j \in Slot,
               Full(q, i)', Full(r, j)', allocations'[q][i] = allocations'[r][j]
        PROVE  q = r /\ i = j
    BY <1>0, <2>4, <2>5, <2>8 DEF RecordsOnce
  <2>. QED BY <2>2, <2>7, <2>8 DEF RecordsGrants, RecordsOnce
<1>. QED BY <1>2, <1>3, <1>4, <1>5, MallocCases

(* Every free that gives back what was granted keeps it. *)
LEMMA ProcessFreeInductive ==
  ASSUME PInv, NEW p \in Procs, NEW ptr \in Index \cup {NULL},
         process_free(p, ptr), ~ misfreed'
  PROVE  IInv' /\ RecordsGrants' /\ RecordsOnce'
<1>0. ~ misfreed /\ IInv /\ PTypeOK /\ RecordsGrants /\ RecordsOnce
  BY FreeCases, RecordedParts
<1>1. CASE UNCHANGED pvars
  <2>1. IInv'
    BY <1>0, <1>1 DEF pvars, IInv, TypeOK, Disjoint, TableMatchesGrants, Covers
  <2>. QED BY <1>0, <1>1, <2>1, RecordedAsBefore DEF pvars
<1>2. ASSUME NEW k \in Slot, ClearsSlot(p, k)
      PROVE  LeavesFull(p, k)
  <2>1. NULL \in Index \cup {NULL}
    OBVIOUS
  <2>. QED BY <1>0, <1>2, <2>1, FullWithout DEF ClearsSlot
<1>3. ASSUME NEW k \in Slot, FreesNothing(p, k)
      PROVE  IInv' /\ RecordsGrants' /\ RecordsOnce'
  <2>1. IInv'
    BY <1>0, <1>3
       DEF FreesNothing, IInv, TypeOK, Disjoint, TableMatchesGrants, Covers
  <2>2. \A q \in Procs, j \in Slot :
          /\ Full(q, j)' => Full(q, j)
          /\ Full(q, j)' => allocations'[q][j] = allocations[q][j]
    BY <1>2, <1>3 DEF FreesNothing, LeavesFull
  <2>3. live' = live
    BY <1>3 DEF FreesNothing
  <2>. QED BY <1>0, <2>1, <2>2, <2>3 DEF RecordsGrants, RecordsOnce
<1>4. ASSUME NEW k \in Slot, FreesGrant(p, k)
      PROVE  IInv' /\ RecordsGrants' /\ RecordsOnce'
  <2>1. PICK a \in live : a.start = allocations[p][k] /\ heap_free(a)
    BY <1>4 DEF FreesGrant
  <2>2. IInv'
    BY <1>0, <2>1, FreeInductive
  <2>3. Full(p, k) /\ live' = live \ {a}
    BY <1>4, <2>1 DEF FreesGrant, heap_free
  <2>4. \A q \in Procs, j \in Slot :
          /\ Full(q, j)' => Full(q, j) /\ ~ (q = p /\ j = k)
          /\ Full(q, j)' => allocations'[q][j] = allocations[q][j]
    BY <1>2, <1>4 DEF FreesGrant, LeavesFull
  <2>5. ASSUME NEW q \in Procs, NEW j \in Slot, Full(q, j)'
        PROVE  \E b \in live' : b.start = allocations'[q][j]
    <3>1. Full(q, j) /\ allocations'[q][j] = allocations[q][j]
      BY <2>4, <2>5
    <3>2. PICK b \in live : b.start = allocations[q][j]
      BY <1>0, <3>1 DEF RecordsGrants
    <3>3. allocations[q][j] # allocations[p][k]
      BY <1>0, <2>3, <2>4, <2>5, <3>1 DEF RecordsOnce
    <3>. QED BY <2>1, <2>3, <3>1, <3>2, <3>3
  <2>6. RecordsOnce'
    BY <1>0, <2>4 DEF RecordsOnce
  <2>. QED BY <2>2, <2>5, <2>6 DEF RecordsGrants
<1>. QED BY <1>1, <1>3, <1>4, FreeCases

(* Every step of the processes keeps their invariant. *)
LEMMA PInvInductive ==
  ASSUME PInv, [PNext]_pvars
  PROVE  PInv'
<1>1. PTypeOK'
  BY PTypeInductive DEF PInv
<1>2. ASSUME ~ misfreed' PROVE IInv' /\ RecordsGrants' /\ RecordsOnce'
  <2>1. CASE UNCHANGED pvars
    <3>1. ~ misfreed
      BY <1>2, <2>1 DEF pvars
    <3>2. IInv /\ PTypeOK /\ RecordsGrants /\ RecordsOnce
      BY <3>1, RecordedParts
    <3>3. IInv'
      BY <2>1, <3>2 DEF pvars, IInv, TypeOK, Disjoint, TableMatchesGrants, Covers
    <3>. QED BY <2>1, <3>2, <3>3, RecordedAsBefore DEF pvars
  <2>2. ASSUME NEW p \in Procs, NEW size \in Sizes, ~ wiped, process_malloc(p, size)
        PROVE  IInv' /\ RecordsGrants' /\ RecordsOnce'
    <3>1. ~ misfreed
      BY <1>2, <2>2, MallocCases
    <3>. QED BY <2>2, <3>1, ProcessMallocInductive
  <2>3. ASSUME NEW p \in Procs, NEW ptr \in Index \cup {NULL}, process_free(p, ptr)
        PROVE  IInv' /\ RecordsGrants' /\ RecordsOnce'
    BY <1>2, <2>3, ProcessFreeInductive
  <2>. QED BY <2>1, <2>2, <2>3 DEF PNext
<1>. QED BY <1>1, <1>2 DEF PInv, RecordedOnce, RecordsGrants, RecordsOnce

(* Cleared processes over a cleared heap satisfy it. *)
LEMMA PInitPInv == PInit => PInv
<1>. SUFFICES ASSUME PInit PROVE PInv
  OBVIOUS
<1>1. PTypeOK
  BY DEF PInit, PTypeOK
<1>2. \A p \in Procs, k \in Slot : ~ Full(p, k)
  BY DEF PInit, Full
<1>. QED BY <1>1, <1>2, InitIInv DEF PInit, PInv, RecordedOnce

-----------------------------------------------------------------------------
(***************************************************************************)
(* Process memory is owned once: the invariant behind process_malloc and   *)
(* process_free in every execution, whatever sizes are asked for.          *)
(***************************************************************************)
THEOREM ProcessInvariant == PSpec => []PInv
<1>1. PInit => PInv
  BY PInitPInv
<1>2. PInv /\ [PNext]_pvars => PInv'
  BY PInvInductive
<1>. QED BY <1>1, <1>2, PTL DEF PSpec

(***************************************************************************)
(* allocations only ever holds blocks of the heap and 0, and a release of  *)
(* 0 always ends below the table.                                          *)
(***************************************************************************)
THEOREM ProcessTypeCorrect == PSpec => []PTypeOK
<1>1. PInv => PTypeOK
  BY DEF PInv
<1>. QED BY <1>1, ProcessInvariant, PTL

(***************************************************************************)
(* No memory is recorded by two processes or twice by one, and each        *)
(* recorded pointer to memory is an outstanding grant, whatever sizes the  *)
(* processes ask for, until one frees a pointer without memory whose block *)
(* has been granted.                                                       *)
(***************************************************************************)
THEOREM ProcessRecordedOnce == PSpec => []RecordedOnce
<1>1. PInv => RecordedOnce
  BY DEF PInv
<1>. QED BY <1>1, ProcessInvariant, PTL

(* One step leaves the memory behind a kept pointer alone. *)
LEMMA StepKeepsMemory ==
  ASSUME PInv, [PNext]_pvars
  PROVE  KeptMemoryUntouched
<1>. SUFFICES ASSUME ~ misfreed', NEW p \in Procs, NEW k \in Slot, NEW a \in live,
                     Full(p, k),
                     allocations[p][k] = a.start, allocations'[p][k] = a.start,
                     NEW i \in Index, Covers(a, i)
              PROVE  entries'[i] = entries[i]
  BY DEF KeptMemoryUntouched
<1>1. CASE UNCHANGED pvars
  BY <1>1 DEF pvars
<1>2. ASSUME NEW q \in Procs, NEW size \in Sizes, ~ wiped, process_malloc(q, size)
      PROVE  entries'[i] = entries[i]
  <2>1. IInv
    BY <1>2, MallocCases, RecordedParts
  <2>2. ASSUME NEW n \in Nat, n > 0, NEW s \in Index, GrantAt(n, s)
        PROVE  entries'[i] = entries[i]
    <3>1. ~ (s <= i /\ i < s + n)
      BY <2>1, <2>2, GrantedIsUncovered DEF GrantAt
    <3>. QED BY <2>2, <3>1 DEF GrantAt, heap_mark_taken_blocks
  <2>. QED BY <1>2, <2>2, MallocCases
           DEF GivesNothing, GivesEmpty, DropsGrant, GivesGrant
<1>3. ASSUME NEW q \in Procs, NEW ptr \in Index \cup {NULL}, process_free(q, ptr)
      PROVE  entries'[i] = entries[i]
  <2>0. IInv /\ PTypeOK /\ RecordsOnce
    BY <1>3, FreeCases, RecordedParts
  <2>1. ASSUME NEW j \in Slot, FreesGrant(q, j)
        PROVE  entries'[i] = entries[i]
    <3>1. PICK b \in live : b.start = allocations[q][j] /\ heap_free(b)
      BY <2>1 DEF FreesGrant
    <3>2. Full(q, j) /\ allocations'[q][j] = NULL
      <4>1. allocations' = [allocations EXCEPT ![q][j] = NULL]
        BY <2>1 DEF FreesGrant, ClearsSlot
      <4>2. NULL \in Index \cup {NULL}
        OBVIOUS
      <4>3. allocations'[q][j] = NULL
        BY <2>0, <4>1, <4>2, StoreSlot
      <4>. QED BY <2>1, <4>3 DEF FreesGrant
    <3>3. a # b
      <4>1. ~ (p = q /\ k = j)
        BY <2>0, <3>2, StartsDiffer
      <4>. QED BY <2>0, <3>1, <3>2, <4>1 DEF RecordsOnce
    <3>4. ~ Covers(b, i)
      <4>1. a.start + a.len <= b.start \/ b.start + b.len <= a.start
        BY <2>0, <3>3 DEF IInv, Disjoint
      <4>2. /\ a.start \in Index /\ a.len \in Nat
            /\ b.start \in Index /\ b.len \in Nat
        BY <2>0 DEF IInv, TypeOK
      <4>. QED BY <4>1, <4>2 DEF Covers, Index
    <3>. QED BY <2>0, <3>1, <3>4, ChainIsGrant DEF heap_free, heap_mark_free_blocks
  <2>. QED BY <1>1, <1>3, <2>1, FreeCases DEF FreesNothing
<1>. QED BY <1>1, <1>2, <1>3 DEF PNext

(***************************************************************************)
(* No step of any process changes the table entries of memory that a       *)
(* process goes on holding, whatever it asks for or frees, except the free *)
(* of a pointer without memory whose block has been granted.               *)
(***************************************************************************)
THEOREM ProcessMemoryIsolated == PSpec => MemoryIsolated
<1>1. PInv /\ [PNext]_pvars => [KeptMemoryUntouched]_pvars
  BY StepKeepsMemory
<1>. QED BY <1>1, ProcessInvariant, PTL DEF PSpec, MemoryIsolated

(* One step is a step of the heap or leaves it alone. *)
LEMMA StepUsesHeap ==
  ASSUME PInv, [PNext]_pvars, ~ misfreed'
  PROVE  [Next]_<<entries, live>>
<1>1. CASE UNCHANGED pvars
  BY <1>1 DEF pvars
<1>2. ASSUME NEW p \in Procs, NEW size \in Sizes, process_malloc(p, size)
      PROVE  [Next]_<<entries, live>>
  <2>1. \/ UNCHANGED <<entries, live>>
        \/ \E s \in Index : GrantAt(TotalBlocks(size), s)
    BY <1>2 DEF process_malloc, kzalloc, pvars
  <2>. QED BY <2>1 DEF Next, heap_malloc, MallocGranted
<1>3. ASSUME NEW p \in Procs, NEW ptr \in Index \cup {NULL}, process_free(p, ptr)
      PROVE  [Next]_<<entries, live>>
  <2>1. \/ UNCHANGED <<entries, live>>
        \/ \E a \in live : heap_free(a)
    BY <1>3, FreeCases DEF FreesNothing, FreesGrant, pvars
  <2>. QED BY <2>1 DEF Next
<1>. QED BY <1>1, <1>2, <1>3 DEF PNext

(***************************************************************************)
(* The processes drive the heap only by its own operations, whatever sizes *)
(* they ask for and whatever they free, until a pointer without memory     *)
(* releases a grant.                                                       *)
(***************************************************************************)
THEOREM ProcessesUseHeapProperly == PSpec => HeapUsedProperly
<1>1. PInit => Init
  BY DEF PInit
<1>2. PInv /\ [PNext]_pvars => [misfreed' \/ Next]_<<entries, live>>
  BY StepUsesHeap
<1>. QED BY <1>1, <1>2, ProcessInvariant, PTL DEF PSpec, HeapUsedProperly

-----------------------------------------------------------------------------
(* A malloc loses the block it took when there is no slot, and no other. *)
LEMMA MallocLoses ==
  ASSUME PInv, ~ misfreed, NEW p \in Procs, NEW size \in Sizes, ~ wiped,
         process_malloc(p, size)
  PROVE  LostOnlyWithFullTable
<1>0. IInv /\ PTypeOK /\ RecordsGrants
  BY RecordedParts
<1>1. CASE GivesNothing
  <2>1. Unrecorded' = Unrecorded
    BY <1>1 DEF GivesNothing, Unrecorded, Full
  <2>. QED BY <2>1 DEF LostOnlyWithFullTable
<1>2. CASE GivesEmpty(p)
  <2>1. PICK k \in Slot, s \in Index :
          /\ live' = live /\ SlotOf(p, NULL, k)
          /\ allocations' = [allocations EXCEPT ![p][k] = s]
          /\ empty' = empty \cup {<<p, k>>}
    BY <1>2 DEF GivesEmpty
  <2>2. s \in Index \cup {NULL} /\ ~ Full(p, k)
    BY <2>1 DEF SlotOf, Full
  <2>3. \A q \in Procs, j \in Slot :
          /\ Full(q, j)' <=> Full(q, j)
          /\ Full(q, j)' => allocations'[q][j] = allocations[q][j]
    <3>1. LeavesFull(p, k)
      BY <1>0, <2>1, <2>2, FullWithout
    <3>. QED BY <2>2, <3>1 DEF LeavesFull
  <2>4. Unrecorded' = Unrecorded
    BY <2>1, <2>3 DEF Unrecorded
  <2>. QED BY <2>4 DEF LostOnlyWithFullTable
<1>3. ASSUME NEW n \in Nat, DropsGrant(p, n) PROVE LostOnlyWithFullTable
  <2>1. PICK s \in Index : live' = live \cup {Grant(s, n)}
    BY <1>3 DEF DropsGrant, GrantAt
  <2>2. UNCHANGED <<allocations, empty>> /\ ~ is_process_pointer(p, NULL)
    BY <1>3 DEF DropsGrant
  <2>3. Unrecorded \subseteq Unrecorded'
    BY <2>1, <2>2 DEF Unrecorded, Full
  <2>. QED BY <2>2, <2>3 DEF LostOnlyWithFullTable
<1>4. ASSUME NEW n \in Nat, n > 0, GivesGrant(p, n) PROVE LostOnlyWithFullTable
  <2>1. PICK k \in Slot, s \in Index :
          /\ GrantAt(n, s) /\ SlotOf(p, NULL, k) /\ UNCHANGED empty
          /\ allocations' = [allocations EXCEPT ![p][k] = s]
    BY <1>4 DEF GivesGrant
  <2>2. live' = live \cup {Grant(s, n)} /\ Grant(s, n).start = s
    BY <2>1 DEF GrantAt, Grant
  <2>3. \A q \in Procs, j \in Slot :
          /\ Full(q, j)' <=> (Full(q, j) \/ (q = p /\ j = k))
          /\ allocations'[q][j] = IF q = p /\ j = k THEN s ELSE allocations[q][j]
    <3>1. AddsFull(p, k, s)
      BY <1>0, <2>1, FullWith
    <3>. QED BY <3>1 DEF AddsFull
  <2>4. \A a \in live : a.start # s
    BY <1>0, <1>4, <2>1, GrantedStartIsNew
  <2>5. ~ Full(p, k)
    BY <2>1 DEF SlotOf, Full
  <2>6. ASSUME NEW a \in live'
        PROVE  a \in Unrecorded' <=> a \in Unrecorded
    <3>1. CASE a \in live
      <4>1. a.start # s
        BY <2>4, <3>1
      <4>. QED BY <2>2, <2>3, <2>5, <3>1, <4>1 DEF Unrecorded
    <3>2. CASE a = Grant(s, n)
      <4>1. Full(p, k)' /\ allocations'[p][k] = a.start
        BY <2>2, <2>3, <3>2
      <4>2. a \notin live
        BY <2>2, <2>4, <3>2
      <4>. QED BY <4>1, <4>2 DEF Unrecorded
    <3>. QED BY <2>2, <3>1, <3>2
  <2>7. Unrecorded' = Unrecorded
    BY <2>2, <2>6 DEF Unrecorded
  <2>. QED BY <2>7 DEF LostOnlyWithFullTable
<1>. QED BY <1>1, <1>2, <1>3, <1>4, MallocCases

(* A free loses nothing: what it no longer records is released. *)
LEMMA FreeLosesNothing ==
  ASSUME PInv, NEW p \in Procs, NEW ptr \in Index \cup {NULL},
         process_free(p, ptr)
  PROVE  LostOnlyWithFullTable
<1>. SUFFICES ASSUME ~ misfreed' PROVE LostOnlyWithFullTable
  BY DEF LostOnlyWithFullTable
<1>0. IInv /\ PTypeOK
  BY FreeCases, RecordedParts
<1>1. CASE UNCHANGED pvars
  <2>1. Unrecorded' = Unrecorded
    BY <1>1 DEF pvars, Unrecorded, Full
  <2>. QED BY <2>1 DEF LostOnlyWithFullTable
<1>2. ASSUME NEW k \in Slot, ClearsSlot(p, k)
      PROVE  LeavesFull(p, k)
  <2>1. NULL \in Index \cup {NULL}
    OBVIOUS
  <2>. QED BY <1>0, <1>2, <2>1, FullWithout DEF ClearsSlot
<1>3. ASSUME NEW k \in Slot, FreesNothing(p, k) PROVE LostOnlyWithFullTable
  <2>1. \A q \in Procs, j \in Slot :
          /\ Full(q, j)' <=> Full(q, j)
          /\ Full(q, j)' => allocations'[q][j] = allocations[q][j]
    BY <1>2, <1>3 DEF FreesNothing, LeavesFull
  <2>2. Unrecorded' = Unrecorded
    BY <1>3, <2>1 DEF FreesNothing, Unrecorded
  <2>. QED BY <2>2 DEF LostOnlyWithFullTable
<1>4. ASSUME NEW k \in Slot, FreesGrant(p, k) PROVE LostOnlyWithFullTable
  <2>1. PICK b \in live : b.start = allocations[p][k] /\ live' = live \ {b}
    BY <1>4 DEF FreesGrant, heap_free
  <2>2. Full(p, k)
    BY <1>4 DEF FreesGrant
  <2>3. \A q \in Procs, j \in Slot :
          /\ Full(q, j)' <=> (Full(q, j) /\ ~ (q = p /\ j = k))
          /\ Full(q, j)' => allocations'[q][j] = allocations[q][j]
    BY <1>2, <1>4 DEF FreesGrant, LeavesFull
  <2>4. b \notin Unrecorded
    BY <2>1, <2>2 DEF Unrecorded
  <2>5. ASSUME NEW a \in live, a # b
        PROVE  a \in Unrecorded' <=> a \in Unrecorded
    <3>1. a.start # allocations[p][k] /\ a \in live'
      BY <1>0, <2>1, <2>5, StartsDiffer
    <3>. QED BY <2>3, <2>5, <3>1 DEF Unrecorded
  <2>6. Unrecorded' = Unrecorded
    BY <2>1, <2>4, <2>5 DEF Unrecorded
  <2>. QED BY <2>6 DEF LostOnlyWithFullTable
<1>. QED BY <1>1, <1>3, <1>4, FreeCases

(***************************************************************************)
(* Memory is lost in one way only, for any number of processes and slots   *)
(* and any sizes: a malloc whose process has no slot left keeps the block  *)
(* it took.                                                                *)
(***************************************************************************)
THEOREM ProcessLostOnlyByFullTable == PSpec => LostOnlyByFullTable
<1>1. PInv /\ [PNext]_pvars => [LostOnlyWithFullTable]_pvars
  <2>. SUFFICES ASSUME PInv, [PNext]_pvars, ~ UNCHANGED pvars
                PROVE  LostOnlyWithFullTable
    OBVIOUS
  <2>1. ASSUME NEW p \in Procs, NEW size \in Sizes, ~ wiped, process_malloc(p, size)
        PROVE  LostOnlyWithFullTable
    <3>1. CASE ~ misfreed
      BY <2>1, <3>1, MallocLoses
    <3>2. CASE misfreed
      BY <2>1, <3>2, MallocCases DEF LostOnlyWithFullTable
    <3>. QED BY <3>1, <3>2
  <2>. QED BY <2>1, FreeLosesNothing DEF PNext
<1>. QED BY <1>1, ProcessInvariant, PTL DEF PSpec, LostOnlyByFullTable
-----------------------------------------------------------------------------
(* The loops of heap.c do what HeapTable says, whatever the table.         *)

(* A run of a loop: its state after every number of iterations. *)
Runs(g, n, S, s0, step) ==
  /\ g \in [0 .. n -> S]
  /\ g[0] = s0
  /\ \A k \in 1 .. n : g[k] = step[k][g[k - 1]]

(* Induction over an interval, with the property as a set. *)
LEMMA IntervalInduction ==
  ASSUME NEW n \in Nat, NEW P, 0 \in P, \A i \in 1 .. n : i - 1 \in P => i \in P
  PROVE  \A i \in 0 .. n : i \in P
<1>. DEFINE T == {i \in 0 .. n : i \notin P}
<1>1. ASSUME T # {} PROVE FALSE
  <2>1. PICK m \in T : \A k \in T : m <= k
    <3>1. T \subseteq Nat
      OBVIOUS
    <3>. QED BY <1>1, <3>1, LeastNatural
  <2>2. m \in 1 .. n /\ m - 1 \in 0 .. n /\ m \notin P
    OBVIOUS
  <2>3. m - 1 \notin T
    BY <2>1, <2>2
  <2>. QED BY <2>2, <2>3
<1>. QED BY <1>1

(* A loop whose iterations are functions has a run. *)
LEMMA RunExists ==
  ASSUME NEW n \in Nat, NEW S, NEW s0 \in S, NEW step \in [1 .. n -> [S -> S]]
  PROVE  \E g : Runs(g, n, S, s0, step)
<1>. DEFINE P == {k \in 0 .. n : \E g : Runs(g, k, S, s0, step)}
<1>1. 0 \in P
  <2>. DEFINE g == [k \in 0 .. 0 |-> s0]
  <2>1. g \in [0 .. 0 -> S] /\ g[0] = s0 /\ 1 .. 0 = {}
    OBVIOUS
  <2>2. Runs(g, 0, S, s0, step)
    BY <2>1 DEF Runs
  <2>. QED BY <2>2
<1>2. ASSUME NEW k \in 1 .. n, NEW g, Runs(g, k - 1, S, s0, step)
      PROVE  \E h : Runs(h, k, S, s0, step)
  <2>. DEFINE h == [i \in 0 .. k |-> IF i = k THEN step[k][g[k - 1]] ELSE g[i]]
  <2>1. /\ g \in [0 .. k - 1 -> S] /\ g[0] = s0
        /\ \A i \in 1 .. k - 1 : g[i] = step[i][g[i - 1]]
    BY <1>2 DEF Runs
  <2>2. step[k][g[k - 1]] \in S
    <3>1. step[k] \in [S -> S] /\ g[k - 1] \in S
      BY <2>1
    <3>. QED BY <3>1
  <2>3. h \in [0 .. k -> S] /\ h[0] = s0
    BY <2>1, <2>2
  <2>4. ASSUME NEW i \in 1 .. k
        PROVE  h[i] = step[i][h[i - 1]]
    <3>1. CASE i \in 1 .. k - 1
      BY <2>1, <3>1
    <3>2. CASE i = k
      BY <3>2
    <3>. QED BY <3>1, <3>2
  <2>5. Runs(h, k, S, s0, step)
    BY <2>3, <2>4 DEF Runs
  <2>. QED BY <2>5
<1>3. \A k \in 1 .. n : k - 1 \in P => k \in P
  BY <1>2
<1>. HIDE DEF P
<1>4. \A k \in 0 .. n : k \in P
  BY <1>1, <1>3, IntervalInduction
<1>5. n \in P
  BY <1>4
<1>. QED BY <1>5 DEF P

(* The variables of the search. *)
ScanState == [bc : Nat, bs : Index \cup {NULL}, left : BOOLEAN]

LEMMA ScanStepType ==
  ASSUME NEW t \in Table, NEW n \in Nat, NEW i \in Index, NEW s \in ScanState
  PROVE  ScanStep(t, n, i, s) \in ScanState
BY DEF ScanStep, ScanState, ScanStart

LEMMA ScanStartType == ScanStart \in ScanState
BY DEF ScanStart, ScanState

ScanRuns(g, t, n) ==
  /\ g \in [0 .. Blocks -> ScanState]
  /\ g[0] = ScanStart
  /\ \A k \in 1 .. Blocks : g[k] = ScanStep(t, n, k - 1, g[k - 1])

LEMMA ScanHasRun ==
  ASSUME NEW t \in Table, NEW n \in Nat
  PROVE  \E g : ScanRuns(g, t, n) /\ Scan(t, n) = g[Blocks].bs
<1>. DEFINE step == [k \in 1 .. Blocks |-> [s \in ScanState |-> ScanStep(t, n, k - 1, s)]]
            Body(g) == [k \in 0 .. Blocks |->
                          IF k = 0 THEN ScanStart ELSE ScanStep(t, n, k - 1, g[k - 1])]
            after == CHOOSE g : g = Body(g)
<1>1. step \in [1 .. Blocks -> [ScanState -> ScanState]]
  <2>1. ASSUME NEW k \in 1 .. Blocks, NEW s \in ScanState
        PROVE  ScanStep(t, n, k - 1, s) \in ScanState
    <3>1. k - 1 \in Index
      BY HeapTableAssumption DEF Index
    <3>. QED BY <3>1, ScanStepType
  <2>. QED BY <2>1
<1>2. PICK g : Runs(g, Blocks, ScanState, ScanStart, step)
  <2>. HIDE DEF step
  <2>. QED BY <1>1, RunExists, ScanStartType, HeapTableAssumption
<1>3. /\ g \in [0 .. Blocks -> ScanState] /\ g[0] = ScanStart
      /\ \A k \in 1 .. Blocks : g[k - 1] \in ScanState
      /\ \A k \in 1 .. Blocks : g[k] = ScanStep(t, n, k - 1, g[k - 1])
  <2>. HIDE DEF step
  <2>1. /\ g \in [0 .. Blocks -> ScanState] /\ g[0] = ScanStart
        /\ \A k \in 1 .. Blocks : g[k] = step[k][g[k - 1]]
    BY <1>2 DEF Runs
  <2>2. ASSUME NEW k \in 1 .. Blocks PROVE g[k - 1] \in ScanState
    BY <2>1, HeapTableAssumption
  <2>3. ASSUME NEW k \in 1 .. Blocks PROVE step[k][g[k - 1]] = ScanStep(t, n, k - 1, g[k - 1])
    BY <2>2 DEF step
  <2>. QED BY <2>1, <2>2, <2>3
<1>4. g = Body(g)
  <2>1. \A k \in 0 .. Blocks : k = 0 \/ k \in 1 .. Blocks
    BY HeapTableAssumption
  <2>. QED BY <1>3, <2>1
<1>5. Scan(t, n) = after[Blocks].bs
  BY Zenon DEF Scan
<1>6. ASSUME NEW f, f = Body(f)
      PROVE  /\ f = [k \in 0 .. Blocks |-> f[k]]
             /\ f[0] = ScanStart
             /\ \A k \in 1 .. Blocks : f[k] = ScanStep(t, n, k - 1, f[k - 1])
  <2>1. 0 \in 0 .. Blocks /\ \A k \in 1 .. Blocks : k \in 0 .. Blocks /\ k # 0
    BY HeapTableAssumption
  <2>2. \A k \in 0 .. Blocks :
          f[k] = IF k = 0 THEN ScanStart ELSE ScanStep(t, n, k - 1, f[k - 1])
    BY <1>6, Zenon
  <2>3. f = [k \in 0 .. Blocks |-> f[k]]
    BY <1>6, <2>2, Zenon
  <2>. QED BY <2>1, <2>2, <2>3, Zenon
<1>. HIDE DEF Body
<1>7. after = Body(after)
  BY <1>4, Zenon
<1>8. ScanRuns(after, t, n)
  <2>. HIDE DEF after
  <2>1. /\ after = [k \in 0 .. Blocks |-> after[k]]
        /\ after[0] = ScanStart
        /\ \A k \in 1 .. Blocks : after[k] = ScanStep(t, n, k - 1, after[k - 1])
    BY <1>6, <1>7
  <2>. DEFINE P == {k \in 0 .. Blocks : after[k] \in ScanState}
  <2>2. 0 \in P
    <3>1. 0 \in 0 .. Blocks
      BY HeapTableAssumption
    <3>2. after[0] \in ScanState
      BY <2>1, ScanStartType
    <3>. QED BY <3>1, <3>2
  <2>3. \A k \in 1 .. Blocks : k - 1 \in P => k \in P
    <3>1. ASSUME NEW k \in 1 .. Blocks, after[k - 1] \in ScanState
          PROVE  after[k] \in ScanState
      <4>1. k - 1 \in Index
        BY HeapTableAssumption DEF Index
      <4>2. ScanStep(t, n, k - 1, after[k - 1]) \in ScanState
        BY <3>1, <4>1, ScanStepType
      <4>. QED BY <2>1, <4>2
    <3>. QED BY <3>1
  <2>4. \A k \in 0 .. Blocks : k \in P
    <3>. HIDE DEF P
    <3>. QED BY <2>2, <2>3, IntervalInduction, HeapTableAssumption
  <2>5. after \in [0 .. Blocks -> ScanState]
    BY <2>1, <2>4
  <2>. QED BY <2>1, <2>5 DEF ScanRuns
<1>. QED BY <1>5, <1>8

(***************************************************************************)
(* After k iterations that were not cut short, bs starts the run of free   *)
(* blocks that reaches entry k, bc counts it, and no run before it fits.   *)
(***************************************************************************)
Counting(t, n, k, s) ==
  /\ ~ s.left
  /\ s.bs = NULL => s.bc = 0 /\ (k > 0 => ~ IsFree(t, k - 1))
  /\ s.bs # NULL =>
       /\ s.bs < k /\ s.bc = k - s.bs
       /\ RunStart(t, s.bs)
       /\ \A j \in s.bs .. k - 1 : IsFree(t, j)
  /\ \A c \in Index : Candidate(t, c, n) => c + n > k

(* The loop was left with the lowest run that fits. *)
ScanFound(t, n, s) ==
  /\ s.left
  /\ s.bs \in Index
  /\ Candidate(t, s.bs, n)
  /\ \A c \in Index : Candidate(t, c, n) => s.bs <= c

(* A free run that ends where bs's run does starts at bs. *)
LEMMA SameRun ==
  ASSUME NEW t \in Table, NEW k \in 1 .. Blocks,
         NEW b \in Index, b < k, RunStart(t, b), \A j \in b .. k - 1 : IsFree(t, j),
         NEW c \in Index, c < k, RunStart(t, c), \A j \in c .. k - 1 : IsFree(t, j)
  PROVE  c = b
<1>1. CASE c < b
  <2>1. b - 1 \in c .. k - 1 /\ b > 0
    BY <1>1, HeapTableAssumption DEF Index
  <2>. QED BY <2>1 DEF RunStart
<1>2. CASE b < c
  <2>1. c - 1 \in b .. k - 1 /\ c > 0
    BY <1>2, HeapTableAssumption DEF Index
  <2>. QED BY <2>1 DEF RunStart
<1>. QED BY <1>1, <1>2, HeapTableAssumption DEF Index

(* A candidate that ends before entry k spans free blocks up to it. *)
LEMMA CandidateSpan ==
  ASSUME NEW t \in Table, NEW n \in Nat, NEW c \in Index, Candidate(t, c, n),
         NEW k \in 1 .. Blocks, c + n = k
  PROVE  /\ c < k /\ RunStart(t, c) /\ IsFree(t, k - 1)
         /\ \A j \in c .. k - 1 : IsFree(t, j)
<1>1. /\ RunStart(t, c) /\ n > 0
      /\ \A j \in c .. c + n - 1 : IsFree(t, j)
  BY DEF Candidate, FitsAt
<1>2. c \in Nat /\ c + n - 1 = k - 1 /\ k - 1 \in c .. k - 1 /\ c < k
  BY <1>1, HeapTableAssumption DEF Index
<1>. QED BY <1>1, <1>2

(* One iteration of the search. *)
LEMMA ScanStepCounts ==
  ASSUME NEW t \in Table, NEW n \in Nat, NEW k \in 1 .. Blocks,
         NEW s \in ScanState, Counting(t, n, k - 1, s),
         NEW r, r = ScanStep(t, n, k - 1, s)
  PROVE  Counting(t, n, k, r) \/ ScanFound(t, n, r)
<1>1. /\ s.bc \in Nat /\ s.bs \in Index \cup {NULL} /\ ~ s.left
      /\ k - 1 \in Index /\ k \in Nat /\ k > 0 /\ k <= Blocks
  BY HeapTableAssumption DEF ScanState, Counting, Index
<1>2. PICK b \in Index \cup {NULL} : b = s.bs
  BY <1>1
<1>3. /\ b = NULL => s.bc = 0 /\ (k - 1 > 0 => ~ IsFree(t, k - 2))
      /\ b # NULL =>
           /\ b < k - 1 /\ s.bc = k - 1 - b
           /\ RunStart(t, b)
           /\ \A j \in b .. k - 2 : IsFree(t, j)
      /\ \A c \in Index : Candidate(t, c, n) => c + n >= k
  <2>1. (k - 1) - 1 = k - 2
    BY <1>1
  <2>2. ASSUME NEW c \in Index, Candidate(t, c, n) PROVE c + n >= k
    <3>1. c + n > k - 1
      BY <2>2 DEF Counting
    <3>. QED BY <3>1, <1>1 DEF Index
  <2>. QED BY <1>2, <2>1, <2>2 DEF Counting
<1>4. CASE ~ IsFree(t, k - 1)
  <2>1. r = ScanStart
    BY <1>1, <1>4 DEF ScanStep
  <2>2. r.bs = NULL /\ r.bc = 0 /\ ~ r.left
    BY <2>1 DEF ScanStart
  <2>3. ASSUME NEW c \in Index, Candidate(t, c, n) PROVE c + n > k
    <3>1. c + n # k
      BY <1>4, <2>3, CandidateSpan
    <3>. QED BY <1>1, <1>3, <2>3, <3>1 DEF Index
  <2>. QED BY <1>4, <2>2, <2>3 DEF Counting
<1>5. CASE IsFree(t, k - 1)
  <2>. DEFINE e == IF b = NULL THEN k - 1 ELSE b
  <2>1. /\ r.bc = s.bc + 1 /\ r.bs = e
        /\ r.left <=> s.bc + 1 = n
    BY <1>1, <1>2, <1>5 DEF ScanStep
  <2>2. e \in Index /\ e < k /\ e # NULL
    BY <1>1, <1>3, HeapTableAssumption DEF Index, NULL
  <2>3. s.bc + 1 = k - e
    BY <1>1, <1>3 DEF Index, NULL
  <2>4. RunStart(t, e)
    <3>1. CASE b = NULL
      <4>1. e = k - 1 /\ (k - 1) - 1 = k - 2
        BY <1>1, <3>1
      <4>. QED BY <1>3, <1>5, <3>1, <4>1 DEF RunStart
    <3>2. CASE b # NULL
      BY <1>3, <3>2
    <3>. QED BY <3>1, <3>2
  <2>5. \A j \in e .. k - 1 : IsFree(t, j)
    <3>1. CASE b = NULL
      <4>1. e = k - 1 /\ \A j \in k - 1 .. k - 1 : j = k - 1
        BY <1>1, <3>1
      <4>. QED BY <1>5, <4>1
    <3>2. CASE b # NULL
      <4>1. e = b /\ \A j \in b .. k - 1 : j = k - 1 \/ j \in b .. k - 2
        BY <1>1, <2>2, <3>2 DEF Index
      <4>. QED BY <1>3, <1>5, <3>2, <4>1
    <3>. QED BY <3>1, <3>2
  <2>. HIDE DEF e
  <2>6. CASE s.bc + 1 = n
    <3>1. e + n = k
      BY <1>1, <2>2, <2>3, <2>6 DEF Index
    <3>2. Candidate(t, e, n)
      <4>1. n > 0 /\ e + n <= Blocks /\ e + n - 1 = k - 1
        BY <1>1, <2>2, <2>6, <3>1 DEF Index
      <4>. QED BY <2>4, <2>5, <4>1 DEF Candidate, FitsAt
    <3>3. ASSUME NEW c \in Index, Candidate(t, c, n) PROVE e <= c
      <4>1. c + n >= k
        BY <1>3, <3>3
      <4>. QED BY <2>2, <3>1, <4>1 DEF Index
    <3>. QED BY <2>1, <2>2, <2>6, <3>2, <3>3 DEF ScanFound
  <2>7. CASE s.bc + 1 # n
    <3>1. ASSUME NEW c \in Index, Candidate(t, c, n) PROVE c + n > k
      <4>1. ASSUME c + n = k PROVE FALSE
        <5>1. c = e
          BY <2>2, <2>4, <2>5, <3>1, <4>1, CandidateSpan, SameRun
        <5>. QED BY <1>1, <2>2, <2>3, <2>7, <4>1, <5>1 DEF Index
      <4>. QED BY <1>1, <1>3, <3>1, <4>1 DEF Index
    <3>2. r.bc = k - r.bs
      BY <2>1, <2>3
    <3>. QED BY <2>1, <2>2, <2>4, <2>5, <2>7, <3>1, <3>2 DEF Counting
  <2>. QED BY <2>6, <2>7
<1>. QED BY <1>4, <1>5

(* The search loop returns what heap_get_start_block is said to return. *)
LEMMA ScanSearches ==
  ASSUME NEW t \in Table, NEW n \in Nat
  PROVE  /\ heap_get_start_block(t, n, Scan(t, n))
         /\ Scan(t, n) \in Index \cup {NULL}
<1>1. PICK g : ScanRuns(g, t, n) /\ Scan(t, n) = g[Blocks].bs
  BY ScanHasRun
<1>. DEFINE P == {k \in 0 .. Blocks : Counting(t, n, k, g[k]) \/ ScanFound(t, n, g[k])}
<1>2. 0 \in P
  <2>1. g[0] = ScanStart /\ 0 \in 0 .. Blocks
    BY <1>1, HeapTableAssumption DEF ScanRuns
  <2>2. ASSUME NEW c \in Index, Candidate(t, c, n) PROVE c + n > 0
    BY <2>2 DEF Candidate, FitsAt, Index
  <2>3. Counting(t, n, 0, ScanStart)
    BY <2>2 DEF Counting, ScanStart
  <2>. QED BY <2>1, <2>3
<1>3. ASSUME NEW k \in 1 .. Blocks, k - 1 \in P PROVE k \in P
  <2>1. /\ g[k - 1] \in ScanState /\ g[k] = ScanStep(t, n, k - 1, g[k - 1])
        /\ k \in 0 .. Blocks
    BY <1>1, <1>3, HeapTableAssumption DEF ScanRuns
  <2>2. CASE Counting(t, n, k - 1, g[k - 1])
    BY <2>1, <2>2, ScanStepCounts
  <2>3. CASE ScanFound(t, n, g[k - 1])
    <3>1. g[k] = g[k - 1]
      BY <2>1, <2>3 DEF ScanFound, ScanStep
    <3>. QED BY <2>1, <2>3, <3>1
  <2>. QED BY <1>3, <2>2, <2>3
<1>4. \A k \in 0 .. Blocks : k \in P
  <2>. HIDE DEF P
  <2>. QED BY <1>2, <1>3, IntervalInduction, HeapTableAssumption
<1>5. PICK s \in ScanState : s = g[Blocks]
  BY <1>1, HeapTableAssumption DEF ScanRuns
<1>6. Counting(t, n, Blocks, s) \/ ScanFound(t, n, s)
  <2>1. Blocks \in 0 .. Blocks
    BY HeapTableAssumption
  <2>. QED BY <1>4, <1>5, <2>1
<1>7. Scan(t, n) = s.bs /\ s.bs \in Index \cup {NULL}
  BY <1>1, <1>5 DEF ScanState
<1>8. CASE ScanFound(t, n, s)
  BY <1>7, <1>8 DEF ScanFound, heap_get_start_block
<1>9. CASE Counting(t, n, Blocks, s)
  <2>1. ASSUME NEW c \in Index PROVE ~ Candidate(t, c, n)
    <3>1. Candidate(t, c, n) => c + n <= Blocks /\ c + n > Blocks
      BY <1>9 DEF Counting, Candidate, FitsAt
    <3>. QED BY <3>1, HeapTableAssumption DEF Index
  <2>2. CASE s.bs = NULL
    <3>1. ~ IsFree(t, Blocks - 1)
      BY <1>9, <2>2, HeapTableAssumption DEF Counting
    <3>. QED BY <1>7, <2>1, <2>2, <3>1 DEF heap_get_start_block
  <2>3. CASE s.bs # NULL
    <3>1. s.bs \in Index /\ RunStart(t, s.bs) /\ FreeToEnd(t, s.bs)
      BY <1>7, <1>9, <2>3 DEF Counting, FreeToEnd
    <3>. QED BY <1>7, <2>1, <3>1 DEF heap_get_start_block
  <2>. QED BY <2>2, <2>3
<1>. QED BY <1>6, <1>8, <1>9

-----------------------------------------------------------------------------
(* The marking loop. *)
MarkState == [entries : Table, entry : HEAP_BLOCK_TABLE_ENTRY]

LEMMA MarkStepType ==
  ASSUME NEW i, NEW end, NEW m \in MarkState
  PROVE  MarkStep(i, end, m) \in MarkState
BY DEF MarkStep, MarkState, Table, HEAP_BLOCK_TABLE_ENTRY, Flag

(* What an iteration of the marking loop does. *)
Writes(i, end, m, r) ==
  /\ r.entries = [m.entries EXCEPT ![i] = m.entry]
  /\ i # end - 1 => r.entry = {"TAKEN", "HAS_NEXT"}
  /\ i = end - 1 => r.entry = {"TAKEN"}

LEMMA MarkStepWrites ==
  ASSUME NEW i, NEW end, NEW m
  PROVE  Writes(i, end, m, MarkStep(i, end, m))
BY DEF MarkStep, Writes

LEMMA MarkStartType ==
  ASSUME NEW t \in Table, NEW n
  PROVE  MarkStart(t, n) \in MarkState
BY DEF MarkStart, MarkState, HEAP_BLOCK_TABLE_ENTRY, Flag

MarkRuns(g, t, s, n) ==
  /\ g \in [0 .. n -> MarkState]
  /\ g[0] = MarkStart(t, n)
  /\ \A k \in 1 .. n : g[k] = MarkStep(s + k - 1, s + n - 1, g[k - 1])

LEMMA MarkHasRun ==
  ASSUME NEW t \in Table, NEW s, NEW n \in Nat
  PROVE  \E g : MarkRuns(g, t, s, n) /\ MarkLoop(t, s, n) = g[n].entries
<1>. DEFINE step == [k \in 1 .. n |->
                       [m \in MarkState |-> MarkStep(s + k - 1, s + n - 1, m)]]
            Body(g) == [k \in 0 .. n |->
                          IF k = 0 THEN MarkStart(t, n)
                          ELSE MarkStep(s + k - 1, s + n - 1, g[k - 1])]
            after == CHOOSE g : g = Body(g)
<1>1. step \in [1 .. n -> [MarkState -> MarkState]]
  BY MarkStepType
<1>2. PICK g : Runs(g, n, MarkState, MarkStart(t, n), step)
  <2>. HIDE DEF step
  <2>. QED BY <1>1, RunExists, MarkStartType
<1>3. /\ g \in [0 .. n -> MarkState] /\ g[0] = MarkStart(t, n)
      /\ \A k \in 1 .. n : g[k - 1] \in MarkState
      /\ \A k \in 1 .. n : g[k] = MarkStep(s + k - 1, s + n - 1, g[k - 1])
  <2>. HIDE DEF step
  <2>1. /\ g \in [0 .. n -> MarkState] /\ g[0] = MarkStart(t, n)
        /\ \A k \in 1 .. n : g[k] = step[k][g[k - 1]]
    BY <1>2 DEF Runs
  <2>2. ASSUME NEW k \in 1 .. n PROVE g[k - 1] \in MarkState
    BY <2>1
  <2>3. ASSUME NEW k \in 1 .. n
        PROVE  step[k][g[k - 1]] = MarkStep(s + k - 1, s + n - 1, g[k - 1])
    BY <2>2 DEF step
  <2>. QED BY <2>1, <2>2, <2>3
<1>4. g = Body(g)
  <2>1. \A k \in 0 .. n : k = 0 \/ k \in 1 .. n
    OBVIOUS
  <2>. QED BY <1>3, <2>1
<1>5. MarkLoop(t, s, n) = after[n].entries
  BY Zenon DEF MarkLoop
<1>6. ASSUME NEW f, f = Body(f)
      PROVE  /\ f = [k \in 0 .. n |-> f[k]]
             /\ f[0] = MarkStart(t, n)
             /\ \A k \in 1 .. n : f[k] = MarkStep(s + k - 1, s + n - 1, f[k - 1])
  <2>1. 0 \in 0 .. n /\ \A k \in 1 .. n : k \in 0 .. n /\ k # 0
    OBVIOUS
  <2>2. \A k \in 0 .. n :
          f[k] = IF k = 0 THEN MarkStart(t, n)
                 ELSE MarkStep(s + k - 1, s + n - 1, f[k - 1])
    BY <1>6, Zenon
  <2>3. f = [k \in 0 .. n |-> f[k]]
    BY <1>6, <2>2, Zenon
  <2>. QED BY <2>1, <2>2, <2>3, Zenon
<1>. HIDE DEF Body
<1>7. after = Body(after)
  BY <1>4, Zenon
<1>8. MarkRuns(after, t, s, n)
  <2>. HIDE DEF after
  <2>1. /\ after = [k \in 0 .. n |-> after[k]]
        /\ after[0] = MarkStart(t, n)
        /\ \A k \in 1 .. n : after[k] = MarkStep(s + k - 1, s + n - 1, after[k - 1])
    BY <1>6, <1>7
  <2>. DEFINE P == {k \in 0 .. n : after[k] \in MarkState}
  <2>2. 0 \in P
    <3>1. after[0] \in MarkState
      BY <2>1, MarkStartType
    <3>. QED BY <3>1
  <2>3. \A k \in 1 .. n : k - 1 \in P => k \in P
    <3>1. ASSUME NEW k \in 1 .. n, after[k - 1] \in MarkState
          PROVE  after[k] \in MarkState
      <4>1. MarkStep(s + k - 1, s + n - 1, after[k - 1]) \in MarkState
        BY <3>1, MarkStepType
      <4>. QED BY <2>1, <4>1
    <3>. QED BY <3>1
  <2>4. \A k \in 0 .. n : k \in P
    <3>. HIDE DEF P
    <3>. QED BY <2>2, <2>3, IntervalInduction
  <2>5. after \in [0 .. n -> MarkState]
    BY <2>1, <2>4
  <2>. QED BY <2>1, <2>5 DEF MarkRuns
<1>. QED BY <1>5, <1>8

(* After k iterations the first k blocks are marked, and the entry of the  *)
(* next one is ready.                                                      *)
Marked(t, s, n, k, m) ==
  /\ \A i \in Index : m.entries[i] = IF s <= i /\ i < s + k THEN TakenEntry(s, n, i) ELSE t[i]
  /\ k < n => m.entry = TakenEntry(s, n, s + k)

LEMMA MarkStepMarks ==
  ASSUME NEW t \in Table, NEW s \in Index, NEW n \in Nat, NEW k \in 1 .. n,
         NEW m \in MarkState, Marked(t, s, n, k - 1, m),
         NEW r, r = MarkStep(s + k - 1, s + n - 1, m)
  PROVE  Marked(t, s, n, k, r)
<1>1. /\ s \in Nat /\ k \in Nat /\ k > 0 /\ k - 1 < n /\ k <= n
      /\ s + (k - 1) = s + k - 1
  BY HeapTableAssumption DEF Index
<1>2. PICK p : p = s + k - 1 /\ p \in Nat
  BY <1>1
<1>3. /\ m.entry = TakenEntry(s, n, p)
      /\ \A i \in Index : m.entries[i] = IF s <= i /\ i < p THEN TakenEntry(s, n, i) ELSE t[i]
  BY <1>1, <1>2 DEF Marked
<1>4. /\ r.entries = [m.entries EXCEPT ![p] = m.entry]
      /\ p # (s + n - 1) - 1 => r.entry = {"TAKEN", "HAS_NEXT"}
      /\ p = (s + n - 1) - 1 => r.entry = {"TAKEN"}
  <2>1. Writes(p, s + n - 1, m, r)
    BY <1>2, MarkStepWrites
  <2>2. r.entries = [m.entries EXCEPT ![p] = m.entry]
    BY <2>1 DEF Writes
  <2>3. /\ p # (s + n - 1) - 1 => r.entry = {"TAKEN", "HAS_NEXT"}
        /\ p = (s + n - 1) - 1 => r.entry = {"TAKEN"}
    BY <2>1 DEF Writes
  <2>. QED BY <2>2, <2>3
<1>5. ASSUME NEW i \in Index
      PROVE  r.entries[i] = IF s <= i /\ i < s + k THEN TakenEntry(s, n, i) ELSE t[i]
  <2>1. m.entries \in Table
    BY DEF MarkState
  <2>2. r.entries[i] = IF i = p THEN m.entry ELSE m.entries[i]
    BY <1>4, <2>1 DEF Table
  <2>3. CASE i = p
    <3>1. s <= i /\ i < s + k
      BY <1>1, <1>2, <2>3
    <3>. QED BY <1>3, <2>2, <2>3, <3>1
  <2>4. CASE i # p
    <3>1. i < s + k <=> i < p
      BY <1>1, <1>2, <2>4 DEF Index
    <3>. QED BY <1>3, <2>2, <2>4, <3>1
  <2>. QED BY <2>3, <2>4
<1>6. ASSUME k < n PROVE r.entry = TakenEntry(s, n, s + k)
  <2>1. s + k # s
    BY <1>1
  <2>2. (s + k < s + n - 1) <=> (p # (s + n - 1) - 1)
    BY <1>1, <1>2, <1>6
  <2>. QED BY <1>4, <2>1, <2>2 DEF TakenEntry
<1>. QED BY <1>5, <1>6 DEF Marked

(* The marking loop leaves the table heap_mark_taken_blocks says it leaves.*)
LEMMA MarkLoopMarks ==
  ASSUME NEW t \in Table, NEW s \in Index, NEW n \in Nat
  PROVE  MarkLoop(t, s, n) = heap_mark_taken_blocks(t, s, n)
<1>1. PICK g : MarkRuns(g, t, s, n) /\ MarkLoop(t, s, n) = g[n].entries
  BY MarkHasRun
<1>. DEFINE P == {k \in 0 .. n : Marked(t, s, n, k, g[k])}
<1>2. 0 \in P
  <2>1. g[0] = MarkStart(t, n) /\ s \in Nat
    BY <1>1, HeapTableAssumption DEF MarkRuns, Index
  <2>2. (n > 1) <=> (s < s + n - 1)
    BY <2>1
  <2>3. Marked(t, s, n, 0, MarkStart(t, n))
    <3>1. \A i \in Index : ~ (s <= i /\ i < s + 0)
      BY <2>1 DEF Index
    <3>2. s + 0 = s
      BY <2>1
    <3>3. MarkStart(t, n).entry = TakenEntry(s, n, s)
      BY <2>2 DEF MarkStart, TakenEntry
    <3>4. MarkStart(t, n).entries = t
      BY DEF MarkStart
    <3>. QED BY <3>1, <3>2, <3>3, <3>4 DEF Marked
  <2>. QED BY <2>1, <2>3
<1>3. ASSUME NEW k \in 1 .. n, k - 1 \in P PROVE k \in P
  <2>1. /\ g[k - 1] \in MarkState
        /\ g[k] = MarkStep(s + k - 1, s + n - 1, g[k - 1])
        /\ Marked(t, s, n, k - 1, g[k - 1])
    BY <1>1, <1>3 DEF MarkRuns
  <2>2. Marked(t, s, n, k, g[k])
    BY <2>1, MarkStepMarks
  <2>. QED BY <2>2
<1>4. \A k \in 0 .. n : k \in P
  <2>. HIDE DEF P
  <2>. QED BY <1>2, <1>3, IntervalInduction
<1>5. Marked(t, s, n, n, g[n]) /\ g[n].entries \in Table
  BY <1>1, <1>4 DEF MarkRuns, MarkState
<1>6. g[n].entries = [i \in Index |-> g[n].entries[i]]
  BY <1>5 DEF Table
<1>7. \A i \in Index : g[n].entries[i]
        = IF s <= i /\ i < s + n THEN TakenEntry(s, n, i) ELSE t[i]
  BY <1>5 DEF Marked
<1>. QED BY <1>1, <1>6, <1>7 DEF heap_mark_taken_blocks

-----------------------------------------------------------------------------
(* The release loop. *)
FreeState == [entries : Table, going : BOOLEAN]

LEMMA FreeStepType ==
  ASSUME NEW i, NEW f \in FreeState
  PROVE  FreeStep(i, f) \in FreeState
<1>1. f.entries \in Table /\ f.going \in BOOLEAN
  BY DEF FreeState
<1>2. [f.entries EXCEPT ![i] = HEAP_BLOCK_TABLE_ENTRY_FREE] \in Table
  BY <1>1 DEF Table, HEAP_BLOCK_TABLE_ENTRY, HEAP_BLOCK_TABLE_ENTRY_FREE
<1>3. ("HAS_NEXT" \in f.entries[i]) \in BOOLEAN
  OBVIOUS
<1>4. FreeStep(i, f) =
        IF ~ f.going THEN f
        ELSE [entries |-> [f.entries EXCEPT ![i] = HEAP_BLOCK_TABLE_ENTRY_FREE],
              going   |-> "HAS_NEXT" \in f.entries[i]]
  BY DEF FreeStep
<1>. QED BY <1>2, <1>3, <1>4 DEF FreeState

FreeStart(t) == [entries |-> t, going |-> TRUE]

FreeRuns(g, t, start, n) ==
  /\ g \in [0 .. n -> FreeState]
  /\ g[0] = FreeStart(t)
  /\ \A k \in 1 .. n : g[k] = FreeStep(start + k - 1, g[k - 1])

LEMMA FreeHasRun ==
  ASSUME NEW t \in Table, NEW start \in Index, NEW n \in Nat, n = Blocks - start
  PROVE  \E g : FreeRuns(g, t, start, n) /\ FreeLoop(t, start) = g[n].entries
<1>. DEFINE step == [k \in 1 .. n |-> [f \in FreeState |-> FreeStep(start + k - 1, f)]]
            Body(g) == [k \in 0 .. Blocks - start |->
                          IF k = 0 THEN [entries |-> t, going |-> TRUE]
                          ELSE FreeStep(start + k - 1, g[k - 1])]
            after == CHOOSE g : g = Body(g)
<1>0. FreeStart(t) \in FreeState
  BY DEF FreeStart, FreeState
<1>1. step \in [1 .. n -> [FreeState -> FreeState]]
  BY FreeStepType
<1>2. PICK g : Runs(g, n, FreeState, FreeStart(t), step)
  <2>. HIDE DEF step
  <2>. QED BY <1>0, <1>1, RunExists
<1>3. /\ g \in [0 .. n -> FreeState] /\ g[0] = FreeStart(t)
      /\ \A k \in 1 .. n : g[k] = FreeStep(start + k - 1, g[k - 1])
  <2>. HIDE DEF step
  <2>1. /\ g \in [0 .. n -> FreeState] /\ g[0] = FreeStart(t)
        /\ \A k \in 1 .. n : g[k] = step[k][g[k - 1]]
    BY <1>2 DEF Runs
  <2>2. ASSUME NEW k \in 1 .. n PROVE g[k - 1] \in FreeState
    BY <2>1
  <2>3. ASSUME NEW k \in 1 .. n
        PROVE  step[k][g[k - 1]] = FreeStep(start + k - 1, g[k - 1])
    BY <2>2 DEF step
  <2>. QED BY <2>1, <2>3
<1>4. g = Body(g)
  <2>1. \A k \in 0 .. n : k = 0 \/ k \in 1 .. n
    OBVIOUS
  <2>. QED BY <1>3, <2>1 DEF FreeStart
<1>5. FreeLoop(t, start) = after[n].entries
  <2>1. FreeLoop(t, start) = after[Blocks - start].entries
    BY Zenon DEF FreeLoop
  <2>. QED BY <2>1
<1>6. ASSUME NEW f, f = Body(f)
      PROVE  /\ f = [k \in 0 .. n |-> f[k]]
             /\ f[0] = FreeStart(t)
             /\ \A k \in 1 .. n : f[k] = FreeStep(start + k - 1, f[k - 1])
  <2>1. 0 \in 0 .. n /\ \A k \in 1 .. n : k \in 0 .. n /\ k # 0
    OBVIOUS
  <2>2. \A k \in 0 .. n :
          f[k] = IF k = 0 THEN FreeStart(t) ELSE FreeStep(start + k - 1, f[k - 1])
    BY <1>6, Zenon DEF FreeStart
  <2>3. f = [k \in 0 .. n |-> f[k]]
    BY <1>6, <2>2, Zenon DEF FreeStart
  <2>. QED BY <2>1, <2>2, <2>3, Zenon
<1>. HIDE DEF Body
<1>7. after = Body(after)
  BY <1>4, Zenon
<1>8. FreeRuns(after, t, start, n)
  <2>. HIDE DEF after
  <2>1. /\ after = [k \in 0 .. n |-> after[k]]
        /\ after[0] = FreeStart(t)
        /\ \A k \in 1 .. n : after[k] = FreeStep(start + k - 1, after[k - 1])
    BY <1>6, <1>7
  <2>. DEFINE P == {k \in 0 .. n : after[k] \in FreeState}
  <2>2. 0 \in P
    <3>1. after[0] \in FreeState
      BY <1>0, <2>1
    <3>. QED BY <3>1
  <2>3. \A k \in 1 .. n : k - 1 \in P => k \in P
    <3>1. ASSUME NEW k \in 1 .. n, after[k - 1] \in FreeState
          PROVE  after[k] \in FreeState
      <4>1. FreeStep(start + k - 1, after[k - 1]) \in FreeState
        BY <3>1, FreeStepType
      <4>. QED BY <2>1, <4>1
    <3>. QED BY <3>1
  <2>4. \A k \in 0 .. n : k \in P
    <3>. HIDE DEF P
    <3>. QED BY <2>2, <2>3, IntervalInduction
  <2>5. after \in [0 .. n -> FreeState]
    BY <2>1, <2>4
  <2>. QED BY <2>1, <2>5 DEF FreeRuns
<1>. QED BY <1>5, <1>8

(* The blocks of t from start on up to i all have a next one. *)
Chained(t, start, i) == \A j \in start .. i - 1 : "HAS_NEXT" \in t[j]

(* The entries up to p that the chain reaches are cleared, and the loop    *)
(* goes on while it does.                                                  *)
Released(t, start, p, f) ==
  /\ f.going <=> Chained(t, start, p)
  /\ \A i \in Index :
       f.entries[i] = IF i >= start /\ i < p /\ Chained(t, start, i)
                      THEN HEAP_BLOCK_TABLE_ENTRY_FREE
                      ELSE t[i]

LEMMA FreeStepReleases ==
  ASSUME NEW t \in Table, NEW start \in Index, NEW p \in Index, start <= p,
         NEW f \in FreeState, Released(t, start, p, f),
         NEW r, r = FreeStep(p, f)
  PROVE  Released(t, start, p + 1, r)
<1>1. start \in Int /\ p \in Int /\ f.entries \in Table /\ f.going \in BOOLEAN
  BY HeapTableAssumption DEF Index, FreeState
<1>2. ASSUME NEW i \in Index, i > p, ~ Chained(t, start, p)
      PROVE  ~ Chained(t, start, i)
  <2>1. start .. p - 1 \subseteq start .. i - 1
    BY <1>1, <1>2 DEF Index
  <2>. QED BY <1>2, <2>1 DEF Chained
<1>3. CASE ~ f.going
  <2>1. r = f /\ ~ Chained(t, start, p)
    BY <1>3 DEF FreeStep, Released
  <2>2. ~ Chained(t, start, p + 1)
    <3>1. start .. p - 1 \subseteq start .. (p + 1) - 1
      BY <1>1
    <3>. QED BY <2>1, <3>1 DEF Chained
  <2>3. ASSUME NEW i \in Index
        PROVE  (i >= start /\ i < p /\ Chained(t, start, i))
                 <=> (i >= start /\ i < p + 1 /\ Chained(t, start, i))
    <3>1. CASE i = p
      BY <2>1, <3>1, <1>1
    <3>2. CASE i # p
      <4>1. i < p <=> i < p + 1
        BY <1>1, <3>2 DEF Index
      <4>. QED BY <4>1
    <3>. QED BY <3>1, <3>2
  <2>. QED BY <1>3, <2>1, <2>2, <2>3 DEF Released
<1>4. CASE f.going
  <2>1. Chained(t, start, p)
    BY <1>4 DEF Released
  <2>2. f.entries[p] = t[p]
    BY <1>1 DEF Released
  <2>3. /\ r.entries = [f.entries EXCEPT ![p] = HEAP_BLOCK_TABLE_ENTRY_FREE]
        /\ r.going <=> "HAS_NEXT" \in t[p]
    BY <1>4, <2>2 DEF FreeStep
  <2>4. Chained(t, start, p + 1) <=> "HAS_NEXT" \in t[p]
    <3>1. \A j : j \in start .. (p + 1) - 1 <=> j \in start .. p - 1 \/ j = p
      BY <1>1
    <3>. QED BY <2>1, <3>1 DEF Chained
  <2>5. ASSUME NEW i \in Index
        PROVE  r.entries[i] = IF i >= start /\ i < p + 1 /\ Chained(t, start, i)
                              THEN HEAP_BLOCK_TABLE_ENTRY_FREE
                              ELSE t[i]
    <3>1. r.entries[i] = IF i = p THEN HEAP_BLOCK_TABLE_ENTRY_FREE ELSE f.entries[i]
      BY <1>1, <2>3 DEF Table
    <3>2. CASE i = p
      <4>1. i >= start /\ i < p + 1
        BY <1>1, <3>2
      <4>. QED BY <2>1, <3>1, <3>2, <4>1
    <3>3. CASE i # p
      <4>1. i < p <=> i < p + 1
        BY <1>1, <3>3 DEF Index
      <4>. QED BY <3>1, <3>3, <4>1 DEF Released
    <3>. QED BY <3>2, <3>3
  <2>. QED BY <2>3, <2>4, <2>5 DEF Released
<1>. QED BY <1>3, <1>4

(* The release loop leaves the table heap_mark_free_blocks says it leaves. *)
LEMMA FreeLoopReleases ==
  ASSUME NEW t \in Table, NEW start \in Index
  PROVE  FreeLoop(t, start) = heap_mark_free_blocks(t, start)
<1>0. start \in Nat /\ start < Blocks /\ Blocks \in Nat
  BY HeapTableAssumption DEF Index
<1>1. PICK n \in Nat : n = Blocks - start
  BY <1>0
<1>2. PICK g : FreeRuns(g, t, start, n) /\ FreeLoop(t, start) = g[n].entries
  BY <1>1, FreeHasRun
<1>. DEFINE P == {k \in 0 .. n : Released(t, start, start + k, g[k])}
<1>3. 0 \in P
  <2>1. g[0] = FreeStart(t) /\ start + 0 = start
    BY <1>0, <1>2 DEF FreeRuns
  <2>2. Chained(t, start, start)
    <3>1. start .. start - 1 = {}
      BY <1>0
    <3>. QED BY <3>1 DEF Chained
  <2>3. \A i \in Index : ~ (i >= start /\ i < start)
    BY <1>0 DEF Index
  <2>4. Released(t, start, start, FreeStart(t))
    BY <2>2, <2>3 DEF Released, FreeStart
  <2>. QED BY <2>1, <2>4
<1>4. ASSUME NEW k \in 1 .. n, k - 1 \in P PROVE k \in P
  <2>1. PICK p \in Index : p = start + k - 1
    BY <1>0, <1>1 DEF Index
  <2>2. start <= p /\ start + (k - 1) = p /\ start + k = p + 1
    BY <1>0, <2>1
  <2>3. /\ g[k - 1] \in FreeState
        /\ g[k] = FreeStep(p, g[k - 1])
        /\ Released(t, start, p, g[k - 1])
    BY <1>2, <1>4, <2>1, <2>2 DEF FreeRuns
  <2>4. Released(t, start, p + 1, g[k])
    BY <2>2, <2>3, FreeStepReleases
  <2>. QED BY <2>2, <2>4
<1>5. \A k \in 0 .. n : k \in P
  <2>. HIDE DEF P
  <2>. QED BY <1>3, <1>4, IntervalInduction
<1>6. Released(t, start, Blocks, g[n]) /\ g[n].entries \in Table
  <2>1. start + n = Blocks /\ n \in 0 .. n
    BY <1>0, <1>1
  <2>. QED BY <1>2, <1>5, <2>1 DEF FreeRuns, FreeState
<1>7. g[n].entries = [i \in Index |-> g[n].entries[i]]
  BY <1>6 DEF Table
<1>8. \A i \in Index : i < Blocks
  BY <1>0 DEF Index
<1>9. \A i \in Index : g[n].entries[i]
        = IF i >= start /\ \A j \in start .. i - 1 : "HAS_NEXT" \in t[j]
          THEN HEAP_BLOCK_TABLE_ENTRY_FREE ELSE t[i]
  BY <1>6, <1>8 DEF Released, Chained
<1>. QED BY <1>2, <1>7, <1>9 DEF heap_mark_free_blocks

-----------------------------------------------------------------------------
(* The types the loops keep, also for a request of no block. *)
LEMMA LoopTypes ==
  ASSUME TypeOK, [LoopNext]_vars
  PROVE  TypeOK' /\ [Next]_vars
<1>1. /\ entries \in Table /\ stray \subseteq Int
      /\ live \subseteq [start : Index, len : Nat]
  BY DEF TypeOK
<1>2. ASSUME NEW size \in Sizes, LoopMalloc(TotalBlocks(size))
      PROVE  TypeOK' /\ [Next]_vars
  <2>1. size \in Nat
    BY SizesAssumption, HeapTableAssumption
  <2>2. PICK n \in Nat : n = TotalBlocks(size)
    BY <2>1, TotalBlocksType
  <2>3. PICK s : s = Scan(entries, n)
    OBVIOUS
  <2>4. heap_get_start_block(entries, n, s) /\ s \in Index \cup {NULL}
    BY <1>1, <2>3, ScanSearches
  <2>5. IF s < 0 THEN UNCHANGED vars
        ELSE /\ entries' = MarkLoop(entries, s, n)
             /\ stray' = stray \cup WritesPastTable(s, n)
             /\ live' = live \cup {Grant(s, n)}
    BY <1>2, <2>2, <2>3 DEF LoopMalloc
  <2>6. CASE s = NULL
    <3>1. s < 0
      BY <2>6 DEF NULL
    <3>2. UNCHANGED vars
      BY <2>5, <3>1
    <3>3. TypeOK'
      BY <1>1, <3>2 DEF vars, TypeOK
    <3>. QED BY <3>2, <3>3
  <2>7. CASE s \in Index
    <3>1. ~ (s < 0)
      BY <2>7, HeapTableAssumption DEF Index
    <3>2. MarkLoop(entries, s, n) = heap_mark_taken_blocks(entries, s, n)
      BY <1>1, <2>7, MarkLoopMarks
    <3>3. GrantAt(n, s)
      BY <2>4, <2>5, <3>1, <3>2 DEF GrantAt
    <3>4. Next
      BY <2>2, <2>7, <3>3 DEF Next, heap_malloc, MallocGranted
    <3>5. entries' \in Table
      BY <1>1, <2>5, <3>1, <3>2 DEF Table, heap_mark_taken_blocks, TakenEntry,
         HEAP_BLOCK_TABLE_ENTRY, Flag
    <3>6. stray' \subseteq Int
      <4>1. WritesPastTable(s, n) \subseteq Int
        BY <2>7, HeapTableAssumption DEF WritesPastTable, Index
      <4>. QED BY <1>1, <2>5, <3>1, <4>1
    <3>7. live' \subseteq [start : Index, len : Nat]
      BY <1>1, <2>5, <2>7, <3>1 DEF Grant
    <3>. QED BY <3>4, <3>5, <3>6, <3>7 DEF TypeOK
  <2>. QED BY <2>4, <2>6, <2>7
<1>3. ASSUME NEW a \in live, LoopFree(a)
      PROVE  TypeOK' /\ [Next]_vars
  <2>1. a.start \in Index
    BY <1>1
  <2>2. /\ entries' = heap_mark_free_blocks(entries, a.start)
        /\ live' = live \ {a} /\ stray' = stray
    BY <1>1, <1>3, <2>1, FreeLoopReleases DEF LoopFree
  <2>3. Next
    BY <2>2 DEF Next, heap_free
  <2>4. entries' \in Table
    BY <1>1, <2>2 DEF Table, heap_mark_free_blocks, HEAP_BLOCK_TABLE_ENTRY,
       HEAP_BLOCK_TABLE_ENTRY_FREE
  <2>. QED BY <1>1, <2>2, <2>3, <2>4 DEF TypeOK
<1>4. CASE UNCHANGED vars
  BY <1>1, <1>4 DEF vars, TypeOK
<1>. QED BY <1>2, <1>3, <1>4 DEF LoopNext

(***************************************************************************)
(* The loops of heap.c (heap.c:75, 111, 136) implement the heap: whatever  *)
(* the sizes, requests of no block included, an iteration-by-iteration run *)
(* is one of Heap.                                                         *)
(***************************************************************************)
THEOREM HeapLoopsImplementHeap == LoopSpec => LoopsImplementHeap
<1>1. Init => TypeOK
  BY InitIInv DEF IInv
<1>2. TypeOK /\ [LoopNext]_vars => TypeOK' /\ [Next]_vars
  BY LoopTypes
<1>. QED BY <1>1, <1>2, PTL DEF LoopSpec, LoopsImplementHeap, Spec

(* A search that finds nothing met a grant in every place. *)
LEMMA RefusedPlacesAreGranted ==
  ASSUME IInv, NEW n \in Nat, n > 0, Scan(entries, n) < 0,
         NEW s \in Index, s + n <= Blocks
  PROVE  \E a \in live, i \in s .. s + n - 1 : Covers(a, i)
<1>1. PICK r : r = Scan(entries, n)
  OBVIOUS
<1>2. entries \in Table
  BY DEF IInv, TypeOK
<1>3. heap_get_start_block(entries, n, r) /\ r \in Index \cup {NULL}
  BY <1>1, <1>2, ScanSearches
<1>4. r = NULL
  BY <1>1, <1>3, HeapTableAssumption DEF Index
<1>5. \A c \in Index : ~ Candidate(entries, c, n)
  BY <1>3, <1>4, HeapTableAssumption DEF heap_get_start_block, Index, NULL
<1>6. ~ FitsAt(entries, s, n)
  BY <1>2, <1>5, RunStartExists
<1>7. PICK i \in s .. s + n - 1 : ~ IsFree(entries, i)
  BY <1>6 DEF FitsAt
<1>8. i \in Index
  BY HeapTableAssumption DEF Index
<1>9. \E a \in live : Covers(a, i)
  BY <1>7, <1>8 DEF IInv, TableMatchesGrants, IsFree, HEAP_BLOCK_TABLE_ENTRY_FREE
<1>. QED BY <1>9

(***************************************************************************)
(* The search loop answers -ENOMEM only when every place for the request   *)
(* holds an outstanding grant (heap.c:91 aside, which grants too much).    *)
(***************************************************************************)
THEOREM HeapRefusalIsHonest ==
  ASSUME PositiveRequests
  PROVE  LoopSpec => []RefusalIsHonest
<1>1. IInv => RefusalIsHonest
  <2>. SUFFICES ASSUME IInv, NEW size \in Sizes, NEW s \in Index,
                       NEW n, n = TotalBlocks(size),
                       Scan(entries, n) < 0, n > 0, s + n <= Blocks
                PROVE  \E a \in live, i \in s .. s + n - 1 : Covers(a, i)
    BY DEF RefusalIsHonest
  <2>1. n \in Nat
    <3>1. size \in Nat
      BY SizesAssumption
    <3>. QED BY <3>1, TotalBlocksType
  <2>. QED BY <2>1, RefusedPlacesAreGranted
<1>2. LoopSpec => Spec
  BY HeapLoopsImplementHeap DEF LoopsImplementHeap
<1>. QED BY <1>1, <1>2, HeapInvariant, PTL

(***************************************************************************)
(* So what is proved of Heap holds of the loops: grants are disjoint, the  *)
(* table matches them, refusals are honest, and the allocator its clients  *)
(* rely on is implemented.                                                 *)
(***************************************************************************)
THEOREM HeapLoopsAreSound ==
  ASSUME PositiveRequests
  PROVE  LoopSpec => /\ [](Disjoint /\ TableMatchesGrants /\ RefusalIsHonest)
                     /\ AllocatorImplemented
<1>1. LoopSpec => Spec
  BY HeapLoopsImplementHeap DEF LoopsImplementHeap
<1>. QED BY <1>1, HeapDisjoint, HeapTableMatchesGrants, HeapRefusalIsHonest,
            HeapImplementsAllocator, PTL
=============================================================================
