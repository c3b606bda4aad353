----------------------------- MODULE HeapLoops -----------------------------
(***************************************************************************)
(* The loops of heap.c iteration by iteration, each a function from the    *)
(* iterations made to the loop variables, and the heap that runs them.     *)
(* Heap states the same three functions by what they achieve; here they    *)
(* are shown to achieve it.                                                *)
(***************************************************************************)
EXTENDS Heap

(* bc blocks are counted since bs, and the loop has been left or not. *)
ScanStart == [bc |-> 0, bs |-> NULL, left |-> FALSE]

(* Mutant: a taken block resets the start but not the count. *)
ScanKeepsCount(t, n, i, s) ==
  IF s.left THEN s
  ELSE IF ~ IsFree(t, i) THEN [s EXCEPT !.bs = NULL]
  ELSE [bc |-> s.bc + 1, bs |-> IF s.bs = NULL THEN i ELSE s.bs, left |-> s.bc + 1 = n]

(* Mutant: the search gives up after the first run that is too short. *)
ScanGivesUp(t, n, i, s) ==
  IF s.left THEN s
  ELSE IF ~ IsFree(t, i) THEN [ScanStart EXCEPT !.left = s.bs # NULL]
  ELSE [bc |-> s.bc + 1, bs |-> IF s.bs = NULL THEN i ELSE s.bs, left |-> s.bc + 1 = n]

(* The search reads entry i. *)
ScanStep(t, n, i, s) ==
  IF s.left THEN s
  ELSE IF ~ IsFree(t, i) THEN ScanStart
  ELSE [bc |-> s.bc + 1, bs |-> IF s.bs = NULL THEN i ELSE s.bs, left |-> s.bc + 1 = n]

(* The search over the whole table. *)
Scan(t, n) ==
  LET after[k \in 0 .. Blocks] ==
        IF k = 0 THEN ScanStart ELSE ScanStep(t, n, k - 1, after[k - 1])
  IN after[Blocks].bs

(* Mutant: the bytes past the end become entries of the table. *)
MarkGrows(i, end, m) ==
  [entries |-> [j \in DOMAIN m.entries \cup {i} |-> IF j = i THEN m.entry ELSE m.entries[j]],
   entry   |-> {"TAKEN"} \cup (IF i # end - 1 THEN {"HAS_NEXT"} ELSE {})]

(* The marking loop writes entry i; the next one's is decided already. *)
MarkStep(i, end, m) ==
  [entries |-> [m.entries EXCEPT ![i] = m.entry],
   entry   |-> {"TAKEN"} \cup (IF i # end - 1 THEN {"HAS_NEXT"} ELSE {})]

MarkStart(t, n) ==
  [entries |-> t, entry |-> {"TAKEN", "FIRST"} \cup (IF n > 1 THEN {"HAS_NEXT"} ELSE {})]

MarkLoop(t, s, n) ==
  LET after[k \in 0 .. n] ==
        IF k = 0 THEN MarkStart(t, n) ELSE MarkStep(s + k - 1, s + n - 1, after[k - 1])
  IN after[n].entries

(* Mutant: HAS_NEXT is read after the entry was cleared. *)
FreeReadsLate(i, f) ==
  IF ~ f.going THEN f
  ELSE [entries |-> [f.entries EXCEPT ![i] = HEAP_BLOCK_TABLE_ENTRY_FREE], going |-> FALSE]

(* Mutant: the release goes on while blocks are taken. *)
FreeRunsOn(i, f) ==
  IF ~ f.going \/ IsFree(f.entries, i) THEN [f EXCEPT !.going = FALSE]
  ELSE [f EXCEPT !.entries[i] = HEAP_BLOCK_TABLE_ENTRY_FREE]

(* The release loop reads entry i before it clears it. *)
FreeStep(i, f) ==
  IF ~ f.going THEN f
  ELSE [entries |-> [f.entries EXCEPT ![i] = HEAP_BLOCK_TABLE_ENTRY_FREE],
        going   |-> "HAS_NEXT" \in f.entries[i]]

FreeLoop(t, start) ==
  LET after[k \in 0 .. Blocks - start] ==
        IF k = 0 THEN [entries |-> t, going |-> TRUE]
        ELSE FreeStep(start + k - 1, after[k - 1])
  IN after[Blocks - start].entries

LoopMalloc(n) ==
  LET s == Scan(entries, n) IN
  IF s < 0 THEN UNCHANGED vars
  ELSE /\ entries' = MarkLoop(entries, s, n)
       /\ stray' = stray \cup WritesPastTable(s, n)
       /\ live' = live \cup {Grant(s, n)}

LoopFree(a) ==
  /\ entries' = FreeLoop(entries, a.start)
  /\ live' = live \ {a}
  /\ UNCHANGED stray

LoopNext ==
  \/ \E size \in Sizes : LoopMalloc(TotalBlocks(size))
  \/ \E a \in live : LoopFree(a)

LoopSpec == Init /\ [][LoopNext]_vars

(***************************************************************************)
(* Whatever the loops do on the tables they can meet is what Heap says:    *)
(* the search's three outcomes, the flags of every marked block, and the   *)
(* stretch a release clears.                                               *)
(***************************************************************************)
LoopsImplementHeap == Spec

(***************************************************************************)
(* A refusal is honest: when the search loop ends without a start, every   *)
(* place in the pool the request could take holds memory that a client was *)
(* granted and has not freed.  A search that overlooks a run, and marking  *)
(* or release loops that leave blocks taken nobody holds, break it.        *)
(***************************************************************************)
RefusalIsHonest ==
  \A size \in Sizes, s \in Index :
    LET n == TotalBlocks(size) IN
    Scan(entries, n) < 0 /\ n > 0 /\ s + n <= Blocks
      => \E a \in live, i \in s .. s + n - 1 : Covers(a, i)
=============================================================================
