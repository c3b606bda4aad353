------------------------------- MODULE Paging -------------------------------
(***************************************************************************)
(* Page tables (paging.c) and how process.c lays a program out in them.    *)
(* Memory is a row of pages; the heap hands out the lowest run that is     *)
(* free.  A page table lives in a frame of the heap like everything else.  *)
(* Only blocks that are mapped, or hold tables, are modelled.  A load is   *)
(* not tried when its image or its tables do not fit: paging_new_4gb does  *)
(* not check what kzalloc returns, and elf_load neither.                   *)
(***************************************************************************)
EXTENDS Integers, Sequences, FiniteSetsExt

CONSTANTS
  PageSize, EntriesPerTable,   \* PAGING_PAGE_SIZE, PAGING_TOTAL_ENTRIES_PER_TABLE
  TablesPerDirectory,          \* how many tables a directory has
  FirstHeapPage, LastHeapPage, \* where the heap begins and ends
  ProgramAddress,              \* VARGOOS_PROGRAM_VIRTUAL_ADDRESS
  StackEnd, StackSize,         \* VARGOOS_PROGRAM_VIRTUAL_STACK_ADDRESS_END
  Tasks, NULL,
  Programs,    \* [kind, size, segments]: a "binary" has no segments, an "elf" has
               \* [vaddr, offset, memsz, writable] for each program header
  MaxKept      \* bound: blocks the rest of the kernel holds at once

TotalPages == TablesPerDirectory * EntriesPerTable
Word == TotalPages * PageSize   \* 2^32
Pages == 0 .. TotalPages - 1
HeapPages == FirstHeapPage .. LastHeapPage

Segment == [vaddr : 0 .. Word - 1, offset : 0 .. Word - 1, memsz : 0 .. Word - 1,
            writable : BOOLEAN]

(* pages: what paging_new_4gb allocated, in that order.                    *)
Process ==
  [program : Programs, image : HeapPages, stack : HeapPages,
   pages : [0 .. TablesPerDirectory + 1 -> HeapPages],
   directory : [0 .. TablesPerDirectory - 1 -> HeapPages]]

(* The heap lies between the kernel and the end of memory; fread refuses   *)
(* an empty file.                                                          *)
ASSUME PagingAssumption ==
  /\ {PageSize, EntriesPerTable, TablesPerDirectory, StackSize} \subseteq Nat \ {0}
  /\ FirstHeapPage \in Nat \ {0}
  /\ LastHeapPage \in FirstHeapPage .. TotalPages - 2
  /\ {ProgramAddress, StackEnd} \subseteq {a \in 0 .. Word - 1 : a % PageSize = 0}
  /\ ProgramAddress >= PageSize
  /\ StackSize % PageSize = 0 /\ StackEnd + StackSize <= Word
  /\ \A p \in Programs :
       /\ p \in [kind : {"binary", "elf"}, size : Nat \ {0}, segments : Seq(Segment)]
       /\ p.kind = "binary" => p.segments = <<>>
  /\ NULL \notin Process

VARIABLES
  taken,     \* the pages of the heap in use
  entries,   \* what each page holds as a page table
  process,   \* for each task NULL, or its program, image, stack and directory
  kept,      \* blocks of a page that others hold: kmalloc'd and not yet freed
  lost       \* blocks nobody will ever free

vars == <<taken, entries, process, kept, lost>>

Entry == [page : Pages, writable : BOOLEAN]
NoTable == [i \in 0 .. EntriesPerTable - 1 |-> [page |-> 0, writable |-> FALSE]]

Init ==
  /\ taken = {}
  /\ entries = [p \in Pages |-> NoTable]
  /\ process = [t \in Tasks |-> NULL]
  /\ kept = {} /\ lost = {}

-----------------------------------------------------------------------------
(* The heap: n pages in a row, the lowest there are.                       *)
Run(first, n) == first .. first + n - 1
Fits(used, n) == {p \in HeapPages : Run(p, n) \subseteq HeapPages \ used}
Allocate(used, n) == Run(Min(Fits(used, n)), n)

paging_is_aligned(address) == address % PageSize = 0
paging_align_to_lower_page(address) == address - (address % PageSize)
paging_align_address(address) ==
  IF paging_is_aligned(address) THEN address
  ELSE (address + PageSize - (address % PageSize)) % Word

DirectoryIndex(virtual) == virtual \div (EntriesPerTable * PageSize)
TableIndex(virtual) == (virtual % (EntriesPerTable * PageSize)) \div PageSize

(* Where the tables of a directory are, in the pages of memory m.          *)
get_page(m, directory, virtual) ==
  m[directory[DirectoryIndex(virtual)]][TableIndex(virtual)]
paging_set(m, directory, virtual, entry) ==
  [m EXCEPT ![directory[DirectoryIndex(virtual)]][TableIndex(virtual)] = entry]
paging_map(m, directory, virtual, absolute, writable) ==
  paging_set(m, directory, virtual,
             [page |-> absolute \div PageSize, writable |-> writable])

paging_map_range(m, directory, virtual, absolute, total_pages, writable) ==
  LET mapped[i \in 0 .. total_pages] ==
        IF i = 0 THEN m
        ELSE paging_map(mapped[i - 1], directory,
                        (virtual + (i - 1) * PageSize) % Word,
                        (absolute + (i - 1) * PageSize) % Word, writable)
  IN mapped[total_pages]

MapRefused(virtual, absolute, absolute_end) ==
  \/ ~ (\A a \in {virtual, absolute, absolute_end} : paging_is_aligned(a))
  \/ absolute_end < absolute

paging_map_to(m, directory, virtual, absolute, absolute_end, writable) ==
  IF MapRefused(virtual, absolute, absolute_end) THEN m
  ELSE paging_map_range(m, directory, virtual, absolute,
                        (absolute_end - absolute) \div PageSize, writable)

-----------------------------------------------------------------------------
(***************************************************************************)
(* paging_new_4gb: a directory, its tables one after another, the chunk    *)
(* that points to it; every page is mapped to itself.                      *)
(***************************************************************************)
NewPages(used) ==
  LET page[i \in 0 .. TablesPerDirectory + 1] ==
        Min(HeapPages \ (used \cup {page[j] : j \in 0 .. i - 1}))
  IN page
NewDirectory(used) ==
  [i \in 0 .. TablesPerDirectory - 1 |-> NewPages(used)[i + 1]]

(* Mutant: the offset has moved on when the first entry is written. *)
PageFromOne(n, j) == n * EntriesPerTable + j + 1

(* The page that entry j of table n is made for.                           *)
PageOf(n, j) == n * EntriesPerTable + j

Identity(m, directory) ==
  [p \in Pages |->
     IF \E i \in DOMAIN directory : directory[i] = p
     THEN LET n == CHOOSE i \in DOMAIN directory : directory[i] = p IN
          [j \in 0 .. EntriesPerTable - 1 |->
             [page |-> PageOf(n, j), writable |-> FALSE]]
     ELSE m[p]]

(* Mutant: the last table of a directory is forgotten. *)
FreesAllButLast(pages) == {pages[i] : i \in DOMAIN pages \ {TablesPerDirectory}}

(* What paging_free_4gb gives back, of the pages paging_new_4gb took.      *)
paging_free_4gb(pages) == {pages[i] : i \in DOMAIN pages}

-----------------------------------------------------------------------------
(* process_map_elf, one program header: the pages the segment touches.     *)
SegmentStart(image, s) == paging_align_to_lower_page((image * PageSize + s.offset) % Word)
(* Mutant: as many pages as the length needs, wherever the segment starts. *)
EndFromLength(image, s) ==
  paging_align_address((SegmentStart(image, s) + s.memsz) % Word)

SegmentEnd(image, s) ==
  paging_align_address((image * PageSize + s.offset + s.memsz) % Word)

process_map_elf(m, directory, image, segments) ==
  LET mapped[i \in 0 .. Len(segments)] ==
        IF i = 0 THEN m
        ELSE paging_map_to(mapped[i - 1], directory,
               paging_align_to_lower_page(segments[i].vaddr),
               SegmentStart(image, segments[i]), SegmentEnd(image, segments[i]),
               segments[i].writable)
  IN mapped[Len(segments)]

MapElfFails(image, segments) ==
  \E i \in 1 .. Len(segments) :
    MapRefused(paging_align_to_lower_page(segments[i].vaddr),
               SegmentStart(image, segments[i]), SegmentEnd(image, segments[i]))

process_map_binary(m, directory, image, size) ==
  paging_map_to(m, directory, ProgramAddress, image * PageSize,
                paging_align_address(image * PageSize + size), TRUE)

process_map_memory(m, directory, program, image, stack) ==
  paging_map_to(
    IF program.kind = "elf"
    THEN process_map_elf(m, directory, image, program.segments)
    ELSE process_map_binary(m, directory, image, program.size),
    directory, StackEnd, stack * PageSize,
    paging_align_address(stack * PageSize + StackSize), TRUE)

PagesOf(bytes) == (bytes + PageSize - 1) \div PageSize

(***************************************************************************)
(* Image, stack and directory, in the order they are allocated.  Without   *)
(* memory for the stack, or when a segment cannot be mapped, the load      *)
(* fails; of what it took only the directory is freed.                     *)
(***************************************************************************)
process_load(t, program) ==
  LET image == Allocate(taken, PagesOf(program.size))
      stack == Allocate(taken \cup image, PagesOf(StackSize))
      before == taken \cup image \cup stack
      pages == NewPages(before)
      directory == NewDirectory(before)
      RoomForAll == /\ Fits(taken \cup image, PagesOf(StackSize)) # {}
                    /\ Cardinality(HeapPages \ before) >= TablesPerDirectory + 2
      used == before \cup {pages[i] : i \in DOMAIN pages}
  IN /\ process[t] = NULL
     /\ Fits(taken, PagesOf(program.size)) # {}
     /\ UNCHANGED kept
     /\ \/ /\ Fits(taken \cup image, PagesOf(StackSize)) = {}
           /\ taken' = taken \cup image
           /\ lost' = lost \cup image
           /\ UNCHANGED <<entries, process>>
        \/ /\ RoomForAll /\ MapElfFails(Min(image), program.segments)
           /\ taken' = used \ paging_free_4gb(pages)
           /\ lost' = lost \cup image \cup stack
           /\ UNCHANGED <<entries, process>>
        \/ /\ RoomForAll /\ ~ MapElfFails(Min(image), program.segments)
           /\ taken' = used
           /\ entries' = process_map_memory(Identity(entries, directory), directory,
                                            program, Min(image), Min(stack))
           /\ process' = [process EXCEPT ![t] =
                [program |-> program, image |-> Min(image), stack |-> Min(stack),
                 pages |-> pages, directory |-> directory]]
           /\ UNCHANGED lost

-----------------------------------------------------------------------------
(* Mutant: the entry found before is not put back. *)
BufferStays(m, t, hold) == get_page(m, process[t].directory, hold * PageSize)

(* What copy_string_from_task puts back: the entry it found.               *)
EntryBefore(m, t, hold) == get_page(entries, process[t].directory, hold * PageSize)

(***************************************************************************)
(* copy_string_from_task: the buffer is mapped to itself in the task's     *)
(* directory while the string is copied through it, and then what was      *)
(* mapped there before.  It is not freed.                                  *)
(***************************************************************************)
copy_string_from_task(t) ==
  LET hold == Min(Allocate(taken, 1))
      directory == process[t].directory
      mapped == paging_map(entries, directory, hold * PageSize, hold * PageSize, TRUE)
  IN /\ process[t] # NULL
     /\ Fits(taken, 1) # {}
     /\ entries' = paging_set(mapped, directory, hold * PageSize,
                              EntryBefore(mapped, t, hold))
     /\ taken' = taken \cup {hold}
     /\ lost' = lost \cup {hold}
     /\ UNCHANGED <<process, kept>>

(* The rest of the kernel and process_malloc. *)
kmalloc ==
  /\ Cardinality(kept) < MaxKept
  /\ Fits(taken, 1) # {}
  /\ kept' = kept \cup Allocate(taken, 1)
  /\ taken' = taken \cup Allocate(taken, 1)
  /\ UNCHANGED <<entries, process, lost>>

kfree(p) ==
  /\ p \in kept
  /\ kept' = kept \ {p}
  /\ taken' = taken \ {p}
  /\ UNCHANGED <<entries, process, lost>>

Next ==
  \/ \E t \in Tasks, p \in Programs : process_load(t, p)
  \/ \E t \in Tasks : copy_string_from_task(t)
  \/ kmalloc
  \/ \E p \in HeapPages : kfree(p)

Spec == Init /\ [][Next]_vars

-----------------------------------------------------------------------------
TypeOK ==
  /\ taken \subseteq HeapPages /\ kept \subseteq HeapPages /\ lost \subseteq HeapPages
  /\ entries \in [Pages -> [0 .. EntriesPerTable - 1 -> Entry]]
  /\ process \in [Tasks -> Process \cup {NULL}]

Loaded == {t \in Tasks : process[t] # NULL}
Image(t) == Run(process[t].image, PagesOf(process[t].program.size))
Stack(t) == Run(process[t].stack, PagesOf(StackSize))
TablePages(t) == {process[t].pages[i] : i \in DOMAIN process[t].pages}

(***************************************************************************)
(* Every page of the heap in use is used for one thing only: the image, the*)
(* stack or the tables of one task, a block someone holds, or a lost one.  *)
(* A failed load gives back every page of its directory.                   *)
(***************************************************************************)
PagesUsedOnce ==
  /\ taken = kept \cup lost \cup UNION {Image(t) \cup Stack(t) \cup TablePages(t) : t \in Loaded}
  /\ kept \cap lost = {}
  /\ \A t \in Loaded :
       /\ Image(t) \cap Stack(t) = {}
       /\ TablePages(t) \cap (Image(t) \cup Stack(t)) = {}
       /\ Cardinality(TablePages(t)) = TablesPerDirectory + 2
       /\ (kept \cup lost) \cap (Image(t) \cup Stack(t) \cup TablePages(t)) = {}
  /\ \A t, u \in Loaded : t # u =>
       (Image(t) \cup Stack(t) \cup TablePages(t))
         \cap (Image(u) \cup Stack(u) \cup TablePages(u)) = {}

(* What the program asks to have mapped; a flat one is a single segment. *)
Linked(program) ==
  IF program.kind = "elf" THEN {program.segments[i] : i \in 1 .. Len(program.segments)}
  ELSE {[vaddr |-> ProgramAddress, offset |-> 0, memsz |-> program.size, writable |-> TRUE]}

Translate(t, v) ==
  get_page(entries, process[t].directory, v).page * PageSize + (v % PageSize)
MayWrite(t, v) == get_page(entries, process[t].directory, v).writable

OnStack(v) == v \in StackEnd .. StackEnd + StackSize - 1
Covers(s, v) == v \in s.vaddr .. s.vaddr + s.memsz - 1
SharesPage(s, v) ==
  \E b \in s.vaddr .. s.vaddr + s.memsz - 1 : b \div PageSize = v \div PageSize

(***************************************************************************)
(* What linkers see to: a segment's address and offset agree modulo the    *)
(* page size, it begins in the file, it leaves the first and the last page *)
(* of memory alone, and no two share a page.  An empty one (PT_GNU_STACK)  *)
(* is aligned.                                                             *)
(***************************************************************************)
WellLinked(program) ==
  LET linked == Linked(program) IN
  /\ \A s \in linked :
       /\ s.vaddr % PageSize = s.offset % PageSize
       /\ s.offset < program.size
       /\ s.memsz = 0 => s.offset % PageSize = 0
       /\ s.memsz > 0 => s.vaddr >= PageSize /\ s.vaddr + s.memsz <= Word - PageSize
  /\ \A s, r \in linked : s # r =>
       \A v \in 0 .. Word - 1 : ~ (SharesPage(s, v) /\ SharesPage(r, v))

(***************************************************************************)
(* Every virtual address of a task leads where it should: to its stack, to *)
(* the byte of the image its segment has there, and to itself everywhere   *)
(* else, where the kernel that interrupts enter before they switch the     *)
(* directory lies; only the stack and the writable segments can be written.*)
(* The program is linked as linkers do.                                    *)
(***************************************************************************)
AddressSpaceAsLinked ==
  \A t \in Loaded : WellLinked(process[t].program) => \A v \in 0 .. Word - 1 :
    LET linked == Linked(process[t].program) IN
    /\ OnStack(v) => /\ Translate(t, v) = process[t].stack * PageSize + (v - StackEnd)
                     /\ MayWrite(t, v)
    /\ \A s \in linked : Covers(s, v) /\ ~ OnStack(v) =>
         /\ Translate(t, v) = process[t].image * PageSize + s.offset + (v - s.vaddr)
         /\ MayWrite(t, v) = s.writable
    /\ ~ OnStack(v) /\ (\A s \in linked : ~ SharesPage(s, v)) =>
         Translate(t, v) = v /\ ~ MayWrite(t, v)

(***************************************************************************)
(* A task can only write to its own image and stack: never to page tables, *)
(* the kernel or another task.  It takes a segment that is longer in memory*)
(* than the image (p_memsz is mapped, p_filesz is there) to break this.    *)
(***************************************************************************)
InsideImage(program) ==
  \A s \in Linked(program) : s.offset + s.memsz <= PagesOf(program.size) * PageSize

WritesStayOwn ==
  \A t \in Loaded : InsideImage(process[t].program) =>
    \A v \in 0 .. Word - 1 :
      MayWrite(t, v) => Translate(t, v) \div PageSize \in Image(t) \cup Stack(t)
=============================================================================
