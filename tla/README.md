# A TLA+ development of the VARGOOS kernel

VARGOOS (`src/`) is a 32-bit x86 teaching kernel in C and assembly. This
directory keeps the TLA+ modules that model its logic, the TLC configurations
that check them on small instances, and the theorems TLAPS proves about them.
`PROJECT.json` indexes the runs, the hazards, the theorems and the source lines
each definition stands for. Paths below are relative to the repository's `src/`
directory (so `heap.c` is `src/memory/heap/heap.c`).

## 1. Inventory of the system

The kernel is single processor. Interrupt gates (`idt_set`, type `0xEE`) clear
the interrupt flag, so one handler runs to completion before the next begins;
the concurrency is the interleaving of user code, system calls, and hardware
interrupts, and the histories several processes leave in shared tables.
There is no code that loses, reorders or replays messages and nothing is
persisted, so crash recovery is not a hazard here.

| component | state it keeps | operations | talks to |
|---|---|---|---|
| heap (`heap.c`, `kernel_heap.c`) | block table: one byte per 4 KiB block (taken, first, has-next) | `heap_create`, `heap_malloc`, `heap_free`, `kmalloc`, `kzalloc`, `kfree` | everything allocates from it |
| paging (`paging.c`) | page directories and tables (heap blocks), CR3, `current_directory` | `paging_new_4gb`, `paging_free_4gb`, `paging_map*`, `paging_set`, `get_page`, `paging_switch` | heap, task, process |
| task list (`task.c`) | `head`, `tail`, `current`; per task `next`, `prev`, directory, saved registers | `new_task`, `task_free`, `get_next_task`, `task_switch`, `task_page`, `first_task_run`, `current_task_state_save`, `copy_string_from_task`, `task_get_stack_item` | heap, paging, process, interrupts |
| processes (`process.c`) | `processes[]`, `current_process`; per process `allocations[]`, file data, stack, key buffer | `process_load`, `process_load_switch`, `process_switch`, `process_malloc`, `process_free` | ELF loader, files, task list, paging, heap |
| keyboard (`keyboard.c`, `classic.c`) | driver list; ring buffer `head`/`tail` in each process | `keyboard_push`, `keyboard_pop`, `keyboard_backspace`, `classic_keyboard_handle_interrupt` | interrupts, processes, tasks |
| interrupts and system calls (`idt.c`, `idt.asm`, `isr80h/`) | callback table, command table | `interrupt_handler`, `isr80h_handler`, `idt_zero` and the other exceptions, the five commands | paging, tasks, keyboard, process memory |
| files (`file.c`) | `filesystems[]`, `file_descriptors[]` | `fopen`, `fread`, `fseek`, `fstat`, `fclose`, `fs_resolve` | path parser, disk, FAT16, heap |
| path parser (`path_parser.c`) | none; builds a heap list of parts | `pathparser_parse`, `pathparser_free` | heap |
| disk and streamer (`disk.c`, `disk_streamer.c`) | one `disk`; byte position of each stream | `disk_read_block`, `diskstreamer_seek`, `diskstreamer_read` | ATA ports |
| FAT16 (`fat16.c`) | header, root directory, three streams; per open file an item and a position | `fat16_resolve`, `fat16_open`, `fat16_read`, `fat16_seek`, `fat16_stat`, `fat16_close` | streamer, heap |
| ELF loader (`elfloader.c`) | the loaded image and its address ranges | `elf_load`, `elf_process_loaded`, `elf_close` | files, heap |
| terminal (`kernel.c`) | `terminal_row`, `terminal_col` (16 bit), VGA memory | `terminal_writechar`, `terminal_backspace`, `print` | system calls |
| GDT, TSS (`gdt.c`, `tss.asm`) | encoded descriptors | `gdt_structured_to_gdt`, `gdt_load`, `tss_load` | boot |
| string and memory helpers, port I/O, boot sector, user library | none | pure functions, raw I/O | - |

### Behaviours that are hard to test

`PROJECT.json` lists the hazards with their lines. In short:

* **Long legal histories.** Blocks, task addresses, descriptors and allocation
  slots are reused in every order; chains, links and owners must survive it.
* **Who is current.** `current_process`, the current task, CR3 and the segment
  registers are four pieces of state set by different calls. Which interrupt
  comes between two system calls decides whether they agree.
* **The second of two steps fails.** Nearly every operation takes memory first
  and may fail afterwards; what is undone differs from path to path.
* **Boundaries.** Sector, cluster, page and ring ends; the end of the block
  table; the last descriptor; the wrap of free running counters.
* **Loops that must end**, through whatever words are found on the disk.

### What makes each component correct

| component | property |
|---|---|
| heap | grants do not overlap, the table spells exactly the grants, a refusal means that every place the request could take is granted to somebody |
| process memory | memory has one owner, is not disturbed while it is kept, and is lost only by a `malloc` with all slots in use, until a pointer that `malloc(0)` returned is freed and releases what has been granted there since |
| key buffer | a queue of keys until a full ring is pushed or an empty one erased |
| task list | both directions of links spell the tasks in creation order; there is a current task iff there is a task |
| interrupts | user code is away from its own directory and segments only after an exception, a bare interrupt or a key release; calls save the registers of the first process only, keys reach the last one loaded only |
| files | a descriptor stays with its holder, and leads to the item it was opened with (the last one excepted); only the open that allocates private data loses it: by failing, or by returning a descriptor that was not created or that is the last |
| path parser | the parts are those between the slashes, up to an empty one |
| FAT16 directories | an open finds the file that was named or none, loses only what can be listed, and ends if the directories do |
| FAT16 and streamer | the reader's buffer is filled exactly, with the bytes the chain leads to, and every read ends |
| loader and processes | a failed load is invisible, a process has one task, no descriptor is kept |
| paging | every address leads where the program was linked, writes stay in the task's own pages, a page has one use |
| terminal | the screen shows the text that was sent, and nothing is written beside it but in the rows below |

Four ways the code behaves that its callers would hardly expect are part of
these properties. `malloc(0)` returns the address of a free block and marks
nothing (`heap.c:60`, reached unchecked from `process.c:266`): the block can be
granted while the pointer is held, and freeing the pointer releases the grant.
`RecordedOnce`, `MemoryIsolated` and `HeapUsedProperly` say that nothing else
breaks what processes rely on. The last descriptor is handed out and then refused
(`file.c:82`), and user code resumes in the kernel's directory after an
exception, an interrupt without a callback and a key release (`idt.asm`,
`idt.c:28`, `classic.c:60`): `HolderReachesFile` and `AwayOnlyByInterrupt` say
that there are no other cases. That the task which runs is the first one loaded while the
keyboard belongs to the last is what `FirstRunsLastTypes` says.

### What the kernel as built reaches

`kernel_main` loads one process and then loops: it never calls
`first_task_run`, `isr80h_register_commands`, or (the call is in a comment,
`disk.c:57`) `fs_resolve`; and `isr80h_command_handler` looks a command up
without calling it. Taken literally, every `fopen` fails and no system call has
an effect beyond its entry and exit. The modules model the functions of these
parts as an interface that may be called in every order the code allows, the
kernel's own calls among them: `Files` starts before `fs_resolve` and lets it
happen or not, `Interrupts` may stay in its boot phase, `LoadProcess` covers the
load that cannot open its file (and that is where its finding comes from).

## 2. Modules

| module | models | state ↔ code | actions ↔ code |
|---|---|---|---|
| `HeapTable` | the functions of `heap.c` on the block table, by what they achieve | a table is a function from block numbers to sets of flags; a pointer is a block number, 0 is `NULL` | `heap_get_start_block`, `heap_mark_taken_blocks`, `heap_mark_free_blocks`, rounding |
| `AllocatorSpec` | abstract: what clients of the heap are promised | `owned`, the grants in force | grant, release |
| `Heap` | the kernel heap with its clients | `entries`; `stray`, bytes written outside the table; history `live` | `heap_malloc` (refused or granted), `heap_free` |
| `HeapLoops` | the three loops of `heap.c`, iteration by iteration | as `Heap` | `LoopMalloc`, `LoopFree`; `Scan` is what the search loop ends with |
| `ProcessHeap` (extends `Heap`) | `process_malloc`, `process_free` of several processes | `allocations`; `low`, bit 7 of the bytes below the table, where a release of 0 begins; `wiped`, `kzalloc` of a size that wraps has cleared the memory; histories `empty` (slots whose pointer came from a malloc of no block), `misfreed` (one of these released a grant) | one action each, for any size (0, and those that wrap, included) and any pointer |
| `KeyQueue` | abstract: the keys typed and not yet read | `queue`, `returned` | type, read, erase |
| `KeyboardBuffer` | `keyboard.c` on one ring | `buffer`, `head`, `tail` (modulo `Wrap`, for 2^32); history `misused` | `keyboard_push`, `keyboard_pop`, `keyboard_backspace` |
| `Interrupts` | `idt.c`, `idt.asm`, `classic.c`, the paging and saving part of `task.c` | `cr3`, `segs`, `current`, `current_process`, `context` (the registers of the processor), `registers`, `keys`; history `entry`, the last way into the kernel | `process_load_switch`, `first_task_run`, `user_step`, `isr80h_handler`, `exception`, `interrupt_handler`, `key_pressed`, `key_released` |
| `Files` | `file.c` over the open and close of `fat16.c` | `file_descriptors`, `filesystem`, `fs_private`, private data `allocated` and the `item` it refers to; histories `held` (who holds which descriptor, for which item, created or not), `pulled` (a holder of one that was never created closed another's) | `fs_resolve`, `fopen` with its ways out (each of its four allocations may fail), `fclose` |
| `DiskStreamer` | seek and one level of the recursive read | `stream_pos`, `left`, `out` | `diskstreamer_seek`, `ReadSector` |
| `PathParser` | `path_parser.c` and the string helpers it uses | `text`, `at`, the character reached, `root`, `parts`; `cut`, there was no memory for the next part | `pathparser_create_root` (or a refused path), `pathparser_parse_path_part`, `ListEnds` |
| `FatOpen` (extends `PathParser`) | `fopen` down to the items of the root directory: counting, names, search, listing, clone | `disk`, the items on it; `total`, `found`, `memory` with what the open allocated; locals `i`, `listed`, `seen` | `CountRoot`, `Parse`, `Open`, `Search`, `LoadDirectory`, `Clone`, each allocation failing or not |
| `FatRead` (extends `DiskStreamer`) | `fat16_read`: items, chunks, sectors, and the walk down the chain | `words`, the entry found for each cluster; the locals `cluster`, `ahead`, `item`, `offset`, `total`, `chunk` | `Locate`, `FollowEntry`, `Sector`, `Advance` |
| `Pointer` | the null address `TaskList` and `Files` share | `NULL` | none |
| `TaskList` | the list of `task.c` | `head`, `tail`, `current`, `next`, `prev`; `wild`, a null pointer was followed; history `order` | `new_task`, `task_free`, running out of memory |
| `LoadProcess` (extends `TaskList` and `Files`) | `process_load_switch` with `elf_load` and every error path | `processes`, `current_process`, the load in progress | one action per stretch between two calls into the tables, in the code's order; the boot's load |
| `Paging` | page tables and how `process.c` and `copy_string_from_task` use them | `taken` pages of the heap; `entries` of every page as a page table; `process`; histories `kept`, `lost` | `process_load` (maps, runs out of memory for the stack, or fails to map and frees), `copy_string_from_task`, `kmalloc`, `kfree` |
| `Terminal` | the text screen of `kernel.c` | `terminal_row`, `terminal_col` (modulo `Word`, for 2^16), `video_mem`; `stray`, a character was written beside it; histories `text`, `astray` | `terminal_writechar` with its three cases, `terminal_backspace` with its three |

Operators carry the names of the functions they model; `PROJECT.json` maps each
to its lines. Operators introduced by a "Mutant:" comment are mutated forms of
the definition that follows them: each property has one that breaks it.

Composition: `HeapTable` ← `Heap` ← `ProcessHeap`, where `HeapUsedProperly`
says that the processes drive the heap by its own operations, until a pointer
from a malloc of no block releases a grant; `TaskList` and
`Files` ← `LoadProcess`, where `LoaderDrivesTables` says the same of the loader
and both of its tables; `PathParser` ← `FatOpen`, which parses the path the
open is given. What is proved or checked of the parts therefore
holds in the compositions. `Paging` has a heap of its own, which only
says that the lowest free run is handed out (first fit) and given back whole:
the part of `Heap` that page tables depend on.

### Conventions

* Handlers run to completion: interrupt gates clear the interrupt flag and
  there is one processor, so a handler is one action. `FatRead`, `FatOpen`,
  `PathParser` and `LoadProcess` take several because what is asked of them concerns their
  intermediate states, or whether they end; nothing else can run in between,
  and nothing else does.
* A null pointer that is followed sets `wild` in `TaskList` and `LoadProcess`,
  a `memset` over all of memory sets `wiped` in `ProcessHeap`, and an exception
  puts `Interrupts` into its phase `derailed`; nothing after it is determined by
  the code, and no action is enabled. Where what follows can be bounded the
  modules go on. In `PathParser` a part without memory ends the list of parts.
  In `Files` a directory item that could not be copied leaves a descriptor that
  leads to no item; a descriptor that could not be created is returned all the
  same and shares its identifier with the next one; and a directory read from
  address 0 (`fs_private` not set) may hold any item.
* Payloads (bytes of programs, of keys, characters) are model values; a byte read
  from disk is the position it was read from.

## 3. What the runs check

Ten runs must find every property true, over all reachable states.

| run | instance | what it shows |
|---|---|---|
| `heap` | 7 blocks; requests of 1, 2 and 3 blocks, from sizes that do and do not need rounding | The loops implement `Heap` and `Heap` implements `AllocatorSpec`; grants are disjoint, the table matches them, and the search loop refuses only what no place is left for. Holds also after a grant has run off the table. |
| `process_heap` | 3 blocks, 2 processes, 2 slots each; sizes of no block (0, and one that wraps), one and two; any pointer may be freed | Memory has one owner and is not disturbed while it is kept, and the heap sees only requests and releases of grants, until a pointer from a malloc of no block releases a grant; memory is lost only by a `malloc` with all slots in use (`process.c:273` returns 0 and keeps the block). |
| `keyboard_buffer` | ring of 3, counters modulo 6, 2 keys | Until misuse the ring implements `KeyQueue`; the reader stalls in front of a waiting key only after misuse. |
| `interrupts` | 2 processes, 2 keys, 3 register contents, at most 2 keys typed | Only an exception, an interrupt without a callback or a key release leaves user code in the kernel's directory or segments, whatever came before. The first process runs and is saved, the last gets the keys: with two of them no key reaches the one that runs. |
| `files` | 3 descriptors, 4 addresses, 1 file; paths to it, below it, to a missing file, without a name, to another drive | Descriptors and private data stay with their holders, whatever allocation fails; every holder of a created descriptor but the last reaches the item it was opened with; only the open that allocates private data can lose it. |
| `fat_open` | root directories of 3 entries out of 8 kinds (deleted, read-only, a directory, full name fields among them) with an end, a file, or two files behind; 7 paths; one directory with every short path | The parser's parts are those between the slashes up to an empty one, or to one without memory. A path never opens a file of another name; in an orderly directory a file is found exactly if it is there. What an open leaves allocated is the path, earlier namesakes, and the listing of a directory. Every open ends if the directories end somewhere on the disk. |
| `fat_read` | clusters of 2 sectors of 2 bytes; 1 to 3 items of 1 to 9 bytes; every table of 3 clusters, loops and refused entries included | The buffer is filled exactly and every read ends. The bytes are those of the chain unless an item starts inside a cluster and runs over its end. |
| `load_process` | 2 slots, 3 task addresses, 2 descriptors; an ELF file, one that cannot be mapped, a flat file, an unreadable one, a missing one | A failed load changes neither process table nor task list; each process has one task; no descriptor is kept; the tables are driven by their own operations, and the list's links spell its tasks. |
| `paging` | 26 pages of 4 bytes under 2 tables, 2 tasks, 4 programs, 2 other blocks | Every virtual address leads where it should, a task writes only its own pages, no page has two uses, a failed load returns all of its tables. |
| `terminal` | 2 rows of 3, counters modulo 10, ten characters | The screen shows the text, broken at its width, and the cursor is behind it, until a backspace goes over the start of a line; only rows below the screen are written otherwise. |

Two runs state what a comment, a constant or a caller says and find that
the code does otherwise; each is a finding in `PROJECT.json`.

| run | property | what the code does |
|---|---|---|
| `heap_overrun` | `GrantsInsidePool` | `heap.c:91`: a free run at the end of the table is returned although it is too short; marking it writes past the table. |
| `load_process_image` | `LoadedProcessHasImage` | `elfloader.c:162`: the 0 of a failed `fopen` is passed on as `STATUS_OK`. |

### Bounds, and why they are enough

* Heap: seven blocks hold free runs of different lengths on both sides of a
  grant, a run that is too short before one that fits, and a too short one at
  the end. The theorems remove the bound. `BlockSize` 4 and `Word` 32 keep
  the rounding and its modulus.
* Process memory: two slots suffice for a full table and for a pointer
  recorded beside another; two processes for foreign pointers. Three blocks hold
  a grant of two and one beside it, a free block to which a pointer without
  memory leads, and a run too short at the end. Two bytes below the table end
  a release of 0 or pass it on; which they do is arbitrary, except that one of
  them has bit 7 clear, as the boot sector's jump and name have
  (`boot.asm:10`). Behaviours are followed up to the first `misfreed`, after
  which only `PTypeOK` claims anything. Deadlock is not checked: a wiped memory
  stops. The theorems remove the bounds.
* Ring: `Wrap` is a larger multiple of `Size`, as 2^32 is of 1024, and is passed
  several times, full rings included. (Were they equal, a full ring would look
  empty.) The theorems remove the bound.
* Interrupts: two loaded processes make `current_process` differ from the
  current task. `MaxKeys` bounds the history `keys` only. Deadlock is not
  checked, because `panic` and derailed user code stop.
* Files: one address more than there are descriptors, so that private data can
  be lost and the table can still fill; three descriptors give a first, an
  inner and a last one. With one file a descriptor leads to it or to no item,
  which are the two cases told apart; holders of the same file are told apart
  by their private data.
* FAT16 reads: nine bytes are two clusters and a byte; several items make
  a chunk start inside a sector and inside a cluster, in the second cluster
  too. Every read starts at position 0, since `fat16_open` sets it and
  `fat16_seek` never runs (section 5). With three clusters a chain
  can be straight, run into a loop or be refused at every length a read visits.
  Deadlock is not checked: a finished read stops.
* FAT16 opens: three entries put a deleted item, an end and a namesake before
  and behind the file. Names of two characters and extensions of one
  are enough for a name to fill its field and run on into the next two.
  Behind the root directory lies what decides how a count without an end goes
  on. Characters are a letter, a slash and a colon in every order up
  to five of them, and `MaxPath` 7 is both reached and passed. Deadlock
  is not checked: a finished open stops.
* Terminal: ten characters run over the end of the six cells, and past the
  last row, and ten newlines wrap the row. `MaxText` bounds the text. Deadlock
  is not checked: the text ends.
* Loading: two slots make the table full, so the third load is refused; one
  address more than slots lets a freed one be reused. Deadlock is not checked:
  memory may run out under a null pointer (`wild`), and the boot ends.
* Paging: eighteen pages of heap hold two processes (an image of one to three
  pages, a stack of two, four of tables) and, unless both are the largest,
  other blocks among them, so that frees leave holes that a later
  directory is scattered over, and that the stack finds no room behind an image.
  Six pages before the heap and two behind it are the kernel's and the end of
  memory. The programs are linked the way linkers do, with
  segments that share no page and whose address and offset agree modulo the
  page size; one has memory its file does not have, and one runs over the end
  of memory and cannot be mapped. Lost blocks accumulate, so a behaviour ends
  when memory is used up: deadlock is not checked.

Symmetry permutes addresses (`files`, `load_process`, `paging`) and processes
(`process_heap`), which are only compared. No symmetric run has a liveness property.

### Fairness

`FatRead` and `FatOpen` assume `WF_vars(Next)`. A read or an open is one system
call or one step of the boot, runs with interrupts disabled and waits for
nothing but the drive, which is external and taken to answer (`disk.c:31` polls
without a bound: a count that runs off the disk has no next step in `FatOpen`,
which is why `OpenEnds` asks for directories that end somewhere). Nothing
obliges processes to make calls, keys to be pressed or files to be closed, so
no other module has fairness and no other liveness is claimed.

## 4. What is proved

TLAPS checks these for every value of the constants that satisfies the named
assumptions; the proofs are by inductive invariants.

* **`HeapProofs`**, any number of blocks, block size, word size and set of
  sizes. The properties are not inductive one by one: that a grant
  overlaps no other follows from the search, which reads the table, so it needs
  `TableMatchesGrants`; that a release clears one grant and no more needs that
  the chain of flags ends with the grant, again `TableMatchesGrants`, and that
  grants are disjoint. `IInv` is `TypeOK`, nonempty grants, `Disjoint` and
  `TableMatchesGrants` together. The lemmas are: the lowest free run that fits
  exists when any does (`RunStartExists`), the search returns free blocks
  (`SearchedIsFree`), a chain of `HAS_NEXT` is a grant (`ChainIsGrant`).
  From `IInv` follows the refinement
  `HeapImplementsAllocator`, with the abstract grants read from the flags of the
  table: a grant that runs off the table leaves no complete chain, so it
  maps to a stutter. `RoomyGrantsInsidePool` says that the overrun is the only
  way out of the pool: if every request meets a run that holds it, grants stay
  inside. These assume `PositiveRequests`: a request of 0 blocks (size 0, or
  one that wraps when rounded up) returns the address of the next grant. The
  theorems about processes do not assume it.
  The three loops themselves, for every table and every request (also of 0
  blocks): the search keeps, iteration by iteration, the run it is counting and
  that no run behind it fits (`Counting`), the marking loop the entry it has
  decided one iteration ahead (`Marked`), the release loop the stretch its chain has
  reached (`Released`); at the last iteration these are what `HeapTable`
  states (`ScanSearches`, `MarkLoopMarks`, `FreeLoopReleases`), so that
  `HeapLoopsImplementHeap` and, with the above, `HeapLoopsAreSound` follow.
  `HeapRefusalIsHonest` is about the loop too: when it ends without a start it
  has met a taken entry in every place the request could take, and a taken
  entry is a grant's by `TableMatchesGrants`.
  Above it, for any number of processes and slots and any sizes, `PInv` is
  `PTypeOK`, `RecordedOnce` and, until `misfreed`, `IInv`; the links are that a newly
  granted block starts no outstanding grant, and that releasing a pointer without
  memory changes nothing while its block is free. It gives `RecordedOnce`,
  `MemoryIsolated`, `LostOnlyByFullTable` and `HeapUsedProperly`.
* **`KeyboardBufferProofs`**, any set of keys, any size of the ring and any
  larger multiple of it as the wrap. `KInv` is `TypeOK` and
  `NoGapUnlessMisused`, which is inductive: the occupied slots are the pending
  ones. The work is in the remainders: a counter kept modulo a multiple of the
  size still counts modulo the size (`CounterShift`), and positions less than a
  round apart are different slots (`SlotsDiffer`). `KeyboardIsQueue` is the
  refinement of `KeyQueue`, one lemma for each operation.
* **`LoadProcessProofs`**, any set of addresses, any number of slots and
  descriptors, any paths. `TaskInv` of the task list is `TypeOK`,
  `LinksSpellOrder` and `CurrentIsListed`; with the order of creation as a
  history, appending and removing the last task are cases over its length.
  Together they are `ListIsSound`. `FInv` of the descriptor table is
  `FilesTypeOK`, `PrivatesExclusive` and `HolderKeepsFile`, of `Files` under its own
  specification; `HolderReachesFile` follows, since `file_get_descriptor`
  refuses only the last identifier, and `FilesLostOnlyByOpen`, since closing a file
  frees the private data of the one slot that leads to it. `LInv` of the loader puts both together with
  what the load in progress holds: `OwnTask` (every task belongs to one
  process, but for the one the load has just made) and `OwnFile` (at most one
  file is open, and only between the `fopen` and the `fclose` of a reading
  phase). From it follow `OneTaskEach`, `LoaderKeepsNoFile`,
  `FailedLoadIsInvisible`, that each step of the loader is a step of the list
  and of the descriptor table or a stutter (`LoadDrivesTables`), and hence
  that both stay sound under it (`LoadListIsSound`, `LoadFilesSound`).
* **`PagingProofs`**, any size of pages, tables, directory and heap, any number
  of tasks, any programs. `PagingAssumption` says that the heap lies
  between the kernel's first page and the last page of memory, that the
  program and stack addresses are aligned, and what types the programs have; that
  a program is linked as linkers do (`WellLinked`) is a condition of
  `AddressSpaceAsLinked` and no assumption. `PgInv` adds to `TypeOK` and
  `PagesUsedOnce` what every page of a task's address space leads to: the stack,
  the image where a segment has it, and the page of the same number
  elsewhere. Since no two uses of memory share a page, a
  step that writes the tables of one task leaves those of the others
  alone. Building the map is a loop over pages inside a loop over segments;
  both are recursive functions, and what they compute is proved by
  induction over their iterations (`RangeIsLoop`, `LoopExists`). The theorems are
  `PagingPagesUsedOnce`, `PagingWritesStayOwn`, `PagingAddressSpaceAsLinked`.
* **`InterruptsProofs`**, any processes, loaded in any order, any keys. To
  `TypeOK` the invariant adds which task is current and which process the
  keyboard belongs to (`Notions`), and that nothing is saved or typed before user
  code runs (`Untouched`); from then on no process is loaded, so that the two
  notions stay what they are.
* **`FatReadProofs`**, any sector and cluster size, any table of the disk and
  any request. The buffer's length is a sum over items, chunks and
  sectors, so `RInv` keeps the ranges of the counters as
  well: without them a chunk could be longer than what is left of its item.
  `ChainInv` adds where the read is: `Position` (which sector of which cluster)
  and `OnChain` (the walk stands on the entry it should). The lemmas
  say that a position and the sectors of the same chunk divide alike
  (`SameCluster`, `NextCluster`) and that a chunk read item by item,
  cluster by cluster and sector by sector splits at the boundaries it should
  (`NothingSplits`). `ReadBytesFromChain` is `BytesFromChain`.
* **`FatOpenProofs`**, any directory, path, widths of the name fields and
  alphabet. `Split` says that the text consumed is the drive and the parts
  joined with slashes, up to the slash behind them (and stays so when a part is cut); `Counted` that a count
  passed no end and skipped deleted items only; `InRoot` that the item found is the
  last so far with the name, and that everything in memory is the path or
  comes from an item with it. That no file is mistaken for another
  (`NoOtherName`) is about dots: a name that runs on has its dot
  behind the name field or too much behind its dot, and no name a
  path can spell has. `FatOpenAssumption` says what a directory may hold: names
  and extensions no longer than their fields, without dots in them, and that
  `tolower` leaves the dot and 0xE5 alone. The theorems are
  `OpenParsesAsSplit`, `OpenFindsNamedFile` and `OpenLosesPathAndNamesakes`.
* **`TerminalProofs`**, any screen, word size and text. `TypeOK` is inductive;
  that a character lands beside the screen only below it follows from the column
  staying in its line. `ScreenInv` adds that the cursor is where the text
  leaves it (`CursorBehindText`): rows and columns of the text are
  counted by newlines and by full lines (`RowSteps`, `SinceSteps`), each character
  moves the count by one (`Onward`), and no two characters that are still to
  be seen share a cell (`ShownOnce`). `TerminalShowsText` is `ScreenShowsText`.

Recursive functions over numbers (a chain, a join, a count of lines, a loop over pages)
are reasoned about with one lemma, `IntervalInduction`: a set that holds 0
and goes from one number to the next holds them all, since otherwise
there is a least one it lacks. A function defined by recursion is a
`CHOOSE`, so each comes with a lemma that such a function exists
(`ChainExists`, `JoinsExist`, `CountsExist`, `RunExists`) before its values are used.

Only model-checked, because it is out of the prover's reach: the liveness of reads and
opens (`ReadEnds`, `OpenEnds`). The two properties of the violated runs are
false. Every other property of a run has its theorem.

## 5. What is not modelled

* **`fat16_stat`, `fat16_seek`, the disk's header.** `fstat` is a step of a load
  that succeeds, fails, or follows the null pointer of an item that was not copied; `fat16_seek` is never reached, because `fseek` looks
  up descriptor 0 in place of its argument's; `fat16_get_root_directory` and
  the header are read once, and what the root directory holds is any row of
  items. Whether the entries `fat16_get_fat_entry` finds are those of the file
  is left open: `FatRead` takes them as arbitrary words of the disk.
* **ELF headers and ranges**: the checks of the header are one choice between
  kinds of content. The address ranges `elf_process_phdr_pt_load` computes are
  read by nothing, and `elf_is_executable` and `elf_close` are called by nothing.
  `process_map_elf` maps every program header, whatever its type.
* **`pathparser_free`**, which nothing calls: `FatOpen` counts the parsed path
  among what an open leaves behind.
* **Failures inside `paging_new_4gb`**, which follows null pointers, and the
  memory a failed load leaves allocated outside of page tables (`Paging`
  counts image and stack as lost, `LoadProcess` counts descriptors and tasks).
* **The kernel's own directory** as a table of pages (it is `KERNEL` in
  `Interrupts`), GDT, TSS and IDT encodings, boot assembly and initialisation
  order, which run once with constant arguments.
* **Port I/O and the drive**: a sector of the disk that is asked for arrives
  (`disk.c:31`). The scancode table is a set of keys, so that
  the byte `classic.c:44` reads behind its end is one of them.
* **Memory helpers, the user library and programs**: the
  programs are the environment and may make any call.

## 6. Plan

1. **Composition**: `Paging` over `Heap`, so that an overrunning grant meets
   page tables; `FatOpen` under `Files`, so that the directory `Files` takes as
   a set of names is the one `FatOpen` searches.
2. **Directory listings**: `fat16_stat` and the size of a listing, once a
   caller of the listing exists.
