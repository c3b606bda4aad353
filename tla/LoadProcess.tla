----------------------------- MODULE LoadProcess -----------------------------
(***************************************************************************)
(* process_load_switch (process.c, elfloader.c) over the descriptor table  *)
(* (Files) and the task list (TaskList): one action for each stretch of a  *)
(* load between two calls into those, taken in the order of the code.      *)
(* Every kzalloc the code checks may fail; where it does not check, wild   *)
(* says that a null pointer was followed.                                  *)
(***************************************************************************)
EXTENDS TaskList, Files

CONSTANTS
  MaxProcesses,  \* VARGOOS_MAX_PROCESSES
  Content        \* what each file of Root holds: "elf", an ELF program; "odd", one
                 \* with a segment that cannot be mapped; "raw", anything else;
                 \* "broken", data that fread cannot deliver

Images == {"none", "elf", "odd", "raw"}
Processes == [task : Tasks, image : Images]

(* NULL is the address of no structure, and more than one file can be open. *)
ASSUME LoadAssumption ==
  /\ MaxProcesses \in Nat \ {0}
  /\ MaxDescriptors > 1
  /\ NULL \notin Processes

VARIABLES
  processes,         \* processes[]: NULL, or a process
  current_process,   \* NULL, or the slot of the process switched to
  load,              \* the load in progress
  result             \* what the last process_load_switch returned

lvars == <<vars, fvars, processes, current_process, load, result>>

Slots == 0 .. MaxProcesses - 1
STATUS_OK == 0
EIO == -1
EINVARG == -2
ENOMEM == -3
EISTKN == -8

(* No load in progress. *)
Idle == [pc |-> "idle", slot |-> 0, path |-> NULL, image |-> "none", task |-> NULL,
         before |-> <<>>]

LInit ==
  /\ Init
  /\ FilesInit
  /\ processes = [s \in Slots |-> NULL]
  /\ current_process = NULL
  /\ load = Idle
  /\ result = STATUS_OK

FreeSlot(s) == processes[s] = NULL
LowestSlot(s) == FreeSlot(s) /\ \A k \in Slots : FreeSlot(k) => s <= k

(* Process and file tables, as nearly every stretch leaves them. *)
TablesUnchanged == UNCHANGED <<processes, current_process>>

(* The load returns the error e; no task was created. *)
Fail(e) ==
  /\ load' = Idle
  /\ result' = e
  /\ TablesUnchanged
  /\ UNCHANGED vars

GoTo(pc) ==
  /\ load' = [load EXCEPT !.pc = pc]
  /\ UNCHANGED result
  /\ TablesUnchanged
  /\ UNCHANGED vars

(* A kzalloc that is not checked failed: elf_load's two, new_task's. *)
FollowsNull ==
  /\ wild' = TRUE
  /\ UNCHANGED <<tasks, links, order, load, result>>
  /\ TablesUnchanged

GoOnWith(image) ==
  /\ load' = [load EXCEPT !.pc = "stack", !.image = image]
  /\ UNCHANGED result
  /\ TablesUnchanged
  /\ UNCHANGED vars

-----------------------------------------------------------------------------
(* get_free_slot and the process structure. *)
process_load(path) ==
  /\ load.pc = "idle"
  /\ UNCHANGED fvars
  /\ \/ (\A s \in Slots : ~ FreeSlot(s)) /\ Fail(EISTKN)
     \/ \E s \in Slots :
          /\ LowestSlot(s)
          /\ \/ Fail(ENOMEM)
             \/ /\ load' = [Idle EXCEPT !.pc = "elf_open", !.slot = s,
                                        !.path = path, !.before = order]
                /\ UNCHANGED result
                /\ TablesUnchanged
                /\ UNCHANGED vars

(* A file is opened, by elf_load and again by process_load_binary. *)
Opens(before, after) ==
  /\ load.pc = before
  /\ fopen(load.path, READ)
  /\ GoTo(after)

(* fstat finds the descriptor, and there the directory item, if it was     *)
(* copied when the file was opened.                                        *)
Stated == file_get_descriptor(response) # NULL
HasItem == Stated /\ item[file_get_descriptor(response)] # NULL
Contents == Content[item[file_get_descriptor(response)]]

(* Mutant: a file that is no program is left open. *)
CloseUnlessRaw ==
  IF response = 0 \/ (HasItem /\ Contents = "raw") THEN UNCHANGED fvars
  ELSE \E h \in held : h.fd = response /\ fclose(h)

(* fclose of whatever fopen returned; 0 leads nowhere. *)
CloseFile ==
  IF response = 0 THEN UNCHANGED fvars
  ELSE \E h \in held : h.fd = response /\ fclose(h)

(***************************************************************************)
(* The rest of elf_load.  When fopen failed, its 0 is returned as if it    *)
(* were STATUS_OK and no image is set; -EINVFORMAT sends the load on to    *)
(* process_load_binary.  The image of a failed load is never freed.  A     *)
(* null pointer is followed without memory for elf_file or for the image,  *)
(* and by fstat of a file without its directory item.                      *)
(***************************************************************************)
ReadElf ==
  /\ load.pc = "elf_read"
  /\ CloseFile
  /\ \/ response = 0 /\ GoOnWith("none")
     \/ response # 0 /\ ~ Stated /\ Fail(EIO)
     \/ Stated /\ FollowsNull
     \/ HasItem /\ Contents = "broken" /\ Fail(EIO)
     \/ HasItem /\ Contents = "raw" /\ GoTo("binary_open")
     \/ HasItem /\ Contents \in {"elf", "odd"} /\ GoOnWith(Contents)

(* The rest of process_load_binary. *)
ReadBinary ==
  /\ load.pc = "binary_read"
  /\ CloseFile
  /\ \/ Fail(EIO) /\ (~ Stated \/ (HasItem /\ Contents = "broken"))
     \/ Stated /\ ~ HasItem /\ FollowsNull
     \/ HasItem /\ Fail(ENOMEM)
     \/ HasItem /\ Contents # "broken" /\ GoOnWith("raw")

(* The user stack, which is checked. *)
NewStack ==
  /\ load.pc = "stack"
  /\ UNCHANGED fvars
  /\ Fail(ENOMEM) \/ GoTo("task")

(***************************************************************************)
(* new_task.  Its errors are not recognised by process_load_for_slot       *)
(* (ERROR_I(task) == 0), and its own error path has freed address 0 then.  *)
(***************************************************************************)
NewTask ==
  /\ load.pc = "task"
  /\ UNCHANGED fvars
  /\ \/ \E t \in Tasks :
          /\ new_task(t)
          /\ load' = [load EXCEPT !.pc = "map", !.task = t]
          /\ UNCHANGED result
          /\ TablesUnchanged
     \/ FollowsNull

(* Without an image the program headers are read from address 0. *)
Mappable == load.image \in {"elf", "raw", "none"}
Unmappable == load.image \in {"odd", "none"}

(* Mutant: the task of a process that cannot be mapped is left in the list. *)
UndoKeepsTask == UNCHANGED vars

(* Mutant: the first task of the list is undone. *)
UndoFreesHead == task_free(head)

(* process_map_memory failed: the task is undone, nothing else is. *)
Undo == task_free(load.task)

MapFails ==
  /\ Unmappable
  /\ Undo
  /\ result' = EINVARG
  /\ TablesUnchanged

(* Mutant: the task is never stored in the process. *)
WithoutTask == [task |-> NULL, image |-> load.image]

(* The process structure, as it is entered in its slot.                    *)
LoadedProcess == [task |-> load.task, image |-> load.image]

(* The process is entered in its slot and process_switch makes it current. *)
MapSucceeds ==
  /\ Mappable
  /\ processes' = [processes EXCEPT ![load.slot] = LoadedProcess]
  /\ current_process' = load.slot
  /\ result' = STATUS_OK
  /\ UNCHANGED vars

MapMemory ==
  /\ load.pc = "map"
  /\ UNCHANGED fvars
  /\ load' = Idle
  /\ MapFails \/ MapSucceeds

(* The disk is brought up before anything is loaded, or it is not. *)
Boot ==
  /\ load.pc = "idle" /\ \A s \in Slots : FreeSlot(s)
  /\ fs_resolve
  /\ UNCHANGED <<vars, processes, current_process, load, result>>

(* The kernel goes over to its first task between two loads. *)
RunFirst ==
  /\ load.pc = "idle"
  /\ first_task_run
  /\ UNCHANGED <<fvars, processes, current_process, load, result>>

LNext ==
  /\ ~ wild
  /\ \/ Boot \/ RunFirst
     \/ \E path \in Paths : process_load(path)
     \/ Opens("elf_open", "elf_read") \/ ReadElf
     \/ Opens("binary_open", "binary_read") \/ ReadBinary
     \/ NewStack \/ NewTask \/ MapMemory

LSpec == LInit /\ [][LNext]_lvars

-----------------------------------------------------------------------------
(***************************************************************************)
(* A load that fails, at whatever step, leaves the process table, the      *)
(* current process and the task list as it found them: no half-loaded      *)
(* process is ever visible.                                                *)
(***************************************************************************)
FailedLoadIsInvisible ==
  [][load.pc # "idle" /\ load'.pc = "idle" /\ result' # STATUS_OK
       => /\ order' = load.before
          /\ UNCHANGED <<processes, current_process>>]_lvars

(***************************************************************************)
(* Between loads there is one task for each process, no task without one,  *)
(* and no two processes share one.                                         *)
(***************************************************************************)
Loaded == {s \in Slots : ~ FreeSlot(s)}
OneTaskEach ==
  load.pc = "idle" =>
    /\ tasks = {processes[s].task : s \in Loaded}
    /\ \A s, k \in Loaded : processes[s].task = processes[k].task => s = k

(***************************************************************************)
(* Between loads every descriptor the loader opened was given back, on     *)
(* every way out of elf_load and process_load_binary, also one that        *)
(* file_new_descriptor returned without creating it.                       *)
(***************************************************************************)
LoaderKeepsNoFile ==
  load.pc = "idle" =>
    /\ held = {}
    /\ \A id \in 1 .. MaxDescriptors : file_descriptors[id] = NULL

(***************************************************************************)
(* The loader drives the two tables by their own operations, in orders     *)
(* TaskList and Files allow, so what holds of them holds here: it frees no *)
(* task but the last, and gives back no descriptor it did not get.         *)
(***************************************************************************)
LoaderDrivesTables == Spec /\ FilesSpec

(***************************************************************************)
(* kernel.c:184 takes STATUS_OK from process_load_switch to mean that the  *)
(* program was loaded (it panics with "Failed to load" otherwise), so a    *)
(* process in the table has an image.                                      *)
(***************************************************************************)
LoadedProcessHasImage ==
  \A s \in Loaded : processes[s].image # "none"
=============================================================================
