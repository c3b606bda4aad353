----------------------------- MODULE Interrupts -----------------------------
(***************************************************************************)
(* Entering and leaving the kernel (idt.c, idt.asm, classic.c, task.c):    *)
(* which page directory and segments the processor is left with, which     *)
(* task a system call saves, which process a key goes to.  Interrupt gates *)
(* clear IF, so a handler is one step.  isr80h_command_handler finds the   *)
(* command but does not call it, so a system call has no other effect.     *)
(***************************************************************************)
EXTENDS Naturals, Sequences

CONSTANTS
  LoadOrder,   \* the processes kernel_main loads, as a sequence
  Keys,        \* the characters of the scancode table
  Contexts,    \* what the user program can have in its registers
  Start,       \* the registers task_init prepares
  KERNEL,      \* the kernel's page directory and segments
  NULL,        \* the address 0
  MaxKeys      \* bound: keys typed in one behaviour

Procs == {LoadOrder[i] : i \in 1 .. Len(LoadOrder)}

ASSUME InterruptsAssumption ==
  /\ LoadOrder \in Seq(Procs)
  /\ {KERNEL, NULL} \cap Procs = {}
  /\ Start \in Contexts
  /\ MaxKeys \in Nat

VARIABLES
  phase,             \* "boot", "user", "panic", or "derailed": user code is
                     \* fetched from a directory that is not its own, or the
                     \* kernel returned to it with a stack that does not match
  loaded,            \* how many processes are loaded
  current,           \* the process whose task is current
  current_process,
  cr3,               \* the directory loaded: KERNEL or a process
  segs,              \* the data segments: KERNEL or "user"
  context,           \* the registers of the user program
  registers,         \* task->registers of each process
  keys,              \* what each process's key buffer received
  entry              \* history: how the kernel was last entered

vars == <<phase, loaded, current, current_process, cr3, segs, context,
          registers, keys, entry>>

Init ==
  /\ phase = "boot" /\ loaded = 0 /\ entry = "boot"
  /\ current = NULL /\ current_process = NULL
  /\ cr3 = KERNEL /\ segs = KERNEL
  /\ context = Start
  /\ registers = [p \in Procs |-> Start]
  /\ keys = [p \in Procs |-> <<>>]

-----------------------------------------------------------------------------
(* kernel_page, and task_page, which always goes to the current task.      *)
kernel_page == cr3' = KERNEL /\ segs' = KERNEL
task_page == cr3' = current /\ segs' = "user"

(* new_task makes the first task current; process_switch the last process. *)
process_load_switch ==
  /\ phase = "boot" /\ loaded < Len(LoadOrder)
  /\ loaded' = loaded + 1
  /\ current' = IF loaded = 0 THEN LoadOrder[1] ELSE current
  /\ current_process' = LoadOrder[loaded + 1]
  /\ UNCHANGED <<phase, cr3, segs, context, registers, keys, entry>>

first_task_run ==
  /\ phase = "boot"
  /\ \/ /\ current = NULL
        /\ phase' = "panic"
        /\ UNCHANGED <<cr3, segs, context>>
     \/ /\ current # NULL
        /\ phase' = "user"
        /\ task_page
        /\ context' = registers[current]
  /\ UNCHANGED <<loaded, current, current_process, registers, keys, entry>>

(* The user program computes, if its own directory is the one loaded.      *)
AtHome == cr3 = current /\ segs = "user"

user_step ==
  /\ phase = "user"
  /\ IF AtHome
     THEN context' \in Contexts /\ UNCHANGED phase
     ELSE phase' = "derailed" /\ UNCHANGED context
  /\ UNCHANGED <<loaded, current, current_process, cr3, segs, registers, keys,
                 entry>>

(* Mutant: task_page is left out, as in interrupt_handler. *)
ReturnsInKernel == kernel_page

(* How a system call leaves the kernel.                                    *)
SyscallReturns == task_page

isr80h_handler ==
  /\ phase = "user" /\ AtHome
  /\ registers' = [registers EXCEPT ![current] = context]
  /\ SyscallReturns
  /\ context' \in Contexts   \* eax takes the result
  /\ entry' = "syscall"
  /\ UNCHANGED <<phase, loaded, current, current_process, keys>>

(***************************************************************************)
(* An exception of the program.  idt_zero is entered without a wrapper and *)
(* returns with ret: the division goes on in kernel mode.  The wrapper of  *)
(* the exceptions that push an error code leaves it there for iret.        *)
(***************************************************************************)
exception ==
  /\ phase = "user" /\ AtHome
  /\ kernel_page \/ UNCHANGED <<cr3, segs>>
  /\ phase' = "derailed"
  /\ entry' = "exception"
  /\ UNCHANGED <<loaded, current, current_process, context, registers, keys>>

(* An interrupt without a callback: the call of task_page is commented out.*)
interrupt_handler ==
  /\ phase = "user"
  /\ kernel_page
  /\ entry' = "interrupt"
  /\ UNCHANGED <<phase, loaded, current, current_process, context, registers,
                 keys>>

Typed == Len(keys[current_process])

(* Mutant: the key goes to the process whose task runs. *)
PushToCurrentTask(c) ==
  keys' = [keys EXCEPT ![current] = Append(@, c)]

(* Mutant: a scancode without a character is pushed as 0. *)
PushesNoCharacter(c) ==
  keys' = [keys EXCEPT ![current_process] = Append(@, NULL)]

keyboard_push(c) ==
  keys' = [keys EXCEPT ![current_process] = Append(@, c)]

(* The keyboard's callback for a key going down; a scancode without a      *)
(* character pushes nothing.                                               *)
key_pressed ==
  /\ phase = "user"
  /\ \/ Typed < MaxKeys /\ \E c \in Keys : keyboard_push(c)
     \/ UNCHANGED keys
  /\ task_page
  /\ entry' = "press"
  /\ UNCHANGED <<phase, loaded, current, current_process, context, registers>>

(* The callback returns before task_page when the key goes up.             *)
key_released ==
  /\ phase = "user"
  /\ kernel_page
  /\ entry' = "release"
  /\ UNCHANGED <<phase, loaded, current, current_process, context, registers,
                 keys>>

Next ==
  \/ process_load_switch \/ first_task_run
  \/ user_step \/ isr80h_handler \/ exception
  \/ interrupt_handler \/ key_pressed \/ key_released

Spec == Init /\ [][Next]_vars

-----------------------------------------------------------------------------
TypeOK ==
  /\ phase \in {"boot", "user", "panic", "derailed"}
  /\ loaded \in 0 .. Len(LoadOrder)
  /\ {current, current_process} \subseteq Procs \cup {NULL}
  /\ cr3 \in Procs \cup {KERNEL}
  /\ segs \in {KERNEL, "user"}
  /\ context \in Contexts
  /\ registers \in [Procs -> Contexts]
  /\ keys \in [Procs -> Seq(Keys)]

(***************************************************************************)
(* User code is only ever found outside its own directory and segments     *)
(* after an exception, an interrupt without a callback or the release of a *)
(* key: every other way into the kernel leads back home, whatever came     *)
(* before it.                                                              *)
(***************************************************************************)
AwayOnlyByInterrupt ==
  (phase \in {"user", "derailed"} /\ ~ AtHome)
    => entry \in {"interrupt", "release", "exception"}

(***************************************************************************)
(* Two notions of who is current drift apart for good: the task that runs  *)
(* and whose state system calls save is the first that was loaded, and     *)
(* process_load_switch gives the keys to the last.  With more than one     *)
(* process no key ever reaches the one that runs, and no other process's   *)
(* registers are ever written, in whatever order calls and keys come.      *)
(***************************************************************************)
FirstRunsLastTypes ==
  /\ \A p \in Procs : registers[p] # Start => p = LoadOrder[1]
  /\ \A p \in Procs : keys[p] # <<>> => p = LoadOrder[loaded]
  /\ phase = "user" => current = LoadOrder[1]
=============================================================================
