-------------------------- MODULE InterruptsProofs --------------------------
(***************************************************************************)
(* The two notions of a current process, and the ways out of the kernel,   *)
(* for any number of processes, any keys and any registers.                *)
(***************************************************************************)
EXTENDS Interrupts, TLAPS

(***************************************************************************)
(* The current task is the first that was loaded and the current process   *)
(* the last, as long as there is any, and user code runs only then.        *)
(***************************************************************************)
Notions ==
  /\ loaded = 0 => current = NULL /\ current_process = NULL
  /\ loaded > 0 => current = LoadOrder[1] /\ current_process = LoadOrder[loaded]
  /\ phase \in {"user", "derailed"} => loaded > 0

(***************************************************************************)
(* Registers and keys are only written once user code runs, and then no    *)
(* process is loaded any more.                                             *)
(***************************************************************************)
Untouched ==
  phase = "boot" =>
    /\ \A p \in Procs : registers[p] = Start
    /\ \A p \in Procs : keys[p] = <<>>

IInv ==
  TypeOK /\ Notions /\ Untouched /\ AwayOnlyByInterrupt /\ FirstRunsLastTypes

(* A process that was loaded is one of the sequence, and not 0. *)
LEMMA LoadedIsProc ==
  ASSUME NEW n \in 1 .. Len(LoadOrder)
  PROVE  LoadOrder[n] \in Procs /\ LoadOrder[n] # NULL /\ LoadOrder[n] # KERNEL
BY InterruptsAssumption DEF Procs

(* What the first and the last process are while user code runs.           *)
LEMMA Running ==
  ASSUME TypeOK, Notions, phase \in {"user", "derailed"}
  PROVE  /\ current = LoadOrder[1] /\ current \in Procs
         /\ current_process = LoadOrder[loaded] /\ current_process \in Procs
         /\ loaded \in 1 .. Len(LoadOrder)
<1>1. loaded \in 1 .. Len(LoadOrder) /\ 1 \in 1 .. Len(LoadOrder)
  BY InterruptsAssumption DEF TypeOK, Notions
<1>2. LoadOrder[1] \in Procs /\ LoadOrder[loaded] \in Procs
  BY <1>1, LoadedIsProc
<1>. QED BY <1>1, <1>2 DEF Notions

(* Nobody is loaded and user code does not run. *)
LEMMA InitIInv == Init => IInv
<1>. SUFFICES ASSUME Init PROVE IInv
  OBVIOUS
<1>1. Len(LoadOrder) \in Nat
  BY InterruptsAssumption
<1>2. TypeOK
  <2>1. registers \in [Procs -> Contexts]
    BY InterruptsAssumption DEF Init
  <2>2. keys \in [Procs -> Seq(Keys)]
    BY DEF Init
  <2>. QED BY <1>1, <2>1, <2>2, InterruptsAssumption DEF Init, TypeOK
<1>3. Notions
  BY DEF Init, Notions
<1>4. Untouched /\ AwayOnlyByInterrupt /\ FirstRunsLastTypes
  BY DEF Init, Untouched, AwayOnlyByInterrupt, FirstRunsLastTypes
<1>. QED BY <1>2, <1>3, <1>4 DEF IInv

(* A process is loaded: nothing was written, so both notions may move.     *)
LEMMA LoadInductive ==
  ASSUME IInv, process_load_switch
  PROVE  IInv'
<1>1. /\ phase = "boot" /\ loaded' = loaded + 1
      /\ loaded' \in 1 .. Len(LoadOrder) /\ 1 \in 1 .. Len(LoadOrder)
      /\ loaded \in Nat
      /\ UNCHANGED <<phase, cr3, segs, context, registers, keys, entry>>
  BY InterruptsAssumption DEF IInv, TypeOK, process_load_switch
<1>2. /\ current' = IF loaded = 0 THEN LoadOrder[1] ELSE current
      /\ current_process' = LoadOrder[loaded']
  BY <1>1 DEF process_load_switch
<1>3. LoadOrder[1] \in Procs /\ LoadOrder[loaded'] \in Procs
  BY <1>1, LoadedIsProc
<1>4. TypeOK'
  BY <1>1, <1>2, <1>3 DEF IInv, TypeOK
<1>5. Notions'
  BY <1>1, <1>2 DEF IInv, Notions
<1>6. Untouched' /\ AwayOnlyByInterrupt' /\ FirstRunsLastTypes'
  BY <1>1 DEF IInv, Untouched, AwayOnlyByInterrupt, FirstRunsLastTypes
<1>. QED BY <1>4, <1>5, <1>6 DEF IInv

(* The kernel goes over to user code, if there is any. *)
LEMMA FirstRunInductive ==
  ASSUME IInv, first_task_run
  PROVE  IInv'
<1>1. /\ phase = "boot" /\ phase' \in {"user", "panic"}
      /\ phase' = "user" => current # NULL /\ cr3' = current /\ segs' = "user"
                            /\ context' = registers[current]
      /\ phase' = "panic" => UNCHANGED <<cr3, segs, context>>
      /\ UNCHANGED <<loaded, current, current_process, registers, keys, entry>>
  BY DEF first_task_run, task_page
<1>2. TypeOK'
  BY <1>1 DEF IInv, TypeOK
<1>3. loaded \in Nat
  BY InterruptsAssumption DEF IInv, TypeOK
<1>4. Notions'
  BY <1>1, <1>3 DEF IInv, Notions
<1>5. Untouched' /\ AwayOnlyByInterrupt'
  BY <1>1 DEF IInv, Untouched, AwayOnlyByInterrupt, AtHome
<1>6. FirstRunsLastTypes'
  BY <1>1, <1>3 DEF IInv, FirstRunsLastTypes, Notions, Untouched
<1>. QED BY <1>2, <1>4, <1>5, <1>6 DEF IInv

(* While user code runs, whoever was loaded stays loaded. *)
LEMMA UserInductive ==
  ASSUME IInv, phase = "user", TypeOK', AwayOnlyByInterrupt',
         phase' \in {"user", "derailed"},
         UNCHANGED <<loaded, current, current_process>>,
         \A p \in Procs : registers'[p] # registers[p] => p = current,
         \A p \in Procs : keys'[p] # keys[p] => p = current_process
  PROVE  IInv'
<1>1. current = LoadOrder[1] /\ current_process = LoadOrder[loaded]
  BY Running DEF IInv
<1>2. Notions' /\ Untouched'
  BY DEF IInv, Notions, Untouched
<1>3. FirstRunsLastTypes'
  BY <1>1 DEF IInv, FirstRunsLastTypes
<1>. QED BY <1>2, <1>3 DEF IInv

(* The program computes, or is found away from home. *)
LEMMA UserStepInductive ==
  ASSUME IInv, user_step
  PROVE  IInv'
<1>1. /\ phase = "user" /\ phase' \in {"user", "derailed"}
      /\ TypeOK'
  BY DEF IInv, TypeOK, user_step
<1>2. AwayOnlyByInterrupt'
  BY DEF IInv, AwayOnlyByInterrupt, user_step, AtHome
<1>. QED BY <1>1, <1>2, UserInductive DEF user_step

(* A system call saves the registers of the current task. *)
LEMMA SyscallInductive ==
  ASSUME IInv, isr80h_handler
  PROVE  IInv'
<1>1. /\ current \in Procs
      /\ phase = "user" /\ phase' = "user"
      /\ cr3' = current /\ segs' = "user"
      /\ registers' = [registers EXCEPT ![current] = context]
      /\ context' \in Contexts
      /\ UNCHANGED <<loaded, current, current_process, keys>>
  BY Running DEF IInv, isr80h_handler, SyscallReturns, task_page
<1>2. TypeOK'
  BY <1>1 DEF IInv, TypeOK
<1>3. AwayOnlyByInterrupt'
  BY <1>1 DEF AwayOnlyByInterrupt, AtHome
<1>4. \A p \in Procs : registers'[p] # registers[p] => p = current
  BY <1>1 DEF IInv, TypeOK
<1>. QED BY <1>1, <1>2, <1>3, <1>4, UserInductive

(* An exception derails the program. *)
LEMMA ExceptionInductive ==
  ASSUME IInv, exception
  PROVE  IInv'
<1>1. TypeOK' /\ AwayOnlyByInterrupt'
  BY DEF IInv, TypeOK, exception, kernel_page, AwayOnlyByInterrupt
<1>. QED BY <1>1, UserInductive DEF exception

(* An interrupt without a callback leaves the kernel in its directory. *)
LEMMA InterruptInductive ==
  ASSUME IInv, interrupt_handler
  PROVE  IInv'
<1>1. TypeOK' /\ AwayOnlyByInterrupt'
  BY DEF IInv, TypeOK, interrupt_handler, kernel_page, AwayOnlyByInterrupt
<1>. QED BY <1>1, UserInductive DEF interrupt_handler

(* A key goes down. *)
LEMMA PressInductive ==
  ASSUME IInv, key_pressed
  PROVE  IInv'
<1>1. /\ current \in Procs /\ current_process \in Procs
      /\ phase = "user" /\ phase' = "user"
      /\ cr3' = current /\ segs' = "user"
      /\ UNCHANGED <<loaded, current, current_process, context, registers>>
  BY Running DEF IInv, key_pressed, task_page
<1>2. /\ keys \in [Procs -> Seq(Keys)]
      /\ \/ UNCHANGED keys
         \/ \E c \in Keys :
              keys' = [keys EXCEPT ![current_process] = Append(@, c)]
  BY DEF IInv, TypeOK, key_pressed, keyboard_push
<1>3. /\ keys' \in [Procs -> Seq(Keys)]
      /\ \A p \in Procs : keys'[p] # keys[p] => p = current_process
  <2>1. CASE UNCHANGED keys
    BY <1>2, <2>1
  <2>2. ASSUME NEW c \in Keys,
               keys' = [keys EXCEPT ![current_process] = Append(@, c)]
        PROVE  /\ keys' \in [Procs -> Seq(Keys)]
               /\ \A p \in Procs : keys'[p] # keys[p] => p = current_process
    <3>1. Append(keys[current_process], c) \in Seq(Keys)
      BY <1>1, <1>2
    <3>. QED BY <1>1, <1>2, <2>2, <3>1
  <2>. QED BY <1>2, <2>1, <2>2
<1>4. TypeOK'
  BY <1>1, <1>3 DEF IInv, TypeOK
<1>5. AwayOnlyByInterrupt'
  BY <1>1 DEF AwayOnlyByInterrupt, AtHome
<1>. QED BY <1>1, <1>3, <1>4, <1>5, UserInductive

(* A key goes up, and the callback returns before task_page. *)
LEMMA ReleaseInductive ==
  ASSUME IInv, key_released
  PROVE  IInv'
<1>1. TypeOK' /\ AwayOnlyByInterrupt'
  BY DEF IInv, TypeOK, key_released, kernel_page, AwayOnlyByInterrupt
<1>. QED BY <1>1, UserInductive DEF key_released

(* Every step keeps the invariant. *)
LEMMA IInvInductive ==
  ASSUME IInv, [Next]_vars
  PROVE  IInv'
<1>1. CASE UNCHANGED vars
  BY <1>1 DEF vars, IInv, TypeOK, Notions, Untouched, AwayOnlyByInterrupt, AtHome,
              FirstRunsLastTypes
<1>2. CASE Next
  BY <1>2, LoadInductive, FirstRunInductive, UserStepInductive, SyscallInductive,
     ExceptionInductive, InterruptInductive, PressInductive, ReleaseInductive
     DEF Next
<1>. QED BY <1>1, <1>2

-----------------------------------------------------------------------------
(* The invariant holds of every execution. *)
THEOREM InterruptsInvariant == Spec => []IInv
<1>1. IInv /\ [Next]_vars => IInv'
  BY IInvInductive
<1>. QED BY InitIInv, <1>1, PTL DEF Spec

(***************************************************************************)
(* The directory loaded is always the kernel's or a process's, never the   *)
(* null pointer of a task that does not exist.                             *)
(***************************************************************************)
THEOREM InterruptsTypeCorrect == Spec => []TypeOK
<1>1. IInv => TypeOK
  BY DEF IInv
<1>. QED BY <1>1, InterruptsInvariant, PTL

(***************************************************************************)
(* Only exceptions, interrupts without a callback and key releases leave   *)
(* user code in a directory or segments that are not its own.              *)
(***************************************************************************)
THEOREM InterruptsAwayOnlyByInterrupt == Spec => []AwayOnlyByInterrupt
<1>1. IInv => AwayOnlyByInterrupt
  BY DEF IInv
<1>. QED BY <1>1, InterruptsInvariant, PTL

(***************************************************************************)
(* System calls only ever save the first process's registers, and keys     *)
(* only ever go to the last process, however many were loaded.             *)
(***************************************************************************)
THEOREM InterruptsFirstRunsLastTypes == Spec => []FirstRunsLastTypes
<1>1. IInv => FirstRunsLastTypes
  BY DEF IInv
<1>. QED BY <1>1, InterruptsInvariant, PTL
=============================================================================
