------------------------------ MODULE TaskList ------------------------------
(***************************************************************************)
(* The doubly linked list of tasks (task.c): head, tail, current and the   *)
(* next and prev of every task structure.  A task is the address of its    *)
(* structure; the heap hands an address out again after it was freed, with *)
(* its fields cleared.                                                     *)
(***************************************************************************)
EXTENDS Pointer

CONSTANT Tasks   \* the addresses kzalloc may return for a task structure

ASSUME NullAssumption == NULL \notin Tasks

VARIABLES
  tasks,        \* the structures allocated and not freed
  head, tail,
  current,      \* the task get_current_task returns
  next, prev,   \* the fields at each address, also once it is freed
  wild,         \* a null pointer was followed: nothing after it is modelled
  order         \* history: the tasks created and not freed, oldest first

links == <<head, tail, current, next, prev>>
vars == <<tasks, links, wild, order>>

Init ==
  /\ tasks = {}
  /\ head = NULL /\ tail = NULL /\ current = NULL
  /\ next = [t \in Tasks |-> NULL]
  /\ prev = [t \in Tasks |-> NULL]
  /\ wild = FALSE
  /\ order = <<>>

-----------------------------------------------------------------------------
(* The cleared structure is appended; the first one also becomes current.  *)
Link(t) ==
  \/ /\ head = NULL
     /\ head' = t /\ tail' = t /\ current' = t
     /\ next' = [next EXCEPT ![t] = NULL]
     /\ prev' = [prev EXCEPT ![t] = NULL]
  \/ /\ head # NULL
     /\ next' = [next EXCEPT ![t] = NULL, ![tail] = t]
     /\ prev' = [prev EXCEPT ![t] = tail]
     /\ tail' = t
     /\ UNCHANGED <<head, current>>

new_task(t) ==
  /\ t \in Tasks \ tasks
  /\ Link(t)
  /\ tasks' = tasks \cup {t}
  /\ order' = Append(order, t)
  /\ UNCHANGED wild

(* kzalloc failed: the error path calls task_free(0), which reads 0->page_directory. *)
NewTaskOutOfMemory ==
  /\ wild' = TRUE
  /\ UNCHANGED <<tasks, links, order>>

(* Mutant: current moves on before head and the links do. *)
NextBeforeUnlink == IF next[current] = NULL THEN head ELSE next[current]

(* get_next_task, as task_list_remove meets it: head and next have moved.  *)
get_next_task == IF next'[current] = NULL THEN head' ELSE next'[current]

(* next[t]->prev is left as it is. *)
task_list_remove(t) ==
  /\ next' = IF prev[t] # NULL THEN [next EXCEPT ![prev[t]] = next[t]] ELSE next
  /\ head' = IF t = head THEN next[t] ELSE head
  /\ tail' = IF t = tail THEN prev[t] ELSE tail
  /\ current' = IF t = current THEN get_next_task ELSE current
  /\ UNCHANGED prev

(* The creation order without t. *)
Without(t) ==
  LET k == CHOOSE i \in 1 .. Len(order) : order[i] = t IN
  [i \in 1 .. Len(order) - 1 |-> IF i < k THEN order[i] ELSE order[i + 1]]

task_free(t) ==
  /\ t \in tasks
  /\ task_list_remove(t)
  /\ tasks' = tasks \ {t}
  /\ order' = Without(t)
  /\ UNCHANGED wild

(* task_switch(head); task_page switches to the task that is current already. *)
first_task_run ==
  /\ current # NULL
  /\ current' = head
  /\ UNCHANGED <<tasks, head, tail, next, prev, wild, order>>

(***************************************************************************)
(* The calls the kernel makes: process_load_for_slot creates a task, and   *)
(* frees that same task, the last one, when mapping the process fails.     *)
(***************************************************************************)
Next ==
  /\ ~ wild
  /\ \/ \E t \in Tasks : new_task(t)
     \/ NewTaskOutOfMemory
     \/ task_free(tail)
     \/ first_task_run

Spec == Init /\ [][Next]_vars

-----------------------------------------------------------------------------
TypeOK ==
  /\ tasks \subseteq Tasks
  /\ {head, tail, current} \subseteq tasks \cup {NULL}
  /\ next \in [Tasks -> Tasks \cup {NULL}]
  /\ prev \in [Tasks -> Tasks \cup {NULL}]
  /\ wild \in BOOLEAN
  /\ order \in Seq(Tasks)

(***************************************************************************)
(* Followed from head by next, and from tail by prev, the list is the      *)
(* tasks in the order of their creation, each once and no others, also     *)
(* when addresses of freed tasks have been handed out again.               *)
(***************************************************************************)
LinksSpellOrder ==
  /\ head = IF order = <<>> THEN NULL ELSE order[1]
  /\ tail = IF order = <<>> THEN NULL ELSE order[Len(order)]
  /\ tasks = {order[i] : i \in 1 .. Len(order)}
  /\ \A i, j \in 1 .. Len(order) : order[i] = order[j] => i = j
  /\ \A i \in 1 .. Len(order) :
       /\ next[order[i]] = IF i = Len(order) THEN NULL ELSE order[i + 1]
       /\ prev[order[i]] = IF i = 1 THEN NULL ELSE order[i - 1]

(***************************************************************************)
(* There is a current task exactly as long as there is a task, and it is   *)
(* one of them: undoing the only task's creation leaves none behind.       *)
(***************************************************************************)
CurrentIsListed ==
  /\ current = NULL <=> tasks = {}
  /\ current # NULL => current \in tasks

(***************************************************************************)
(* The list is sound: both directions of links spell the tasks that exist, *)
(* and the kernel has one to return to exactly while there are any.        *)
(***************************************************************************)
ListIsSound == LinksSpellOrder /\ CurrentIsListed
=============================================================================
