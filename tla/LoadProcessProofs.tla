-------------------------- MODULE LoadProcessProofs --------------------------
(***************************************************************************)
(* The task list keeps its shape under the calls the kernel makes, for any *)
(* number of tasks and any reuse of their addresses; and process_load      *)
(* keeps its tables in step over that list and the descriptor table, for   *)
(* any number of processes, descriptors, files and failures.               *)
(***************************************************************************)
EXTENDS LoadProcess, TLAPS, SequenceTheorems

TaskInv == TypeOK /\ LinksSpellOrder /\ CurrentIsListed

-----------------------------------------------------------------------------
(* head and tail are null exactly while there is no task. *)
LEMMA EndsOfList ==
  ASSUME TaskInv
  PROVE  /\ order \in Seq(Tasks) /\ Len(order) \in Nat
         /\ head = NULL <=> Len(order) = 0
         /\ tail = NULL <=> Len(order) = 0
         /\ Len(order) > 0 => head = order[1] /\ tail = order[Len(order)]
<1>1. order \in Seq(Tasks) /\ Len(order) \in Nat
  BY DEF TaskInv, TypeOK
<1>2. order = <<>> <=> Len(order) = 0
  BY <1>1
<1>3. Len(order) > 0 => order[1] \in Tasks /\ order[Len(order)] \in Tasks
  BY <1>1
<1>. QED BY <1>1, <1>2, <1>3, NullAssumption DEF TaskInv, LinksSpellOrder

(* The order after a new task: the old one with the task at its end. *)
LEMMA AppendedOrder ==
  ASSUME TaskInv, NEW t \in Tasks, order' = Append(order, t)
  PROVE  /\ order' \in Seq(Tasks)
         /\ Len(order') = Len(order) + 1
         /\ \A i \in 1 .. Len(order) : order'[i] = order[i]
         /\ order'[Len(order) + 1] = t
         /\ order' # <<>>
<1>1. order \in Seq(Tasks)
  BY DEF TaskInv, TypeOK
<1>. QED BY <1>1

(* A new task keeps the invariant. *)
LEMMA NewTaskInductive ==
  ASSUME TaskInv, NEW t \in Tasks, new_task(t)
  PROVE  TaskInv'
<1>. DEFINE n == Len(order)
<1>1. /\ t \notin tasks /\ tasks' = tasks \cup {t} /\ wild' = wild
      /\ order' = Append(order, t) /\ Link(t)
  BY DEF new_task
<1>2. /\ order' \in Seq(Tasks) /\ Len(order') = n + 1 /\ order'[n + 1] = t
      /\ \A i \in 1 .. n : order'[i] = order[i]
      /\ order' # <<>>
  BY <1>1, AppendedOrder
<1>3. /\ n \in Nat /\ (head = NULL <=> n = 0) /\ (tail = NULL <=> n = 0)
      /\ n > 0 => head = order[1] /\ tail = order[n]
      /\ \A i \in 1 .. n : order[i] \in Tasks
  BY EndsOfList
<1>4. /\ tasks = {order[i] : i \in 1 .. n}
      /\ \A i, j \in 1 .. n : order[i] = order[j] => i = j
      /\ \A i \in 1 .. n :
           /\ next[order[i]] = IF i = n THEN NULL ELSE order[i + 1]
           /\ prev[order[i]] = IF i = 1 THEN NULL ELSE order[i - 1]
  BY DEF TaskInv, LinksSpellOrder
<1>5. \A i \in 1 .. n : order[i] # t
  BY <1>1, <1>4
<1>6. /\ next \in [Tasks -> Tasks \cup {NULL}] /\ prev \in [Tasks -> Tasks \cup {NULL}]
      /\ tasks \subseteq Tasks /\ wild \in BOOLEAN
      /\ {head, tail, current} \subseteq tasks \cup {NULL}
  BY DEF TaskInv, TypeOK
<1>. HIDE DEF n
<1>7. tasks' = {order'[i] : i \in 1 .. n + 1}
  <2>1. 1 .. n + 1 = (1 .. n) \cup {n + 1}
    BY <1>3
  <2>2. {order'[i] : i \in 1 .. n + 1} = {order'[i] : i \in 1 .. n} \cup {order'[n + 1]}
    BY <2>1
  <2>3. {order'[i] : i \in 1 .. n} = {order[i] : i \in 1 .. n}
    BY <1>2
  <2>. QED BY <1>1, <1>2, <1>4, <2>2, <2>3
<1>8. \A i, j \in 1 .. n + 1 : order'[i] = order'[j] => i = j
  <2>. SUFFICES ASSUME NEW i \in 1 .. n + 1, NEW j \in 1 .. n + 1, order'[i] = order'[j]
                PROVE  i = j
    OBVIOUS
  <2>1. (i = n + 1 \/ i \in 1 .. n) /\ (j = n + 1 \/ j \in 1 .. n)
    BY <1>3
  <2>2. CASE i \in 1 .. n /\ j \in 1 .. n
    BY <1>2, <1>4, <2>2
  <2>3. CASE i = n + 1 /\ j \in 1 .. n
    BY <1>2, <1>5, <2>3
  <2>4. CASE i \in 1 .. n /\ j = n + 1
    BY <1>2, <1>5, <2>4
  <2>. QED BY <2>1, <2>2, <2>3, <2>4
<1>9. CASE n = 0
  <2>1. /\ head' = t /\ tail' = t /\ current' = t
        /\ next' = [next EXCEPT ![t] = NULL] /\ prev' = [prev EXCEPT ![t] = NULL]
    BY <1>1, <1>3, <1>9 DEF Link
  <2>2. TypeOK'
    BY <1>1, <1>2, <1>6, <2>1 DEF TypeOK
  <2>3. next'[t] = NULL /\ prev'[t] = NULL
    BY <1>6, <2>1
  <2>4. LinksSpellOrder'
    BY <1>2, <1>7, <1>8, <1>9, <2>1, <2>3 DEF LinksSpellOrder
  <2>5. CurrentIsListed'
    BY <1>1, <2>1, NullAssumption DEF CurrentIsListed
  <2>. QED BY <2>2, <2>4, <2>5 DEF TaskInv
<1>10. CASE n > 0
  <2>1. /\ head' = head /\ tail' = t /\ current' = current
        /\ next' = [next EXCEPT ![t] = NULL, ![tail] = t]
        /\ prev' = [prev EXCEPT ![t] = tail]
        /\ tail = order[n] /\ head = order[1] /\ tail # t /\ tail \in Tasks
    BY <1>1, <1>3, <1>5, <1>10 DEF Link
  <2>2. TypeOK'
    <3>1. /\ next' \in [Tasks -> Tasks \cup {NULL}]
          /\ prev' \in [Tasks -> Tasks \cup {NULL}]
      BY <1>6, <2>1
    <3>. QED BY <1>1, <1>2, <1>6, <2>1, <3>1 DEF TypeOK
  <2>3. ASSUME NEW i \in 1 .. n + 1
        PROVE  /\ next'[order'[i]] = IF i = n + 1 THEN NULL ELSE order'[i + 1]
               /\ prev'[order'[i]] = IF i = 1 THEN NULL ELSE order'[i - 1]
    <3>1. CASE i = n + 1
      <4>1. next'[t] = NULL /\ prev'[t] = tail
        BY <1>6, <2>1
      <4>. QED BY <1>2, <1>10, <2>1, <3>1, <4>1, <1>3
    <3>2. CASE i = n
      <4>1. next'[tail] = t /\ prev'[tail] = prev[tail]
        BY <1>6, <2>1
      <4>. QED BY <1>2, <1>3, <1>4, <1>10, <2>1, <3>2, <4>1
    <3>3. CASE i < n
      <4>1. order[i] # tail /\ order[i] # t /\ order[i] \in Tasks
        BY <1>3, <1>4, <1>5, <1>10, <2>1, <3>3
      <4>2. next'[order[i]] = next[order[i]] /\ prev'[order[i]] = prev[order[i]]
        BY <1>6, <2>1, <4>1
      <4>. QED BY <1>2, <1>3, <1>4, <3>3, <4>2
    <3>. QED BY <1>3, <3>1, <3>2, <3>3
  <2>4. LinksSpellOrder'
    <3>1. head' = order'[1] /\ tail' = order'[n + 1]
      BY <1>2, <1>3, <1>10, <2>1
    <3>. QED BY <1>2, <1>7, <1>8, <2>3, <3>1 DEF LinksSpellOrder
  <2>5. CurrentIsListed'
    <3>1. tasks # {}
      BY <1>3, <1>4, <1>10
    <3>. QED BY <1>1, <2>1, <3>1 DEF TaskInv, CurrentIsListed
  <2>. QED BY <2>2, <2>4, <2>5 DEF TaskInv
<1>. QED BY <1>3, <1>9, <1>10
(* Freeing the last task leaves the others in their order. *)
LEMMA ShortenedOrder ==
  ASSUME TaskInv, tail # NULL, order' = Without(tail)
  PROVE  order' = [i \in 1 .. Len(order) - 1 |-> order[i]]
<1>. DEFINE n == Len(order)
             k == CHOOSE i \in 1 .. n : order[i] = tail
<1>1. n \in Nat /\ n > 0 /\ tail = order[n]
  BY EndsOfList
<1>2. \A i, j \in 1 .. n : order[i] = order[j] => i = j
  BY DEF TaskInv, LinksSpellOrder
<1>3. k = n
  <2>1. \E i \in 1 .. n : order[i] = tail
    BY <1>1
  <2>2. k \in 1 .. n /\ order[k] = tail
    BY <2>1
  <2>3. n \in 1 .. n
    BY <1>1
  <2>. HIDE DEF k
  <2>. QED BY <1>1, <1>2, <2>2, <2>3
<1>4. order' = [i \in 1 .. n - 1 |-> IF i < k THEN order[i] ELSE order[i + 1]]
  BY DEF Without
<1>. HIDE DEF k, n
<1>5. order' = [i \in 1 .. n - 1 |-> order[i]]
  BY <1>1, <1>3, <1>4
<1>. QED BY <1>5 DEF n

(* Undoing the last creation keeps the invariant. *)
LEMMA FreeTailInductive ==
  ASSUME TaskInv, task_free(tail)
  PROVE  TaskInv'
<1>. DEFINE n == Len(order)
<1>1. /\ tail \in tasks /\ tasks' = tasks \ {tail} /\ wild' = wild
      /\ order' = Without(tail) /\ task_list_remove(tail)
  BY DEF task_free
<1>2. /\ next \in [Tasks -> Tasks \cup {NULL}] /\ prev \in [Tasks -> Tasks \cup {NULL}]
      /\ tasks \subseteq Tasks /\ wild \in BOOLEAN
      /\ {head, tail, current} \subseteq tasks \cup {NULL}
  BY DEF TaskInv, TypeOK
<1>3. tail # NULL
  BY <1>1, <1>2, NullAssumption
<1>4. /\ n \in Nat /\ n > 0 /\ head = order[1] /\ tail = order[n]
      /\ \A i \in 1 .. n : order[i] \in Tasks
  BY <1>3, EndsOfList
<1>5. /\ tasks = {order[i] : i \in 1 .. n}
      /\ \A i, j \in 1 .. n : order[i] = order[j] => i = j
      /\ \A i \in 1 .. n :
           /\ next[order[i]] = IF i = n THEN NULL ELSE order[i + 1]
           /\ prev[order[i]] = IF i = 1 THEN NULL ELSE order[i - 1]
  BY DEF TaskInv, LinksSpellOrder
<1>6. order' = [i \in 1 .. n - 1 |-> order[i]]
  BY <1>1, <1>3, ShortenedOrder
<1>. HIDE DEF n
<1>7. /\ order' \in Seq(Tasks) /\ Len(order') = n - 1
      /\ \A i \in 1 .. n - 1 : order'[i] = order[i]
      /\ order' = <<>> <=> n = 1
  <2>1. n - 1 \in Nat
    BY <1>4
  <2>2. order' \in Seq(Tasks) /\ Len(order') = n - 1
    <3>1. \A i \in 1 .. n - 1 : order[i] \in Tasks
      BY <1>4
    <3>2. order' \in [1 .. n - 1 -> Tasks]
      BY <1>6, <3>1
    <3>3. order' \in Seq(Tasks)
      BY <2>1, <3>2, SeqDef
    <3>4. DOMAIN order' = 1 .. n - 1 /\ DOMAIN order' = 1 .. Len(order') /\ Len(order') \in Nat
      BY <3>2, <3>3, LenProperties
    <3>5. Len(order') = n - 1
      <4>. DEFINE l == Len(order')
      <4>1. l \in Nat /\ 1 .. l = 1 .. n - 1
        BY <3>4
      <4>. HIDE DEF l
      <4>2. l = n - 1
        BY <2>1, <4>1
      <4>. QED BY <4>2 DEF l
    <3>. QED BY <3>3, <3>5
  <2>3. order' = <<>> <=> Len(order') = 0
    BY <2>2, EmptySeq
  <2>. QED BY <1>4, <1>6, <2>1, <2>2, <2>3
<1>8. tasks' = {order'[i] : i \in 1 .. n - 1}
  <2>1. ASSUME NEW i \in 1 .. n - 1 PROVE order[i] \in tasks /\ order[i] # tail
    BY <1>4, <1>5
  <2>2. ASSUME NEW t \in tasks, t # tail PROVE \E i \in 1 .. n - 1 : t = order[i]
    <3>1. PICK i \in 1 .. n : t = order[i]
      BY <1>5
    <3>2. i # n
      BY <1>4, <2>2, <3>1
    <3>. QED BY <1>4, <3>1, <3>2
  <2>. QED BY <1>1, <1>7, <2>1, <2>2
<1>9. \A i, j \in 1 .. n - 1 : order'[i] = order'[j] => i = j
  BY <1>4, <1>5, <1>7
<1>10. /\ next' = IF prev[tail] # NULL THEN [next EXCEPT ![prev[tail]] = next[tail]] ELSE next
       /\ head' = IF tail = head THEN next[tail] ELSE head
       /\ tail' = prev[tail]
       /\ current' = IF tail = current THEN get_next_task ELSE current
       /\ prev' = prev
  BY <1>1 DEF task_list_remove
<1>11. next[tail] = NULL /\ prev[tail] = IF n = 1 THEN NULL ELSE order[n - 1]
  BY <1>4, <1>5
<1>12. CASE n = 1
  <2>1. /\ next' = next /\ head' = NULL /\ tail' = NULL
        /\ (tail = current => current' = NULL) /\ (tail # current => current' = current)
    BY <1>4, <1>10, <1>11, <1>12 DEF get_next_task
  <2>2. tasks' = {} /\ tasks = {tail}
    <3>1. 1 .. n - 1 = {} /\ 1 .. n = {1}
      BY <1>12
    <3>. QED BY <1>4, <1>5, <1>8, <1>12, <3>1
  <2>3. current' = NULL
    BY <1>2, <2>1, <2>2 DEF TaskInv, CurrentIsListed
  <2>4. TypeOK'
    BY <1>1, <1>2, <1>7, <1>10, <2>1, <2>2, <2>3 DEF TypeOK
  <2>5. LinksSpellOrder'
    BY <1>7, <1>8, <1>9, <1>12, <2>1 DEF LinksSpellOrder
  <2>. QED BY <2>2, <2>3, <2>4, <2>5 DEF TaskInv, CurrentIsListed
<1>13. CASE n > 1
  <2>. DEFINE last == order[n - 1]
  <2>1. /\ last \in Tasks /\ last # NULL /\ last # tail /\ head # tail
    BY <1>4, <1>5, <1>13, NullAssumption
  <2>2. /\ next' = [next EXCEPT ![last] = NULL] /\ head' = head /\ tail' = last
    <3>1. prev[tail] = last /\ next[tail] = NULL
      BY <1>11, <1>13
    <3>. HIDE DEF last
    <3>. QED BY <1>10, <2>1, <3>1
  <2>. HIDE DEF last
  <2>3. next'[tail] = NULL
    BY <1>2, <1>11, <1>3, <2>1, <2>2
  <2>4. /\ tail = current => current' = head
        /\ tail # current => current' = current
    BY <1>10, <2>2, <2>3 DEF get_next_task
  <2>5. /\ head \in tasks' /\ last \in tasks'
    <3>1. head = order'[1] /\ last = order'[n - 1]
      BY <1>4, <1>7, <1>13 DEF last
    <3>. QED BY <1>4, <1>8, <1>13, <3>1
  <2>6. current' \in tasks' /\ current' # NULL
    <3>1. current \in tasks /\ current # NULL
      BY <1>1, <1>2 DEF TaskInv, CurrentIsListed
    <3>2. head # NULL
      BY <1>4, NullAssumption
    <3>. QED BY <1>1, <2>4, <2>5, <3>1, <3>2
  <2>7. TypeOK'
    <3>1. next' \in [Tasks -> Tasks \cup {NULL}]
      BY <1>2, <2>2
    <3>. QED BY <1>1, <1>2, <1>7, <1>10, <2>2, <2>5, <2>6, <3>1 DEF TypeOK
  <2>8. ASSUME NEW i \in 1 .. n - 1
        PROVE  /\ next'[order'[i]] = IF i = n - 1 THEN NULL ELSE order'[i + 1]
               /\ prev'[order'[i]] = IF i = 1 THEN NULL ELSE order'[i - 1]
    <3>1. CASE i = n - 1
      <4>1. order'[i] = last /\ next'[last] = NULL
        BY <1>2, <1>7, <2>1, <2>2, <3>1 DEF last
      <4>. QED BY <1>4, <1>5, <1>7, <1>10, <1>13, <3>1, <4>1
    <3>2. CASE i < n - 1
      <4>1. order[i] # last /\ order[i] \in Tasks
        BY <1>4, <1>5, <1>13, <3>2 DEF last
      <4>2. next'[order[i]] = next[order[i]]
        BY <1>2, <2>2, <4>1
      <4>. QED BY <1>4, <1>5, <1>7, <1>10, <3>2, <4>2
    <3>. QED BY <1>4, <3>1, <3>2
  <2>9. LinksSpellOrder'
    <3>1. head' = order'[1] /\ tail' = order'[n - 1]
      BY <1>4, <1>7, <1>13, <2>2 DEF last
    <3>. QED BY <1>7, <1>8, <1>9, <1>13, <2>8, <3>1 DEF LinksSpellOrder
  <2>10. CurrentIsListed'
    BY <2>5, <2>6 DEF CurrentIsListed
  <2>. QED BY <2>7, <2>9, <2>10 DEF TaskInv
<1>. QED BY <1>4, <1>12, <1>13

(* The invariant is about the list: wild has no part in it. *)
LEMMA TaskInvOfList ==
  ASSUME TaskInv, UNCHANGED <<tasks, links, order>>, wild' \in BOOLEAN
  PROVE  TaskInv'
<1>1. TypeOK'
  BY DEF links, TaskInv, TypeOK
<1>2. LinksSpellOrder'
  BY DEF links, TaskInv, LinksSpellOrder
<1>3. CurrentIsListed'
  BY DEF links, TaskInv, CurrentIsListed
<1>. QED BY <1>1, <1>2, <1>3 DEF TaskInv

(* Every call the kernel makes keeps the invariant. *)
LEMMA TaskInvInductive ==
  ASSUME TaskInv, [Next]_vars
  PROVE  TaskInv'
<1>1. CASE UNCHANGED vars
  <2>1. wild' \in BOOLEAN
    BY <1>1 DEF vars, TaskInv, TypeOK
  <2>. QED BY <1>1, <2>1, TaskInvOfList DEF vars
<1>2. ASSUME NEW t \in Tasks, new_task(t) PROVE TaskInv'
  BY <1>2, NewTaskInductive
<1>3. CASE NewTaskOutOfMemory
  BY <1>3, TaskInvOfList DEF NewTaskOutOfMemory
<1>4. CASE task_free(tail)
  BY <1>4, FreeTailInductive
<1>5. CASE first_task_run
  <2>1. head \in tasks /\ head # NULL
    <3>1. tasks # {}
      BY <1>5 DEF first_task_run, TaskInv, CurrentIsListed
    <3>2. Len(order) > 0
      BY <3>1, EndsOfList DEF TaskInv, LinksSpellOrder
    <3>3. head # NULL
      BY <3>2, EndsOfList
    <3>. QED BY <3>3 DEF TaskInv, TypeOK
  <2>2. TypeOK'
    BY <1>5, <2>1 DEF first_task_run, TaskInv, TypeOK
  <2>3. LinksSpellOrder'
    BY <1>5 DEF first_task_run, TaskInv, LinksSpellOrder
  <2>4. CurrentIsListed'
    BY <1>5, <2>1 DEF first_task_run, CurrentIsListed
  <2>. QED BY <2>2, <2>3, <2>4 DEF TaskInv
<1>. QED BY <1>1, <1>2, <1>3, <1>4, <1>5 DEF Next

(* The empty list satisfies the invariant. *)
LEMMA InitTaskInv == Init => TaskInv
<1>. SUFFICES ASSUME Init PROVE TaskInv
  OBVIOUS
<1>1. Len(order) = 0 /\ order \in Seq(Tasks) /\ 1 .. 0 = {}
  BY DEF Init
<1>2. TypeOK
  BY <1>1 DEF Init, TypeOK
<1>3. LinksSpellOrder
  BY <1>1 DEF Init, LinksSpellOrder
<1>4. CurrentIsListed
  BY DEF Init, CurrentIsListed
<1>. QED BY <1>2, <1>3, <1>4 DEF TaskInv

(***************************************************************************)
(* new_task, first_task_run and the rollback of process_load_for_slot keep *)
(* the list well formed in every execution.                                *)
(***************************************************************************)
THEOREM TaskListInvariant == Spec => []TaskInv
<1>1. TaskInv /\ [Next]_vars => TaskInv'
  BY TaskInvInductive
<1>. QED BY <1>1, InitTaskInv, PTL DEF Spec

(* The pointers of the list are tasks that exist, or null. *)
THEOREM TaskListTypeCorrect == Spec => []TypeOK
<1>1. TaskInv => TypeOK
  BY DEF TaskInv
<1>. QED BY <1>1, TaskListInvariant, PTL

(* next from head and prev from tail spell the tasks in creation order. *)
THEOREM TaskListLinksSpellOrder == Spec => []LinksSpellOrder
<1>1. TaskInv => LinksSpellOrder
  BY DEF TaskInv
<1>. QED BY <1>1, TaskListInvariant, PTL

(* A current task exists exactly while a task does. *)
THEOREM TaskListCurrentIsListed == Spec => []CurrentIsListed
<1>1. TaskInv => CurrentIsListed
  BY DEF TaskInv
<1>. QED BY <1>1, TaskListInvariant, PTL

(* The list is sound: both of the above. *)
THEOREM TaskListIsSound == Spec => []ListIsSound
<1>1. TaskInv => ListIsSound
  BY DEF TaskInv, ListIsSound
<1>. QED BY <1>1, TaskListInvariant, PTL

-----------------------------------------------------------------------------
(* The descriptor table (Files) keeps files apart, for any number of       *)
(* descriptors, any directory and any paths.                               *)
(***************************************************************************)
(* Exclusive private data is what lets HolderKeepsFile survive the reuse   *)
(* of an address: new private data is never that of an open descriptor.    *)
(***************************************************************************)
FInv == FilesTypeOK /\ PrivatesExclusive /\ HolderKeepsFile

(* Steps that touch neither the table nor the private data. *)
LEMMA TableUnchanged ==
  ASSUME FInv,
         UNCHANGED <<file_descriptors, allocated, item, held, pulled>>,
         response' \in 0 .. MaxDescriptors,
         filesystem' \in BOOLEAN, fs_private' \in BOOLEAN
  PROVE  FInv'
BY DEF FInv, FilesTypeOK, PrivatesExclusive, HolderKeepsFile, Free

(* The private data of a created descriptor is allocated. *)
LEMMA HeldIsAllocated ==
  ASSUME FInv, ~ pulled, NEW h \in held, h.made
  PROVE  /\ h.fd \in Ids
         /\ file_descriptors[h.fd] = h.private
         /\ item[h.private] = h.file
         /\ h.private \in allocated
<1>1. h.fd \in Ids /\ h.private \in Privates /\ h.private # NULL
  BY FilesAssumption DEF FInv, FilesTypeOK, Holder, Ids
<1>2. file_descriptors[h.fd] = h.private /\ item[h.private] = h.file
  BY DEF FInv, HolderKeepsFile
<1>. QED BY <1>1, <1>2 DEF FInv, PrivatesExclusive, Free

(* An fopen that fails after it took private data. *)
LEMMA OpenLeaksInductive ==
  ASSUME FInv, NEW path, NEW p \in Privates \ allocated, OpenLeaks(path, p)
  PROVE  FInv'
<1>0. PICK file \in Root \cup {NULL} : item' = [item EXCEPT ![p] = file]
  BY DEF OpenLeaks
<1>1. FilesTypeOK'
  BY <1>0, FilesAssumption DEF FInv, FilesTypeOK, OpenLeaks, Refusal, Ids
<1>2. PrivatesExclusive'
  BY DEF FInv, OpenLeaks, PrivatesExclusive, Free
<1>3. \A q \in Privates : q # p => item'[q] = item[q]
  BY <1>0 DEF FInv, FilesTypeOK
<1>4. HolderKeepsFile'
  <2>. SUFFICES ASSUME ~ pulled', NEW h \in held', h.made
                PROVE  /\ file_descriptors'[h.fd] = h.private
                       /\ item'[h.private] = h.file
    BY DEF HolderKeepsFile
  <2>1. /\ file_descriptors[h.fd] = h.private
        /\ item[h.private] = h.file
        /\ h.private \in allocated
    BY HeldIsAllocated DEF OpenLeaks
  <2>2. h.private \in Privates /\ h.private # p
    BY <2>1 DEF FInv, FilesTypeOK
  <2>. QED BY <1>3, <2>1, <2>2 DEF OpenLeaks
<1>. QED BY <1>1, <1>2, <1>4 DEF FInv

(* An fopen that returns a descriptor, created or not. *)
LEMMA OpenReturnsInductive ==
  ASSUME FInv, NEW path, NEW p \in Privates \ allocated, NEW id \in Ids,
         OpenReturns(path, p, id)
  PROVE  FInv'
<1>0. PICK file \in Root \cup {NULL}, made \in BOOLEAN :
        /\ Lowest(id)
        /\ file_descriptors' =
             IF made THEN [file_descriptors EXCEPT ![id] = p] ELSE file_descriptors
        /\ allocated' = allocated \cup {p}
        /\ item' = [item EXCEPT ![p] = file]
        /\ response' = id
        /\ held' = held \cup {[fd |-> id, private |-> p, file |-> file, made |-> made]}
        /\ UNCHANGED <<filesystem, fs_private, pulled>>
  BY DEF OpenReturns
<1>2. /\ file_descriptors \in [Ids -> Privates \cup {NULL}]
      /\ item \in [Privates -> Root \cup {NULL}]
      /\ held \subseteq Holder
      /\ p \in Privates /\ p \notin allocated /\ p # NULL
  BY FilesAssumption DEF FInv, FilesTypeOK
<1>1. FilesTypeOK'
  <2>1. /\ filesystem' \in BOOLEAN /\ fs_private' \in BOOLEAN
        /\ pulled' \in BOOLEAN /\ allocated' \subseteq Privates
    BY <1>0 DEF FInv, FilesTypeOK
  <2>2. file_descriptors' \in [Ids -> Privates \cup {NULL}]
    BY <1>0, <1>2
  <2>3. item' \in [Privates -> Root \cup {NULL}]
    BY <1>0, <1>2
  <2>4. response' \in 0 .. MaxDescriptors
    BY <1>0, FilesAssumption DEF Ids
  <2>5. held' \subseteq Holder
    BY <1>0, <1>2 DEF Holder, Ids
  <2>. QED BY <2>1, <2>2, <2>3, <2>4, <2>5 DEF FilesTypeOK
<1>3. \A i \in Ids : ~ Free(i) => file_descriptors[i] \in allocated
  BY DEF FInv, PrivatesExclusive
<1>4. PrivatesExclusive'
  <2>1. CASE made
    <3>1. \A i \in Ids : file_descriptors'[i] =
                           IF i = id THEN p ELSE file_descriptors[i]
      BY <1>0, <1>2, <2>1
    <3>. QED BY <1>0, <1>2, <1>3, <3>1 DEF FInv, PrivatesExclusive, Free
  <2>2. CASE ~ made
    BY <1>0, <2>2 DEF FInv, PrivatesExclusive, Free
  <2>. QED BY <2>1, <2>2
<1>5. HolderKeepsFile'
  <2>. SUFFICES ASSUME ~ pulled', NEW h \in held', h.made
                PROVE  /\ file_descriptors'[h.fd] = h.private
                       /\ item'[h.private] = h.file
    BY DEF HolderKeepsFile
  <2>1. CASE h \in held
    <3>1. /\ h.fd \in Ids
          /\ file_descriptors[h.fd] = h.private
          /\ item[h.private] = h.file
          /\ h.private \in allocated
      BY <1>0, <2>1, HeldIsAllocated
    <3>2. h.private \in Privates /\ h.private # p /\ h.private # NULL
      BY <1>2, <3>1, FilesAssumption DEF FInv, FilesTypeOK
    <3>3. h.fd # id
      BY <1>0, <3>1, <3>2 DEF Lowest, Free
    <3>. QED BY <1>0, <1>2, <3>1, <3>2, <3>3
  <2>2. CASE h = [fd |-> id, private |-> p, file |-> file, made |-> made]
    BY <1>0, <1>2, <2>2
  <2>. QED BY <1>0, <2>1, <2>2
<1>. QED BY <1>1, <1>4, <1>5 DEF FInv

(* A client gives a descriptor back. *)
LEMMA CloseInductive ==
  ASSUME FInv, NEW h \in held, fclose(h)
  PROVE  FInv'
<1>0. /\ held' = held \ {h}
      /\ UNCHANGED <<filesystem, fs_private, response>>
      /\ h.fd \in Ids /\ h.made \in BOOLEAN
  BY DEF fclose, FInv, FilesTypeOK, Holder, Ids
<1>1. CASE UNCHANGED <<file_descriptors, allocated, item, pulled>>
  BY <1>0, <1>1 DEF FInv, FilesTypeOK, PrivatesExclusive, HolderKeepsFile, Free
<1>2. CASE /\ file_get_descriptor(h.fd) # NULL
           /\ allocated' = allocated \ {file_descriptors[h.fd]}
           /\ item' = [item EXCEPT ![file_get_descriptor(h.fd)] = NULL]
           /\ file_descriptors' = [file_descriptors EXCEPT ![h.fd] = NULL]
           /\ pulled' = (pulled \/ ~ h.made)
  <2>0. /\ ~ Free(h.fd)
        /\ file_get_descriptor(h.fd) = file_descriptors[h.fd]
        /\ file_descriptors \in [Ids -> Privates \cup {NULL}]
        /\ item \in [Privates -> Root \cup {NULL}]
    BY <1>2 DEF file_get_descriptor, Free, FInv, FilesTypeOK
  <2>1. \A i \in Ids : file_descriptors'[i] =
                         IF i = h.fd THEN NULL ELSE file_descriptors[i]
    BY <1>2, <2>0
  <2>2. FilesTypeOK'
    BY <1>0, <1>2, <2>0 DEF FInv, FilesTypeOK
  <2>3. PrivatesExclusive'
    BY <1>0, <1>2, <2>0, <2>1 DEF FInv, PrivatesExclusive, Free
  <2>4. HolderKeepsFile'
    <3>. SUFFICES ASSUME ~ pulled', NEW g \in held', g.made
                  PROVE  /\ file_descriptors'[g.fd] = g.private
                         /\ item'[g.private] = g.file
      BY DEF HolderKeepsFile
    <3>0. g \in held /\ g # h /\ ~ pulled /\ h.made
      BY <1>0, <1>2
    <3>1. /\ g.fd \in Ids
          /\ file_descriptors[g.fd] = g.private
          /\ item[g.private] = g.file
          /\ g.private \in allocated
      BY <3>0, HeldIsAllocated
    <3>2. /\ file_descriptors[h.fd] = h.private
          /\ item[h.private] = h.file
      BY <3>0, HeldIsAllocated
    <3>3. g.fd # h.fd
      <4>1. g \in Holder /\ h \in Holder
        BY <3>0 DEF FInv, FilesTypeOK
      <4>2. g.made = h.made
        BY <3>0, <4>1 DEF Holder
      <4>. QED BY <3>0, <3>1, <3>2, <4>1, <4>2 DEF Holder
    <3>4. g.private \in Privates /\ g.private # file_descriptors[h.fd]
      BY <1>0, <2>0, <3>1, <3>3 DEF FInv, PrivatesExclusive, FilesTypeOK
    <3>. QED BY <1>2, <2>0, <2>1, <3>1, <3>3, <3>4
  <2>. QED BY <2>2, <2>3, <2>4 DEF FInv
<1>. QED BY <1>1, <1>2 DEF fclose, Closed, Cleared

(* Every step keeps the invariant. *)
LEMMA FInvInductive ==
  ASSUME FInv, [FilesNext]_fvars
  PROVE  FInv'
<1>1. CASE UNCHANGED fvars
  BY <1>1, TableUnchanged DEF fvars, FInv, FilesTypeOK
<1>2. CASE fs_resolve
  BY <1>2, TableUnchanged DEF fs_resolve, FInv, FilesTypeOK
<1>3. ASSUME NEW path \in Paths, NEW mode \in Modes, fopen(path, mode)
      PROVE  FInv'
  <2>1. CASE OpenRefused
    BY <2>1, TableUnchanged, FilesAssumption DEF OpenRefused, Refusal, FInv, FilesTypeOK
  <2>2. ASSUME NEW p \in Privates \ allocated, OpenLeaks(path, p)
        PROVE  FInv'
    BY <2>2, OpenLeaksInductive
  <2>3. ASSUME NEW p \in Privates \ allocated, NEW id \in Ids,
               OpenReturns(path, p, id)
        PROVE  FInv'
    BY <2>3, OpenReturnsInductive
  <2>. QED BY <1>3, <2>1, <2>2, <2>3 DEF fopen
<1>4. ASSUME NEW h \in held, fclose(h) PROVE FInv'
  BY <1>4, CloseInductive
<1>. QED BY <1>1, <1>2, <1>3, <1>4 DEF FilesNext

(* The empty table satisfies the invariant. *)
LEMMA InitFInv == FilesInit => FInv
<1>. SUFFICES ASSUME FilesInit PROVE FInv
  OBVIOUS
<1>1. FilesTypeOK
  <2>1. response \in 0 .. MaxDescriptors
    BY FilesAssumption DEF FilesInit
  <2>2. filesystem \in BOOLEAN /\ fs_private \in BOOLEAN /\ pulled \in BOOLEAN
    BY DEF FilesInit
  <2>3. /\ file_descriptors \in [Ids -> Privates \cup {NULL}]
        /\ item \in [Privates -> Root \cup {NULL}]
        /\ allocated \subseteq Privates
        /\ held \subseteq Holder
    BY DEF FilesInit
  <2>. QED BY <2>1, <2>2, <2>3 DEF FilesTypeOK
<1>2. PrivatesExclusive /\ HolderKeepsFile
  BY DEF FilesInit, PrivatesExclusive, HolderKeepsFile, Free
<1>. QED BY <1>1, <1>2 DEF FInv

-----------------------------------------------------------------------------
(* The invariant holds of every execution. *)
THEOREM FilesInvariant == FilesSpec => []FInv
<1>1. FInv /\ [FilesNext]_fvars => FInv'
  BY FInvInductive
<1>. QED BY InitFInv, <1>1, PTL DEF FilesSpec

(* Identifiers, private data and names keep their types, and fopen returns *)
(* 0 or an identifier.                                                     *)
THEOREM FilesTypeCorrect == FilesSpec => []FilesTypeOK
<1>1. FInv => FilesTypeOK
  BY DEF FInv
<1>. QED BY <1>1, FilesInvariant, PTL

(***************************************************************************)
(* No descriptor ever leads to freed private data or to that of another    *)
(* descriptor: file_free_descriptor and the search for a free slot agree.  *)
(***************************************************************************)
THEOREM FilesPrivatesExclusive == FilesSpec => []PrivatesExclusive
<1>1. FInv => PrivatesExclusive
  BY DEF FInv
<1>. QED BY <1>1, FilesInvariant, PTL

(***************************************************************************)
(* A descriptor stays with the client fopen returned it to, and refers to  *)
(* the directory item it was opened with, a failed copy of one included,   *)
(* until that client calls fclose; unless the holder of a descriptor that  *)
(* was never created closes it.                                            *)
(***************************************************************************)
THEOREM FilesHolderKeepsFile == FilesSpec => []HolderKeepsFile
<1>1. FInv => HolderKeepsFile
  BY DEF FInv
<1>. QED BY <1>1, FilesInvariant, PTL

(* Every created descriptor below the last is found where its file is. *)
LEMMA ReachesFile == FInv => HolderReachesFile
<1>. SUFFICES ASSUME FInv, ~ pulled, NEW h \in held, h.made, h.fd # MaxDescriptors
              PROVE  file_get_descriptor(h.fd) = h.private
  BY DEF FInv, HolderReachesFile
<1>1. h.fd \in Ids /\ file_descriptors[h.fd] = h.private
  BY HeldIsAllocated
<1>. QED BY <1>1, FilesAssumption DEF file_get_descriptor, Ids

(***************************************************************************)
(* Whoever fopen gave a created descriptor reaches the item it was opened  *)
(* with through it, except the holder of the last descriptor, which        *)
(* file_get_descriptor refuses.                                            *)
(***************************************************************************)
THEOREM FilesHolderReachesFile == FilesSpec => []HolderReachesFile
BY ReachesFile, FilesInvariant, PTL

(* Private data is lost by the step that allocates it or not at all. *)
LEMMA LosingStep ==
  ASSUME FInv, [FilesNext]_fvars
  PROVE  LostByOpen
<1>. SUFFICES ASSUME NEW q \in Lost', q \notin Lost
              PROVE  /\ q \notin allocated
                     /\ \/ response' = 0
                        \/ \E h \in held' :
                             h.private = q /\ (~ h.made \/ h.fd = MaxDescriptors)
  BY DEF LostByOpen
<1>0. /\ q \in allocated' /\ \A h \in held' : file_get_descriptor(h.fd)' # q
      /\ q \in allocated =>
           \E h \in held : file_get_descriptor(h.fd) = q
  BY DEF Lost
<1>1. CASE UNCHANGED fvars
  BY <1>0, <1>1 DEF fvars, file_get_descriptor
<1>2. CASE fs_resolve
  BY <1>0, <1>2 DEF fs_resolve, file_get_descriptor
<1>3. ASSUME NEW path \in Paths, NEW mode \in Modes, fopen(path, mode)
      PROVE  /\ q \notin allocated
             /\ \/ response' = 0
                \/ \E h \in held' :
                     h.private = q /\ (~ h.made \/ h.fd = MaxDescriptors)
  <2>1. CASE OpenRefused
    BY <1>0, <2>1 DEF OpenRefused, file_get_descriptor
  <2>2. ASSUME NEW p \in Privates \ allocated, OpenLeaks(path, p)
        PROVE  q \notin allocated /\ response' = 0
    BY <1>0, <2>2 DEF OpenLeaks, file_get_descriptor, Refusal
  <2>3. ASSUME NEW p \in Privates \ allocated, NEW id \in Ids, OpenReturns(path, p, id)
        PROVE  /\ q \notin allocated
               /\ \E h \in held' :
                    h.private = q /\ (~ h.made \/ h.fd = MaxDescriptors)
    <3>0. PICK file \in Root \cup {NULL}, made \in BOOLEAN :
            /\ Lowest(id)
            /\ file_descriptors' =
                 IF made THEN [file_descriptors EXCEPT ![id] = p] ELSE file_descriptors
            /\ allocated' = allocated \cup {p}
            /\ held' = held \cup {[fd |-> id, private |-> p, file |-> file, made |-> made]}
      BY <2>3 DEF OpenReturns
    <3>1. file_descriptors \in [Ids -> Privates \cup {NULL}] /\ held \subseteq Holder
      BY DEF FInv, FilesTypeOK
    <3>2. q \notin allocated
      <4>. SUFFICES ASSUME q \in allocated PROVE FALSE
        OBVIOUS
      <4>1. PICK h \in held : file_get_descriptor(h.fd) = q
        BY <1>0
      <4>2. q # NULL
        BY FilesAssumption DEF FInv, FilesTypeOK
      <4>3. h.fd \in Ids /\ h.fd # id
        BY <3>0, <3>1, <4>1, <4>2 DEF Holder, Ids, Lowest, Free, file_get_descriptor
      <4>4. file_descriptors'[h.fd] = file_descriptors[h.fd]
        BY <3>0, <3>1, <4>3
      <4>. QED BY <1>0, <3>0, <4>1, <4>4 DEF file_get_descriptor
    <3>3. q = p
      BY <1>0, <3>0, <3>2
    <3>4. PICK g \in held' : g.fd = id /\ g.private = p /\ g.made = made
      <4>. DEFINE new == [fd |-> id, private |-> p, file |-> file, made |-> made]
      <4>1. new \in held'
        BY <3>0
      <4>2. new.fd = id /\ new.private = p /\ new.made = made
        OBVIOUS
      <4>. QED BY <4>1, <4>2
    <3>5. made => id = MaxDescriptors
      <4>. SUFFICES ASSUME made, id # MaxDescriptors PROVE FALSE
        OBVIOUS
      <4>1. file_descriptors'[id] = p
        BY <3>0, <3>1
      <4>2. file_get_descriptor(g.fd)' = p
        BY <3>4, <4>1, FilesAssumption DEF file_get_descriptor, Ids
      <4>. QED BY <1>0, <3>3, <4>2
    <3>. QED BY <3>2, <3>3, <3>4, <3>5
  <2>. QED BY <1>3, <2>1, <2>2, <2>3 DEF fopen
<1>4. ASSUME NEW h \in held, fclose(h) PROVE FALSE
  <2>0. /\ held' = held \ {h} /\ h.fd \in Ids
        /\ file_descriptors \in [Ids -> Privates \cup {NULL}]
        /\ q \in allocated /\ q # NULL
    BY <1>0, <1>4, FilesAssumption
    DEF fclose, FInv, FilesTypeOK, Holder, Ids, Closed
  <2>1. PICK g \in held : file_get_descriptor(g.fd) = q
    BY <1>0, <2>0
  <2>2. CASE file_get_descriptor(h.fd) = NULL
    <3>1. g \in held' /\ UNCHANGED file_descriptors
      BY <1>4, <2>0, <2>1, <2>2 DEF fclose
    <3>. QED BY <1>0, <2>1, <3>1 DEF file_get_descriptor
  <2>3. CASE file_get_descriptor(h.fd) # NULL
    <3>1. /\ allocated' = allocated \ {file_descriptors[h.fd]}
          /\ file_descriptors' = [file_descriptors EXCEPT ![h.fd] = NULL]
      BY <1>4, <2>3 DEF fclose, Closed, Cleared
    <3>2. file_get_descriptor(h.fd) = file_descriptors[h.fd]
      BY <2>3 DEF file_get_descriptor
    <3>3. g.fd # h.fd
      BY <1>0, <2>1, <3>1, <3>2
    <3>4. g \in held' /\ file_descriptors'[g.fd] = file_descriptors[g.fd]
      BY <2>0, <3>1, <3>3
    <3>. QED BY <1>0, <2>1, <3>4 DEF file_get_descriptor
  <2>. QED BY <2>2, <2>3
<1>. QED BY <1>1, <1>2, <1>3, <1>4 DEF FilesNext

(***************************************************************************)
(* Only the fopen that allocates private data ever loses it: closing never *)
(* takes another file's way out, whichever descriptor it is.               *)
(***************************************************************************)
THEOREM FilesLostOnlyByOpen == FilesSpec => LostOnlyByOpen
<1>1. FInv /\ [FilesNext]_fvars => [LostByOpen]_fvars
  BY LosingStep
<1>. QED BY <1>1, FilesInvariant, PTL DEF FilesSpec, LostOnlyByOpen

-----------------------------------------------------------------------------
Pcs == {"idle", "elf_open", "elf_read", "binary_open", "binary_read", "stack",
        "task", "map"}
Reading == load.pc \in {"elf_read", "binary_read"}

LoadTypeOK ==
  /\ processes \in [Slots -> Processes \cup {NULL}]
  /\ load \in [pc : Pcs, slot : Slots, path : Paths \cup {NULL}, image : Images,
               task : Tasks \cup {NULL}, before : Seq(Tasks)]
  /\ load.pc # "idle" => load.path \in Paths

NoFileOpen ==
  /\ held = {}
  /\ \A id \in Ids : file_descriptors[id] = NULL

(* Identifiers are searched from 1, so a loader that keeps none gets 1. *)
FirstOpen ==
  /\ response = 1
  /\ \E h \in Holder : h.fd = 1 /\ held = {h}
  /\ \A id \in Ids \ {1} : file_descriptors[id] = NULL

(***************************************************************************)
(* The loader has a file open exactly from an fopen that succeeded to the  *)
(* fclose: the error paths of elf_load and process_load_binary all pass    *)
(* it.                                                                     *)
(***************************************************************************)
OwnFile == IF Reading /\ ~ wild /\ response # 0 THEN FirstOpen ELSE NoFileOpen

Owned == {processes[s].task : s \in Loaded}

(***************************************************************************)
(* While a process is mapped its task is the last of the list and belongs  *)
(* to no process; at any other time every task belongs to one process.     *)
(***************************************************************************)
OwnTask ==
  /\ \A s, k \in Loaded : processes[s].task = processes[k].task => s = k
  /\ load.pc # "idle" => FreeSlot(load.slot)
  /\ IF load.pc = "map"
     THEN /\ load.task \in Tasks \ Owned
          /\ tasks = Owned \cup {load.task}
          /\ order = Append(load.before, load.task)
     ELSE /\ tasks = Owned
          /\ load.pc # "idle" => order = load.before

LInv == TaskInv /\ FInv /\ LoadTypeOK /\ OwnFile /\ OwnTask

(* No load in progress is a load of the right type. *)
LEMMA IdleTyped ==
  /\ Idle.pc = "idle"
  /\ Idle \in [pc : Pcs, slot : Slots, path : Paths \cup {NULL}, image : Images,
               task : Tasks \cup {NULL}, before : Seq(Tasks)]
<1>1. <<>> \in Seq(Tasks) /\ 0 \in Slots
  BY LoadAssumption DEF Slots
<1>. QED BY <1>1 DEF Idle, Pcs, Images

(***************************************************************************)
(* A stretch that leaves list and tables alone and does not enter or leave *)
(* the mapping keeps the tasks owned.                                      *)
(***************************************************************************)
LEMMA KeepsTask ==
  ASSUME OwnTask, UNCHANGED <<tasks, order, processes>>,
         load.pc # "map", load'.pc # "map",
         load'.pc # "idle" => /\ load'.slot = load.slot
                              /\ load'.before = load.before
                              /\ load.pc # "idle"
  PROVE  OwnTask'
BY DEF OwnTask, Owned, Loaded, FreeSlot

(* The three ways on of such a stretch, and what they do to the load. *)
LEMMA LoadMoves ==
  ASSUME LInv, load.pc \notin {"idle", "map"},
         \/ \E e \in {EIO, ENOMEM} : Fail(e)
         \/ \E pc \in Pcs \ {"idle", "map"} : GoTo(pc)
         \/ \E image \in Images : GoOnWith(image)
  PROVE  /\ LoadTypeOK' /\ OwnTask' /\ UNCHANGED vars
         /\ load'.pc = "idle" => order' = load.before
         /\ UNCHANGED <<processes, current_process>>
<1>1. UNCHANGED vars /\ UNCHANGED <<processes, current_process>>
  BY DEF Fail, GoTo, GoOnWith, TablesUnchanged
<1>2. UNCHANGED <<tasks, order>>
  BY <1>1 DEF vars
<1>3. /\ load \in [pc : Pcs, slot : Slots, path : Paths \cup {NULL}, image : Images,
                   task : Tasks \cup {NULL}, before : Seq(Tasks)]
      /\ processes \in [Slots -> Processes \cup {NULL}]
      /\ load.path \in Paths
      /\ order = load.before
  BY DEF LInv, LoadTypeOK, OwnTask
<1>4. CASE \E e \in {EIO, ENOMEM} : Fail(e)
  <2>1. load' = Idle
    BY <1>4 DEF Fail
  <2>2. LoadTypeOK'
    BY <1>1, <1>3, <2>1, IdleTyped DEF LoadTypeOK
  <2>3. OwnTask'
    BY <1>1, <1>2, <2>1, IdleTyped, KeepsTask DEF LInv
  <2>. QED BY <1>1, <1>2, <1>3, <2>2, <2>3
<1>5. CASE \E pc \in Pcs \ {"idle", "map"} : GoTo(pc)
  <2>1. PICK pc \in Pcs \ {"idle", "map"} : load' = [load EXCEPT !.pc = pc]
    BY <1>5 DEF GoTo
  <2>2. LoadTypeOK' /\ load'.pc \notin {"idle", "map"}
    BY <1>1, <1>3, <2>1 DEF LoadTypeOK
  <2>3. load'.slot = load.slot /\ load'.before = load.before
    BY <1>3, <2>1
  <2>4. OwnTask'
    BY <1>1, <1>2, <2>2, <2>3, KeepsTask DEF LInv
  <2>. QED BY <1>1, <2>2, <2>4
<1>6. CASE \E image \in Images : GoOnWith(image)
  <2>1. PICK image \in Images :
          load' = [load EXCEPT !.pc = "stack", !.image = image]
    BY <1>6 DEF GoOnWith
  <2>2. LoadTypeOK' /\ load'.pc \notin {"idle", "map"}
    BY <1>1, <1>3, <2>1 DEF LoadTypeOK, Pcs
  <2>3. load'.slot = load.slot /\ load'.before = load.before
    BY <1>3, <2>1
  <2>4. OwnTask'
    BY <1>1, <1>2, <2>2, <2>3, KeepsTask DEF LInv
  <2>. QED BY <1>1, <2>2, <2>4
<1>. QED BY <1>4, <1>5, <1>6

(* Following a null pointer leaves the load where it is, for good. *)
LEMMA NullMoves ==
  ASSUME LInv, load.pc # "map", FollowsNull
  PROVE  LoadTypeOK' /\ OwnTask' /\ NewTaskOutOfMemory
<1>1. UNCHANGED <<tasks, order, processes, load>> /\ NewTaskOutOfMemory
  BY DEF FollowsNull, TablesUnchanged, NewTaskOutOfMemory
<1>2. LoadTypeOK'
  BY <1>1 DEF LInv, LoadTypeOK
<1>3. OwnTask'
  BY <1>1, KeepsTask DEF LInv
<1>. QED BY <1>1, <1>2, <1>3

(* fopen with no file open: it fails, or it returns 1. *)
LEMMA OpensFirst ==
  ASSUME LInv, NoFileOpen, NEW path \in Paths, fopen(path, READ)
  PROVE  (response' = 0 /\ NoFileOpen') \/ FirstOpen'
<1>1. 1 \in Ids /\ \A id \in Ids : Free(id) /\ 1 <= id
  BY LoadAssumption, FilesAssumption DEF NoFileOpen, Free, Ids
<1>2. CASE OpenRefused
  BY <1>2 DEF OpenRefused, Refusal, NoFileOpen
<1>3. ASSUME NEW p \in Privates \ allocated, OpenLeaks(path, p)
      PROVE  response' = 0 /\ NoFileOpen'
  BY <1>3 DEF OpenLeaks, Refusal, NoFileOpen
<1>4. ASSUME NEW p \in Privates \ allocated, NEW id \in Ids,
             OpenReturns(path, p, id)
      PROVE  FirstOpen'
  <2>1. PICK file \in Root \cup {NULL}, made \in BOOLEAN :
          /\ Lowest(id)
          /\ file_descriptors' =
               IF made THEN [file_descriptors EXCEPT ![id] = p] ELSE file_descriptors
          /\ response' = id
          /\ held' = held \cup {[fd |-> id, private |-> p, file |-> file, made |-> made]}
    BY <1>4 DEF OpenReturns
  <2>2. id \in Nat /\ id >= 1 /\ id <= 1
    BY <1>1, <2>1, LoadAssumption, FilesAssumption DEF Lowest, Ids
  <2>3. id = 1
    BY <2>2
  <2>4. \E h \in Holder : h.fd = 1 /\ held' = {h}
    <3>1. [fd |-> 1, private |-> p, file |-> file, made |-> made] \in Holder
      BY <1>1 DEF Holder, Ids
    <3>. QED BY <2>1, <2>3, <3>1 DEF NoFileOpen
  <2>5. file_descriptors \in [Ids -> Privates \cup {NULL}]
    BY DEF LInv, FInv, FilesTypeOK
  <2>6. \A i \in Ids \ {1} : file_descriptors'[i] = NULL
    BY <2>1, <2>3, <2>5 DEF NoFileOpen
  <2>. QED BY <2>1, <2>3, <2>4, <2>6 DEF FirstOpen
<1>. QED BY <1>2, <1>3, <1>4 DEF fopen

(* Closing what fopen returned leaves no file open. *)
LEMMA ClosesFile ==
  ASSUME LInv, Reading, ~ wild, CloseFile
  PROVE  NoFileOpen' /\ [FilesNext]_fvars
<1>1. CASE response = 0
  <2>1. NoFileOpen /\ UNCHANGED fvars
    BY <1>1 DEF CloseFile, LInv, OwnFile
  <2>. QED BY <2>1 DEF fvars, NoFileOpen, fvars
<1>2. CASE response # 0
  <2>1. FirstOpen /\ response = 1
    BY <1>2 DEF LInv, OwnFile, FirstOpen
  <2>2. PICK h \in held : h.fd = 1 /\ fclose(h)
    BY <1>2, <2>1 DEF CloseFile
  <2>3. held = {h}
    BY <2>1 DEF FirstOpen
  <2>4. held' = {}
    BY <2>2, <2>3 DEF fclose
  <2>5. file_descriptors \in [Ids -> Privates \cup {NULL}]
    BY DEF LInv, FInv, FilesTypeOK
  <2>6. \A id \in Ids : file_descriptors'[id] = NULL
    <3>1. CASE file_get_descriptor(1) = NULL /\ UNCHANGED file_descriptors
      BY <2>1, <3>1, LoadAssumption, FilesAssumption DEF file_get_descriptor, FirstOpen, Ids
    <3>2. CASE file_descriptors' = Cleared(1)
      BY <2>1, <2>5, <3>2 DEF Cleared, FirstOpen
    <3>. QED BY <2>2, <3>1, <3>2 DEF fclose
  <2>. QED BY <2>2, <2>4, <2>6 DEF FilesNext, NoFileOpen
<1>. QED BY <1>1, <1>2

-----------------------------------------------------------------------------
(* What a failed load leaves visible: nothing. *)
Invisible ==
  load.pc # "idle" /\ load'.pc = "idle" /\ result' # STATUS_OK
    => order' = load.before /\ UNCHANGED <<processes, current_process>>

(* All that is shown of a step of the loader. *)
LStep ==
  /\ [Next]_vars /\ [FilesNext]_fvars
  /\ LoadTypeOK' /\ OwnFile' /\ OwnTask'
  /\ Invisible

LEMMA FilesAlone == UNCHANGED fvars => [FilesNext]_fvars
BY DEF fvars, fvars

LEMMA NoFileKept == NoFileOpen /\ UNCHANGED fvars => NoFileOpen'
BY DEF NoFileOpen, fvars

(* Between two calls of fopen and fclose no file is open. *)
LEMMA NothingRead == LInv /\ ~ Reading => NoFileOpen
BY DEF LInv, OwnFile

(* fopen, in elf_load and in process_load_binary. *)
LEMMA OpensStep ==
  ASSUME LInv, ~ wild, NEW before \in {"elf_open", "binary_open"},
         NEW after \in {"elf_read", "binary_read"}, Opens(before, after)
  PROVE  LStep
<1>1. /\ load.pc = before /\ fopen(load.path, READ) /\ GoTo(after)
      /\ load.path \in Paths /\ NoFileOpen
  BY NothingRead DEF Opens, LInv, LoadTypeOK, Reading
<1>2. LoadTypeOK' /\ OwnTask' /\ UNCHANGED vars
  BY <1>1, LoadMoves DEF Pcs
<1>3. FilesNext
  BY <1>1 DEF FilesNext, Modes
<1>4. load'.pc = after
  BY <1>1 DEF GoTo, LInv, LoadTypeOK
<1>5. OwnFile'
  <2>1. Reading' /\ wild' = wild
    BY <1>2, <1>4 DEF Reading, vars
  <2>2. (response' = 0 /\ NoFileOpen') \/ FirstOpen'
    BY <1>1, OpensFirst
  <2>3. FirstOpen' => response' = 1
    BY DEF FirstOpen
  <2>. QED BY <2>1, <2>2, <2>3 DEF OwnFile
<1>. QED BY <1>2, <1>3, <1>4, <1>5 DEF LStep, Invisible

(* fread and fclose, in elf_load and in process_load_binary. *)
LEMMA ReadStep ==
  ASSUME LInv, ~ wild, ReadElf \/ ReadBinary
  PROVE  LStep
<1>1. Reading /\ CloseFile
  BY DEF ReadElf, ReadBinary, Reading
<1>2. NoFileOpen' /\ [FilesNext]_fvars
  BY <1>1, ClosesFile
<1>3. \/ \E e \in {EIO, ENOMEM} : Fail(e)
      \/ GoTo("binary_open")
      \/ \E image \in Images : GoOnWith(image)
      \/ FollowsNull
  BY DEF ReadElf, ReadBinary, Images
<1>4. CASE FollowsNull
  <2>1. LoadTypeOK' /\ OwnTask' /\ NewTaskOutOfMemory
    BY <1>1, <1>4, NullMoves DEF Reading
  <2>2. load' = load /\ wild'
    BY <1>4 DEF FollowsNull
  <2>3. OwnFile'
    BY <1>2, <2>2 DEF OwnFile
  <2>4. Invisible
    BY <1>1, <2>2 DEF Invisible, Reading
  <2>. QED BY <1>2, <2>1, <2>3, <2>4 DEF LStep, Next
<1>5. CASE ~ FollowsNull
  <2>1. \/ \E e \in {EIO, ENOMEM} : Fail(e)
        \/ \E pc \in Pcs \ {"idle", "map"} : GoTo(pc)
        \/ \E image \in Images : GoOnWith(image)
    BY <1>3, <1>5 DEF Pcs
  <2>2. /\ LoadTypeOK' /\ OwnTask' /\ UNCHANGED vars
        /\ load'.pc = "idle" => order' = load.before
        /\ UNCHANGED <<processes, current_process>>
    BY <1>1, <2>1, LoadMoves DEF Reading
  <2>3. load'.pc \notin {"elf_read", "binary_read"}
    BY <1>3, <1>5, IdleTyped DEF Fail, GoTo, GoOnWith, LInv, LoadTypeOK
  <2>4. OwnFile'
    BY <1>2, <2>3 DEF OwnFile, Reading
  <2>. QED BY <1>2, <2>2, <2>4 DEF LStep, Invisible
<1>. QED BY <1>4, <1>5

(* The user stack. *)
LEMMA StackStep ==
  ASSUME LInv, ~ wild, NewStack
  PROVE  LStep
<1>1. /\ load.pc = "stack" /\ UNCHANGED fvars
      /\ Fail(ENOMEM) \/ GoTo("task")
  BY DEF NewStack
<1>2. /\ LoadTypeOK' /\ OwnTask' /\ UNCHANGED vars
      /\ load'.pc = "idle" => order' = load.before
      /\ UNCHANGED <<processes, current_process>>
  BY <1>1, LoadMoves DEF Pcs
<1>3. load'.pc \notin {"elf_read", "binary_read"}
  BY <1>1, IdleTyped DEF Fail, GoTo, LInv, LoadTypeOK
<1>4. OwnFile'
  BY <1>1, <1>3, NothingRead, NoFileKept DEF OwnFile, Reading
<1>. QED BY <1>1, <1>2, <1>4, FilesAlone DEF LStep, Invisible

(* The task of the process. *)
LEMMA NewTaskStep ==
  ASSUME LInv, ~ wild, NewTask
  PROVE  LStep
<1>1. load.pc = "task" /\ UNCHANGED fvars
  BY DEF NewTask
<1>2. CASE FollowsNull
  <2>1. LoadTypeOK' /\ OwnTask' /\ NewTaskOutOfMemory
    BY <1>1, <1>2, NullMoves
  <2>2. load' = load
    BY <1>2 DEF FollowsNull
  <2>3. OwnFile'
    BY <1>1, <2>2, NothingRead, NoFileKept DEF OwnFile, Reading
  <2>4. Invisible
    BY <1>1, <2>2 DEF Invisible
  <2>. QED BY <1>1, <2>1, <2>3, <2>4, FilesAlone DEF LStep, Next
<1>3. ASSUME NEW t \in Tasks, new_task(t),
             load' = [load EXCEPT !.pc = "map", !.task = t],
             TablesUnchanged
      PROVE  LStep
  <2>1. Next
    BY <1>3 DEF Next
  <2>2. LoadTypeOK' /\ load'.pc = "map"
    <3>1. /\ load \in [pc : Pcs, slot : Slots, path : Paths \cup {NULL},
                        image : Images, task : Tasks \cup {NULL},
                        before : Seq(Tasks)]
          /\ load.path \in Paths
          /\ processes' \in [Slots -> Processes \cup {NULL}]
      BY <1>1, <1>3 DEF LInv, LoadTypeOK, TablesUnchanged
    <3>2. "map" \in Pcs
      BY DEF Pcs
    <3>. QED BY <1>3, <3>1, <3>2 DEF LoadTypeOK
  <2>3. OwnFile'
    BY <1>1, <2>2, NothingRead, NoFileKept DEF OwnFile, Reading
  <2>4. /\ load'.task = t /\ load'.slot = load.slot /\ load'.before = load.before
        /\ processes' = processes
    BY <1>3 DEF LInv, LoadTypeOK, TablesUnchanged
  <2>5. /\ t \notin tasks /\ tasks' = tasks \cup {t} /\ order' = Append(order, t)
    BY <1>3 DEF new_task
  <2>6. Owned' = Owned /\ Loaded' = Loaded
    BY <2>4 DEF Owned, Loaded, FreeSlot
  <2>7. OwnTask'
    BY <1>1, <2>2, <2>4, <2>5, <2>6 DEF LInv, OwnTask, Loaded, FreeSlot
  <2>8. Invisible
    BY <2>2 DEF Invisible
  <2>. QED BY <1>1, <2>1, <2>2, <2>3, <2>7, <2>8, FilesAlone DEF LStep
<1>. QED BY <1>2, <1>3 DEF NewTask

(* While a process is mapped its task is the tail of the list. *)
LEMMA MappedTaskIsTail ==
  ASSUME LInv, load.pc = "map"
  PROVE  /\ load.task = tail /\ load.task \in tasks /\ tail # NULL
         /\ [i \in 1 .. Len(order) - 1 |-> order[i]] = load.before
<1>1. /\ order = Append(load.before, load.task) /\ load.task \in tasks
      /\ load.task \in Tasks /\ load.before \in Seq(Tasks)
  BY DEF LInv, OwnTask, LoadTypeOK
<1>2. /\ Len(order) = Len(load.before) + 1 /\ order[Len(order)] = load.task
      /\ \A i \in 1 .. Len(load.before) : order[i] = load.before[i]
      /\ Len(load.before) \in Nat
  BY <1>1
<1>3. tail = load.task
  BY <1>2, EndsOfList DEF LInv
<1>4. [i \in 1 .. Len(load.before) |-> load.before[i]] = load.before
  BY <1>1
<1>. QED BY <1>1, <1>2, <1>3, <1>4, NullAssumption

(* The process is mapped and entered, or its task is undone. *)
LEMMA MapStep ==
  ASSUME LInv, ~ wild, MapMemory
  PROVE  LStep
<1>1. load.pc = "map" /\ UNCHANGED fvars /\ load' = Idle
  BY DEF MapMemory
<1>2. OwnFile'
  BY <1>1, NothingRead, NoFileKept, IdleTyped DEF OwnFile, Reading
<1>3. /\ load.task \in Tasks \ Owned /\ tasks = Owned \cup {load.task}
      /\ \A s, k \in Loaded : processes[s].task = processes[k].task => s = k
      /\ FreeSlot(load.slot) /\ load.slot \in Slots
      /\ processes \in [Slots -> Processes \cup {NULL}]
      /\ load.image \in Images
  BY <1>1 DEF LInv, OwnTask, LoadTypeOK
<1>4. CASE MapFails
  <2>1. /\ task_free(load.task) /\ UNCHANGED <<processes, current_process>>
    BY <1>4 DEF MapFails, Undo, TablesUnchanged
  <2>2. Next
    BY <1>1, <2>1, MappedTaskIsTail DEF Next
  <2>3. order' = load.before
    BY <1>1, <2>1, MappedTaskIsTail, ShortenedOrder DEF task_free, LInv
  <2>4. LoadTypeOK'
    BY <1>1, <1>3, <2>1, IdleTyped DEF LoadTypeOK
  <2>5. tasks' = Owned
    BY <1>3, <2>1 DEF task_free
  <2>6. Owned' = Owned /\ Loaded' = Loaded
    BY <2>1 DEF Owned, Loaded, FreeSlot
  <2>7. OwnTask'
    BY <1>1, <1>3, <2>1, <2>5, <2>6, IdleTyped DEF OwnTask
  <2>. QED BY <1>1, <1>2, <2>1, <2>2, <2>3, <2>4, <2>7, FilesAlone DEF LStep, Invisible
<1>5. CASE MapSucceeds
  <2>1. /\ processes' = [processes EXCEPT ![load.slot] = LoadedProcess]
        /\ result' = STATUS_OK /\ UNCHANGED vars
    BY <1>5 DEF MapSucceeds
  <2>2. /\ LoadedProcess \in Processes /\ LoadedProcess # NULL
        /\ LoadedProcess.task = load.task
    BY <1>3, LoadAssumption DEF LoadedProcess, Processes
  <2>3. processes' \in [Slots -> Processes \cup {NULL}]
    BY <1>3, <2>1, <2>2
  <2>4. LoadTypeOK'
    BY <1>1, <2>3, IdleTyped DEF LoadTypeOK
  <2>. HIDE DEF LoadedProcess
  <2>5. \A s \in Slots : processes'[s] = IF s = load.slot THEN LoadedProcess
                                         ELSE processes[s]
    BY <1>3, <2>1
  <2>6. Loaded' = Loaded \cup {load.slot} /\ load.slot \notin Loaded
    BY <1>3, <2>2, <2>5 DEF Loaded, FreeSlot
  <2>7. Owned' = Owned \cup {load.task}
    BY <1>3, <2>2, <2>5, <2>6 DEF Owned, Loaded
  <2>8. tasks' = tasks /\ order' = order
    BY <2>1 DEF vars
  <2>9. \A s, k \in Loaded' : processes'[s].task = processes'[k].task => s = k
    <3>1. \A s \in Loaded : processes'[s].task = processes[s].task
                            /\ processes'[s].task # load.task
      BY <1>3, <2>5, <2>6 DEF Owned, Loaded
    <3>2. processes'[load.slot].task = load.task
      BY <1>3, <2>2, <2>5
    <3>. QED BY <1>3, <2>6, <3>1, <3>2
  <2>10. OwnTask'
    BY <1>1, <1>3, <2>7, <2>8, <2>9, IdleTyped DEF OwnTask
  <2>11. Invisible
    BY <2>1 DEF Invisible
  <2>. QED BY <1>1, <1>2, <2>1, <2>4, <2>10, <2>11, FilesAlone DEF LStep
<1>. QED BY <1>4, <1>5 DEF MapMemory

(* The beginning of a load. *)
LEMMA LoadStep ==
  ASSUME LInv, ~ wild, NEW path \in Paths, process_load(path)
  PROVE  LStep
<1>1. load.pc = "idle" /\ UNCHANGED fvars /\ NoFileOpen
  BY NothingRead DEF process_load, Reading
<1>2. UNCHANGED vars /\ UNCHANGED <<processes, current_process>>
  BY DEF process_load, Fail, TablesUnchanged
<1>3. UNCHANGED <<tasks, order>>
  BY <1>2 DEF vars
<1>4. /\ order \in Seq(Tasks) /\ processes \in [Slots -> Processes \cup {NULL}]
  BY DEF LInv, TaskInv, TypeOK, LoadTypeOK
<1>5. Owned' = Owned /\ Loaded' = Loaded
  BY <1>2 DEF Owned, Loaded, FreeSlot
<1>6. CASE load' = Idle
  <2>1. LoadTypeOK'
    BY <1>2, <1>4, <1>6, IdleTyped DEF LoadTypeOK
  <2>2. OwnTask'
    BY <1>1, <1>2, <1>3, <1>5, <1>6, IdleTyped DEF LInv, OwnTask
  <2>3. OwnFile'
    BY <1>1, <1>6, NoFileKept, IdleTyped DEF OwnFile, Reading
  <2>. QED BY <1>1, <1>2, <2>1, <2>2, <2>3, FilesAlone DEF LStep, Invisible
<1>7. ASSUME NEW s \in Slots, LowestSlot(s),
             load' = [Idle EXCEPT !.pc = "elf_open", !.slot = s, !.path = path,
                                  !.before = order]
      PROVE  LStep
  <2>1. LoadTypeOK' /\ load'.pc = "elf_open" /\ load'.slot = s /\ load'.before = order
    BY <1>2, <1>4, <1>7, IdleTyped DEF LoadTypeOK, Pcs
  <2>2. FreeSlot(s)'
    BY <1>2, <1>7 DEF LowestSlot, FreeSlot
  <2>3. OwnTask'
    BY <1>1, <1>2, <1>3, <1>5, <2>1, <2>2 DEF LInv, OwnTask, FreeSlot
  <2>4. OwnFile'
    BY <1>1, <2>1, NoFileKept DEF OwnFile, Reading
  <2>. QED BY <1>1, <1>2, <2>1, <2>3, <2>4, FilesAlone DEF LStep, Invisible
<1>. QED BY <1>6, <1>7 DEF process_load, Fail

(* Between loads the disk is brought up, or the first task is run. *)
LEMMA BetweenStep ==
  ASSUME LInv, ~ wild, Boot \/ RunFirst
  PROVE  LStep
<1>1. load.pc = "idle" /\ UNCHANGED <<processes, current_process, load>> /\ NoFileOpen
  BY NothingRead DEF Boot, RunFirst, Reading
<1>2. UNCHANGED <<tasks, order>>
  BY DEF Boot, RunFirst, vars, first_task_run
<1>3. LoadTypeOK'
  BY <1>1 DEF LInv, LoadTypeOK
<1>4. OwnTask'
  BY <1>1, <1>2, KeepsTask DEF LInv
<1>5. NoFileOpen'
  BY <1>1, NoFileKept DEF Boot, RunFirst, fs_resolve, NoFileOpen
<1>6. OwnFile'
  BY <1>1, <1>5 DEF OwnFile, Reading
<1>7. [Next]_vars /\ [FilesNext]_fvars
  BY FilesAlone DEF Boot, RunFirst, Next, FilesNext
<1>8. Invisible
  BY <1>1 DEF Invisible
<1>. QED BY <1>3, <1>4, <1>6, <1>7, <1>8 DEF LStep

-----------------------------------------------------------------------------
(* Every step of the loader is one of its tables, and keeps the invariant. *)
LEMMA LoaderStep ==
  ASSUME LInv, [LNext]_lvars
  PROVE  LStep
<1>1. CASE UNCHANGED lvars
  <2>1. /\ UNCHANGED vars /\ UNCHANGED fvars
        /\ UNCHANGED <<processes, current_process, load>>
    BY <1>1 DEF lvars
  <2>2. UNCHANGED <<tasks, order, wild>>
    BY <2>1 DEF vars
  <2>3. LoadTypeOK'
    BY <2>1 DEF LInv, LoadTypeOK
  <2>4. OwnTask'
    BY <2>1, <2>2 DEF LInv, OwnTask, Owned, Loaded, FreeSlot
  <2>5. OwnFile'
    BY <2>1, <2>2 DEF fvars, LInv, OwnFile, FirstOpen, NoFileOpen, Reading
  <2>6. Invisible
    BY <2>1 DEF Invisible
  <2>. QED BY <2>1, <2>3, <2>4, <2>5, <2>6, FilesAlone DEF LStep
<1>2. CASE ~ wild /\ (Boot \/ RunFirst)
  BY <1>2, BetweenStep
<1>3. ASSUME ~ wild, NEW path \in Paths, process_load(path) PROVE LStep
  BY <1>3, LoadStep
<1>4. CASE ~ wild /\ (Opens("elf_open", "elf_read") \/ Opens("binary_open", "binary_read"))
  BY <1>4, OpensStep
<1>5. CASE ~ wild /\ (ReadElf \/ ReadBinary)
  BY <1>5, ReadStep
<1>6. CASE ~ wild /\ NewStack
  BY <1>6, StackStep
<1>7. CASE ~ wild /\ NewTask
  BY <1>7, NewTaskStep
<1>8. CASE ~ wild /\ MapMemory
  BY <1>8, MapStep
<1>. QED BY <1>1, <1>2, <1>3, <1>4, <1>5, <1>6, <1>7, <1>8 DEF LNext

(* The invariant holds before the first load. *)
LEMMA InitLInv == LInit => LInv
<1>. SUFFICES ASSUME LInit PROVE LInv
  OBVIOUS
<1>1. TaskInv
  BY InitTaskInv DEF LInit
<1>2. FInv
  BY InitFInv DEF LInit
<1>3. processes = [s \in Slots |-> NULL] /\ load = Idle
  BY DEF LInit
<1>4. LoadTypeOK
  BY <1>3, IdleTyped DEF LoadTypeOK
<1>5. Loaded = {} /\ Owned = {}
  <2>1. Loaded = {}
    BY <1>3 DEF Loaded, FreeSlot
  <2>. QED BY <2>1 DEF Owned
<1>6. OwnTask
  BY <1>3, <1>5, IdleTyped DEF OwnTask, LInit, Init
<1>7. OwnFile
  BY <1>3, IdleTyped DEF OwnFile, Reading, NoFileOpen, LInit, FilesInit
<1>. QED BY <1>1, <1>2, <1>4, <1>6, <1>7 DEF LInv

(* A step of the loader keeps the whole invariant: LoaderStep its own      *)
(* parts, the lemmas about the tables theirs.                              *)
LEMMA LInvInductive ==
  ASSUME LInv, [LNext]_lvars
  PROVE  LInv'
<1>1. LStep
  BY LoaderStep
<1>2. TaskInv'
  BY <1>1, TaskInvInductive DEF LStep, LInv
<1>3. FInv'
  BY <1>1, FInvInductive DEF LStep, LInv
<1>. QED BY <1>1, <1>2, <1>3 DEF LStep, LInv

(***************************************************************************)
(* Every execution of process_load_switch, with whatever failing, keeps    *)
(* one file open at most and every task owned by one process or in the     *)
(* load in progress.                                                       *)
(***************************************************************************)
THEOREM LoadInvariant == LSpec => []LInv
<1>1. LInv /\ [LNext]_lvars => LInv'
  BY LInvInductive
<1>. QED BY <1>1, InitLInv, PTL DEF LSpec

(***************************************************************************)
(* Between loads each task belongs to exactly one process: the rollback of *)
(* process_load_for_slot takes back the task of the load that failed, no   *)
(* other.                                                                  *)
(***************************************************************************)
THEOREM LoadOneTaskEach == LSpec => []OneTaskEach
<1>1. LInv => OneTaskEach
  BY DEF LInv, OwnTask, Owned, OneTaskEach
<1>. QED BY <1>1, LoadInvariant, PTL

(***************************************************************************)
(* Between loads no descriptor is in use: every way out of elf_load and    *)
(* process_load_binary passes the fclose.                                  *)
(***************************************************************************)
THEOREM LoadKeepsNoFile == LSpec => []LoaderKeepsNoFile
<1>1. LInv => LoaderKeepsNoFile
  BY DEF LInv, OwnFile, NoFileOpen, Reading, LoaderKeepsNoFile, Ids
<1>. QED BY <1>1, LoadInvariant, PTL

(***************************************************************************)
(* A load that fails leaves the process table, the current process and the *)
(* list of tasks as it found them.                                         *)
(***************************************************************************)
THEOREM FailedLoadInvisible == LSpec => FailedLoadIsInvisible
<1>1. LInv /\ [LNext]_lvars => Invisible
  BY LoaderStep DEF LStep
<1>2. LInv /\ [LNext]_lvars
        => [load.pc # "idle" /\ load'.pc = "idle" /\ result' # STATUS_OK
              => /\ order' = load.before
                 /\ UNCHANGED <<processes, current_process>>]_lvars
  BY <1>1 DEF Invisible
<1>. QED BY <1>2, LoadInvariant, PTL DEF LSpec, FailedLoadIsInvisible

(***************************************************************************)
(* The loader uses the list of tasks and the table of descriptors only by  *)
(* their own operations and in orders they allow: what is proved of them   *)
(* under their own specifications holds under the loader.                  *)
(***************************************************************************)
THEOREM LoadDrivesTables == LSpec => LoaderDrivesTables
<1>1. LInit => Init /\ FilesInit
  BY DEF LInit
<1>2. LInv /\ [LNext]_lvars => [Next]_vars
  BY LoaderStep DEF LStep
<1>3. LInv /\ [LNext]_lvars => [FilesNext]_fvars
  BY LoaderStep DEF LStep
<1>. QED BY <1>1, <1>2, <1>3, LoadInvariant, PTL DEF LSpec, LoaderDrivesTables, Spec, FilesSpec

(* The list of tasks stays sound under every sequence of loads. *)
THEOREM LoadListIsSound == LSpec => []ListIsSound
BY LoadDrivesTables, TaskListIsSound, PTL DEF LoaderDrivesTables

(***************************************************************************)
(* The table of descriptors stays sound under the loader too: a file it    *)
(* reads is the one it opened.                                             *)
(***************************************************************************)
THEOREM LoadFilesSound == LSpec => [](PrivatesExclusive /\ HolderReachesFile)
<1>1. LInv => PrivatesExclusive
  BY DEF LInv, FInv
<1>2. LInv => HolderReachesFile
  BY ReachesFile DEF LInv
<1>. QED BY <1>1, <1>2, LoadInvariant, PTL
=============================================================================
