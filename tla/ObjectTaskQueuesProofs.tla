----------------------- MODULE ObjectTaskQueuesProofs -----------------------
(***************************************************************************)
(* Proofs about the task queues of objects, for any number of objects, any *)
(* pointers between them, any number of saves and any outcome of them; and *)
(* what the command cache promises, whatever its constants.                *)
(***************************************************************************)
EXTENDS MCQueues, SequenceTheorems, FiniteSetTheorems, TLAPS

-----------------------------------------------------------------------------
(* The list of tasks.  What the waves of a task hold comes further below.   *)

Fields == {"kind", "objects", "phase", "waves", "batch", "taken", "ok"}

TaskList ==
  /\ tasks \in Seq(Range(tasks))
  /\ \A t \in DOMAIN tasks : DOMAIN tasks[t] = Fields

\* Task t gets to phase p, and every other stays where it is.
Advances(t, p) ==
  /\ Len(tasks') = Len(tasks) /\ DOMAIN tasks' = DOMAIN tasks
  /\ \A u \in DOMAIN tasks : /\ tasks'[u].kind = tasks[u].kind
                             /\ tasks'[u].objects = tasks[u].objects
                             /\ tasks'[u].phase = IF u = t THEN p ELSE tasks[u].phase

LEMMA ReplaceTask ==
  ASSUME TaskList, NEW t \in DOMAIN tasks, NEW r, DOMAIN r = Fields,
         r.kind = tasks[t].kind, r.objects = tasks[t].objects,
         tasks' = [tasks EXCEPT ![t] = r]
  PROVE  TaskList' /\ Advances(t, r.phase)
<1> DEFINE S == Range(tasks) \union {r}
<1>1. tasks \in Seq(S) /\ r \in S
  BY SeqMonotonic DEF TaskList
<1> HIDE DEF S
<1>2. DOMAIN tasks = 1 .. Len(tasks) /\ Len(tasks) \in Nat
  BY <1>1, LenProperties
<1>3. tasks' \in Seq(S) /\ Len(tasks') = Len(tasks)
  BY <1>1, <1>2, ExceptSeq
<1>4. tasks' \in Seq(Range(tasks'))
  BY <1>3, SeqOfRange
<1>5. DOMAIN tasks' = DOMAIN tasks /\ \A u \in DOMAIN tasks : tasks'[u] = IF u = t THEN r ELSE tasks[u]
  OBVIOUS
<1>6. QED
  BY <1>3, <1>4, <1>5 DEF TaskList, Advances

\* A task of kind k for the objects of S is added, in phase p.
Adds(k, S, p) ==
  /\ DOMAIN tasks' = DOMAIN tasks \union {Len(tasks) + 1} /\ Len(tasks) + 1 \notin DOMAIN tasks
  /\ \A u \in DOMAIN tasks : /\ tasks'[u].kind = tasks[u].kind
                             /\ tasks'[u].objects = tasks[u].objects
                             /\ tasks'[u].phase = tasks[u].phase
  /\ tasks'[Len(tasks) + 1].kind = k
  /\ tasks'[Len(tasks) + 1].objects = S
  /\ tasks'[Len(tasks) + 1].phase = p

LEMMA AppendTask ==
  ASSUME TaskList, NEW list, list \in Seq(Range(list)), DOMAIN list = DOMAIN tasks,
         Len(list) = Len(tasks),
         \A u \in DOMAIN tasks : /\ DOMAIN list[u] = Fields
                                /\ list[u].kind = tasks[u].kind
                                /\ list[u].objects = tasks[u].objects
                                /\ list[u].phase = tasks[u].phase,
         NEW r, DOMAIN r = Fields,
         tasks' = Append(list, r)
  PROVE  TaskList' /\ Adds(r.kind, r.objects, r.phase)
<1> DEFINE S == Range(list) \union {r}
<1>1. list \in Seq(S) /\ r \in S
  BY SeqMonotonic
<1> HIDE DEF S
<1>2. DOMAIN list = 1 .. Len(list) /\ Len(list) \in Nat
  BY <1>1, LenProperties
<1>3. /\ tasks' \in Seq(S) /\ Len(tasks') = Len(list) + 1
      /\ \A i \in 1 .. Len(list) : tasks'[i] = list[i]
      /\ tasks'[Len(list) + 1] = r
  BY <1>1, AppendProperties
<1>4. tasks' \in Seq(Range(tasks')) /\ DOMAIN tasks' = 1 .. Len(tasks')
  BY <1>3, SeqOfRange, LenProperties
<1>5. DOMAIN tasks' = DOMAIN tasks \union {Len(tasks) + 1} /\ Len(tasks) + 1 \notin DOMAIN tasks
  BY <1>2, <1>3, <1>4
<1>6. QED
  BY <1>2, <1>3, <1>4, <1>5 DEF TaskList, Adds

-----------------------------------------------------------------------------
(* The inductive invariant.                                                 *)

InQueue == {"queued", "children", "sent"}

\* Every queue that t is in has t at its head.
AtHead(t) ==
  \A o \in tasks[t].objects \intersect Objects : queue[o] # <<>> /\ Head(queue[o]) = t

\* A save is of one object; the waves of a saveAll are in no queue themselves;
\* a batch has no waves.
KindsOfTasks ==
  \A t \in DOMAIN tasks :
    /\ tasks[t].phase = "children" => tasks[t].kind \in {"save", "saveAll"}
    /\ tasks[t].kind = "save" => \E o \in Objects : tasks[t].objects = {o}
    /\ tasks[t].kind = "saveAll" => tasks[t].objects = {}

\* A queue holds the unfinished tasks of its object, each of them once.
QueuesHoldTasks ==
  /\ queue \in [Objects -> Seq(Nat)]
  /\ \A o \in Objects : \A i \in DOMAIN queue[o] :
       /\ queue[o][i] \in DOMAIN tasks
       /\ o \in tasks[queue[o][i]].objects /\ tasks[queue[o][i]].phase \in InQueue
       /\ \A j \in DOMAIN queue[o] : queue[o][i] = queue[o][j] => i = j
  /\ \A t \in DOMAIN tasks : tasks[t].phase \in InQueue =>
       \A o \in tasks[t].objects \intersect Objects : \E i \in DOMAIN queue[o] : queue[o][i] = t

RunningAtHead == \A t \in DOMAIN tasks : Running(t) => AtHead(t)

TaskInv ==
  /\ TaskList
  /\ KindsOfTasks
  /\ QueuesHoldTasks
  /\ RunningAtHead
  /\ SameOrderInAllQueues

-----------------------------------------------------------------------------
(* Each kind of step keeps it.                                              *)

\* A task that stays in its queues, or is in none, gets on.
LEMMA AdvanceKeeps ==
  ASSUME TaskInv, NEW t \in DOMAIN tasks, NEW p, TaskList', Advances(t, p), queue' = queue,
         \/ tasks[t].objects \intersect Objects = {}
         \/ tasks[t].phase \in InQueue /\ p \in InQueue /\ (p # "queued" => AtHead(t)),
         p = "children" => tasks[t].kind \in {"save", "saveAll"}
  PROVE  TaskInv'
<1>1. KindsOfTasks'
  BY DEF TaskInv, Advances, KindsOfTasks
<1>2. QueuesHoldTasks'
  <2>1. ASSUME NEW o \in Objects, NEW i \in DOMAIN queue[o]
        PROVE  /\ queue[o][i] \in DOMAIN tasks'
               /\ o \in tasks'[queue[o][i]].objects /\ tasks'[queue[o][i]].phase \in InQueue
    <3>1. /\ queue[o][i] \in DOMAIN tasks
          /\ o \in tasks[queue[o][i]].objects /\ tasks[queue[o][i]].phase \in InQueue
      BY DEF TaskInv, QueuesHoldTasks
    <3>2. QED
      BY <3>1 DEF Advances
  <2>2. ASSUME NEW u \in DOMAIN tasks', tasks'[u].phase \in InQueue,
               NEW o \in tasks'[u].objects \intersect Objects
        PROVE  \E i \in DOMAIN queue[o] : queue[o][i] = u
    <3>1. u \in DOMAIN tasks /\ o \in tasks[u].objects /\ o \in Objects
          /\ tasks[u].phase \in InQueue
      BY <2>2 DEF Advances
    <3>2. QED
      BY <3>1 DEF TaskInv, QueuesHoldTasks
  <2>3. QED
    BY <2>1, <2>2 DEF TaskInv, QueuesHoldTasks, InQueue
<1>3. RunningAtHead'
  BY DEF TaskInv, Advances, RunningAtHead, AtHead, Running, InQueue
<1>4. SameOrderInAllQueues'
  BY DEF TaskInv, SameOrderInAllQueues
<1>5. QED
  BY <1>1, <1>2, <1>3, <1>4 DEF TaskInv

\* A new task is in no queue yet, or in none ever.
LEMMA AddKeeps ==
  ASSUME TaskInv, NEW k, NEW S, NEW p, TaskList', Adds(k, S, p), queue' = queue,
         p = "locking" \/ S = {},
         k = "save" => \E o \in Objects : S = {o},
         k = "saveAll" => S = {},
         p = "children" => k \in {"save", "saveAll"}
  PROVE  TaskInv'
<1>1. KindsOfTasks'
  BY DEF TaskInv, Adds, KindsOfTasks
<1>2. QueuesHoldTasks'
  <2>1. ASSUME NEW o \in Objects, NEW i \in DOMAIN queue[o]
        PROVE  /\ queue[o][i] \in DOMAIN tasks'
               /\ o \in tasks'[queue[o][i]].objects /\ tasks'[queue[o][i]].phase \in InQueue
    BY DEF TaskInv, Adds, QueuesHoldTasks
  <2>2. ASSUME NEW u \in DOMAIN tasks', tasks'[u].phase \in InQueue,
               NEW o \in tasks'[u].objects \intersect Objects
        PROVE  \E i \in DOMAIN queue[o] : queue[o][i] = u
    <3>1. u # Len(tasks) + 1
      BY <2>2 DEF Adds, InQueue
    <3>2. QED
      BY <2>2, <3>1 DEF TaskInv, Adds, QueuesHoldTasks
  <2>3. QED
    BY <2>1, <2>2 DEF TaskInv, QueuesHoldTasks, InQueue
<1>3. RunningAtHead'
  BY DEF TaskInv, Adds, RunningAtHead, AtHead, Running
<1>4. SameOrderInAllQueues'
  BY DEF TaskInv, SameOrderInAllQueues
<1>5. QED
  BY <1>1, <1>2, <1>3, <1>4 DEF TaskInv

\* A task at the head of its queues ends and leaves them.
LEMMA LeaveKeeps ==
  ASSUME TaskInv, NEW t \in DOMAIN tasks, TaskList', Advances(t, "done"),
         tasks[t].phase \in InQueue, AtHead(t),
         queue' = [o \in Objects |-> IF o \in tasks[t].objects THEN Tail(queue[o]) ELSE queue[o]]
  PROVE  TaskInv'
<1>1. KindsOfTasks'
  BY DEF TaskInv, Advances, KindsOfTasks
<1>2. ASSUME NEW o \in Objects
      PROVE  queue[o] \in Seq(Nat) /\ Len(queue[o]) \in Nat /\ DOMAIN queue[o] = 1 .. Len(queue[o])
  BY LenProperties DEF TaskInv, QueuesHoldTasks
<1>3. ASSUME NEW o \in Objects, o \notin tasks[t].objects
      PROVE  /\ queue'[o] = queue[o]
             /\ \A i \in DOMAIN queue[o] : queue[o][i] # t
  BY <1>3 DEF TaskInv, QueuesHoldTasks
<1>4. ASSUME NEW o \in Objects, o \in tasks[t].objects
      PROVE  /\ queue'[o] \in Seq(Nat) /\ DOMAIN queue'[o] = 1 .. (Len(queue[o]) - 1)
             /\ queue[o] # <<>> /\ 1 \in DOMAIN queue[o] /\ queue[o][1] = t
             /\ \A i \in DOMAIN queue'[o] : i + 1 \in DOMAIN queue[o] /\ queue'[o][i] = queue[o][i + 1]
  <2>1. queue'[o] = Tail(queue[o]) /\ queue[o] # <<>> /\ Head(queue[o]) = t
    BY <1>4 DEF AtHead
  <2>2. /\ Tail(queue[o]) \in Seq(Nat) /\ Len(Tail(queue[o])) = Len(queue[o]) - 1
        /\ \A i \in 1 .. Len(Tail(queue[o])) : Tail(queue[o])[i] = queue[o][i + 1]
    BY <1>2, <2>1, HeadTailProperties
  <2>3. DOMAIN Tail(queue[o]) = 1 .. Len(Tail(queue[o]))
    BY <2>2, LenProperties
  <2>4. Len(queue[o]) # 0
    BY <1>2, <2>1, EmptySeq
  <2>5. queue[o] \in Seq(Nat) /\ Len(queue[o]) \in Nat /\ DOMAIN queue[o] = 1 .. Len(queue[o])
    BY <1>2
  <2>6. 1 \in DOMAIN queue[o] /\ queue[o][1] = t
    BY <2>1, <2>4, <2>5
  <2>7. DOMAIN queue'[o] = 1 .. (Len(queue[o]) - 1)
    BY <2>1, <2>2, <2>3
  <2>8. ASSUME NEW i \in DOMAIN queue'[o]
        PROVE  i + 1 \in DOMAIN queue[o] /\ queue'[o][i] = queue[o][i + 1]
    BY <2>1, <2>2, <2>5, <2>7
  <2>9. QED
    BY <2>1, <2>2, <2>6, <2>7, <2>8
<1>5. ASSUME NEW o \in Objects, NEW i \in DOMAIN queue'[o]
      PROVE  /\ queue'[o][i] # t
             /\ \E j \in DOMAIN queue[o] : queue[o][j] = queue'[o][i]
  <2>1. CASE o \notin tasks[t].objects
    BY <1>3, <1>5, <2>1
  <2>2. CASE o \in tasks[t].objects
    <3>1. i + 1 # 1 /\ i \in Nat
      BY <1>2, <1>4, <1>5, <2>2
    <3>2. QED
      BY <1>4, <1>5, <2>2, <3>1 DEF TaskInv, QueuesHoldTasks
  <2>3. QED
    BY <2>1, <2>2
<1>6. queue' \in [Objects -> Seq(Nat)]
  BY <1>2, <1>3, <1>4
<1>7. ASSUME NEW o \in Objects, NEW i \in DOMAIN queue'[o], NEW j \in DOMAIN queue'[o],
             queue'[o][i] = queue'[o][j]
      PROVE  i = j
  <2>1. CASE o \notin tasks[t].objects
    BY <1>3, <1>7, <2>1 DEF TaskInv, QueuesHoldTasks
  <2>2. CASE o \in tasks[t].objects
    <3>1. i \in Nat /\ j \in Nat
      BY <1>2, <1>4, <1>7, <2>2
    <3>2. /\ i + 1 \in DOMAIN queue[o] /\ j + 1 \in DOMAIN queue[o]
          /\ queue[o][i + 1] = queue[o][j + 1]
      BY <1>4, <1>7, <2>2
    <3>3. i + 1 = j + 1
      BY <3>2 DEF TaskInv, QueuesHoldTasks
    <3>4. QED
      BY <3>1, <3>3
  <2>3. QED
    BY <2>1, <2>2
<1>8. ASSUME NEW u \in DOMAIN tasks, u # t, tasks[u].phase \in InQueue,
             NEW o \in tasks[u].objects \intersect Objects
      PROVE  \E i \in DOMAIN queue'[o] : queue'[o][i] = u
  <2>1. PICK k \in DOMAIN queue[o] : queue[o][k] = u
    BY <1>8 DEF TaskInv, QueuesHoldTasks
  <2>2. CASE o \notin tasks[t].objects
    BY <1>3, <2>1, <2>2
  <2>3. CASE o \in tasks[t].objects
    <3>1. k \in 1 .. Len(queue[o]) /\ k # 1 /\ Len(queue[o]) \in Nat
      BY <1>2, <1>4, <1>8, <2>1, <2>3
    <3>2. k - 1 \in DOMAIN queue'[o] /\ (k - 1) + 1 = k
      BY <1>4, <2>3, <3>1
    <3>3. queue'[o][k - 1] = u
      BY SMTT(30), <1>4, <2>1, <2>3, <3>2
    <3>4. QED
      BY <3>2, <3>3
  <2>4. QED
    BY <2>2, <2>3
<1>9. QueuesHoldTasks'
  <2>1. ASSUME NEW o \in Objects, NEW i \in DOMAIN queue'[o]
        PROVE  /\ queue'[o][i] \in DOMAIN tasks'
               /\ o \in tasks'[queue'[o][i]].objects /\ tasks'[queue'[o][i]].phase \in InQueue
    <3>1. queue'[o][i] # t
      BY <1>5, <2>1
    <3>2. PICK j \in DOMAIN queue[o] : queue[o][j] = queue'[o][i]
      BY <1>5, <2>1
    <3>3. /\ queue[o][j] \in DOMAIN tasks
          /\ o \in tasks[queue[o][j]].objects /\ tasks[queue[o][j]].phase \in InQueue
      BY DEF TaskInv, QueuesHoldTasks
    <3>4. QED
      BY <3>1, <3>2, <3>3 DEF Advances
  <2>2. ASSUME NEW u \in DOMAIN tasks', tasks'[u].phase \in InQueue,
               NEW o \in tasks'[u].objects \intersect Objects
        PROVE  \E i \in DOMAIN queue'[o] : queue'[o][i] = u
    <3>1. u # t
      BY <2>2 DEF Advances, InQueue
    <3>2. QED
      BY <1>8, <2>2, <3>1 DEF Advances
  <2>3. QED
    <3>1. \A o \in Objects : \A i \in DOMAIN queue'[o] :
             /\ queue'[o][i] \in DOMAIN tasks'
             /\ o \in tasks'[queue'[o][i]].objects /\ tasks'[queue'[o][i]].phase \in InQueue
             /\ \A j \in DOMAIN queue'[o] : queue'[o][i] = queue'[o][j] => i = j
      <4>1. TAKE o \in Objects
      <4>2. TAKE i \in DOMAIN queue'[o]
      <4>3. \A j \in DOMAIN queue'[o] : queue'[o][i] = queue'[o][j] => i = j
        BY <1>7
      <4>4. QED
        BY <2>1, <4>3
    <3>2. \A u \in DOMAIN tasks' : tasks'[u].phase \in InQueue =>
             \A o \in tasks'[u].objects \intersect Objects : \E i \in DOMAIN queue'[o] : queue'[o][i] = u
      BY <2>2
    <3>3. QED
      BY <1>6, <3>1, <3>2 DEF QueuesHoldTasks, InQueue
<1>10. RunningAtHead'
  <2>1. SUFFICES ASSUME NEW u \in DOMAIN tasks', Running(u)',
                        NEW o \in tasks'[u].objects \intersect Objects
                 PROVE  queue'[o] # <<>> /\ Head(queue'[o]) = u
    BY DEF RunningAtHead, AtHead
  <2>2. u # t /\ u \in DOMAIN tasks /\ Running(u) /\ o \in tasks[u].objects /\ o \in Objects
    BY <2>1 DEF Advances, Running
  <2>3. queue[o] # <<>> /\ Head(queue[o]) = u
    BY <2>2 DEF TaskInv, RunningAtHead, AtHead
  <2>4. o \notin tasks[t].objects
    BY <2>2, <2>3 DEF AtHead
  <2>5. QED
    BY <1>3, <2>2, <2>3, <2>4
<1>11. SameOrderInAllQueues'
  <2> DEFINE Shift(o) == IF o \in tasks[t].objects THEN 1 ELSE 0
  <2>1. ASSUME NEW o \in Objects, NEW m \in DOMAIN queue'[o]
        PROVE  m \in Nat /\ m + Shift(o) \in DOMAIN queue[o] /\ queue'[o][m] = queue[o][m + Shift(o)]
    <3>1. CASE o \in tasks[t].objects
      BY <1>2, <1>4, <2>1, <3>1
    <3>2. CASE o \notin tasks[t].objects
      <4>1. queue'[o] = queue[o] /\ m \in Nat /\ m + Shift(o) = m
        BY <1>2, <1>3, <2>1, <3>2
      <4>2. QED
        BY <4>1, <2>1
    <3>3. QED
      BY <3>1, <3>2
  <2>2. \A o \in Objects : Shift(o) \in Nat
    OBVIOUS
  <2> HIDE DEF Shift
  <2>3. \A a, b \in Objects :
          \A i, j \in DOMAIN queue'[a] : \A k, l \in DOMAIN queue'[b] :
            (queue'[a][i] = queue'[b][k] /\ queue'[a][j] = queue'[b][l]) => (i < j <=> k < l)
    <3>1. TAKE a, b \in Objects
    <3>2. TAKE i, j \in DOMAIN queue'[a]
    <3>3. TAKE k, l \in DOMAIN queue'[b]
    <3>4. HAVE queue'[a][i] = queue'[b][k] /\ queue'[a][j] = queue'[b][l]
    <3>5. /\ i + Shift(a) \in DOMAIN queue[a] /\ j + Shift(a) \in DOMAIN queue[a]
          /\ k + Shift(b) \in DOMAIN queue[b] /\ l + Shift(b) \in DOMAIN queue[b]
          /\ queue[a][i + Shift(a)] = queue[b][k + Shift(b)]
          /\ queue[a][j + Shift(a)] = queue[b][l + Shift(b)]
      BY <2>1, <3>4
    <3>6. i + Shift(a) < j + Shift(a) <=> k + Shift(b) < l + Shift(b)
      BY <3>5 DEF TaskInv, SameOrderInAllQueues
    <3>7. {i, j, k, l, Shift(a), Shift(b)} \subseteq Nat
      BY <2>1, <2>2
    <3>8. QED
      BY <3>6, <3>7
  <2>4. QED
    BY <2>3, Zenon DEF SameOrderInAllQueues
<1>12. QED
  BY <1>1, <1>9, <1>10, <1>11 DEF TaskInv

\* A task with all its mutexes enters its queues, last in each.
LEMMA EnqueueKeeps ==
  ASSUME TaskInv, NEW t \in DOMAIN tasks, TaskList', Advances(t, "queued"),
         tasks[t].phase = "locking",
         queue' = [o \in Objects |-> IF o \in tasks[t].objects THEN Append(queue[o], t)
                                                               ELSE queue[o]]
  PROVE  TaskInv'
<1> DEFINE Last(o) == Len(queue[o]) + 1
<1>1. KindsOfTasks'
  BY DEF TaskInv, Advances, KindsOfTasks
<1>2. t \in Nat
  BY LenProperties DEF TaskInv, TaskList
<1>3. ASSUME NEW o \in Objects
      PROVE  /\ queue[o] \in Seq(Nat) /\ Len(queue[o]) \in Nat
             /\ DOMAIN queue[o] = 1 .. Len(queue[o])
             /\ \A i \in DOMAIN queue[o] : queue[o][i] # t
  <2>1. queue[o] \in Seq(Nat) /\ \A i \in DOMAIN queue[o] : tasks[queue[o][i]].phase \in InQueue
    BY DEF TaskInv, QueuesHoldTasks
  <2>2. QED
    BY <2>1, LenProperties DEF InQueue
<1>4. ASSUME NEW o \in Objects, o \in tasks[t].objects
      PROVE  /\ queue'[o] \in Seq(Nat) /\ DOMAIN queue'[o] = 1 .. Last(o)
             /\ queue'[o][Last(o)] = t
             /\ \A i \in DOMAIN queue[o] : queue'[o][i] = queue[o][i]
  <2>1. queue'[o] = Append(queue[o], t) /\ queue[o] \in Seq(Nat)
        /\ DOMAIN queue[o] = 1 .. Len(queue[o])
    BY <1>3, <1>4
  <2>2. QED
    BY <1>2, <2>1, AppendProperties, LenProperties
<1>5. ASSUME NEW o \in Objects, o \notin tasks[t].objects
      PROVE  queue'[o] = queue[o]
  BY <1>5
<1>6. queue' \in [Objects -> Seq(Nat)]
  BY <1>3, <1>4, <1>5
<1>7. ASSUME NEW o \in Objects, NEW m \in DOMAIN queue'[o]
      PROVE  /\ m \in Nat
             /\ \/ m \in DOMAIN queue[o] /\ m < Last(o) /\ queue'[o][m] = queue[o][m] /\ queue'[o][m] # t
                \/ m = Last(o) /\ queue'[o][m] = t /\ o \in tasks[t].objects
  <2>1. queue[o] \in Seq(Nat) /\ Len(queue[o]) \in Nat /\ DOMAIN queue[o] = 1 .. Len(queue[o])
    BY <1>3
  <2>2. CASE o \in tasks[t].objects
    <3>1. m \in 1 .. Last(o)
      BY <1>4, <1>7, <2>2
    <3>2. CASE m = Last(o)
      BY <1>4, <2>1, <2>2, <3>2
    <3>3. CASE m # Last(o)
      <4>1. m \in DOMAIN queue[o] /\ m < Last(o)
        BY <2>1, <3>1, <3>3
      <4>2. queue'[o][m] = queue[o][m] /\ queue[o][m] # t
        BY <1>3, <1>4, <2>2, <4>1
      <4>3. QED
        BY <2>1, <4>1, <4>2
    <3>4. QED
      BY <3>2, <3>3
  <2>3. CASE o \notin tasks[t].objects
    <3>1. queue'[o] = queue[o] /\ m \in 1 .. Len(queue[o])
      BY <1>5, <1>7, <2>1, <2>3
    <3>2. queue[o][m] # t
      BY <1>3, <2>1, <3>1
    <3>3. QED
      BY <2>1, <3>1, <3>2
  <2>4. QED
    BY <2>2, <2>3
<1>8. QueuesHoldTasks'
  <2>1. ASSUME NEW o \in Objects, NEW i \in DOMAIN queue'[o]
        PROVE  /\ queue'[o][i] \in DOMAIN tasks'
               /\ o \in tasks'[queue'[o][i]].objects /\ tasks'[queue'[o][i]].phase \in InQueue
    <3>1. CASE queue'[o][i] = t
      BY <1>7, <2>1, <3>1 DEF Advances, InQueue
    <3>2. CASE i \in DOMAIN queue[o] /\ queue'[o][i] = queue[o][i] /\ queue[o][i] # t
      <4>1. /\ queue[o][i] \in DOMAIN tasks
            /\ o \in tasks[queue[o][i]].objects /\ tasks[queue[o][i]].phase \in InQueue
        BY <3>2 DEF TaskInv, QueuesHoldTasks
      <4>2. QED
        BY <3>2, <4>1 DEF Advances
    <3>3. QED
      BY <1>7, <2>1, <3>1, <3>2
  <2>2. ASSUME NEW o \in Objects, NEW i \in DOMAIN queue'[o], NEW j \in DOMAIN queue'[o],
               queue'[o][i] = queue'[o][j]
        PROVE  i = j
    <3>1. CASE queue'[o][i] = t
      BY <1>7, <2>2, <3>1
    <3>2. CASE queue'[o][i] # t
      <4>1. i \in DOMAIN queue[o] /\ j \in DOMAIN queue[o] /\ queue[o][i] = queue[o][j]
        BY <1>7, <2>2, <3>2
      <4>2. QED
        BY <4>1 DEF TaskInv, QueuesHoldTasks
    <3>3. QED
      BY <3>1, <3>2
  <2>3. ASSUME NEW u \in DOMAIN tasks', tasks'[u].phase \in InQueue,
               NEW o \in tasks'[u].objects \intersect Objects
        PROVE  \E i \in DOMAIN queue'[o] : queue'[o][i] = u
    <3>1. u \in DOMAIN tasks /\ o \in tasks[u].objects /\ o \in Objects
      BY <2>3 DEF Advances
    <3>2. Last(o) \in 1 .. Last(o) /\ \A i \in DOMAIN queue[o] : i \in 1 .. Last(o)
      BY <1>3, <3>1
    <3>3. CASE u = t
      BY <1>4, <3>1, <3>2, <3>3
    <3>4. CASE u # t
      <4>1. PICK i \in DOMAIN queue[o] : queue[o][i] = u
        BY <2>3, <3>1, <3>4 DEF TaskInv, QueuesHoldTasks, Advances
      <4>2. QED
        BY <1>4, <1>5, <3>1, <3>2, <4>1
    <3>5. QED
      BY <3>3, <3>4
  <2>4. QED
    <3>1. \A o \in Objects : \A i \in DOMAIN queue'[o] :
             /\ queue'[o][i] \in DOMAIN tasks'
             /\ o \in tasks'[queue'[o][i]].objects /\ tasks'[queue'[o][i]].phase \in InQueue
             /\ \A j \in DOMAIN queue'[o] : queue'[o][i] = queue'[o][j] => i = j
      <4>1. TAKE o \in Objects
      <4>2. TAKE i \in DOMAIN queue'[o]
      <4>3. \A j \in DOMAIN queue'[o] : queue'[o][i] = queue'[o][j] => i = j
        BY <2>2
      <4>4. QED
        BY <2>1, <4>3
    <3>2. \A u \in DOMAIN tasks' : tasks'[u].phase \in InQueue =>
             \A o \in tasks'[u].objects \intersect Objects : \E i \in DOMAIN queue'[o] : queue'[o][i] = u
      BY <2>3
    <3>3. QED
      BY <1>6, <3>1, <3>2 DEF QueuesHoldTasks, InQueue
<1>9. RunningAtHead'
  <2>1. SUFFICES ASSUME NEW u \in DOMAIN tasks', Running(u)',
                        NEW o \in tasks'[u].objects \intersect Objects
                 PROVE  queue'[o] # <<>> /\ Head(queue'[o]) = u
    BY DEF RunningAtHead, AtHead
  <2>2. u \in DOMAIN tasks /\ Running(u) /\ o \in tasks[u].objects /\ o \in Objects
    BY <2>1 DEF Advances, Running
  <2>3. queue[o] # <<>> /\ Head(queue[o]) = u
    BY <2>2 DEF TaskInv, RunningAtHead, AtHead
  <2>4. CASE o \in tasks[t].objects
    <3>1. queue[o] \in Seq(Nat) /\ Len(queue[o]) \in Nat /\ DOMAIN queue[o] = 1 .. Len(queue[o])
      BY <1>3, <2>2
    <3>2. 1 \in DOMAIN queue[o] /\ queue[o][1] = u
      BY <2>3, <3>1, EmptySeq
    <3>3. queue'[o] \in Seq(Nat) /\ 1 \in DOMAIN queue'[o] /\ queue'[o][1] = u
      BY <1>4, <2>2, <2>4, <3>1, <3>2
    <3>4. QED
      BY <3>3
  <2>5. CASE o \notin tasks[t].objects
    BY <1>5, <2>2, <2>3, <2>5
  <2>6. QED
    BY <2>4, <2>5
<1>10. SameOrderInAllQueues'
  <2>1. \A a, b \in Objects :
          \A i, j \in DOMAIN queue'[a] : \A k, l \in DOMAIN queue'[b] :
            (queue'[a][i] = queue'[b][k] /\ queue'[a][j] = queue'[b][l]) => (i < j <=> k < l)
    <3>1. TAKE a, b \in Objects
    <3>2. TAKE i, j \in DOMAIN queue'[a]
    <3>3. TAKE k, l \in DOMAIN queue'[b]
    <3>4. HAVE queue'[a][i] = queue'[b][k] /\ queue'[a][j] = queue'[b][l]
    <3>5. Last(a) \in Nat /\ Last(b) \in Nat
      BY <1>3
    <3> HIDE DEF Last
    <3>6. {i, j, k, l} \subseteq Nat
      BY <1>7
    <3>7. CASE queue'[a][i] # t /\ queue'[a][j] # t
      <4>1. /\ i \in DOMAIN queue[a] /\ j \in DOMAIN queue[a]
            /\ k \in DOMAIN queue[b] /\ l \in DOMAIN queue[b]
            /\ queue[a][i] = queue[b][k] /\ queue[a][j] = queue[b][l]
        BY <1>7, <3>4, <3>7
      <4>2. QED
        BY <4>1 DEF TaskInv, SameOrderInAllQueues
    <3>8. CASE queue'[a][i] = t
      <4>1. i = Last(a) /\ k = Last(b)
        BY <1>7, <3>4, <3>8
      <4>2. (j < Last(a) \/ j = Last(a)) /\ (l < Last(b) \/ l = Last(b))
        BY <1>7
      <4>3. QED
        BY <3>5, <3>6, <4>1, <4>2
    <3>9. CASE queue'[a][i] # t /\ queue'[a][j] = t
      <4>1. i < Last(a) /\ k < Last(b) /\ j = Last(a) /\ l = Last(b)
        BY <1>7, <3>4, <3>9
      <4>2. QED
        BY <4>1
    <3>10. QED
      BY <3>7, <3>8, <3>9
  <2>2. QED
    BY <2>1, Zenon DEF SameOrderInAllQueues
<1>11. QED
  BY <1>1, <1>8, <1>9, <1>10 DEF TaskInv

-----------------------------------------------------------------------------
(* The steps of a task.                                                     *)

LEMMA ReadyAtHead ==
  ASSUME TaskInv, NEW t \in DOMAIN tasks, Ready(t)
  PROVE  tasks[t].phase \in InQueue /\ AtHead(t)
<1>1. tasks[t].phase \in InQueue
  BY DEF Ready, InQueue
<1>2. ASSUME NEW o \in tasks[t].objects \intersect Objects
      PROVE  queue[o] # <<>>
  <2>1. PICK i \in DOMAIN queue[o] : queue[o][i] = t
    BY <1>1, <1>2 DEF TaskInv, QueuesHoldTasks
  <2>2. QED
    BY <2>1
<1>3. QED
  BY <1>1, <1>2 DEF AtHead, Ready

LEMMA RunningInQueue ==
  ASSUME TaskInv, NEW t \in DOMAIN tasks, tasks[t].phase \in {"children", "sent"}
  PROVE  tasks[t].phase \in InQueue /\ AtHead(t)
BY DEF TaskInv, RunningAtHead, Running, InQueue

LEMMA FinishKeeps ==
  ASSUME TaskInv, NEW t \in DOMAIN tasks, NEW saved, NEW restored,
         tasks[t].phase \in InQueue, AtHead(t), Finish(t, saved, restored)
  PROVE  TaskInv'
<1> DEFINE r == [tasks[t] EXCEPT !.phase = "done", !.ok = @ /\ tasks[t].objects \subseteq saved]
<1>1. tasks' = [tasks EXCEPT ![t] = r]
  BY DEF Finish
<1>2. DOMAIN r = Fields /\ r.kind = tasks[t].kind /\ r.objects = tasks[t].objects /\ r.phase = "done"
  BY DEF TaskInv, TaskList, Fields
<1> HIDE DEF r
<1>3. TaskList' /\ Advances(t, "done")
  BY <1>1, <1>2, ReplaceTask DEF TaskInv
<1>4. QED
  BY <1>3, LeaveKeeps DEF Finish

LEMMA EnqueueStep ==
  ASSUME TaskInv, NEW t \in DOMAIN tasks, Enqueue(t)
  PROVE  TaskInv'
<1> DEFINE r == [tasks[t] EXCEPT !.phase = "queued"]
<1>1. tasks' = [tasks EXCEPT ![t] = r]
  BY DEF Enqueue
<1>2. DOMAIN r = Fields /\ r.kind = tasks[t].kind /\ r.objects = tasks[t].objects /\ r.phase = "queued"
  BY DEF TaskInv, TaskList, Fields
<1> HIDE DEF r
<1>3. TaskList' /\ Advances(t, "queued")
  BY <1>1, <1>2, ReplaceTask DEF TaskInv
<1>4. QED
  BY <1>3, EnqueueKeeps DEF Enqueue

LEMMA BeginSaveStep ==
  ASSUME TaskInv, NEW t \in DOMAIN tasks, BeginSave(t)
  PROVE  TaskInv'
<1>1. tasks[t].phase \in InQueue /\ AtHead(t) /\ tasks[t].kind = "save"
  BY ReadyAtHead DEF BeginSave
<1>2. PICK o \in Objects : tasks[t].objects = {o}
  BY <1>1 DEF TaskInv, KindsOfTasks
<1> DEFINE children == {c \in Reachable({o}) : IsDirty(c)} \ {o}
           lost == [tasks[t] EXCEPT !.phase = "done", !.ok = FALSE]
           begun == [tasks[t] EXCEPT !.phase = "children", !.waves = Waves(children),
                                     !.taken = {o} \intersect changed]
<1>3. \/ Finish(t, {o}, {})
      \/ tasks' = [tasks EXCEPT ![t] = lost] /\ queue' = [queue EXCEPT ![o] = Tail(@)]
      \/ tasks' = [tasks EXCEPT ![t] = begun] /\ queue' = queue
  BY <1>2 DEF BeginSave
<1>4. /\ DOMAIN lost = Fields /\ lost.kind = tasks[t].kind
      /\ lost.objects = tasks[t].objects /\ lost.phase = "done"
  BY DEF TaskInv, TaskList, Fields
<1>5. /\ DOMAIN begun = Fields /\ begun.kind = tasks[t].kind
      /\ begun.objects = tasks[t].objects /\ begun.phase = "children"
  BY DEF TaskInv, TaskList, Fields
<1> HIDE DEF lost, begun
<1>6. CASE Finish(t, {o}, {})
  BY <1>1, <1>6, FinishKeeps
<1>7. CASE tasks' = [tasks EXCEPT ![t] = lost] /\ queue' = [queue EXCEPT ![o] = Tail(@)]
  <2>1. TaskList' /\ Advances(t, "done")
    BY <1>4, <1>7, ReplaceTask DEF TaskInv
  <2>2. queue' = [p \in Objects |-> IF p \in tasks[t].objects THEN Tail(queue[p]) ELSE queue[p]]
    BY <1>2, <1>7 DEF TaskInv, QueuesHoldTasks
  <2>3. QED
    BY <1>1, <2>1, <2>2, LeaveKeeps
<1>8. CASE tasks' = [tasks EXCEPT ![t] = begun] /\ queue' = queue
  <2>1. TaskList' /\ Advances(t, "children")
    BY <1>5, <1>8, ReplaceTask DEF TaskInv
  <2>2. QED
    BY <1>1, <1>8, <2>1, AdvanceKeeps DEF InQueue
<1>9. QED
  BY <1>3, <1>6, <1>7, <1>8

LEMMA BeginWaveStep ==
  ASSUME TaskInv, NEW t \in DOMAIN tasks, BeginWave(t)
  PROVE  TaskInv'
<1> DEFINE linked == [tasks[t] EXCEPT !.batch = Len(tasks) + 1]
           list == [tasks EXCEPT ![t] = linked]
           r == NewTask("batch", Head(tasks[t].waves), "locking")
<1>1. tasks' = Append(list, r) /\ queue' = queue
  BY DEF BeginWave, BetweenWaves, BetweenWaves
<1>2. DOMAIN r = Fields /\ r.kind = "batch" /\ r.phase = "locking"
  BY DEF NewTask, Fields
<1>3. /\ DOMAIN linked = Fields /\ linked.kind = tasks[t].kind
      /\ linked.objects = tasks[t].objects /\ linked.phase = tasks[t].phase
  BY DEF TaskInv, TaskList, Fields
<1> HIDE DEF r, linked
<1>4. /\ list \in Seq(Range(list)) /\ DOMAIN list = DOMAIN tasks /\ Len(list) = Len(tasks)
  <2> DEFINE S == Range(tasks) \union {linked}
  <2>1. tasks \in Seq(S) /\ linked \in S
    BY SeqMonotonic DEF TaskInv, TaskList
  <2> HIDE DEF S
  <2>2. list \in Seq(S) /\ Len(list) = Len(tasks)
    BY <2>1, LenProperties, ExceptSeq
  <2>3. QED
    BY <2>2, SeqOfRange
<1>5. \A u \in DOMAIN tasks : /\ DOMAIN list[u] = Fields
                             /\ list[u].kind = tasks[u].kind
                             /\ list[u].objects = tasks[u].objects
                             /\ list[u].phase = tasks[u].phase
  BY <1>3 DEF TaskInv, TaskList
<1> HIDE DEF list
<1>6. TaskList' /\ Adds(r.kind, r.objects, r.phase)
  BY <1>1, <1>2, <1>4, <1>5, AppendTask DEF TaskInv
<1>7. QED
  BY <1>1, <1>2, <1>6, AddKeeps

LEMMA EndWaveStep ==
  ASSUME TaskInv, NEW t \in DOMAIN tasks, EndWave(t)
  PROVE  TaskInv'
<1> DEFINE r == [tasks[t] EXCEPT !.batch = NoTask, !.waves = Tail(@)]
<1>1. tasks' = [tasks EXCEPT ![t] = r] /\ queue' = queue /\ tasks[t].phase = "children"
  BY DEF EndWave, WaveEnded, WaveEnded
<1>2. /\ DOMAIN r = Fields /\ r.kind = tasks[t].kind /\ r.objects = tasks[t].objects
      /\ r.phase = "children"
  BY <1>1 DEF TaskInv, TaskList, Fields
<1> HIDE DEF r
<1>3. TaskList' /\ Advances(t, "children")
  BY <1>1, <1>2, ReplaceTask DEF TaskInv
<1>4. tasks[t].kind \in {"save", "saveAll"} /\ tasks[t].phase \in InQueue /\ AtHead(t)
  BY <1>1, RunningInQueue DEF TaskInv, KindsOfTasks
<1>5. QED
  BY <1>1, <1>3, <1>4, AdvanceKeeps DEF InQueue

LEMMA AbandonWavesStep ==
  ASSUME TaskInv, NEW t \in DOMAIN tasks, AbandonWaves(t)
  PROVE  TaskInv'
<1> DEFINE r == [tasks[t] EXCEPT !.phase = "done", !.ok = FALSE]
<1>1. /\ tasks[t].phase = "children" /\ tasks[t].kind \in {"save", "saveAll"}
      /\ tasks[t].phase \in InQueue /\ AtHead(t)
  BY RunningInQueue DEF AbandonWaves, WaveEnded, TaskInv, KindsOfTasks
<1>2. CASE tasks[t].kind = "save"
  BY <1>1, <1>2, FinishKeeps DEF AbandonWaves, WaveEnded
<1>3. CASE tasks[t].kind = "saveAll"
  <2>1. tasks' = [tasks EXCEPT ![t] = r] /\ queue' = queue /\ tasks[t].objects = {}
    BY <1>3 DEF AbandonWaves, WaveEnded, TaskInv, KindsOfTasks
  <2>2. /\ DOMAIN r = Fields /\ r.kind = tasks[t].kind /\ r.objects = tasks[t].objects
        /\ r.phase = "done"
    BY DEF TaskInv, TaskList, Fields
  <2> HIDE DEF r
  <2>3. TaskList' /\ Advances(t, "done")
    BY <2>1, <2>2, ReplaceTask DEF TaskInv
  <2>4. QED
    BY <2>1, <2>3, AdvanceKeeps
<1>4. QED
  BY <1>1, <1>2, <1>3

LEMMA SendSaveStep ==
  ASSUME TaskInv, NEW t \in DOMAIN tasks, SendSave(t)
  PROVE  TaskInv'
<1> DEFINE r == [tasks[t] EXCEPT !.phase = "sent"]
<1>1. tasks[t].phase \in InQueue /\ AtHead(t)
  BY RunningInQueue DEF SendSave, BetweenWaves
<1>2. CASE tasks' = [tasks EXCEPT ![t].phase = "sent"] /\ queue' = queue
  <2>1. tasks' = [tasks EXCEPT ![t] = r]
    BY <1>2
  <2>2. /\ DOMAIN r = Fields /\ r.kind = tasks[t].kind /\ r.objects = tasks[t].objects
        /\ r.phase = "sent"
    BY DEF TaskInv, TaskList, Fields
  <2> HIDE DEF r
  <2>3. TaskList' /\ Advances(t, "sent")
    BY <2>1, <2>2, ReplaceTask DEF TaskInv
  <2>4. QED
    BY <1>1, <1>2, <2>3, AdvanceKeeps DEF InQueue
<1>3. CASE Finish(t, tasks[t].objects, {})
  BY <1>1, <1>3, FinishKeeps
<1>4. QED
  BY <1>2, <1>3 DEF SendSave, BetweenWaves

LEMMA SendBatchStep ==
  ASSUME TaskInv, NEW t \in DOMAIN tasks, SendBatch(t)
  PROVE  TaskInv'
<1> DEFINE r == [tasks[t] EXCEPT !.phase = "sent", !.taken = tasks[t].objects \intersect changed]
<1>1. tasks' = [tasks EXCEPT ![t] = r] /\ queue' = queue
  BY DEF SendBatch
<1>2. /\ DOMAIN r = Fields /\ r.kind = tasks[t].kind /\ r.objects = tasks[t].objects
      /\ r.phase = "sent"
  BY DEF TaskInv, TaskList, Fields
<1> HIDE DEF r
<1>3. TaskList' /\ Advances(t, "sent")
  BY <1>1, <1>2, ReplaceTask DEF TaskInv
<1>4. tasks[t].phase \in InQueue /\ AtHead(t)
  BY ReadyAtHead DEF SendBatch
<1>5. QED
  BY <1>1, <1>3, <1>4, AdvanceKeeps DEF InQueue

-----------------------------------------------------------------------------
(* The steps of the application.                                            *)

LEMMA NewTaskStep ==
  ASSUME TaskInv, NEW r, DOMAIN r = Fields,
         tasks' = Append(tasks, r), queue' = queue,
         \/ r.kind = "save" /\ r.phase = "locking" /\ \E o \in Objects : r.objects = {o}
         \/ r.kind = "saveAll" /\ r.objects = {}
  PROVE  TaskInv'
<1>1. TaskList' /\ Adds(r.kind, r.objects, r.phase)
  BY AppendTask DEF TaskInv, TaskList
<1>2. QED
  BY <1>1, AddKeeps

LEMMA SaveAllStep ==
  ASSUME TaskInv, NEW S, SaveAllInBackground(S)
  PROVE  TaskInv'
<1> DEFINE dirty == {o \in Reachable(S) : IsDirty(o)}
           lost == [NewTask("saveAll", {}, "done") EXCEPT !.ok = FALSE]
           begun == [NewTask("saveAll", {}, "children") EXCEPT !.waves = Waves(dirty)]
<1>1. queue' = queue /\ (tasks' = Append(tasks, lost) \/ tasks' = Append(tasks, begun))
  BY DEF SaveAllInBackground
<1>2. DOMAIN lost = Fields /\ lost.kind = "saveAll" /\ lost.objects = {}
  BY DEF NewTask, Fields
<1>3. DOMAIN begun = Fields /\ begun.kind = "saveAll" /\ begun.objects = {}
  BY DEF NewTask, Fields
<1> HIDE DEF lost, begun
<1>4. QED
  BY <1>1, <1>2, <1>3, NewTaskStep

LEMMA UntouchedStep ==
  ASSUME TaskInv, tasks' = tasks, queue' = queue
  PROVE  TaskInv'
BY DEF TaskInv, TaskList, KindsOfTasks, QueuesHoldTasks, RunningAtHead, AtHead, Running,
       SameOrderInAllQueues

LEMMA TaskInvStep == TaskInv /\ [Next]_vars => TaskInv'
<1> SUFFICES ASSUME TaskInv, [Next]_vars PROVE TaskInv'
  OBVIOUS
<1>1. ASSUME NEW o \in Objects, SaveInBackground(o) PROVE TaskInv'
  <2> DEFINE r == NewTask("save", {o}, "locking")
  <2>1. /\ DOMAIN r = Fields /\ r.kind = "save" /\ r.phase = "locking" /\ r.objects = {o}
    BY DEF NewTask, Fields
  <2>2. tasks' = Append(tasks, r) /\ queue' = queue
    BY <1>1 DEF SaveInBackground
  <2> HIDE DEF r
  <2>3. QED
    BY <2>1, <2>2, NewTaskStep
<1>2. ASSUME NEW o \in Objects, Change(o) PROVE TaskInv'
  BY <1>2, UntouchedStep DEF Change
<1>3. ASSUME NEW S \in SUBSET Objects, SaveAllInBackground(S) PROVE TaskInv'
  BY <1>3, SaveAllStep
<1>4. ASSUME NEW t \in DOMAIN tasks, TaskStep(t) PROVE TaskInv'
  <2>1. CASE TakeMutex(t)
    BY <2>1, UntouchedStep DEF TakeMutex
  <2>2. CASE HandleResult(t)
    BY <2>2, RunningInQueue, FinishKeeps DEF HandleResult
  <2>3. QED
    BY <1>4, <2>1, <2>2, EnqueueStep, BeginSaveStep, BeginWaveStep, EndWaveStep,
       AbandonWavesStep, SendSaveStep, SendBatchStep DEF TaskStep
<1>5. CASE UNCHANGED vars
  BY <1>5, UntouchedStep DEF vars
<1>6. QED
  BY <1>1, <1>2, <1>3, <1>4, <1>5 DEF Next

LEMMA TaskInvInit == Init => TaskInv
<1> SUFFICES ASSUME Init PROVE TaskInv
  OBVIOUS
<1>1. tasks = <<>> /\ DOMAIN tasks = {} /\ queue = [o \in Objects |-> <<>>]
  BY DEF Init
<1>2. tasks \in Seq(Range(tasks))
  BY <1>1, EmptySeq
<1>3. queue \in [Objects -> Seq(Nat)] /\ \A o \in Objects : DOMAIN queue[o] = {}
  BY <1>1, EmptySeq
<1>4. QED
  BY <1>1, <1>2, <1>3 DEF TaskInv, TaskList, KindsOfTasks, QueuesHoldTasks, RunningAtHead,
                          SameOrderInAllQueues

-----------------------------------------------------------------------------
(* The command cache of this module is the one CommandCacheProofs is about. *)

CP == INSTANCE CommandCacheProofs

LEMMA CacheConstants == CP!CacheConstants /\ CP!ConstantsAssumption
BY CacheAssumption, CountsAssumption
   DEF CacheAssumption, CountsAssumption, CP!CacheConstants, CP!ConstantsAssumption

LEMMA LeastNatural ==
  ASSUME NEW T \in SUBSET Nat, T # {}
  PROVE  \E m \in T : \A x \in T : m <= x
BY CacheConstants, CP!LeastNatural

-----------------------------------------------------------------------------
(* The mutexes.                                                             *)

\* A mutex is held by an enqueue that misses only those of higher addresses.
HeldInOrder ==
  /\ mutex \in [Objects -> {NoTask} \union DOMAIN tasks]
  /\ \A o \in Objects : mutex[o] # NoTask =>
       /\ tasks[mutex[o]].phase = "locking" /\ o \in tasks[mutex[o]].objects
       /\ \A p \in Missing(mutex[o]) : o < p

\* Enqueues under way stay as they are.
LockersStay ==
  \A u \in DOMAIN tasks : /\ u \in DOMAIN tasks'
                          /\ tasks'[u].objects = tasks[u].objects
                          /\ tasks[u].phase = "locking" => tasks'[u].phase = "locking"

LEMMA LockersKeep ==
  ASSUME HeldInOrder, LockersStay, mutex' = mutex
  PROVE  HeldInOrder'
BY DEF HeldInOrder, LockersStay, Missing

LEMMA TakeMutexHolds ==
  ASSUME TaskInv, HeldInOrder, NEW t \in DOMAIN tasks, TakeMutex(t),
         \A u \in DOMAIN tasks : tasks[u].objects \subseteq Objects
  PROVE  HeldInOrder'
<1>1. PICK o \in FreeMutex(t) : mutex' = [mutex EXCEPT ![o] = t]
  BY DEF TakeMutex
<1>2. /\ o \in Objects /\ o \in tasks[t].objects /\ mutex[o] = NoTask /\ tasks' = tasks
      /\ \A p \in Missing(t) : o <= p
  BY <1>1 DEF FreeMutex, Missing, TakeMutex
<1>3. t # NoTask /\ tasks[t].phase = "locking"
  BY LenProperties DEF TaskInv, TaskList, NoTask, TakeMutex
<1>4. mutex' \in [Objects -> {NoTask} \union DOMAIN tasks']
  BY <1>1, <1>2 DEF HeldInOrder
<1>5. \A q \in Objects : mutex'[q] = IF q = o THEN t ELSE mutex[q]
  BY <1>1 DEF HeldInOrder
<1>6. ASSUME NEW q \in Objects, mutex'[q] # NoTask
      PROVE  /\ tasks'[mutex'[q]].phase = "locking" /\ q \in tasks'[mutex'[q]].objects
             /\ \A p \in tasks'[mutex'[q]].objects : mutex'[p] # mutex'[q] => q < p
  <2>1. \A p \in Missing(t)' : p \in Missing(t) /\ p # o
    BY <1>2, <1>3, <1>5 DEF Missing
  <2>2. CASE q = o
    <3>1. \A p \in Missing(t)' : o < p
      BY <1>2, <2>1 DEF Objects, Missing
    <3>2. QED
      BY <1>2, <1>3, <1>5, <2>2, <3>1 DEF Missing
  <2>3. CASE q # o
    <3>1. mutex'[q] = mutex[q]
      BY <1>5, <2>3
    <3>2. tasks[mutex[q]].phase = "locking" /\ q \in tasks[mutex[q]].objects
      BY <1>6, <3>1 DEF HeldInOrder
    <3>3. \A p \in tasks[mutex[q]].objects : mutex'[p] # mutex[q] => mutex[p] # mutex[q]
      <4>1. mutex[q] \in DOMAIN tasks
        BY <1>6, <3>1 DEF HeldInOrder
      <4>2. \A p \in tasks[mutex[q]].objects : mutex'[p] = IF p = o THEN t ELSE mutex[p]
        BY <4>1, <1>5
      <4>3. QED
        BY <4>1, <4>2, <1>2, <1>3, <1>6, <3>1
    <3>4. \A p \in Missing(mutex[q]) : q < p
      BY <1>6, <3>1 DEF HeldInOrder
    <3>5. QED
      BY <1>2, <3>1, <3>2, <3>3, <3>4 DEF Missing
  <2>4. QED
    BY <2>2, <2>3
<1>7. QED
  BY <1>4, <1>6 DEF HeldInOrder, Missing

LEMMA EnqueueHolds ==
  ASSUME TaskInv, HeldInOrder, NEW t \in DOMAIN tasks, Enqueue(t),
         \A u \in DOMAIN tasks : tasks[u].objects \subseteq Objects
  PROVE  HeldInOrder'
<1>1. /\ DOMAIN tasks' = DOMAIN tasks
      /\ \A u \in DOMAIN tasks : u # t => tasks'[u] = tasks[u]
  BY DEF Enqueue
<1>2. \A q \in Objects : mutex'[q] = IF mutex[q] = t THEN NoTask ELSE mutex[q]
  BY DEF Enqueue
<1>3. mutex' \in [Objects -> {NoTask} \union DOMAIN tasks']
  BY <1>1, <1>2 DEF HeldInOrder, Enqueue
<1>4. ASSUME NEW q \in Objects, mutex'[q] # NoTask
      PROVE  /\ tasks'[mutex'[q]].phase = "locking" /\ q \in tasks'[mutex'[q]].objects
             /\ \A p \in tasks'[mutex'[q]].objects : mutex'[p] # mutex'[q] => q < p
  <2>1. mutex'[q] = mutex[q] /\ mutex[q] # t /\ mutex[q] \in DOMAIN tasks /\ mutex[q] # NoTask
    BY <1>2, <1>4 DEF HeldInOrder
  <2>2. tasks'[mutex[q]] = tasks[mutex[q]]
    BY <1>1, <2>1
  <2>3. \A p \in Missing(mutex[q]) : q < p
    BY <2>1 DEF HeldInOrder
  <2>4. \A p \in tasks[mutex[q]].objects : mutex'[p] # mutex[q] => mutex[p] # mutex[q]
    <3>1. \A p \in tasks[mutex[q]].objects : mutex'[p] = IF mutex[p] = t THEN NoTask ELSE mutex[p]
      BY <2>1, <1>2
    <3>2. QED
      BY <3>1, <2>1
  <2>5. tasks[mutex[q]].phase = "locking" /\ q \in tasks[mutex[q]].objects
    BY <2>1 DEF HeldInOrder
  <2>6. QED
    BY <2>1, <2>2, <2>3, <2>4, <2>5 DEF Missing
<1>5. QED
  BY <1>3, <1>4 DEF HeldInOrder, Missing

\* Whatever a task in a queue does, and whatever is added.
LEMMA ReplacedStays ==
  ASSUME TaskInv, NEW t \in DOMAIN tasks, tasks[t].phase # "locking", NEW r,
         r.objects = tasks[t].objects, tasks' = [tasks EXCEPT ![t] = r]
  PROVE  LockersStay
BY DEF LockersStay

LEMMA FinishStays ==
  ASSUME TaskInv, NEW t \in DOMAIN tasks, tasks[t].phase # "locking", NEW saved, NEW restored,
         Finish(t, saved, restored)
  PROVE  LockersStay /\ mutex' = mutex
<1> DEFINE r == [tasks[t] EXCEPT !.phase = "done", !.ok = @ /\ tasks[t].objects \subseteq saved]
<1>1. tasks' = [tasks EXCEPT ![t] = r] /\ mutex' = mutex
  BY DEF Finish
<1>2. r.objects = tasks[t].objects
  BY DEF TaskInv, TaskList, Fields
<1> HIDE DEF r
<1>3. QED
  BY <1>1, <1>2, ReplacedStays

LEMMA AddedStays ==
  ASSUME TaskInv, NEW r, tasks' = Append(tasks, r)
  PROVE  LockersStay
<1> DEFINE S == Range(tasks) \union {r}
<1>1. tasks \in Seq(S) /\ r \in S
  BY SeqMonotonic DEF TaskInv, TaskList
<1> HIDE DEF S
<1>2. \A u \in DOMAIN tasks : u \in DOMAIN tasks' /\ tasks'[u] = tasks[u]
  BY <1>1, AppendProperties, LenProperties
<1>3. QED
  BY <1>2 DEF LockersStay

LEMMA TaskStepStays ==
  ASSUME TaskInv, NEW t \in DOMAIN tasks, TaskStep(t), ~TakeMutex(t), ~Enqueue(t)
  PROVE  LockersStay /\ mutex' = mutex
<1>1. DOMAIN tasks[t] = Fields
  BY DEF TaskInv, TaskList
<1>2. ASSUME tasks[t].phase # "locking", tasks' = [tasks EXCEPT ![t].phase = "done", ![t].ok = FALSE]
      PROVE  LockersStay
  BY <1>2, <1>1 DEF LockersStay
<1>3. CASE BeginSave(t)
  <2>1. PICK o \in tasks[t].objects :
          \/ Finish(t, {o}, {})
          \/ tasks' = [tasks EXCEPT ![t].phase = "done", ![t].ok = FALSE] /\ mutex' = mutex
          \/ /\ tasks' = [tasks EXCEPT ![t].phase = "children",
                     ![t].waves = Waves({c \in Reachable({o}) : IsDirty(c)} \ {o}),
                     ![t].taken = {o} \intersect changed]
             /\ mutex' = mutex
    BY <1>3 DEF BeginSave
  <2>2. tasks[t].phase # "locking"
    BY <1>3 DEF BeginSave, Ready
  <2>3. ASSUME Finish(t, {o}, {}) PROVE LockersStay /\ mutex' = mutex
    BY <2>2, <2>3, FinishStays
  <2>4. ASSUME NEW w, NEW x,
               tasks' = [tasks EXCEPT ![t].phase = "children", ![t].waves = w, ![t].taken = x]
        PROVE  LockersStay
    <3>1. tasks' = [tasks EXCEPT ![t] = [tasks[t] EXCEPT !.phase = "children", !.waves = w, !.taken = x]]
      BY <2>4, <1>1, Zenon
    <3>2. [tasks[t] EXCEPT !.phase = "children", !.waves = w, !.taken = x].objects = tasks[t].objects
      BY <1>1 DEF Fields
    <3>3. QED
      BY <3>1, <3>2, <2>2, ReplacedStays
  <2>5. CASE Finish(t, {o}, {})
    BY <2>3, <2>5
  <2>6. CASE tasks' = [tasks EXCEPT ![t].phase = "done", ![t].ok = FALSE] /\ mutex' = mutex
    BY <2>2, <2>6, <1>2
  <2> DEFINE w == Waves({c \in Reachable({o}) : IsDirty(c)} \ {o})
             x == {o} \intersect changed
  <2>7. CASE /\ tasks' = [tasks EXCEPT ![t].phase = "children", ![t].waves = w, ![t].taken = x]
             /\ mutex' = mutex
    <3> HIDE DEF w, x
    <3>1. QED
      BY <2>4, <2>7
  <2>8. QED
    BY <2>1, <2>5, <2>6, <2>7
<1>4. CASE BeginWave(t)
  <2> DEFINE list == [tasks EXCEPT ![t].batch = Len(tasks) + 1]
             r == NewTask("batch", Head(tasks[t].waves), "locking")
             S == Range(tasks) \union {[tasks[t] EXCEPT !.batch = Len(tasks) + 1], r}
  <2>1. tasks' = Append(list, r) /\ mutex' = mutex
    BY <1>4 DEF BeginWave, BetweenWaves, BetweenWaves
  <2>2. tasks \in Seq(S) /\ [tasks[t] EXCEPT !.batch = Len(tasks) + 1] \in S /\ r \in S
    BY SeqMonotonic DEF TaskInv, TaskList
  <2>3. list = [tasks EXCEPT ![t] = [tasks[t] EXCEPT !.batch = Len(tasks) + 1]]
    OBVIOUS
  <2>4. /\ DOMAIN list = DOMAIN tasks
        /\ \A u \in DOMAIN tasks : list[u].objects = tasks[u].objects /\ list[u].phase = tasks[u].phase
    BY <1>1
  <2> HIDE DEF r, S
  <2>5. list \in Seq(S)
    BY <2>2, <2>3, ExceptSeq, LenProperties
  <2> HIDE DEF list
  <2>6. \A u \in DOMAIN list : u \in DOMAIN tasks' /\ tasks'[u] = list[u]
    BY <2>1, <2>2, <2>5, AppendProperties, LenProperties
  <2>7. QED
    BY <2>1, <2>4, <2>6 DEF LockersStay
<1>5. CASE EndWave(t)
  BY <1>5, <1>1 DEF EndWave, WaveEnded, LockersStay
<1>6. CASE AbandonWaves(t)
  <2>1. \/ Finish(t, {}, tasks[t].taken)
        \/ tasks' = [tasks EXCEPT ![t].phase = "done", ![t].ok = FALSE] /\ mutex' = mutex
    BY <1>6 DEF AbandonWaves, WaveEnded
  <2>2. tasks[t].phase # "locking"
    BY <1>6 DEF AbandonWaves, WaveEnded
  <2>3. ASSUME Finish(t, {}, tasks[t].taken) PROVE LockersStay /\ mutex' = mutex
    BY <2>2, <2>3, FinishStays
  <2>4. QED
    BY <2>1, <2>2, <2>3, <1>2
<1>7. CASE SendSave(t)
  <2>1. \/ Finish(t, tasks[t].objects, {})
        \/ tasks' = [tasks EXCEPT ![t].phase = "sent"] /\ mutex' = mutex
    BY <1>7 DEF SendSave, BetweenWaves
  <2>2. tasks[t].phase # "locking"
    BY <1>7 DEF SendSave, BetweenWaves
  <2>3. ASSUME Finish(t, tasks[t].objects, {}) PROVE LockersStay /\ mutex' = mutex
    BY <2>2, <2>3, FinishStays
  <2>4. ASSUME tasks' = [tasks EXCEPT ![t].phase = "sent"] PROVE LockersStay
    BY <2>2, <2>4, <1>1 DEF LockersStay
  <2>5. QED
    BY <2>1, <2>2, <2>3, <2>4
<1>8. CASE SendBatch(t)
  BY <1>8 DEF SendBatch, Ready, LockersStay
<1>9. CASE HandleResult(t)
  BY <1>9, FinishStays DEF HandleResult
<1>10. QED
  BY <1>3, <1>4, <1>5, <1>6, <1>7, <1>8, <1>9 DEF TaskStep

LEMMA HeldInOrderStep ==
  ASSUME TaskInv, HeldInOrder, [Next]_vars, \A t \in DOMAIN tasks : tasks[t].objects \subseteq Objects
  PROVE  HeldInOrder'
<1>1. ASSUME NEW o \in Objects, SaveInBackground(o) PROVE HeldInOrder'
  BY <1>1, AddedStays, LockersKeep DEF SaveInBackground
<1>2. ASSUME NEW S \in SUBSET Objects, SaveAllInBackground(S) PROVE HeldInOrder'
  <2>1. /\ mutex' = mutex
        /\ \/ tasks' = Append(tasks, [NewTask("saveAll", {}, "done") EXCEPT !.ok = FALSE])
           \/ tasks' = Append(tasks, [NewTask("saveAll", {}, "children") EXCEPT
                                       !.waves = Waves({o \in Reachable(S) : IsDirty(o)})])
    BY <1>2 DEF SaveAllInBackground
  <2>2. QED
    BY <2>1, AddedStays, LockersKeep
<1>3. ASSUME NEW o \in Objects, Change(o) PROVE HeldInOrder'
  BY <1>3, LockersKeep DEF Change, LockersStay
<1>4. ASSUME NEW t \in DOMAIN tasks, TaskStep(t) PROVE HeldInOrder'
  BY <1>4, TakeMutexHolds, EnqueueHolds, TaskStepStays, LockersKeep
<1>5. CASE UNCHANGED vars
  BY <1>5, LockersKeep DEF vars, LockersStay
<1>6. QED
  BY <1>1, <1>2, <1>3, <1>4, <1>5 DEF Next

\* The enqueue that holds the mutex of the highest address gets on.
LEMMA SomeEnqueueGetsOn ==
  ASSUME HeldInOrder, \A t \in DOMAIN tasks : tasks[t].objects \subseteq Objects
  PROVE  EveryEnqueueReturns
<1> DEFINE Locking == {t \in DOMAIN tasks : tasks[t].phase = "locking"}
           Held == {o \in Objects : mutex[o] # NoTask}
<1> SUFFICES ASSUME Locking # {}, \A t \in Locking : Missing(t) # {} /\ FreeMutex(t) = {}
             PROVE  FALSE
  BY DEF EveryEnqueueReturns, GetsOn
<1>1. ASSUME NEW t \in Locking PROVE \E m \in Missing(t) : m \in Held
  <2>1. Missing(t) \in SUBSET Nat /\ Missing(t) \subseteq Objects /\ Missing(t) # {}
    BY DEF Missing, Objects
  <2>2. PICK m \in Missing(t) : \A p \in Missing(t) : m <= p
    BY <2>1, LeastNatural
  <2>3. QED
    BY <2>1, <2>2 DEF FreeMutex
<1> DEFINE Above == {n \in Nat : \E o \in Held : n = NumObjects - o}
<1>2. Above \in SUBSET Nat /\ Above # {}
  <2>1. PICK o \in Held : TRUE
    BY <1>1
  <2>2. NumObjects - o \in Nat
    BY <2>1, TaskAssumption DEF Objects, TaskAssumption
  <2>3. QED
    BY <2>1, <2>2
<1>3. PICK n \in Above : \A x \in Above : n <= x
  BY <1>2, LeastNatural
<1>4. PICK o \in Held : n = NumObjects - o
  BY <1>3
<1>5. mutex[o] \in Locking /\ \A p \in Missing(mutex[o]) : o < p
  BY <1>4 DEF HeldInOrder
<1>6. PICK m \in Missing(mutex[o]) : m \in Held
  BY <1>1, <1>5
<1>7. NumObjects - m \in Above
  BY <1>6, TaskAssumption DEF Objects, TaskAssumption
<1>8. n <= NumObjects - m /\ o < m
  BY <1>3, <1>5, <1>6, <1>7
<1>9. QED
  BY <1>4, <1>6, <1>8, TaskAssumption DEF Objects, TaskAssumption

-----------------------------------------------------------------------------
(* The waves, which are computed from the objects that are left.           *)

Current(D, R) == {o \in R : CanBeSerialized(o, D \ R)}

WaveStep(f, D, R) ==
  IF R = {} THEN <<>>
  ELSE IF Current(D, R) = {} THEN <<{}>>
  ELSE <<Current(D, R)>> \o f[R \ Current(D, R)]

LEMMA SmallerSets ==
  ASSUME NEW D \in SUBSET Objects, NEW R \in SUBSET D
  PROVE  /\ Cardinality(R) \in Nat
         /\ \A Q \in SUBSET R : Q # R => Cardinality(Q) \in Nat /\ Cardinality(Q) < Cardinality(R)
<1>1. IsFiniteSet(Objects)
  BY FS_Interval, TaskAssumption DEF Objects, TaskAssumption
<1>2. IsFiniteSet(R)
  BY <1>1, FS_Subset
<1>3. ASSUME NEW Q \in SUBSET R, Q # R
      PROVE  Cardinality(Q) \in Nat /\ Cardinality(Q) < Cardinality(R)
  <2>1. IsFiniteSet(Q) /\ Cardinality(Q) <= Cardinality(R) /\ Cardinality(Q) # Cardinality(R)
    BY <1>2, <1>3, FS_Subset
  <2>2. QED
    BY <1>2, <2>1, FS_CardinalityType
<1>4. QED
  BY <1>2, <1>3, FS_CardinalityType

\* There is such a function: one that is right about n objects or fewer is
\* made from one that is right about fewer.
LEMMA WavesExist ==
  ASSUME NEW D \in SUBSET Objects
  PROVE  \E f : f = [R \in SUBSET D |-> WaveStep(f, D, R)]
<1> DEFINE RightOn(f, n) ==
             /\ DOMAIN f = SUBSET D /\ f = [R \in SUBSET D |-> f[R]]
             /\ \A R \in SUBSET D : Cardinality(R) < n => f[R] = WaveStep(f, D, R)
           T == {n \in Nat : \A f : ~RightOn(f, n)}
<1>1. T = {}
  <2> SUFFICES ASSUME T # {} PROVE FALSE
    OBVIOUS
  <2>1. PICK n \in T : \A m \in T : n <= m
    BY LeastNatural
  <2>2. n # 0
    <3>1. ASSUME NEW R \in SUBSET D PROVE ~(Cardinality(R) < 0)
      BY SmallerSets
    <3> DEFINE none == [R \in SUBSET D |-> <<>>]
    <3>2. RightOn(none, 0)
      BY <3>1
    <3> HIDE DEF RightOn
    <3>3. QED
      BY <2>1, <3>2
  <2>3. \E f : RightOn(f, n - 1)
    <3> HIDE DEF RightOn
    <3>1. n - 1 \in Nat /\ n - 1 \notin T
      BY <2>1, <2>2
    <3>2. QED
      BY <3>1
  <2>4. PICK f : RightOn(f, n - 1)
    BY <2>3
  <2> DEFINE g == [R \in SUBSET D |-> WaveStep(f, D, R)]
  <2>5. ASSUME NEW R \in SUBSET D, Cardinality(R) < n PROVE g[R] = WaveStep(g, D, R)
    <3>1. CASE R # {} /\ Current(D, R) # {}
      <4> DEFINE Q == R \ Current(D, R)
      <4>1. Q \in SUBSET R /\ Q # R /\ Q \in SUBSET D
        BY <3>1 DEF Current
      <4> HIDE DEF Q
      <4>2. Cardinality(Q) < n - 1
        BY <2>1, <2>5, <4>1, SmallerSets
      <4>3. f[Q] = WaveStep(f, D, Q) /\ g[Q] = WaveStep(f, D, Q)
        BY <2>4, <4>1, <4>2
      <4>4. QED
        BY <4>3 DEF WaveStep, Q
    <3>2. CASE R = {} \/ Current(D, R) = {}
      BY <3>2 DEF WaveStep
    <3>3. QED
      BY <3>1, <3>2
  <2>6. RightOn(g, n)
    BY <2>5
  <2>7. QED
    BY <2>1, <2>6
<1>2. Cardinality(D) \in Nat
  BY SmallerSets
<1>3. \E f : RightOn(f, Cardinality(D) + 1)
  <2> HIDE DEF RightOn
  <2>1. QED
    BY <1>1, <1>2
<1>4. PICK f : RightOn(f, Cardinality(D) + 1)
  BY <1>3
<1>5. ASSUME NEW R \in SUBSET D PROVE Cardinality(R) < Cardinality(D) + 1
  BY <1>2, SmallerSets
<1>6. f = [R \in SUBSET D |-> WaveStep(f, D, R)]
  BY <1>4, <1>5
<1>7. QED
  BY <1>6

LEMMA WavesAre ==
  ASSUME NEW D \in SUBSET Objects
  PROVE  \E f : f = [R \in SUBSET D |-> WaveStep(f, D, R)] /\ Waves(D) = f[D]
<1>1. WavesOf(D) = (CHOOSE f : f = [R \in SUBSET D |-> WaveStep(f, D, R)])[D]
  BY DEF WavesOf, WaveStep, Current
<1>2. QED
  BY <1>1, WavesExist DEF Waves

\* The objects of all waves, and of those before the ith.
All(w) == UNION {w[i] : i \in DOMAIN w}
Before(w, i) == UNION {w[j] : j \in 1 .. i - 1}

\* No object of a wave has a pointer to a new one, except to those of S and of
\* the waves before it.
InOrder(w, S) ==
  \A i \in DOMAIN w : \A o \in w[i] : points[o] \intersect new \subseteq S \union Before(w, i)

\* The objects that o points to and the server does not know.
NewBehind == [o \in Objects |-> points[o] \intersect new]

Ordered(w, L) == \A i \in DOMAIN w : \A o \in w[i] : L[o] \subseteq Before(w, i)

LEMMA Prepend ==
  ASSUME NEW S, NEW C \in S, NEW v \in Seq(S), NEW w, w = <<C>> \o v
  PROVE  /\ w \in Seq(S) /\ w # <<>>
         /\ DOMAIN w = 1 .. (Len(v) + 1) /\ Len(v) \in Nat /\ DOMAIN v = 1 .. Len(v)
         /\ w[1] = C /\ \A i \in DOMAIN v : w[i + 1] = v[i]
         /\ \A i \in DOMAIN w : i = 1 \/ (i - 1 \in DOMAIN v /\ w[i] = v[i - 1])
<1>1. <<C>> \in Seq(S) /\ Len(<<C>>) = 1 /\ <<C>>[1] = C
  OBVIOUS
<1>2. w \in Seq(S) /\ Len(w) = 1 + Len(v) /\ Len(v) \in Nat
  BY <1>1, ConcatProperties, LenProperties
<1>3. \A i \in 1 .. Len(w) : w[i] = IF i <= 1 THEN <<C>>[i] ELSE v[i - 1]
  BY <1>1, ConcatProperties
<1>4. DOMAIN v = 1 .. Len(v) /\ DOMAIN w = 1 .. (Len(v) + 1)
  BY <1>2, LenProperties
<1>5. w[1] = C /\ \A i \in DOMAIN v : w[i + 1] = v[i]
  BY <1>1, <1>2, <1>3, <1>4
<1>6. \A i \in DOMAIN w : i = 1 \/ (i - 1 \in DOMAIN v /\ w[i] = v[i - 1])
  BY <1>2, <1>3, <1>4
<1>7. w # <<>>
  BY <1>2
<1>8. QED
  BY <1>2, <1>4, <1>5, <1>6, <1>7

\* What the waves of the objects of R are, when R is what is left of D.
RightWaves(w, D, R) ==
  /\ w \in Seq(SUBSET D)
  /\ (\A i \in DOMAIN w : w[i] # {}) => All(w) = R /\ InOrder(w, D \ R)

LEMMA WavesCover ==
  ASSUME NEW D \in SUBSET Objects, NEW f, f = [R \in SUBSET D |-> WaveStep(f, D, R)]
  PROVE  \A R \in SUBSET D : RightWaves(f[R], D, R)
<1> DEFINE Wrong(R) == R \in SUBSET D /\ ~RightWaves(f[R], D, R)
           T == {n \in Nat : \E R : Wrong(R) /\ Cardinality(R) = n}
<1>1. SUFFICES ASSUME NEW P, Wrong(P) PROVE FALSE
  OBVIOUS
<1>2. T # {}
  BY <1>1, SmallerSets
<1>3. PICK n \in T : \A m \in T : n <= m
  BY <1>2, LeastNatural
<1>4. PICK R : Wrong(R) /\ Cardinality(R) = n
  BY <1>3
<1>5. ASSUME NEW Q \in SUBSET R, Q # R PROVE RightWaves(f[Q], D, Q)
  <2>1. Cardinality(Q) \in Nat /\ Cardinality(Q) < n
    BY <1>4, <1>5, SmallerSets
  <2>2. Cardinality(Q) \notin T
    <3>1. n \in Nat
      BY <1>3
    <3> HIDE DEF T
    <3>2. QED
      BY <1>3, <2>1, <3>1
  <2>3. QED
    BY <1>4, <2>1, <2>2
<1>6. R \in SUBSET D /\ f[R] = WaveStep(f, D, R)
  BY <1>4
<1>7. CASE R = {}
  <2>1. f[R] = <<>> /\ <<>> \in Seq(SUBSET D) /\ DOMAIN <<>> = {}
    BY <1>6, <1>7, EmptySeq DEF WaveStep
  <2>2. QED
    BY <1>4, <1>7, <2>1 DEF RightWaves, InOrder, All
<1>8. CASE R # {} /\ Current(D, R) = {}
  <2>1. f[R] = <<{}>>
    BY <1>6, <1>8 DEF WaveStep
  <2>2. <<{}>> \in Seq(SUBSET D) /\ 1 \in DOMAIN <<{}>> /\ <<{}>>[1] = {}
    OBVIOUS
  <2>3. QED
    BY <1>4, <2>1, <2>2 DEF RightWaves
<1>9. CASE R # {} /\ Current(D, R) # {}
  <2> DEFINE C == Current(D, R)
             Q == R \ C
  <2>1. C \in SUBSET D /\ Q \in SUBSET R /\ Q # R /\ C \union Q = R /\ Q \in SUBSET D
    BY <1>6, <1>9 DEF Current
  <2>2. f[R] = <<C>> \o f[Q]
    BY <1>6, <1>9 DEF WaveStep
  <2>3. \A o \in C : points[o] \intersect new \subseteq D \ R
    BY DEF Current, CanBeSerialized
  <2> HIDE DEF C, Q
  <2> DEFINE v == f[Q]
             w == f[R]
  <2>4. v \in Seq(SUBSET D) /\ ((\A i \in DOMAIN v : v[i] # {}) => All(v) = Q /\ InOrder(v, D \ Q))
    BY <1>5, <2>1 DEF RightWaves
  <2>w. w = <<C>> \o v
    BY <2>2 DEF v
  <2> HIDE DEF v, w
  <2>5. /\ w \in Seq(SUBSET D)
        /\ DOMAIN w = 1 .. (Len(v) + 1) /\ Len(v) \in Nat /\ DOMAIN v = 1 .. Len(v)
        /\ w[1] = C /\ \A i \in DOMAIN v : w[i + 1] = v[i]
        /\ \A i \in DOMAIN w : i = 1 \/ (i - 1 \in DOMAIN v /\ w[i] = v[i - 1])
    <3> DEFINE S == SUBSET D
    <3>1. C \in S /\ v \in Seq(S)
      BY <2>1, <2>4
    <3> HIDE DEF S
    <3>2. /\ w \in Seq(S)
          /\ DOMAIN w = 1 .. (Len(v) + 1) /\ Len(v) \in Nat /\ DOMAIN v = 1 .. Len(v)
          /\ w[1] = C /\ \A i \in DOMAIN v : w[i + 1] = v[i]
          /\ \A i \in DOMAIN w : i = 1 \/ (i - 1 \in DOMAIN v /\ w[i] = v[i - 1])
      BY <2>w, <3>1, Prepend
    <3>3. QED
      BY <3>2 DEF S
  <2>6. ASSUME \A i \in DOMAIN w : w[i] # {} PROVE All(w) = R /\ InOrder(w, D \ R)
    <3>a. 1 \in DOMAIN w /\ \A i \in DOMAIN v : i + 1 \in DOMAIN w
      BY <2>5
    <3>1. All(v) = Q /\ InOrder(v, D \ Q)
      BY <2>4, <2>5, <2>6, <3>a
    <3>2. All(w) = R
      <4>1. All(w) \subseteq C \union All(v)
        BY <2>5 DEF All
      <4>2. C \subseteq All(w) /\ All(v) \subseteq All(w)
        BY <2>5, <3>a DEF All
      <4>3. QED
        BY <2>1, <3>1, <4>1, <4>2
    <3>3. ASSUME NEW i \in DOMAIN w, NEW o \in w[i]
          PROVE  points[o] \intersect new \subseteq (D \ R) \union Before(w, i)
      <4>1. CASE i = 1
        BY <2>3, <2>5, <3>3, <4>1
      <4>2. CASE i # 1
        <5>1. i - 1 \in DOMAIN v /\ w[i] = v[i - 1] /\ i \in Nat
          <6>1. i \in Nat /\ i - 1 \in DOMAIN v /\ (i - 1) + 1 = i
            BY <2>5, <3>3, <4>2
          <6>2. QED
            BY <2>5, <6>1
        <5>2. points[o] \intersect new \subseteq (D \ Q) \union Before(v, i - 1)
          BY <3>1, <3>3, <5>1 DEF InOrder
        <5>3. C \subseteq Before(w, i)
          <6>1. 1 \in 1 .. i - 1
            BY <2>5, <3>3, <4>2
          <6>2. QED
            BY <2>5, <6>1 DEF Before
        <5>4. Before(v, i - 1) \subseteq Before(w, i)
          <6>1. ASSUME NEW j \in 1 .. (i - 1) - 1 PROVE v[j] \subseteq Before(w, i)
            <7>1. j \in DOMAIN v /\ j + 1 \in 1 .. i - 1
              BY <2>5, <5>1, <6>1
            <7>2. QED
              BY <2>5, <7>1 DEF Before
          <6>2. QED
            BY <6>1 DEF Before
        <5>5. QED
          BY <2>1, <5>2, <5>3, <5>4
      <4>3. QED
        BY <4>1, <4>2
    <3>4. QED
      BY <3>2, <3>3 DEF InOrder
  <2>7. QED
    BY <1>4, <2>5, <2>6 DEF RightWaves, w
<1>10. QED
  BY <1>7, <1>8, <1>9

\* The waves of what can be saved are all of it, in an order in which it can be.
LEMMA WavesAreInOrder ==
  ASSUME NEW D \in SUBSET Objects
  PROVE  /\ Waves(D) \in Seq(SUBSET Objects)
         /\ (\A i \in DOMAIN Waves(D) : Waves(D)[i] # {}) =>
              All(Waves(D)) = D /\ Ordered(Waves(D), NewBehind)
<1>1. PICK f : f = [R \in SUBSET D |-> WaveStep(f, D, R)] /\ Waves(D) = f[D]
  BY WavesAre
<1> DEFINE w == Waves(D)
<1>2. RightWaves(w, D, D)
  BY <1>1, WavesCover
<1> HIDE DEF w
<1>3. w \in Seq(SUBSET Objects) /\ \A i \in DOMAIN w : w[i] \subseteq Objects
  BY <1>2, SeqMonotonic DEF RightWaves
<1>4. ASSUME \A i \in DOMAIN w : w[i] # {} PROVE All(w) = D /\ Ordered(w, NewBehind)
  BY <1>2, <1>3, <1>4 DEF RightWaves, InOrder, Ordered, NewBehind
<1>5. QED
  BY <1>3, <1>4 DEF w

LEMMA FirstOf ==
  ASSUME NEW S, NEW w \in Seq(S), w # <<>>
  PROVE  1 \in DOMAIN w /\ Head(w) = w[1] /\ w[1] \in S
BY EmptySeq, LenProperties

\* When the objects of the first wave are known, the rest can do without it.
LEMMA TailStaysInOrder ==
  ASSUME NEW w \in Seq(SUBSET Objects), w # <<>>, Ordered(w, NewBehind),
         Head(w) \intersect new = {}
  PROVE  /\ Tail(w) \in Seq(SUBSET Objects) /\ Ordered(Tail(w), NewBehind)
         /\ \A o \in Objects : NewBehind[o] \subseteq All(w) => NewBehind[o] \subseteq All(Tail(w))
<1> DEFINE v == Tail(w)
<1>1. /\ v \in Seq(SUBSET Objects) /\ Len(v) = Len(w) - 1 /\ Len(v) \in Nat
      /\ DOMAIN v = 1 .. Len(v) /\ DOMAIN w = 1 .. (Len(v) + 1)
      /\ Head(w) = w[1]
      /\ \A i \in 1 .. Len(v) : v[i] = w[i + 1]
  BY HeadTailProperties, LenProperties
<1> HIDE DEF v
<1>2. \A o \in Objects : NewBehind[o] \intersect w[1] = {}
  BY <1>1 DEF NewBehind
<1>3. ASSUME NEW i \in DOMAIN v, NEW o \in v[i] PROVE NewBehind[o] \subseteq Before(v, i)
  <2>1. i \in 1 .. Len(v) /\ i + 1 \in DOMAIN w /\ w[i + 1] = v[i]
    BY <1>1, <1>3
  <2>2. NewBehind[o] \subseteq Before(w, i + 1) /\ o \in Objects
    BY <1>1, <1>3, <2>1 DEF Ordered
  <2>3. ASSUME NEW j \in 1 .. (i + 1) - 1, j # 1 PROVE w[j] \subseteq Before(v, i)
    <3>1. j - 1 \in 1 .. i - 1 /\ j - 1 \in 1 .. Len(v) /\ (j - 1) + 1 = j
      BY <1>1, <2>1, <2>3
    <3>2. v[j - 1] = w[j]
      BY <1>1, <3>1
    <3>3. QED
      BY <3>1, <3>2 DEF Before
  <2>4. Before(w, i + 1) \subseteq w[1] \union Before(v, i)
    BY <2>3 DEF Before
  <2>5. QED
    BY <1>2, <2>2, <2>4
<1>4. All(w) \subseteq w[1] \union All(v)
  <2>1. ASSUME NEW j \in DOMAIN w, j # 1 PROVE w[j] \subseteq All(v)
    <3>1. j - 1 \in 1 .. Len(v) /\ (j - 1) + 1 = j
      BY <1>1, <2>1
    <3>2. v[j - 1] = w[j]
      BY <1>1, <3>1
    <3>3. QED
      BY <1>1, <3>1, <3>2 DEF All
  <2>2. QED
    BY <2>1 DEF All
<1>5. Ordered(v, NewBehind)
  BY <1>3 DEF Ordered
<1>6. QED
  BY <1>1, <1>2, <1>4, <1>5 DEF v

-----------------------------------------------------------------------------
(* What can be reached, in as many steps as there are objects.             *)

Around(S, P) == S \union UNION {points[o] \intersect P : o \in S \intersect P}

Steps == 0 .. NumObjects

WithinStep(f, S, P, n) == IF n = 0 THEN S ELSE Around(f[n - 1], P)

LEMMA WithinExists ==
  ASSUME NEW S, NEW P
  PROVE  \E f : f = [n \in Steps |-> WithinStep(f, S, P, n)]
<1> DEFINE RightOn(f, m) ==
             /\ DOMAIN f = Steps /\ f = [n \in Steps |-> f[n]]
             /\ \A n \in Steps : n < m => f[n] = WithinStep(f, S, P, n)
           T == {m \in Nat : \A f : ~RightOn(f, m)}
<1>2. NumObjects \in Nat
  BY TaskAssumption DEF TaskAssumption
<1>1. T = {}
  <2> SUFFICES ASSUME T # {} PROVE FALSE
    OBVIOUS
  <2>1. PICK m \in T : \A k \in T : m <= k
    BY LeastNatural
  <2>2. m # 0
    <3> DEFINE none == [n \in Steps |-> S]
    <3>1. RightOn(none, 0)
      BY DEF Steps
    <3> HIDE DEF RightOn
    <3>2. QED
      BY <2>1, <3>1
  <2>3. \E f : RightOn(f, m - 1)
    <3> HIDE DEF RightOn
    <3>1. m - 1 \in Nat /\ m - 1 \notin T
      BY <2>1, <2>2
    <3>2. QED
      BY <3>1
  <2>4. PICK f : RightOn(f, m - 1)
    BY <2>3
  <2> DEFINE g == [n \in Steps |-> WithinStep(f, S, P, n)]
  <2>5. ASSUME NEW n \in Steps, n < m PROVE g[n] = WithinStep(g, S, P, n)
    <3>1. CASE n # 0
      <4>1. n - 1 \in Steps /\ n - 1 < m - 1
        BY <1>2, <2>1, <2>5, <3>1 DEF Steps
      <4>2. g[n - 1] = f[n - 1]
        BY <2>4, <4>1
      <4>3. QED
        BY <3>1, <4>2 DEF WithinStep
    <3>2. CASE n = 0
      BY <3>2 DEF WithinStep
    <3>3. QED
      BY <3>1, <3>2
  <2>6. RightOn(g, m)
    BY <2>5
  <2>7. QED
    BY <2>1, <2>6
<1>3. \E f : RightOn(f, NumObjects + 1)
  <2> HIDE DEF RightOn
  <2>1. QED
    BY <1>1, <1>2
<1>4. PICK f : RightOn(f, NumObjects + 1)
  BY <1>3
<1>5. f = [n \in Steps |-> WithinStep(f, S, P, n)]
  BY <1>2, <1>4 DEF Steps
<1>6. QED
  BY <1>5

\* What is pointed to is within reach, and so is what the search starts from.
LEMMA WithinReaches ==
  ASSUME NEW S, NEW P, NumObjects # 0
  PROVE  Around(S, P) \subseteq Within(S, P)
<1>1. Within(S, P) = (CHOOSE f : f = [n \in Steps |-> WithinStep(f, S, P, n)])[NumObjects]
  BY DEF Within, WithinStep, Around, Steps
<1>2. PICK f : f = [n \in Steps |-> WithinStep(f, S, P, n)]
               /\ Within(S, P) = f[NumObjects]
  <2> DEFINE within == CHOOSE f : f = [n \in Steps |-> WithinStep(f, S, P, n)]
  <2>1. within = [n \in Steps |-> WithinStep(within, S, P, n)]
    BY WithinExists
  <2> HIDE DEF within
  <2>2. QED
    BY <1>1, <2>1, Zenon DEF within
<1>3. NumObjects \in Nat \ {0}
  BY TaskAssumption DEF TaskAssumption
<1>4. ASSUME NEW n \in 1 .. NumObjects PROVE f[n - 1] \subseteq f[n]
  <2>1. n \in Steps /\ n # 0
    BY <1>4 DEF Steps
  <2>2. f[n] = Around(f[n - 1], P)
    BY <1>2, <2>1 DEF WithinStep
  <2>3. QED
    BY <2>2 DEF Around
<1>5. f[1] = Around(S, P)
  <2>1. f[0] = S /\ f[1] = Around(f[0], P)
    BY <1>2, <1>3 DEF WithinStep, Steps
  <2>2. QED
    BY <2>1
<1> DEFINE T == {n \in 1 .. NumObjects : ~(f[1] \subseteq f[n])}
<1>6. T = {}
  <2> SUFFICES ASSUME T # {} PROVE FALSE
    OBVIOUS
  <2>0. T \in SUBSET Nat
    BY <1>3
  <2>1. PICK n \in T : \A k \in T : n <= k
    <3> HIDE DEF T
    <3>1. QED
      BY <2>0, LeastNatural
  <2>2. n # 1 /\ n \in 1 .. NumObjects
    BY <2>1
  <2>3. n - 1 \in 1 .. NumObjects /\ n - 1 \notin T
    BY <1>3, <2>1, <2>2
  <2>4. f[1] \subseteq f[n - 1] /\ f[n - 1] \subseteq f[n]
    BY <1>4, <2>2, <2>3
  <2>5. QED
    BY <2>1, <2>4
<1>7. QED
  BY <1>2, <1>3, <1>5, <1>6

\* Nothing leads out of a set that has all it points to.
LEMMA WithinCloses ==
  ASSUME NEW S, NEW P, NEW C, S \subseteq C, \A o \in C \intersect P : points[o] \intersect P \subseteq C
  PROVE  Within(S, P) \subseteq C
<1>1. Within(S, P) = (CHOOSE f : f = [n \in Steps |-> WithinStep(f, S, P, n)])[NumObjects]
  BY DEF Within, WithinStep, Around, Steps
<1>2. PICK f : f = [n \in Steps |-> WithinStep(f, S, P, n)] /\ Within(S, P) = f[NumObjects]
  <2> DEFINE within == CHOOSE f : f = [n \in Steps |-> WithinStep(f, S, P, n)]
  <2>1. within = [n \in Steps |-> WithinStep(within, S, P, n)]
    BY WithinExists
  <2> HIDE DEF within
  <2>2. QED
    BY <1>1, <2>1, Zenon DEF within
<1>3. NumObjects \in Nat
  BY TaskAssumption DEF TaskAssumption
<1> DEFINE T == {n \in Steps : ~(f[n] \subseteq C)}
<1>4. T = {}
  <2> SUFFICES ASSUME T # {} PROVE FALSE
    OBVIOUS
  <2>1. T \in SUBSET Nat
    BY <1>3 DEF Steps
  <2>2. PICK n \in T : \A k \in T : n <= k
    <3> HIDE DEF T
    <3>1. QED
      BY <2>1, LeastNatural
  <2>3. n \in Steps /\ f[n] = WithinStep(f, S, P, n)
    BY <1>2, <2>2
  <2>4. n # 0
    BY <2>2, <2>3 DEF WithinStep
  <2>5. n - 1 \in Steps /\ n - 1 \notin T
    BY <1>3, <2>2, <2>3, <2>4 DEF Steps
  <2>6. f[n] = Around(f[n - 1], P) /\ f[n - 1] \subseteq C
    BY <2>3, <2>4, <2>5 DEF WithinStep
  <2>7. QED
    BY <2>2, <2>6 DEF Around
<1>5. QED
  BY <1>2, <1>3, <1>4 DEF Steps

\* Nothing else is within reach.
LEMMA WithinStays ==
  ASSUME NEW S, NEW P
  PROVE  Within(S, P) \subseteq S \union P
BY WithinCloses

-----------------------------------------------------------------------------
(***************************************************************************)
(* Children are saved first.  What a task may rely on, where N are the     *)
(* objects the server does not know, and L[o] those of them o points to.   *)
(***************************************************************************)
\* The waves a task has still to save are all its object needs, and can be
\* saved one after the other ...
WaitsForWaves(r, L) ==
  /\ r.waves \in Seq(SUBSET Objects)
  /\ Ordered(r.waves, L)
  /\ r.kind = "save" => \A o \in r.objects : L[o] \subseteq All(r.waves)

\* ... a batch, and whatever is sent, needs nothing more, and after a success
\* the server knows the objects.
SafeTask(r, L, N) ==
  /\ r.objects \subseteq Objects
  /\ r.phase \in {"locking", "queued"} => r.batch = NoTask
  /\ r.phase = "children" => WaitsForWaves(r, L)
  /\ (r.kind = "batch" /\ r.phase # "done") \/ r.phase = "sent" =>
       \A o \in r.objects : L[o] = {}
  /\ r.phase = "done" /\ r.ok => r.objects \intersect N = {}

\* The batch a task waits for is its next wave.
SavesNextWave(r, list) ==
  r.phase = "children" /\ r.batch # NoTask =>
    /\ r.waves # <<>> /\ r.batch \in DOMAIN list
    /\ list[r.batch].kind = "batch" /\ list[r.batch].objects = Head(r.waves)

WavesInv ==
  /\ points \in [Objects -> SUBSET Objects] /\ new \subseteq Objects
  /\ \A t \in DOMAIN tasks : /\ SafeTask(tasks[t], NewBehind, new)
                             /\ SavesNextWave(tasks[t], tasks)

LEMMA StaysSafe ==
  ASSUME NEW r, NEW L, NEW N, NEW M, NEW Q \in SUBSET N, SafeTask(r, L, N),
         \A o \in Objects : M[o] \subseteq L[o]
  PROVE  SafeTask(r, M, Q)
<1>1. r.objects \subseteq Objects /\ (r.phase \in {"locking", "queued"} => r.batch = NoTask)
  BY DEF SafeTask
<1>2. ASSUME r.phase = "children" PROVE WaitsForWaves(r, M)
  <2>1. WaitsForWaves(r, L)
    BY <1>2 DEF SafeTask
  <2>2. \A i \in DOMAIN r.waves : r.waves[i] \subseteq Objects
    BY <2>1 DEF WaitsForWaves
  <2>3. Ordered(r.waves, M)
    <3>1. ASSUME NEW i \in DOMAIN r.waves, NEW o \in r.waves[i]
          PROVE  M[o] \subseteq Before(r.waves, i)
      BY <2>1, <2>2 DEF WaitsForWaves, Ordered
    <3>2. QED
      BY <3>1 DEF Ordered
  <2>4. QED
    BY <1>1, <2>1, <2>3 DEF WaitsForWaves
<1>3. ASSUME (r.kind = "batch" /\ r.phase # "done") \/ r.phase = "sent", NEW o \in r.objects
      PROVE  M[o] = {}
  BY <1>1, <1>3 DEF SafeTask
<1>4. r.phase = "done" /\ r.ok => r.objects \intersect Q = {}
  BY DEF SafeTask
<1>5. QED
  BY <1>1, <1>2, <1>3, <1>4 DEF SafeTask

\* A step keeps the invariant that leaves every task as it was, or safe.
LEMMA WavesKept ==
  ASSUME WavesInv, points' = points, new' \subseteq new,
         \A u \in DOMAIN tasks : /\ u \in DOMAIN tasks'
                                 /\ tasks'[u].kind = tasks[u].kind
                                 /\ tasks'[u].objects = tasks[u].objects,
         \A u \in DOMAIN tasks' :
           \/ u \in DOMAIN tasks /\ tasks'[u] = tasks[u]
           \/ SafeTask(tasks'[u], NewBehind, new') /\ SavesNextWave(tasks'[u], tasks')
  PROVE  WavesInv'
<1>1. \A o \in Objects : NewBehind'[o] \subseteq NewBehind[o]
  BY DEF NewBehind
<1>2. ASSUME NEW u \in DOMAIN tasks'
      PROVE  SafeTask(tasks'[u], NewBehind', new') /\ SavesNextWave(tasks'[u], tasks')
  <2>1. CASE SafeTask(tasks'[u], NewBehind, new') /\ SavesNextWave(tasks'[u], tasks')
    BY <1>1, <2>1, StaysSafe
  <2>2. CASE u \in DOMAIN tasks /\ tasks'[u] = tasks[u]
    <3>1. SafeTask(tasks[u], NewBehind, new) /\ SavesNextWave(tasks[u], tasks)
      BY <2>2 DEF WavesInv
    <3>2. SafeTask(tasks[u], NewBehind', new')
      BY <1>1, <3>1, StaysSafe
    <3>3. SavesNextWave(tasks[u], tasks')
      BY <3>1 DEF SavesNextWave
    <3>4. QED
      BY <2>2, <3>2, <3>3
  <2>3. QED
    BY <1>2, <2>1, <2>2
<1>3. points' \in [Objects -> SUBSET Objects] /\ new' \subseteq Objects
  BY DEF WavesInv
<1>4. QED
  BY <1>2, <1>3 DEF WavesInv

\* Task t becomes r.
LEMMA BecomesSafe ==
  ASSUME TaskInv, WavesInv, points' = points, new' \subseteq new, NEW t \in DOMAIN tasks, NEW r,
         tasks' = [tasks EXCEPT ![t] = r],
         r.kind = tasks[t].kind, r.objects = tasks[t].objects,
         SafeTask(r, NewBehind, new'), r.phase = "children" => r.batch = NoTask
  PROVE  WavesInv'
<1>1. DOMAIN tasks' = DOMAIN tasks
      /\ \A u \in DOMAIN tasks : tasks'[u] = IF u = t THEN r ELSE tasks[u]
  BY DEF TaskInv, TaskList
<1>2. SavesNextWave(r, tasks')
  BY DEF SavesNextWave
<1>3. QED
  BY <1>1, <1>2, WavesKept

\* A task that ends has failed, or the server knows its objects.
LEMMA FinishIsSafe ==
  ASSUME TaskInv, WavesInv, NEW t \in DOMAIN tasks, NEW saved, NEW restored,
         Finish(t, saved, restored)
  PROVE  WavesInv'
<1> DEFINE r == [tasks[t] EXCEPT !.phase = "done",
                                 !.ok = tasks[t].ok /\ tasks[t].objects \subseteq saved]
<1>1. tasks' = [tasks EXCEPT ![t] = r] /\ new' = new \ saved /\ points' = points
  BY DEF Finish
<1>2. /\ r.kind = tasks[t].kind /\ r.objects = tasks[t].objects /\ r.phase = "done"
      /\ r.ok => tasks[t].objects \subseteq saved
  BY DEF TaskInv, TaskList, Fields
<1> HIDE DEF r
<1>3. tasks[t].objects \subseteq Objects
  BY DEF WavesInv, SafeTask
<1>4. SafeTask(r, NewBehind, new')
  BY <1>1, <1>2, <1>3 DEF SafeTask
<1>5. QED
  BY <1>1, <1>2, <1>4, BecomesSafe

-----------------------------------------------------------------------------
(* Each kind of step keeps it.                                              *)

\* What is within reach of objects are objects.
LEMMA ReachesObjects ==
  ASSUME points \in [Objects -> SUBSET Objects], NEW S \in SUBSET Objects
  PROVE  Reachable(S) \subseteq Objects
BY WithinStays DEF Reachable

\* The waves of a save that is not impossible are all that its object needs.
LEMMA ChildrenAreSafe ==
  ASSUME WavesInv, NEW o \in Objects, NEW r, NEW D,
         D = {c \in Reachable({o}) : IsDirty(c)} \ {o}, ~Impossible({o}, D),
         r.kind = "save", r.phase = "children", r.objects = {o}, r.waves = Waves(D)
  PROVE  SafeTask(r, NewBehind, new)
<1>1. points \in [Objects -> SUBSET Objects] /\ new \subseteq Objects /\ D \in SUBSET Objects
  BY ReachesObjects DEF WavesInv
<1>2. \A i \in DOMAIN Waves(D) : Waves(D)[i] # {}
  BY DEF Impossible
<1>3. Waves(D) \in Seq(SUBSET Objects) /\ All(Waves(D)) = D /\ Ordered(Waves(D), NewBehind)
  BY <1>1, <1>2, WavesAreInOrder
<1>4. NumObjects # 0
  BY TaskAssumption DEF Objects, TaskAssumption
<1>5. o \notin points[o] \intersect new
  <2>1. SUFFICES ASSUME o \in points[o] \intersect new PROVE FALSE
    OBVIOUS
  <2>2. o \in Within(points[o] \intersect new, new)
    BY <1>4, <2>1, WithinReaches DEF Around
  <2>3. o \in Reachable({o}) \intersect new
    BY <2>1 DEF Reachable
  <2>4. QED
    BY <2>2, <2>3 DEF Impossible, NewCycle
<1>6. points[o] \intersect new \subseteq D
  <2>1. points[o] \intersect Objects \subseteq Within({o}, Objects)
    BY <1>4, WithinReaches DEF Around
  <2>2. QED
    BY <1>1, <1>5, <2>1 DEF Reachable, IsDirty
<1>7. WaitsForWaves(r, NewBehind)
  BY <1>3, <1>6 DEF WaitsForWaves, NewBehind
<1>8. QED
  BY <1>7 DEF SafeTask

LEMMA BeginSaveIsSafe ==
  ASSUME TaskInv, WavesInv, NEW t \in DOMAIN tasks, BeginSave(t)
  PROVE  WavesInv'
<1>1. PICK o \in Objects : tasks[t].objects = {o} /\ tasks[t].kind = "save"
  BY DEF BeginSave, TaskInv, KindsOfTasks
<1> DEFINE children == {c \in Reachable({o}) : IsDirty(c)} \ {o}
           lost == [tasks[t] EXCEPT !.phase = "done", !.ok = FALSE]
           begun == [tasks[t] EXCEPT !.phase = "children", !.waves = Waves(children),
                                     !.taken = {o} \intersect changed]
<1>2. \/ Finish(t, {o}, {})
      \/ tasks' = [tasks EXCEPT ![t] = lost] /\ UNCHANGED <<points, new>>
      \/ /\ ~Impossible({o}, children)
         /\ tasks' = [tasks EXCEPT ![t] = begun] /\ UNCHANGED <<points, new>>
  BY <1>1 DEF BeginSave
<1>3. /\ lost.kind = tasks[t].kind /\ lost.objects = tasks[t].objects
      /\ lost.phase = "done" /\ lost.ok = FALSE
  BY DEF TaskInv, TaskList, Fields
<1>4. /\ begun.kind = tasks[t].kind /\ begun.objects = tasks[t].objects
      /\ begun.phase = "children" /\ begun.waves = Waves(children)
      /\ begun.batch = tasks[t].batch
  BY DEF TaskInv, TaskList, Fields
<1> HIDE DEF lost, begun
<1>5. CASE Finish(t, {o}, {})
  BY <1>5, FinishIsSafe
<1>6. CASE tasks' = [tasks EXCEPT ![t] = lost] /\ UNCHANGED <<points, new>>
  <2>1. SafeTask(lost, NewBehind, new')
    BY <1>1, <1>3 DEF SafeTask
  <2>2. QED
    BY <1>3, <1>6, <2>1, BecomesSafe
<1>7. CASE /\ ~Impossible({o}, children)
           /\ tasks' = [tasks EXCEPT ![t] = begun] /\ UNCHANGED <<points, new>>
  <2> DEFINE D == children
  <2>1. ~Impossible({o}, D) /\ begun.waves = Waves(D)
    BY <1>4, <1>7
  <2>2. SafeTask(begun, NewBehind, new)
    BY <1>1, <1>4, <2>1, ChildrenAreSafe
  <2>3. begun.batch = NoTask
    BY <1>4 DEF BeginSave, Ready, WavesInv, SafeTask
  <2>4. QED
    BY <1>4, <1>7, <2>2, <2>3, BecomesSafe
<1>8. QED
  BY <1>2, <1>5, <1>6, <1>7

LEMMA BeginWaveIsSafe ==
  ASSUME TaskInv, WavesInv, NEW t \in DOMAIN tasks, BeginWave(t)
  PROVE  WavesInv'
<1> DEFINE linked == [tasks[t] EXCEPT !.batch = Len(tasks) + 1]
           list == [tasks EXCEPT ![t] = linked]
           next == Len(tasks) + 1
           r == NewTask("batch", Head(tasks[t].waves), "locking")
<1>1. tasks' = Append(list, r) /\ points' = points /\ new' = new
  BY DEF BeginWave, BetweenWaves, BetweenWaves
<1>2. /\ tasks[t].phase = "children" /\ tasks[t].waves # <<>>
      /\ SafeTask(tasks[t], NewBehind, new) /\ WaitsForWaves(tasks[t], NewBehind)
  BY DEF BeginWave, BetweenWaves, WavesInv, SafeTask
<1>3. /\ linked.kind = tasks[t].kind /\ linked.objects = tasks[t].objects
      /\ linked.phase = "children" /\ linked.waves = tasks[t].waves /\ linked.batch = next
  BY <1>2 DEF TaskInv, TaskList, Fields
<1>4. /\ r.kind = "batch" /\ r.objects = Head(tasks[t].waves) /\ r.phase = "locking"
      /\ r.batch = NoTask
  BY DEF NewTask
<1>5. /\ DOMAIN tasks' = DOMAIN tasks \union {next} /\ next \notin DOMAIN tasks
      /\ tasks'[next] = r /\ tasks'[t] = linked
      /\ \A u \in DOMAIN tasks : u # t => tasks'[u] = tasks[u]
  <2> DEFINE S == Range(tasks) \union {linked, r}
  <2>1. tasks \in Seq(S) /\ linked \in S /\ r \in S
    BY SeqMonotonic DEF TaskInv, TaskList
  <2> HIDE DEF S, r, linked
  <2>2. list \in Seq(S) /\ Len(list) = Len(tasks)
        /\ \A u \in DOMAIN tasks : list[u] = IF u = t THEN linked ELSE tasks[u]
    BY <2>1, ExceptSeq, LenProperties
  <2> HIDE DEF list
  <2>3. /\ DOMAIN tasks = 1 .. Len(tasks) /\ Len(tasks) \in Nat
        /\ DOMAIN tasks' = 1 .. next /\ tasks'[next] = r
        /\ \A u \in 1 .. Len(tasks) : tasks'[u] = list[u]
    BY SMTT(30), <1>1, <2>1, <2>2, AppendProperties, LenProperties
  <2>4. QED
    BY <2>2, <2>3
<1> HIDE DEF r, linked, list, next
<1>6. SafeTask(linked, NewBehind, new) /\ SavesNextWave(linked, tasks')
  BY <1>2, <1>3, <1>4, <1>5 DEF SafeTask, WaitsForWaves, SavesNextWave
<1>7. SafeTask(r, NewBehind, new) /\ SavesNextWave(r, tasks')
  <2> DEFINE w == tasks[t].waves
  <2>1. w \in Seq(SUBSET Objects) /\ w # <<>> /\ Ordered(w, NewBehind)
    BY <1>2 DEF WaitsForWaves
  <2> HIDE DEF w
  <2>2. 1 \in DOMAIN w /\ Head(w) = w[1] /\ w[1] \subseteq Objects
    BY <2>1, FirstOf
  <2>3. \A o \in Head(w) : NewBehind[o] = {}
    BY <2>1, <2>2 DEF Ordered, Before
  <2>4. QED
    BY <1>4, <2>2, <2>3 DEF SafeTask, SavesNextWave, w
<1>8. \A u \in DOMAIN tasks : /\ u \in DOMAIN tasks'
                              /\ tasks'[u].kind = tasks[u].kind
                              /\ tasks'[u].objects = tasks[u].objects
  BY <1>3, <1>5
<1>9. \A u \in DOMAIN tasks' :
        \/ u \in DOMAIN tasks /\ tasks'[u] = tasks[u]
        \/ SafeTask(tasks'[u], NewBehind, new') /\ SavesNextWave(tasks'[u], tasks')
  BY <1>1, <1>5, <1>6, <1>7
<1>10. QED
  BY <1>1, <1>8, <1>9, WavesKept

LEMMA EndWaveIsSafe ==
  ASSUME TaskInv, WavesInv, NEW t \in DOMAIN tasks, EndWave(t)
  PROVE  WavesInv'
<1> DEFINE r == [tasks[t] EXCEPT !.batch = NoTask, !.waves = Tail(@)]
           w == tasks[t].waves
<1>1. tasks' = [tasks EXCEPT ![t] = r] /\ points' = points /\ new' = new
  BY DEF EndWave, WaveEnded, WaveEnded
<1>2. /\ r.kind = tasks[t].kind /\ r.objects = tasks[t].objects /\ r.phase = "children"
      /\ r.batch = NoTask /\ r.waves = Tail(w)
  BY DEF TaskInv, TaskList, Fields, EndWave, WaveEnded
<1>3. /\ tasks[t].phase = "children" /\ tasks[t].batch # NoTask
      /\ SafeTask(tasks[t], NewBehind, new) /\ SavesNextWave(tasks[t], tasks)
  BY DEF EndWave, WaveEnded, WavesInv
<1>4. /\ w \in Seq(SUBSET Objects) /\ w # <<>> /\ Ordered(w, NewBehind)
      /\ (tasks[t].kind = "save" => \A o \in tasks[t].objects : NewBehind[o] \subseteq All(w))
  BY <1>3 DEF SafeTask, WaitsForWaves, SavesNextWave
<1>5. Head(w) \intersect new = {}
  <2> DEFINE b == tasks[t].batch
  <2>1. b \in DOMAIN tasks /\ tasks[b].objects = Head(w)
    BY <1>3 DEF SavesNextWave
  <2>2. SafeTask(tasks[b], NewBehind, new)
    BY <2>1 DEF WavesInv
  <2>3. QED
    BY <2>1, <2>2 DEF EndWave, WaveEnded, SafeTask
<1> HIDE DEF r, w
<1>6. /\ Tail(w) \in Seq(SUBSET Objects) /\ Ordered(Tail(w), NewBehind)
      /\ \A o \in Objects : NewBehind[o] \subseteq All(w) => NewBehind[o] \subseteq All(Tail(w))
  BY <1>4, <1>5, TailStaysInOrder
<1>7. tasks[t].objects \subseteq Objects
  BY <1>3 DEF SafeTask
<1>8. WaitsForWaves(r, NewBehind)
  BY <1>2, <1>4, <1>6, <1>7 DEF WaitsForWaves
<1>9. SafeTask(r, NewBehind, new')
  BY <1>1, <1>2, <1>3, <1>7, <1>8 DEF SafeTask, TaskInv, KindsOfTasks
<1>10. QED
  BY <1>1, <1>2, <1>9, BecomesSafe

LEMMA AbandonWavesIsSafe ==
  ASSUME TaskInv, WavesInv, NEW t \in DOMAIN tasks, AbandonWaves(t)
  PROVE  WavesInv'
<1> DEFINE r == [tasks[t] EXCEPT !.phase = "done", !.ok = FALSE]
<1>1. CASE tasks[t].kind = "save"
  BY <1>1, FinishIsSafe DEF AbandonWaves, WaveEnded
<1>2. CASE tasks[t].kind # "save"
  <2>1. tasks' = [tasks EXCEPT ![t] = r] /\ points' = points /\ new' = new
    BY <1>2 DEF AbandonWaves, WaveEnded
  <2>2. /\ r.kind = tasks[t].kind /\ r.objects = tasks[t].objects
        /\ r.phase = "done" /\ r.ok = FALSE
    BY DEF TaskInv, TaskList, Fields
  <2> HIDE DEF r
  <2>3. tasks[t].objects \subseteq Objects
    BY DEF WavesInv, SafeTask
  <2>4. SafeTask(r, NewBehind, new')
    BY <2>2, <2>3 DEF SafeTask
  <2>5. QED
    BY <2>1, <2>2, <2>4, BecomesSafe
<1>3. QED
  BY <1>1, <1>2

LEMMA SendSaveIsSafe ==
  ASSUME TaskInv, WavesInv, NEW t \in DOMAIN tasks, SendSave(t)
  PROVE  WavesInv'
<1> DEFINE r == [tasks[t] EXCEPT !.phase = "sent"]
<1>1. CASE Finish(t, tasks[t].objects, {})
  BY <1>1, FinishIsSafe
<1>2. CASE /\ tasks[t].kind = "save"
           /\ tasks' = [tasks EXCEPT ![t].phase = "sent"] /\ UNCHANGED <<points, new>>
  <2>1. tasks' = [tasks EXCEPT ![t] = r]
    BY <1>2
  <2>2. r.kind = tasks[t].kind /\ r.objects = tasks[t].objects /\ r.phase = "sent"
    BY DEF TaskInv, TaskList, Fields
  <2> HIDE DEF r
  <2>3. /\ tasks[t].objects \subseteq Objects
        /\ \A o \in tasks[t].objects : NewBehind[o] \subseteq All(<<>>)
    BY <1>2 DEF SendSave, BetweenWaves, WavesInv, SafeTask, WaitsForWaves
  <2>4. All(<<>>) = {}
    BY DEF All
  <2>5. SafeTask(r, NewBehind, new')
    BY <2>2, <2>3, <2>4 DEF SafeTask
  <2>6. QED
    BY <1>2, <2>1, <2>2, <2>5, BecomesSafe
<1>3. QED
  BY <1>1, <1>2 DEF SendSave, BetweenWaves

LEMMA SendBatchIsSafe ==
  ASSUME TaskInv, WavesInv, NEW t \in DOMAIN tasks, SendBatch(t)
  PROVE  WavesInv'
<1> DEFINE r == [tasks[t] EXCEPT !.phase = "sent", !.taken = tasks[t].objects \intersect changed]
<1>1. tasks' = [tasks EXCEPT ![t] = r] /\ points' = points /\ new' = new
      /\ tasks[t].kind = "batch" /\ tasks[t].phase = "queued"
  BY DEF SendBatch, Ready
<1>2. r.kind = tasks[t].kind /\ r.objects = tasks[t].objects /\ r.phase = "sent"
  BY DEF TaskInv, TaskList, Fields
<1> HIDE DEF r
<1>3. SafeTask(r, NewBehind, new')
  BY <1>1, <1>2 DEF WavesInv, SafeTask
<1>4. QED
  BY <1>1, <1>2, <1>3, BecomesSafe

LEMMA EnqueueIsSafe ==
  ASSUME TaskInv, WavesInv, NEW t \in DOMAIN tasks, Enqueue(t)
  PROVE  WavesInv'
<1> DEFINE r == [tasks[t] EXCEPT !.phase = "queued"]
<1>1. tasks' = [tasks EXCEPT ![t] = r] /\ points' = points /\ new' = new
      /\ tasks[t].phase = "locking"
  BY DEF Enqueue
<1>2. /\ r.kind = tasks[t].kind /\ r.objects = tasks[t].objects /\ r.phase = "queued"
      /\ r.batch = tasks[t].batch
  BY DEF TaskInv, TaskList, Fields
<1> HIDE DEF r
<1>3. SafeTask(r, NewBehind, new')
  BY <1>1, <1>2 DEF WavesInv, SafeTask
<1>4. QED
  BY <1>1, <1>2, <1>3, BecomesSafe

-----------------------------------------------------------------------------
(* The steps of the application.                                            *)

LEMMA NewTaskIsSafe ==
  ASSUME TaskInv, WavesInv, NEW r, tasks' = Append(tasks, r),
         points' = points, new' = new,
         SafeTask(r, NewBehind, new), r.batch = NoTask
  PROVE  WavesInv'
<1> DEFINE next == Len(tasks) + 1
<1>1. /\ DOMAIN tasks' = DOMAIN tasks \union {next} /\ tasks'[next] = r
      /\ \A u \in DOMAIN tasks : tasks'[u] = tasks[u]
  <2> DEFINE S == Range(tasks) \union {r}
  <2>1. tasks \in Seq(S) /\ r \in S
    BY SeqMonotonic DEF TaskInv, TaskList
  <2> HIDE DEF S
  <2>2. /\ DOMAIN tasks = 1 .. Len(tasks) /\ Len(tasks) \in Nat
        /\ DOMAIN tasks' = 1 .. next /\ tasks'[next] = r
        /\ \A u \in 1 .. Len(tasks) : tasks'[u] = tasks[u]
    BY <2>1, AppendProperties, LenProperties
  <2>3. QED
    BY <2>2
<1> HIDE DEF next
<1>2. SavesNextWave(r, tasks')
  BY DEF SavesNextWave
<1>3. QED
  BY <1>1, <1>2, WavesKept

LEMMA SaveAllIsSafe ==
  ASSUME TaskInv, WavesInv, NEW S \in SUBSET Objects, SaveAllInBackground(S)
  PROVE  WavesInv'
<1> DEFINE dirty == {o \in Reachable(S) : IsDirty(o)}
           lost == [NewTask("saveAll", {}, "done") EXCEPT !.ok = FALSE]
           begun == [NewTask("saveAll", {}, "children") EXCEPT !.waves = Waves(dirty)]
<1>1. /\ points' = points /\ new' = new
      /\ \/ tasks' = Append(tasks, lost)
         \/ tasks' = Append(tasks, begun) /\ ~Impossible(S, dirty)
  BY DEF SaveAllInBackground
<1>2. lost.kind = "saveAll" /\ lost.objects = {} /\ lost.phase = "done" /\ lost.batch = NoTask
  BY DEF NewTask
<1>3. /\ begun.kind = "saveAll" /\ begun.objects = {} /\ begun.phase = "children"
      /\ begun.batch = NoTask /\ begun.waves = Waves(dirty)
  BY DEF NewTask
<1> HIDE DEF lost, begun
<1>4. CASE tasks' = Append(tasks, lost)
  <2>1. SafeTask(lost, NewBehind, new)
    BY <1>2 DEF SafeTask
  <2>2. QED
    BY <1>1, <1>2, <1>4, <2>1, NewTaskIsSafe
<1>5. CASE tasks' = Append(tasks, begun) /\ ~Impossible(S, dirty)
  <2> DEFINE D == dirty
  <2>1. D \in SUBSET Objects
    BY ReachesObjects DEF WavesInv
  <2>2. begun.waves = Waves(D) /\ \A i \in DOMAIN Waves(D) : Waves(D)[i] # {}
    BY <1>3, <1>5 DEF Impossible
  <2> HIDE DEF D
  <2>3. Waves(D) \in Seq(SUBSET Objects) /\ Ordered(Waves(D), NewBehind)
    BY <2>1, <2>2, WavesAreInOrder
  <2>4. SafeTask(begun, NewBehind, new)
    BY <1>3, <2>2, <2>3 DEF SafeTask, WaitsForWaves
  <2>5. QED
    BY <1>1, <1>3, <1>5, <2>4, NewTaskIsSafe
<1>6. QED
  BY <1>1, <1>4, <1>5

LEMMA WavesInvStep ==
  ASSUME TaskInv, WavesInv, [Next]_vars
  PROVE  WavesInv'
<1>1. ASSUME tasks' = tasks, points' = points, new' = new PROVE WavesInv'
  BY <1>1, WavesKept
<1>2. ASSUME NEW o \in Objects, SaveInBackground(o) PROVE WavesInv'
  <2> DEFINE r == NewTask("save", {o}, "locking")
  <2>1. /\ r.kind = "save" /\ r.objects = {o} /\ r.phase = "locking" /\ r.batch = NoTask
    BY DEF NewTask
  <2>2. tasks' = Append(tasks, r) /\ points' = points /\ new' = new
    BY <1>2 DEF SaveInBackground
  <2> HIDE DEF r
  <2>3. SafeTask(r, NewBehind, new)
    BY <2>1 DEF SafeTask
  <2>4. QED
    BY <2>1, <2>2, <2>3, NewTaskIsSafe
<1>3. ASSUME NEW t \in DOMAIN tasks, TaskStep(t) PROVE WavesInv'
  <2>1. CASE TakeMutex(t)
    BY <1>1, <2>1 DEF TakeMutex
  <2>2. CASE HandleResult(t)
    BY <2>2, FinishIsSafe DEF HandleResult
  <2>3. QED
    BY <1>3, <2>1, <2>2, EnqueueIsSafe, BeginSaveIsSafe, BeginWaveIsSafe, EndWaveIsSafe,
       AbandonWavesIsSafe, SendSaveIsSafe, SendBatchIsSafe DEF TaskStep
<1>4. CASE UNCHANGED vars
  BY <1>1, <1>4 DEF vars
<1>5. CASE \E o \in Objects : Change(o)
  BY <1>1, <1>5 DEF Change
<1>6. QED
  BY <1>2, <1>3, <1>4, <1>5, SaveAllIsSafe DEF Next

LEMMA WavesInvInit == Init => WavesInv
<1> SUFFICES ASSUME Init PROVE WavesInv
  OBVIOUS
<1>1. tasks = <<>> /\ DOMAIN tasks = {} /\ new \subseteq Objects
  BY DEF Init
<1>2. points \in [Objects -> SUBSET Objects]
  BY TaskAssumption DEF Init, TaskAssumption
<1>3. QED
  BY <1>1, <1>2 DEF WavesInv

-----------------------------------------------------------------------------
(***************************************************************************)
(* Saves end where what is pointed to points to nothing.  All queues are   *)
(* in one order, that of the enqueues.                                     *)
(***************************************************************************)
RanksQueues(rank, n) ==
  /\ rank \in [DOMAIN tasks -> Nat] /\ n \in Nat
  /\ \A u \in DOMAIN tasks : rank[u] < n
  /\ \A o \in Objects : \A i, j \in DOMAIN queue[o] : i < j => rank[queue[o][i]] < rank[queue[o][j]]

InOneOrder == \E rank, n : RanksQueues(rank, n)

\* Tasks are added, and queues lose their heads.
QueuesGetShorter ==
  /\ DOMAIN tasks \subseteq DOMAIN tasks'
  /\ \A o \in Objects : \/ queue'[o] = queue[o]
                        \/ queue[o] # <<>> /\ queue'[o] = Tail(queue[o])

LEMMA ShorterInOrder ==
  ASSUME TaskInv, TaskInv', InOneOrder, QueuesGetShorter
  PROVE  InOneOrder'
<1>1. PICK rank, n : RanksQueues(rank, n)
  BY DEF InOneOrder
<1>2. PICK r, N :
        /\ r \in [DOMAIN tasks' -> Nat] /\ N \in Nat /\ \A u \in DOMAIN tasks' : r[u] < N
        /\ \A u \in DOMAIN tasks : r[u] = rank[u]
  <2> DEFINE r == [u \in DOMAIN tasks' |-> IF u \in DOMAIN tasks THEN rank[u] ELSE 0]
             N == n + 1
  <2>1. /\ r \in [DOMAIN tasks' -> Nat] /\ N \in Nat /\ \A u \in DOMAIN tasks' : r[u] < N
        /\ \A u \in DOMAIN tasks : r[u] = rank[u]
    BY <1>1 DEF RanksQueues, QueuesGetShorter
  <2>2. QED
    BY <2>1
<1>3. ASSUME NEW o \in Objects, NEW i \in DOMAIN queue'[o], NEW j \in DOMAIN queue'[o], i < j
      PROVE  r[queue'[o][i]] < r[queue'[o][j]]
  <2>1. /\ queue[o] \in Seq(Nat) /\ DOMAIN queue[o] = 1 .. Len(queue[o]) /\ Len(queue[o]) \in Nat
        /\ \A k \in DOMAIN queue[o] : queue[o][k] \in DOMAIN tasks
    BY LenProperties DEF TaskInv, QueuesHoldTasks
  <2>2. CASE queue'[o] = queue[o]
    BY <1>1, <1>2, <1>3, <2>1, <2>2 DEF RanksQueues
  <2>3. CASE queue[o] # <<>> /\ queue'[o] = Tail(queue[o])
    <3>1. /\ Tail(queue[o]) \in Seq(Nat) /\ Len(Tail(queue[o])) = Len(queue[o]) - 1
          /\ \A k \in 1 .. Len(Tail(queue[o])) : Tail(queue[o])[k] = queue[o][k + 1]
      BY <2>1, <2>3, HeadTailProperties
    <3>2. DOMAIN queue'[o] = 1 .. (Len(queue[o]) - 1)
      BY <2>3, <3>1, LenProperties
    <3>3. /\ i + 1 \in DOMAIN queue[o] /\ j + 1 \in DOMAIN queue[o] /\ i + 1 < j + 1
          /\ queue'[o][i] = queue[o][i + 1] /\ queue'[o][j] = queue[o][j + 1]
      <4>1. i \in 1 .. (Len(queue[o]) - 1) /\ j \in 1 .. (Len(queue[o]) - 1)
        BY <3>2
      <4>2. i \in Nat /\ j \in Nat /\ i + 1 \in 1 .. Len(queue[o]) /\ j + 1 \in 1 .. Len(queue[o])
        BY SMTT(30), <2>1, <4>1
      <4>3. i + 1 < j + 1
        BY <1>3, <4>2
      <4>4. QED
        BY <2>1, <2>3, <3>1, <4>1, <4>2, <4>3
    <3>4. QED
      BY <1>1, <1>2, <2>1, <3>3 DEF RanksQueues
  <2>4. QED
    BY <2>2, <2>3 DEF QueuesGetShorter
<1>4. RanksQueues(r, N)'
  BY <1>2, <1>3 DEF RanksQueues
<1>5. QED
  BY <1>4 DEF InOneOrder

\* A task that enters its queues comes last, also of all there are.
LEMMA EnqueueInOrder ==
  ASSUME TaskInv, InOneOrder, NEW t \in DOMAIN tasks, Enqueue(t)
  PROVE  InOneOrder'
<1>1. PICK rank, n : RanksQueues(rank, n)
  BY DEF InOneOrder
<1> DEFINE r == [rank EXCEPT ![t] = n]
           N == n + 1
<1>2. DOMAIN tasks' = DOMAIN tasks /\ tasks[t].phase = "locking"
  BY DEF Enqueue
<1>3. /\ r \in [DOMAIN tasks' -> Nat] /\ N \in Nat /\ \A u \in DOMAIN tasks' : r[u] < N
      /\ r[t] = n /\ \A u \in DOMAIN tasks : u # t => r[u] = rank[u] /\ r[u] < n
  BY <1>1, <1>2 DEF RanksQueues
<1> HIDE DEF r, N
<1>4. ASSUME NEW o \in Objects, NEW i \in DOMAIN queue'[o], NEW j \in DOMAIN queue'[o], i < j
      PROVE  r[queue'[o][i]] < r[queue'[o][j]]
  <2> DEFINE q == queue[o]
  <2>1. /\ q \in Seq(Nat) /\ DOMAIN q = 1 .. Len(q) /\ Len(q) \in Nat
        /\ \A k \in DOMAIN q : q[k] \in DOMAIN tasks /\ q[k] # t
    BY <1>2, LenProperties DEF TaskInv, QueuesHoldTasks, InQueue
  <2>2. \A k, l \in DOMAIN q : k < l => r[q[k]] < r[q[l]]
    BY <1>1, <1>3, <2>1 DEF RanksQueues
  <2>3. t \in Nat
    BY LenProperties DEF TaskInv, TaskList
  <2>4. queue'[o] = IF o \in tasks[t].objects THEN Append(q, t) ELSE q
    BY DEF Enqueue
  <2> HIDE DEF q
  <2>5. CASE o \notin tasks[t].objects
    BY <1>4, <2>2, <2>4, <2>5
  <2>6. CASE o \in tasks[t].objects
    <3>1. /\ DOMAIN queue'[o] = 1 .. Len(q) + 1 /\ queue'[o][Len(q) + 1] = t
          /\ \A k \in 1 .. Len(q) : queue'[o][k] = q[k]
      BY <2>1, <2>3, <2>4, <2>6, AppendProperties, LenProperties
    <3>2. i \in DOMAIN q /\ queue'[o][i] = q[i]
      BY <1>4, <2>1, <3>1
    <3>3. CASE j \in DOMAIN q
      BY <1>4, <2>1, <2>2, <3>1, <3>2, <3>3
    <3>4. CASE j = Len(q) + 1
      BY <1>3, <2>1, <3>1, <3>2, <3>4
    <3>5. QED
      BY <1>4, <2>1, <3>1, <3>3, <3>4
  <2>7. QED
    BY <2>5, <2>6
<1>5. RanksQueues(r, N)'
  BY <1>3, <1>4 DEF RanksQueues
<1>6. QED
  BY <1>5 DEF InOneOrder

-----------------------------------------------------------------------------
(* What a save waits for is what its object points to, and waits for        *)
(* nothing itself.                                                          *)

Flat ==
  /\ \A o \in Objects : \A p \in points[o] : points[p] = {}
  /\ \A t \in DOMAIN tasks : tasks[t].kind # "saveAll"

FlatTask(r, P) ==
  /\ r.kind = "batch" => \A o \in r.objects : P[o] = {}
  /\ r.kind = "save" /\ r.phase = "children" =>
       \A i \in DOMAIN r.waves : \A o \in r.objects : r.waves[i] # {} /\ r.waves[i] \subseteq P[o]

FlatInv ==
  /\ \A t \in DOMAIN tasks : tasks[t].kind \in Kinds /\ tasks[t].phase \in Phases
  /\ Flat => \A t \in DOMAIN tasks : FlatTask(tasks[t], points)

LEMMA FlatKept ==
  ASSUME FlatInv, points' = points,
         \A u \in DOMAIN tasks : u \in DOMAIN tasks' /\ tasks'[u].kind = tasks[u].kind,
         \A u \in DOMAIN tasks' :
           \/ u \in DOMAIN tasks /\ tasks'[u] = tasks[u]
           \/ /\ tasks'[u].kind \in Kinds /\ tasks'[u].phase \in Phases
              /\ Flat => FlatTask(tasks'[u], points)
  PROVE  FlatInv'
<1>1. Flat' => Flat
  BY DEF Flat
<1>2. \A u \in DOMAIN tasks' : Flat => FlatTask(tasks'[u], points)
  BY DEF FlatInv
<1>3. Flat' => \A u \in DOMAIN tasks' : FlatTask(tasks'[u], points')
  BY <1>1, <1>2
<1>4. \A u \in DOMAIN tasks' : tasks'[u].kind \in Kinds /\ tasks'[u].phase \in Phases
  BY DEF FlatInv
<1>5. QED
  BY <1>3, <1>4 DEF FlatInv

\* Task t becomes r.
LEMMA BecomesFlat ==
  ASSUME TaskInv, FlatInv, points' = points, NEW t \in DOMAIN tasks, NEW r,
         tasks' = [tasks EXCEPT ![t] = r],
         r.kind = tasks[t].kind, r.objects = tasks[t].objects, r.phase \in Phases,
         r.phase = "children" /\ Flat => FlatTask(r, points)
  PROVE  FlatInv'
<1>1. /\ DOMAIN tasks' = DOMAIN tasks
      /\ \A u \in DOMAIN tasks : tasks'[u] = IF u = t THEN r ELSE tasks[u]
  OBVIOUS
<1>2. Flat => FlatTask(r, points)
  BY DEF FlatInv, FlatTask
<1>3. r.kind \in Kinds
  BY DEF FlatInv
<1>4. QED
  BY <1>1, <1>2, <1>3, FlatKept

LEMMA AddedFlat ==
  ASSUME TaskInv, FlatInv, points' = points, NEW r, tasks' = Append(tasks, r),
         r.kind \in Kinds, r.phase \in Phases, Flat => FlatTask(r, points)
  PROVE  FlatInv'
<1> DEFINE next == Len(tasks) + 1
<1>1. /\ DOMAIN tasks' = DOMAIN tasks \union {next} /\ tasks'[next] = r
      /\ \A u \in DOMAIN tasks : tasks'[u] = tasks[u]
  <2> DEFINE S == Range(tasks) \union {r}
  <2>1. tasks \in Seq(S) /\ r \in S
    BY SeqMonotonic DEF TaskInv, TaskList
  <2> HIDE DEF S
  <2>2. /\ DOMAIN tasks = 1 .. Len(tasks) /\ Len(tasks) \in Nat
        /\ DOMAIN tasks' = 1 .. next /\ tasks'[next] = r
        /\ \A u \in 1 .. Len(tasks) : tasks'[u] = tasks[u]
    BY <2>1, AppendProperties, LenProperties
  <2>3. QED
    BY <2>2
<1> HIDE DEF next
<1>2. QED
  BY <1>1, FlatKept

LEMMA FinishIsFlat ==
  ASSUME TaskInv, FlatInv, NEW t \in DOMAIN tasks, NEW saved, NEW restored,
         Finish(t, saved, restored)
  PROVE  FlatInv'
<1> DEFINE r == [tasks[t] EXCEPT !.phase = "done",
                                 !.ok = tasks[t].ok /\ tasks[t].objects \subseteq saved]
<1>1. tasks' = [tasks EXCEPT ![t] = r] /\ points' = points
  BY DEF Finish
<1>2. r.kind = tasks[t].kind /\ r.objects = tasks[t].objects /\ r.phase = "done"
  BY DEF TaskInv, TaskList, Fields
<1> HIDE DEF r
<1>3. QED
  BY <1>1, <1>2, BecomesFlat DEF Phases

\* From an object on, nothing else is within reach than what it points to.
LEMMA FlatReaches ==
  ASSUME Flat, NEW o \in Objects
  PROVE  Reachable({o}) \subseteq {o} \union points[o]
<1> DEFINE C == {o} \union points[o]
<1>1. \A p \in C \intersect Objects : points[p] \intersect Objects \subseteq C
  BY DEF Flat
<1> HIDE DEF C
<1>2. Within({o}, Objects) \subseteq C
  <2>1. {o} \subseteq C
    BY DEF C
  <2>2. QED
    BY <1>1, <2>1, WithinCloses
<1>3. QED
  BY <1>2 DEF Reachable, C

LEMMA BeginSaveIsFlat ==
  ASSUME TaskInv, WavesInv, FlatInv, NEW t \in DOMAIN tasks, BeginSave(t)
  PROVE  FlatInv'
<1>1. PICK o \in Objects : tasks[t].objects = {o} /\ tasks[t].kind = "save"
  BY DEF BeginSave, TaskInv, KindsOfTasks
<1> DEFINE children == {c \in Reachable({o}) : IsDirty(c)} \ {o}
           lost == [tasks[t] EXCEPT !.phase = "done", !.ok = FALSE]
           begun == [tasks[t] EXCEPT !.phase = "children", !.waves = Waves(children),
                                     !.taken = {o} \intersect changed]
<1>2. \/ Finish(t, {o}, {})
      \/ tasks' = [tasks EXCEPT ![t] = lost] /\ UNCHANGED <<points, new>>
      \/ /\ ~Impossible({o}, children)
         /\ tasks' = [tasks EXCEPT ![t] = begun] /\ UNCHANGED <<points, new>>
  BY <1>1 DEF BeginSave
<1>3. lost.kind = tasks[t].kind /\ lost.objects = tasks[t].objects /\ lost.phase = "done"
  BY DEF TaskInv, TaskList, Fields
<1>4. /\ begun.kind = tasks[t].kind /\ begun.objects = tasks[t].objects
      /\ begun.phase = "children" /\ begun.waves = Waves(children)
  BY DEF TaskInv, TaskList, Fields
<1> HIDE DEF lost, begun
<1>5. CASE Finish(t, {o}, {})
  BY <1>5, FinishIsFlat
<1>6. CASE tasks' = [tasks EXCEPT ![t] = lost] /\ UNCHANGED <<points, new>>
  BY <1>3, <1>6, BecomesFlat DEF Phases
<1>7. CASE /\ ~Impossible({o}, children)
           /\ tasks' = [tasks EXCEPT ![t] = begun] /\ UNCHANGED <<points, new>>
  <2>1. ASSUME Flat PROVE FlatTask(begun, points)
    <3> DEFINE D == children
               w == Waves(D)
    <3>1. D \subseteq points[o]
      BY <2>1, FlatReaches
    <3>2. D \in SUBSET Objects
      BY ReachesObjects DEF WavesInv
    <3>3. \A i \in DOMAIN w : w[i] # {}
      BY <1>7 DEF Impossible
    <3> HIDE DEF D
    <3>4. All(w) = D
      BY <3>2, <3>3, WavesAreInOrder
    <3>5. begun.waves = w
      BY <1>4 DEF D
    <3> HIDE DEF w
    <3>6. \A i \in DOMAIN w : w[i] # {} /\ w[i] \subseteq points[o]
      BY <3>1, <3>3, <3>4 DEF All
    <3>7. QED
      BY <1>1, <1>4, <3>5, <3>6 DEF FlatTask
  <2>2. QED
    BY <1>4, <1>7, <2>1, BecomesFlat DEF Phases
<1>8. QED
  BY <1>2, <1>5, <1>6, <1>7

LEMMA BeginWaveIsFlat ==
  ASSUME TaskInv, WavesInv, FlatInv, NEW t \in DOMAIN tasks, BeginWave(t)
  PROVE  FlatInv'
<1> DEFINE linked == [tasks[t] EXCEPT !.batch = Len(tasks) + 1]
           list == [tasks EXCEPT ![t] = linked]
           next == Len(tasks) + 1
           r == NewTask("batch", Head(tasks[t].waves), "locking")
<1>1. tasks' = Append(list, r) /\ points' = points
  BY DEF BeginWave
<1>2. /\ tasks[t].phase = "children" /\ tasks[t].waves # <<>>
      /\ tasks[t].waves \in Seq(SUBSET Objects)
  BY DEF BeginWave, BetweenWaves, WavesInv, SafeTask, WaitsForWaves
<1>3. /\ linked.kind = tasks[t].kind /\ linked.objects = tasks[t].objects
      /\ linked.phase = "children" /\ linked.waves = tasks[t].waves
  BY <1>2 DEF TaskInv, TaskList, Fields
<1>4. r.kind = "batch" /\ r.objects = Head(tasks[t].waves) /\ r.phase = "locking"
  BY DEF NewTask
<1>5. /\ DOMAIN tasks' = DOMAIN tasks \union {next} /\ next \notin DOMAIN tasks
      /\ tasks'[next] = r /\ tasks'[t] = linked
      /\ \A u \in DOMAIN tasks : u # t => tasks'[u] = tasks[u]
  <2> DEFINE S == Range(tasks) \union {linked, r}
  <2>1. tasks \in Seq(S) /\ linked \in S /\ r \in S
    BY SeqMonotonic DEF TaskInv, TaskList
  <2> HIDE DEF S, r, linked
  <2>2. list \in Seq(S) /\ Len(list) = Len(tasks)
        /\ \A u \in DOMAIN tasks : list[u] = IF u = t THEN linked ELSE tasks[u]
    BY <2>1, ExceptSeq, LenProperties
  <2> HIDE DEF list
  <2>3. /\ DOMAIN tasks = 1 .. Len(tasks) /\ Len(tasks) \in Nat
        /\ DOMAIN tasks' = 1 .. next /\ tasks'[next] = r
        /\ \A u \in 1 .. Len(tasks) : tasks'[u] = list[u]
    BY SMTT(30), <1>1, <2>1, <2>2, AppendProperties, LenProperties
  <2>4. QED
    BY <2>2, <2>3
<1> HIDE DEF r, linked, list, next
<1>6. ASSUME Flat PROVE FlatTask(linked, points)
  <2>1. FlatTask(tasks[t], points) /\ tasks[t].phase = "children"
    BY <1>2, <1>6 DEF FlatInv
  <2>2. QED
    BY <1>3, <2>1 DEF FlatTask
<1>7. ASSUME Flat PROVE FlatTask(r, points)
  <2> DEFINE w == tasks[t].waves
  <2>1. tasks[t].kind = "save" /\ FlatTask(tasks[t], points)
    BY <1>2, <1>7 DEF FlatInv, Flat, TaskInv, KindsOfTasks
  <2>2. PICK o \in Objects : tasks[t].objects = {o}
    BY <2>1 DEF TaskInv, KindsOfTasks
  <2>3. \A i \in DOMAIN w : w[i] \subseteq points[o]
    BY <1>2, <2>1, <2>2 DEF FlatTask
  <2>4. w \in Seq(SUBSET Objects) /\ w # <<>>
    BY <1>2
  <2> HIDE DEF w
  <2>5. 1 \in DOMAIN w /\ Head(w) = w[1]
    BY <2>4, FirstOf
  <2>6. \A p \in Head(w) : points[p] = {}
    BY <1>7, <2>3, <2>5 DEF Flat
  <2>7. QED
    BY <1>4, <2>6 DEF FlatTask, w
<1>8. \A u \in DOMAIN tasks' :
        \/ u \in DOMAIN tasks /\ tasks'[u] = tasks[u]
        \/ /\ tasks'[u].kind \in Kinds /\ tasks'[u].phase \in Phases
           /\ Flat => FlatTask(tasks'[u], points)
  BY <1>3, <1>4, <1>5, <1>6, <1>7 DEF FlatInv, Kinds, Phases
<1>9. \A u \in DOMAIN tasks : u \in DOMAIN tasks' /\ tasks'[u].kind = tasks[u].kind
  BY <1>3, <1>5
<1>10. QED
  BY <1>1, <1>8, <1>9, FlatKept

LEMMA EndWaveIsFlat ==
  ASSUME TaskInv, WavesInv, FlatInv, NEW t \in DOMAIN tasks, EndWave(t)
  PROVE  FlatInv'
<1> DEFINE r == [tasks[t] EXCEPT !.batch = NoTask, !.waves = Tail(@)]
           w == tasks[t].waves
<1>1. tasks' = [tasks EXCEPT ![t] = r] /\ points' = points
  BY DEF EndWave
<1>2. /\ r.kind = tasks[t].kind /\ r.objects = tasks[t].objects /\ r.phase = "children"
      /\ r.waves = Tail(w) /\ tasks[t].phase = "children"
  BY DEF TaskInv, TaskList, Fields, EndWave, WaveEnded
<1>3. w \in Seq(SUBSET Objects) /\ w # <<>>
  BY <1>2 DEF EndWave, WaveEnded, WavesInv, SafeTask, WaitsForWaves, SavesNextWave
<1> HIDE DEF r
<1>4. ASSUME Flat PROVE FlatTask(r, points)
  <2>1. tasks[t].kind = "save" /\ FlatTask(tasks[t], points)
    BY <1>2, <1>4 DEF FlatInv, Flat, TaskInv, KindsOfTasks
  <2>2. \A i \in DOMAIN w : \A o \in tasks[t].objects : w[i] # {} /\ w[i] \subseteq points[o]
    BY <1>2, <2>1 DEF FlatTask
  <2> HIDE DEF w
  <2>3. \A i \in DOMAIN Tail(w) : i + 1 \in DOMAIN w /\ Tail(w)[i] = w[i + 1]
    <3>1. /\ Tail(w) \in Seq(SUBSET Objects) /\ Len(Tail(w)) = Len(w) - 1 /\ Len(w) \in Nat
          /\ DOMAIN Tail(w) = 1 .. Len(Tail(w)) /\ DOMAIN w = 1 .. Len(w)
          /\ \A i \in 1 .. Len(Tail(w)) : Tail(w)[i] = w[i + 1]
      BY <1>3, HeadTailProperties, LenProperties
    <3>2. QED
      BY <3>1
  <2>4. QED
    BY <1>2, <2>1, <2>2, <2>3 DEF FlatTask
<1>5. QED
  BY <1>1, <1>2, <1>4, BecomesFlat DEF Phases

LEMMA FlatInvStep ==
  ASSUME TaskInv, WavesInv, FlatInv, [Next]_vars
  PROVE  FlatInv'
<1>1. ASSUME tasks' = tasks, points' = points PROVE FlatInv'
  BY <1>1, FlatKept
<1>2. ASSUME NEW o \in Objects, SaveInBackground(o) PROVE FlatInv'
  <2> DEFINE r == NewTask("save", {o}, "locking")
  <2>1. r.kind = "save" /\ r.phase = "locking"
    BY DEF NewTask
  <2>2. tasks' = Append(tasks, r) /\ points' = points
    BY <1>2 DEF SaveInBackground
  <2> HIDE DEF r
  <2>3. QED
    BY <2>1, <2>2, AddedFlat DEF FlatTask, Kinds, Phases
<1>3. ASSUME NEW S \in SUBSET Objects, SaveAllInBackground(S) PROVE FlatInv'
  <2> DEFINE dirty == {o \in Reachable(S) : IsDirty(o)}
             lost == [NewTask("saveAll", {}, "done") EXCEPT !.ok = FALSE]
             begun == [NewTask("saveAll", {}, "children") EXCEPT !.waves = Waves(dirty)]
  <2>1. points' = points /\ (tasks' = Append(tasks, lost) \/ tasks' = Append(tasks, begun))
    BY <1>3 DEF SaveAllInBackground
  <2>2. /\ lost.kind = "saveAll" /\ lost.phase = "done"
        /\ begun.kind = "saveAll" /\ begun.phase = "children"
    BY DEF NewTask
  <2> HIDE DEF lost, begun
  <2>3. FlatTask(lost, points) /\ FlatTask(begun, points)
    BY <2>2 DEF FlatTask
  <2>4. QED
    BY <2>1, <2>2, <2>3, AddedFlat DEF Kinds, Phases
<1>4. ASSUME NEW t \in DOMAIN tasks, TaskStep(t) PROVE FlatInv'
  <2>1. ASSUME NEW p \in {"queued", "sent", "done"}, NEW r, r = [tasks[t] EXCEPT !.phase = p],
               tasks' = [tasks EXCEPT ![t] = r], points' = points
        PROVE  FlatInv'
    <3>1. r.kind = tasks[t].kind /\ r.objects = tasks[t].objects /\ r.phase = p
      BY <2>1 DEF TaskInv, TaskList, Fields
    <3>2. QED
      BY <2>1, <3>1, BecomesFlat DEF Phases
  <2>2. CASE TakeMutex(t)
    BY <1>1, <2>2 DEF TakeMutex
  <2>3. CASE Enqueue(t)
    BY <2>1, <2>3 DEF Enqueue
  <2>4. CASE AbandonWaves(t)
    <3> DEFINE r == [tasks[t] EXCEPT !.phase = "done", !.ok = FALSE]
    <3>1. CASE Finish(t, {}, tasks[t].taken)
      BY <3>1, FinishIsFlat
    <3>2. CASE tasks' = [tasks EXCEPT ![t] = r] /\ points' = points
      <4>1. r.kind = tasks[t].kind /\ r.objects = tasks[t].objects /\ r.phase = "done"
        BY DEF TaskInv, TaskList, Fields
      <4> HIDE DEF r
      <4>2. QED
        BY <3>2, <4>1, BecomesFlat DEF Phases
    <3>3. QED
      BY <2>4, <3>1, <3>2 DEF AbandonWaves
  <2>5. CASE SendSave(t)
    <3>1. CASE Finish(t, tasks[t].objects, {})
      BY <3>1, FinishIsFlat
    <3>2. CASE tasks' = [tasks EXCEPT ![t].phase = "sent"] /\ points' = points
      BY <2>1, <3>2
    <3>3. QED
      BY <2>5, <3>1, <3>2 DEF SendSave
  <2>6. CASE SendBatch(t)
    <3> DEFINE r == [tasks[t] EXCEPT !.phase = "sent", !.taken = tasks[t].objects \intersect changed]
    <3>1. tasks' = [tasks EXCEPT ![t] = r] /\ points' = points
      BY <2>6 DEF SendBatch
    <3>2. r.kind = tasks[t].kind /\ r.objects = tasks[t].objects /\ r.phase = "sent"
      BY DEF TaskInv, TaskList, Fields
    <3> HIDE DEF r
    <3>3. QED
      BY <3>1, <3>2, BecomesFlat DEF Phases
  <2>7. CASE HandleResult(t)
    BY <2>7, FinishIsFlat DEF HandleResult
  <2>8. QED
    BY <1>4, <2>2, <2>3, <2>4, <2>5, <2>6, <2>7, BeginSaveIsFlat, BeginWaveIsFlat, EndWaveIsFlat
       DEF TaskStep
<1>5. CASE UNCHANGED vars
  BY <1>1, <1>5 DEF vars
<1>6. CASE \E o \in Objects : Change(o)
  BY <1>1, <1>6 DEF Change
<1>7. QED
  BY <1>2, <1>3, <1>4, <1>5, <1>6 DEF Next

-----------------------------------------------------------------------------
(* Only an enqueue makes a queue longer.                                    *)

LEMMA FinishShortens ==
  ASSUME TaskInv, NEW t \in DOMAIN tasks, tasks[t].phase \in InQueue, AtHead(t),
         DOMAIN tasks \subseteq DOMAIN tasks', NEW saved, NEW restored, Finish(t, saved, restored)
  PROVE  QueuesGetShorter
BY DEF Finish, QueuesGetShorter, AtHead

LEMMA TaskStepShortens ==
  ASSUME TaskInv, NEW t \in DOMAIN tasks, TaskStep(t), ~Enqueue(t)
  PROVE  QueuesGetShorter
<1>1. DOMAIN tasks \subseteq DOMAIN tasks'
  BY TaskStepStays DEF LockersStay, TakeMutex
<1>2. ASSUME queue' = queue PROVE QueuesGetShorter
  BY <1>1, <1>2 DEF QueuesGetShorter
<1>3. CASE BeginSave(t)
  <2>1. tasks[t].phase \in InQueue /\ AtHead(t) /\ tasks[t].kind = "save"
    BY <1>3, ReadyAtHead DEF BeginSave
  <2>2. PICK o \in Objects : tasks[t].objects = {o}
    BY <2>1 DEF TaskInv, KindsOfTasks
  <2>3. Finish(t, {o}, {}) \/ queue' = [queue EXCEPT ![o] = Tail(@)] \/ queue' = queue
    BY <1>3, <2>2 DEF BeginSave
  <2>4. CASE queue' = [queue EXCEPT ![o] = Tail(@)]
    <3>1. \A p \in Objects : queue'[p] = IF p = o THEN Tail(queue[p]) ELSE queue[p]
      BY <2>4 DEF TaskInv, QueuesHoldTasks
    <3>2. queue[o] # <<>>
      BY <2>1, <2>2 DEF AtHead
    <3>3. QED
      BY <1>1, <3>1, <3>2 DEF QueuesGetShorter
  <2>5. QED
    BY <1>1, <1>2, <2>1, <2>3, <2>4, FinishShortens
<1>4. CASE AbandonWaves(t) \/ SendSave(t) \/ HandleResult(t)
  <2>1. tasks[t].phase \in InQueue /\ AtHead(t)
    BY <1>4, RunningInQueue DEF AbandonWaves, WaveEnded, SendSave, BetweenWaves, HandleResult
  <2>2. queue' = queue \/ \E saved, restored : Finish(t, saved, restored)
    BY <1>4 DEF AbandonWaves, SendSave, HandleResult
  <2>3. QED
    BY <1>1, <1>2, <2>1, <2>2, FinishShortens
<1>5. CASE TakeMutex(t) \/ BeginWave(t) \/ EndWave(t) \/ SendBatch(t)
  BY <1>2, <1>5 DEF TakeMutex, BeginWave, EndWave, SendBatch
<1>6. QED
  BY <1>3, <1>4, <1>5 DEF TaskStep

LEMMA InOneOrderStep ==
  ASSUME TaskInv, TaskInv', InOneOrder, [Next]_vars
  PROVE  InOneOrder'
<1>1. ASSUME queue' = queue, LockersStay PROVE InOneOrder'
  BY <1>1, ShorterInOrder DEF QueuesGetShorter, LockersStay
<1>2. ASSUME NEW o \in Objects, SaveInBackground(o) PROVE InOneOrder'
  BY <1>1, <1>2, AddedStays DEF SaveInBackground
<1>3. ASSUME NEW S \in SUBSET Objects, SaveAllInBackground(S) PROVE InOneOrder'
  <2>1. /\ queue' = queue
        /\ \/ tasks' = Append(tasks, [NewTask("saveAll", {}, "done") EXCEPT !.ok = FALSE])
           \/ tasks' = Append(tasks, [NewTask("saveAll", {}, "children") EXCEPT
                                       !.waves = Waves({o \in Reachable(S) : IsDirty(o)})])
    BY <1>3 DEF SaveAllInBackground
  <2>2. QED
    BY <1>1, <2>1, AddedStays
<1>4. ASSUME NEW t \in DOMAIN tasks, TaskStep(t) PROVE InOneOrder'
  BY <1>4, EnqueueInOrder, TaskStepShortens, ShorterInOrder
<1>5. CASE UNCHANGED vars \/ \E o \in Objects : Change(o)
  BY <1>1, <1>5 DEF vars, Change, LockersStay
<1>6. QED
  BY <1>2, <1>3, <1>4, <1>5 DEF Next

\* Where no task gets on, a task waits for one of objects that point to nothing.
LEMMA WaitsForALeaf ==
  ASSUME TaskInv, WavesInv, FlatInv, Flat, \A t \in DOMAIN tasks : ~GetsOn(t),
         \A t \in DOMAIN tasks : tasks[t].phase # "locking",
         NEW t \in DOMAIN tasks, tasks[t].phase # "done"
  PROVE  \E u \in DOMAIN tasks : /\ tasks[u].phase # "done"
                                 /\ \A o \in tasks[u].objects : points[o] = {}
<1>1. ASSUME NEW u \in DOMAIN tasks, tasks[u].phase # "done", tasks[u].kind = "batch"
      PROVE  \A o \in tasks[u].objects : points[o] = {}
  BY <1>1 DEF FlatInv, FlatTask
<1>2. ASSUME NEW u \in DOMAIN tasks, tasks[u].phase = "children"
      PROVE  /\ tasks[u].batch \in DOMAIN tasks /\ tasks[tasks[u].batch].phase # "done"
             /\ tasks[tasks[u].batch].kind = "batch"
  BY <1>2 DEF GetsOn, BetweenWaves, WaveEnded, WavesInv, SavesNextWave
<1>3. ASSUME NEW u \in DOMAIN tasks, tasks[u].phase # "done"
      PROVE  tasks[u].phase \in {"queued", "children"}
  BY <1>3 DEF FlatInv, Phases, GetsOn
<1>4. CASE tasks[t].kind = "batch"
  BY <1>1, <1>4
<1>5. CASE tasks[t].kind = "save"
  <2>1. PICK o \in Objects : tasks[t].objects = {o}
    BY <1>5 DEF TaskInv, KindsOfTasks
  <2>2. CASE points[o] = {}
    BY <2>1, <2>2
  <2>3. CASE points[o] # {}
    <3>1. tasks[t].phase \in InQueue
      BY <1>3 DEF InQueue
    <3>2. PICK i \in DOMAIN queue[o] : queue[o][i] = t
      BY <2>1, <3>1 DEF TaskInv, QueuesHoldTasks
    <3>3. queue[o] \in Seq(Nat) /\ queue[o] # <<>> /\ 1 \in DOMAIN queue[o] /\ Head(queue[o]) = queue[o][1]
      BY <3>2, FirstOf DEF TaskInv, QueuesHoldTasks
    <3> DEFINE h == queue[o][1]
    <3>4. h \in DOMAIN tasks /\ o \in tasks[h].objects /\ tasks[h].phase \in InQueue
      BY <3>3 DEF TaskInv, QueuesHoldTasks
    <3> HIDE DEF h
    <3>5. tasks[h].phase # "done" /\ tasks[h].kind # "batch" /\ tasks[h].kind # "saveAll"
      BY <1>1, <2>3, <3>4 DEF InQueue, Flat
    <3>6. tasks[h].objects = {o}
      BY <3>4, <3>5 DEF FlatInv, Kinds, TaskInv, KindsOfTasks
    <3>7. tasks[h].phase # "queued"
      BY <3>3, <3>4, <3>6 DEF GetsOn, Ready, h
    <3>8. tasks[h].phase = "children"
      BY <1>3, <3>4, <3>5, <3>7
    <3>9. QED
      BY <1>1, <1>2, <3>4, <3>8
  <2>4. QED
    BY <2>2, <2>3
<1>6. QED
  BY <1>4, <1>5 DEF FlatInv, Kinds, Flat

LEMMA FlatSavesGetOn ==
  ASSUME TaskInv, HeldInOrder, WavesInv, InOneOrder, FlatInv
  PROVE  FlatSavesEnd
<1> SUFFICES ASSUME Flat, \A t \in DOMAIN tasks : ~GetsOn(t),
                    NEW t0 \in DOMAIN tasks, tasks[t0].phase # "done"
             PROVE  FALSE
  BY DEF FlatSavesEnd, EverySaveEnds, Flat
<1>1. \A t \in DOMAIN tasks : tasks[t].phase # "locking"
  BY SomeEnqueueGetsOn DEF EveryEnqueueReturns, WavesInv, SafeTask
<1> DEFINE Leaf(u) == tasks[u].phase # "done" /\ \A o \in tasks[u].objects : points[o] = {}
<1>2. \E u \in DOMAIN tasks : Leaf(u)
  BY <1>1, WaitsForALeaf
<1>3. PICK rank, n : RanksQueues(rank, n)
  BY DEF InOneOrder
<1> DEFINE T == {m \in Nat : \E u \in DOMAIN tasks : Leaf(u) /\ rank[u] = m}
<1>4. T \in SUBSET Nat /\ T # {} /\ \A u \in DOMAIN tasks : Leaf(u) => rank[u] \in T
  BY <1>2, <1>3 DEF RanksQueues
<1>5. PICK m \in T : \A k \in T : m <= k
  <2> HIDE DEF T
  <2>1. QED
    BY <1>4, LeastNatural
<1>6. PICK t \in DOMAIN tasks : Leaf(t) /\ rank[t] = m
  BY <1>5
<1>7. \A u \in DOMAIN tasks : Leaf(u) => rank[t] <= rank[u]
  BY <1>4, <1>5, <1>6
<1> HIDE DEF T
<1>8. tasks[t].phase \in {"queued", "children"}
  BY <1>1, <1>6 DEF FlatInv, Phases, GetsOn
<1>9. tasks[t].phase # "children"
  <2>1. SUFFICES ASSUME tasks[t].phase = "children" PROVE FALSE
    OBVIOUS
  <2>2. tasks[t].kind = "save"
    BY <2>1 DEF TaskInv, KindsOfTasks, Flat
  <2>3. PICK o \in Objects : tasks[t].objects = {o}
    BY <2>2 DEF TaskInv, KindsOfTasks
  <2> DEFINE w == tasks[t].waves
  <2>4. w # <<>> /\ w \in Seq(SUBSET Objects)
    BY <2>1 DEF GetsOn, BetweenWaves, WavesInv, SavesNextWave, SafeTask, WaitsForWaves
  <2>5. \A i \in DOMAIN w : w[i] # {} /\ w[i] \subseteq points[o]
    BY <2>1, <2>2, <2>3 DEF FlatInv, FlatTask
  <2>6. points[o] = {}
    BY <1>6, <2>3
  <2> HIDE DEF w
  <2>7. QED
    BY <2>4, <2>5, <2>6, FirstOf
<1>10. ASSUME NEW o \in tasks[t].objects PROVE Head(queue[o]) = t
  <2>1. o \in Objects /\ tasks[t].phase \in InQueue
    BY <1>8 DEF WavesInv, SafeTask, InQueue
  <2>2. PICK i \in DOMAIN queue[o] : queue[o][i] = t
    BY <2>1 DEF TaskInv, QueuesHoldTasks
  <2>3. /\ queue[o] \in Seq(Nat) /\ queue[o] # <<>> /\ 1 \in DOMAIN queue[o]
        /\ Head(queue[o]) = queue[o][1] /\ i \in Nat /\ i >= 1
    BY <2>1, <2>2, FirstOf, LenProperties DEF TaskInv, QueuesHoldTasks
  <2> DEFINE h == queue[o][1]
  <2>4. h \in DOMAIN tasks /\ o \in tasks[h].objects /\ tasks[h].phase \in InQueue
    BY <2>1, <2>3 DEF TaskInv, QueuesHoldTasks
  <2>5. 1 < i => rank[h] < rank[t]
    BY <1>3, <2>1, <2>2, <2>3 DEF RanksQueues
  <2> HIDE DEF h
  <2>6. \A p \in tasks[h].objects : points[p] = {}
    <3>1. CASE tasks[h].kind = "batch"
      BY <2>4, <3>1 DEF FlatInv, FlatTask
    <3>2. CASE tasks[h].kind = "save"
      <4>1. tasks[h].objects = {o}
        BY <2>4, <3>2 DEF TaskInv, KindsOfTasks
      <4>2. QED
        BY <1>6, <4>1
    <3>3. QED
      BY <2>4, <3>1, <3>2 DEF FlatInv, Kinds, Flat
  <2>7. rank[t] <= rank[h] /\ rank[t] \in Nat /\ rank[h] \in Nat
    BY <1>3, <1>7, <2>4, <2>6 DEF InQueue, RanksQueues
  <2>8. i = 1
    BY <2>3, <2>5, <2>7
  <2>9. QED
    BY <2>2, <2>3, <2>8
<1>11. Ready(t)
  BY <1>8, <1>9, <1>10 DEF Ready
<1>12. QED
  BY <1>11 DEF GetsOn

-----------------------------------------------------------------------------
(* What is said of the cache through the two instances is the same.        *)

LEMMA SameClient ==
  /\ Cache!EnqueueCommand <=> CP!EnqueueCommand
  /\ Cache!Resume <=> CP!Resume
  /\ Cache!Pause <=> CP!Pause
  /\ Cache!SetConnected <=> CP!SetConnected
  /\ Cache!DidEnqueueCommand <=> CP!DidEnqueueCommand
  /\ Cache!ApplyConnected <=> CP!ApplyConnected
  /\ Cache!SignalRetry <=> CP!SignalRetry
BY DEF Cache!EnqueueCommand, CP!EnqueueCommand, Cache!Resume, CP!Resume, Cache!Pause, CP!Pause,
       Cache!SetConnected, CP!SetConnected, Cache!DidEnqueueCommand, CP!DidEnqueueCommand,
       Cache!ApplyConnected, CP!ApplyConnected, Cache!SignalRetry, CP!SignalRetry,
       Cache!storeVars, CP!storeVars, Cache!passVars, CP!passVars, Cache!connVars, CP!connVars,
       Cache!histVars, CP!histVars, Cache!callVars, CP!callVars, Cache!Signalled, CP!Signalled

LEMMA SamePass ==
  /\ Cache!RunCommands <=> CP!RunCommands
  /\ Cache!BeginPass <=> CP!BeginPass
  /\ Cache!LoadCommandFile <=> CP!LoadCommandFile
  /\ Cache!UnreadableCommand <=> CP!UnreadableCommand
  /\ Cache!SkipMissingCommand <=> CP!SkipMissingCommand
  /\ Cache!EndPass <=> CP!EndPass
  /\ Cache!FetchCompletionSource <=> CP!FetchCompletionSource
BY DEF Cache!UnreadableCommand, CP!UnreadableCommand, Cache!RunCommands, CP!RunCommands, Cache!BeginPass, CP!BeginPass, Cache!LoadCommandFile,
       CP!LoadCommandFile, Cache!SkipMissingCommand, CP!SkipMissingCommand, Cache!EndPass,
       CP!EndPass, Cache!FetchCompletionSource, CP!FetchCompletionSource, Cache!callVars,
       CP!callVars, Cache!storeVars, CP!storeVars, Cache!connVars, CP!connVars, Cache!NoCommand,
       CP!NoCommand, Cache!histVars, CP!histVars, Cache!LoadCommand, CP!LoadCommand, Cache!IsNext,
       CP!IsNext

LEMMA SameAnswers ==
  /\ Cache!RunCommand <=> CP!RunCommand
  /\ Cache!BeginBackoff <=> CP!BeginBackoff
  /\ Cache!QuitBackoff <=> CP!QuitBackoff
  /\ Cache!BackoffElapsed <=> CP!BackoffElapsed
  /\ Cache!ResolvePromise <=> CP!ResolvePromise
  /\ Cache!RemoveCommandFile <=> CP!RemoveCommandFile
BY DEF Cache!RunCommand, CP!RunCommand, Cache!BeginBackoff, CP!BeginBackoff, Cache!QuitBackoff,
       CP!QuitBackoff, Cache!BackoffElapsed, CP!BackoffElapsed, Cache!ResolvePromise,
       CP!ResolvePromise, Cache!RemoveCommandFile, CP!RemoveCommandFile, Cache!callVars,
       CP!callVars, Cache!storeVars, CP!storeVars, Cache!connVars, CP!connVars, Cache!passVars,
       CP!passVars, Cache!histVars, CP!histVars, Cache!NoCommand, CP!NoCommand,
       Cache!RemoveCommand, CP!RemoveCommand, Cache!diskVars, CP!diskVars, Cache!removeVars,
       CP!removeVars, Cache!crashVars, CP!crashVars

LEMMA SameFiles ==
  /\ Cache!RejectCommand <=> CP!RejectCommand
  /\ Cache!WriteCommand <=> CP!WriteCommand
  /\ Cache!WriteFails <=> CP!WriteFails
  /\ Cache!EvictCommand <=> CP!EvictCommand
  /\ Cache!Crash <=> CP!Crash
  /\ Cache!LoadRaises <=> CP!LoadRaises
BY DEF Cache!RejectCommand, CP!RejectCommand, Cache!WriteFails, CP!WriteFails, Cache!Refused, CP!Refused,
       Cache!WriteCommand, CP!WriteCommand,
       Cache!EvictCommand, CP!EvictCommand, Cache!Crash, CP!Crash, Cache!LoadRaises,
       CP!LoadRaises, Cache!HookReady, CP!HookReady, Cache!passVars, CP!passVars, Cache!connVars,
       CP!connVars, Cache!histVars, CP!histVars, Cache!diskVars, CP!diskVars, Cache!removeVars,
       CP!removeVars, Cache!crashVars, CP!crashVars, Cache!StoreCommand, CP!StoreCommand,
       Cache!cacheHist, CP!cacheHist, Cache!callVars, CP!callVars, Cache!DieAndReopen,
       CP!DieAndReopen, Cache!IsNext, CP!IsNext, Cache!Reopen, CP!Reopen, Cache!NoCommand,
       CP!NoCommand

LEMMA SameRemoval ==
  /\ Cache!BeginRemoveAllCommands <=> CP!BeginRemoveAllCommands
  /\ Cache!ListFiles <=> CP!ListFiles
  /\ Cache!RemoveListedFile <=> CP!RemoveListedFile
  /\ Cache!EndRemoveAllCommands <=> CP!EndRemoveAllCommands
BY DEF Cache!BeginRemoveAllCommands, CP!BeginRemoveAllCommands, Cache!ListFiles, CP!ListFiles,
       Cache!RemoveListedFile, CP!RemoveListedFile, Cache!EndRemoveAllCommands,
       CP!EndRemoveAllCommands, Cache!callVars, CP!callVars, Cache!passVars, CP!passVars,
       Cache!connVars, CP!connVars, Cache!histVars, CP!histVars, Cache!diskVars, CP!diskVars,
       Cache!crashVars, CP!crashVars, Cache!cacheHist, CP!cacheHist, Cache!vars, CP!vars,
       Cache!Resume, CP!Resume, Cache!storeVars, CP!storeVars

LEMMA SameCleanup == Cache!CleanupDiskCache <=> CP!CleanupDiskCache
<1>1. Cache!SizeFrom = CP!SizeFrom
  BY DEF Cache!SizeFrom, CP!SizeFrom, Cache!Commands, CP!Commands, Cache!FileSize, CP!FileSize
<1>2. ASSUME NEW s PROVE Cache!Victims(s) = CP!Victims(s)
  <2>1. Cache!DirectorySize = CP!DirectorySize
    BY Zenon DEF Cache!DirectorySize, CP!DirectorySize, Cache!Cardinality, CP!Cardinality,
                 Cache!IsFiniteSet, CP!IsFiniteSet
  <2>2. {c \in stored : s + Cache!SizeFrom[c] > DiskCacheSize}
          = {c \in stored : s + CP!SizeFrom[c] > DiskCacheSize}
    BY <1>1, Zenon
  <2>3. QED
    BY <2>1, <2>2, Zenon DEF Cache!Victims, CP!Victims
<1>3. Cache!CleanupDiskCache => CP!CleanupDiskCache
  BY <1>2 DEF Cache!CleanupDiskCache, CP!CleanupDiskCache, Cache!HookReady, CP!HookReady,
              Cache!vars, CP!vars, Cache!removeVars, CP!removeVars, Cache!crashVars, CP!crashVars,
              Cache!cacheHist, CP!cacheHist, Cache!callVars, CP!callVars, Cache!storeVars,
              CP!storeVars, Cache!passVars, CP!passVars, Cache!connVars, CP!connVars,
              Cache!histVars, CP!histVars, Cache!Commands, CP!Commands
<1>4. CP!CleanupDiskCache => Cache!CleanupDiskCache
  BY <1>2 DEF Cache!CleanupDiskCache, CP!CleanupDiskCache, Cache!HookReady, CP!HookReady,
              Cache!vars, CP!vars, Cache!removeVars, CP!removeVars, Cache!crashVars, CP!crashVars,
              Cache!cacheHist, CP!cacheHist, Cache!callVars, CP!callVars, Cache!storeVars,
              CP!storeVars, Cache!passVars, CP!passVars, Cache!connVars, CP!connVars,
              Cache!histVars, CP!histVars, Cache!Commands, CP!Commands
<1>5. QED
  BY <1>3, <1>4

LEMMA SameNext == Cache!Next <=> CP!Next
<1>1. UNCHANGED Cache!extraVars <=> UNCHANGED CP!extraVars
  BY DEF Cache!extraVars, CP!extraVars, Cache!diskVars, CP!diskVars, Cache!removeVars,
         CP!removeVars, Cache!crashVars, CP!crashVars, Cache!cacheHist, CP!cacheHist
<1>2. QED
  BY <1>1, SameClient, SamePass, SameAnswers, SameFiles, SameRemoval, SameCleanup
     DEF Cache!Next, CP!Next, Cache!BaseStep, CP!BaseStep, Cache!PassStep, CP!PassStep,
         Cache!ClientStep, CP!ClientStep, Cache!CacheStep, CP!CacheStep

LEMMA SameInit == Cache!Init <=> CP!Init
BY DEF Cache!Init, CP!Init, Cache!BaseInit, CP!BaseInit, Cache!Commands, CP!Commands,
       Cache!NoCommand, CP!NoCommand

-----------------------------------------------------------------------------
(***************************************************************************)
(* The inductive invariant of the task queues and of the command cache,    *)
(* of which only one takes steps.                                          *)
(***************************************************************************)
AllInv == TaskInv /\ HeldInOrder /\ WavesInv /\ InOneOrder /\ FlatInv /\ CP!FilesInv

LEMMA AllInvInit == AllInit => AllInv
<1> SUFFICES ASSUME AllInit PROVE AllInv
  OBVIOUS
<1>1. Init /\ CP!Init
  BY SameInit DEF AllInit
<1>2. CP!FilesInv
  BY <1>1, CacheConstants, CP!FilesInvInit
<1>3. HeldInOrder
  BY <1>1 DEF Init, HeldInOrder
<1>4. InOneOrder
  <2>1. tasks = <<>> /\ \A o \in Objects : queue[o] = <<>>
    BY <1>1 DEF Init
  <2>2. RanksQueues([u \in DOMAIN tasks |-> 0], 0)
    BY <2>1 DEF RanksQueues
  <2>3. QED
    BY <2>2 DEF InOneOrder
<1>5. FlatInv
  BY <1>1 DEF Init, FlatInv
<1>6. QED
  BY <1>1, <1>2, <1>3, <1>4, <1>5, TaskInvInit, WavesInvInit DEF AllInv

LEMMA AllInvStep == AllInv /\ [AllNext]_allVars => AllInv'
<1> SUFFICES ASSUME AllInv, [AllNext]_allVars PROVE AllInv'
  OBVIOUS
<1>1. TaskInv /\ HeldInOrder /\ WavesInv /\ InOneOrder /\ FlatInv /\ CP!FilesInv
  BY DEF AllInv
<1>2. [Next]_vars /\ (CP!Next \/ UNCHANGED cacheVars)
  BY SameNext DEF AllNext, allVars
<1>3. UNCHANGED cacheVars => UNCHANGED CP!cacheVars
  BY DEF cacheVars, CP!cacheVars, CP!vars, CP!callVars, CP!storeVars, CP!passVars, CP!connVars,
         CP!histVars, CP!extraVars, CP!diskVars, CP!removeVars, CP!crashVars, CP!cacheHist
<1>4. CP!FilesInv'
  BY <1>1, <1>2, <1>3, CacheConstants, CP!FilesInvStep
<1>5. TaskInv' /\ WavesInv'
  BY <1>1, <1>2, TaskInvStep, WavesInvStep
<1>6. HeldInOrder'
  BY <1>1, <1>2, HeldInOrderStep DEF WavesInv, SafeTask
<1>7. InOneOrder' /\ FlatInv'
  BY <1>1, <1>2, <1>5, InOneOrderStep, FlatInvStep
<1>8. QED
  BY <1>4, <1>5, <1>6, <1>7 DEF AllInv

LEMMA AllInvariance == AllSpec => []AllInv
BY AllInvInit, AllInvStep, PTL DEF AllSpec

-----------------------------------------------------------------------------
(* "Saves actually get executed in the order they were setup": whatever     *)
(* enqueues meet, tasks that share objects are in one order in all their    *)
(* queues, which are entered under all the mutexes at once.                 *)
THEOREM SavesKeepTheirOrder == AllSpec => []SameOrderInAllQueues
<1>1. AllInv => SameOrderInAllQueues
  BY DEF AllInv, TaskInv
<1>2. QED
  BY <1>1, AllInvariance, PTL

(* Enqueues do not wait for each other in a circle, whatever objects they   *)
(* are of and whoever waits for their tasks: each takes the mutexes of the  *)
(* queues by address (PFTaskQueue, _enqueue:forObjects: of PFObject).       *)
THEOREM EnqueuesGetOn == AllSpec => []EveryEnqueueReturns
<1>1. AllInv => EveryEnqueueReturns
  BY SomeEnqueueGetsOn DEF AllInv, WavesInv, SafeTask
<1>2. QED
  BY <1>1, AllInvariance, PTL

(* Where objects are saved one by one and what they point to points to      *)
(* nothing, saves do not wait for each other in a circle either, whatever   *)
(* their children wait for and whichever of them fail.                      *)
THEOREM FlatSavesComeToAnEnd == AllSpec => []FlatSavesEnd
<1>1. AllInv => FlatSavesEnd
  BY FlatSavesGetOn DEF AllInv
<1>2. QED
  BY <1>1, AllInvariance, PTL

(* An object never has two saves under way: a task runs only at the head of *)
(* the queues of all its objects, and leaves them when it has ended.        *)
THEOREM SavesAreSerialized == AllSpec => []OneSaveAtATime
<1>1. TaskInv => OneSaveAtATime
  <2>1. SUFFICES ASSUME TaskInv, NEW o \in Objects,
                        NEW t \in DOMAIN tasks, NEW u \in DOMAIN tasks,
                        o \in tasks[t].objects, o \in tasks[u].objects, Running(t), Running(u)
                 PROVE  t = u
    BY DEF OneSaveAtATime
  <2>2. Head(queue[o]) = t /\ Head(queue[o]) = u
    BY <2>1 DEF TaskInv, RunningAtHead, AtHead
  <2>3. QED
    BY <2>2
<1>2. AllInv => OneSaveAtATime
  BY <1>1 DEF AllInv
<1>3. QED
  BY <1>2, AllInvariance, PTL

(* A save is sent when everything its objects point to has an objectId: the *)
(* waves of _deepSaveAsyncChildrenOfObject: hold all of it, each can be     *)
(* saved once those before it are, and a failed one fails the save.         *)
THEOREM PointersAreSavedFirst == AllSpec => []ChildrenSavedFirst
<1>1. ASSUME WavesInv PROVE ChildrenSavedFirst
  <2>1. SUFFICES ASSUME NEW t \in DOMAIN tasks, tasks[t].phase = "sent",
                        NEW o \in tasks[t].objects
                 PROVE  points[o] \intersect new = {}
    BY DEF ChildrenSavedFirst
  <2>2. o \in Objects /\ NewBehind[o] = {}
    BY <1>1, <2>1 DEF WavesInv, SafeTask
  <2>3. QED
    BY <2>2 DEF NewBehind
<1>2. AllInv => ChildrenSavedFirst
  BY <1>1 DEF AllInv
<1>3. QED
  BY <1>2, AllInvariance, PTL

(* A command that was written is stored, or the server executed it, or it   *)
(* failed, could not be read from its file, was evicted or discarded, and   *)
(* the oldest files go first.                                               *)
THEOREM CommandsAreNotLost == AllSpec => []NothingLost
<1>1. CP!FilesInv => CP!NothingLost
  BY CacheConstants, CP!FilesAreRight
<1>2. CP!NothingLost => NothingLost
  BY DEF CP!NothingLost, CP!WrittenIsAccountedFor, CP!OldestEvictedFirst, NothingLost,
         Cache!NothingLost, Cache!WrittenIsAccountedFor, Cache!OldestEvictedFirst
<1>3. AllInv => NothingLost
  BY <1>1, <1>2 DEF AllInv
<1>4. QED
  BY <1>3, AllInvariance, PTL

\* What either says of EventualDelivery is the same.
LEMMA SameDelivery == CP!Delivery!Spec => Cache!Delivery!Spec
<1>1. CP!Delivery!Init => Cache!Delivery!Init
  BY DEF Cache!Delivery!Init, CP!Delivery!Init, Cache!Handling, CP!Handling, Cache!NoCommand,
         CP!NoCommand
<1>2. [CP!Delivery!Next]_(CP!Delivery!deliveryVars) => [Cache!Delivery!Next]_(Cache!Delivery!deliveryVars)
  BY Zenon DEF Cache!Delivery!Next, CP!Delivery!Next, Cache!Delivery!deliveryVars,
               CP!Delivery!deliveryVars, Cache!Handling, CP!Handling, Cache!NoCommand,
               CP!NoCommand, Cache!Delivery!Accept, CP!Delivery!Accept, Cache!Delivery!Send,
               CP!Delivery!Send, Cache!Delivery!Execute, CP!Delivery!Execute,
               Cache!Delivery!Finish, CP!Delivery!Finish, Cache!Delivery!Release,
               CP!Delivery!Release, Cache!Delivery!Answer, CP!Delivery!Answer,
               Cache!Delivery!Drop, CP!Delivery!Drop, Cache!Delivery!Refuse, CP!Delivery!Refuse
<1>3. QED
  BY <1>1, <1>2, PTL DEF CP!Delivery!Spec, Cache!Delivery!Spec

(* The command cache delivers as EventualDelivery says.                     *)
THEOREM CommandsAreDeliveredInOrder == AllSpec => DeliversInOrder
<1>1. AllInit => CP!Init
  BY SameInit DEF AllInit
<1>2. [AllNext]_allVars => [CP!Next]_(CP!cacheVars)
  <2>1. [AllNext]_allVars => CP!Next \/ UNCHANGED cacheVars
    BY SameNext DEF AllNext, allVars
  <2>2. UNCHANGED cacheVars => UNCHANGED CP!cacheVars
    BY DEF cacheVars, CP!cacheVars, CP!vars, CP!callVars, CP!storeVars, CP!passVars, CP!connVars,
           CP!histVars, CP!extraVars, CP!diskVars, CP!removeVars, CP!crashVars, CP!cacheHist
  <2>3. QED
    BY <2>1, <2>2
<1>3. AllSpec => CP!Spec
  BY <1>1, <1>2, PTL DEF AllSpec, CP!Spec
<1>4. CP!Spec => CP!DeliversInOrder
  BY CacheConstants, CP!CommandCacheDelivers
<1>5. QED
  BY <1>3, <1>4, SameDelivery DEF DeliversInOrder, Cache!DeliversInOrder, CP!DeliversInOrder
=============================================================================
