-------------------------- MODULE ObjectTaskQueues --------------------------
(***************************************************************************)
(* PFTaskQueue and the saves that go through it.  Every PFObject has a     *)
(* task queue.  saveInBackground is one task of the object's queue; while  *)
(* it runs it saves the dirty objects it points to, in waves, each a batch *)
(* that _enqueue:forObjects: puts in the queues of all its objects.        *)
(* saveAllInBackground is the waves alone, in no queue.                    *)
(***************************************************************************)
EXTENDS Naturals, Sequences, FiniteSets, FiniteSetsExt

CONSTANTS
  NumObjects,   \* objects, numbered by the address of their queue's mutex
  Instances,    \* pointer graphs to start from, each with bounds on the client
  MaxSaves,     \* bound: saveInBackground and saveAllInBackground calls
  MaxTasks      \* bound: tasks of either kind

Objects == 1 .. NumObjects

ASSUME TaskAssumption ==
  /\ {NumObjects, MaxSaves, MaxTasks} \subseteq Nat
  /\ Instances \subseteq [points : [Objects -> SUBSET Objects], saveAll : BOOLEAN,
                          changes : Nat]

VARIABLES
  points,   \* objects that an object's estimated data points to
  new,      \* objects without an objectId
  changed,  \* objects with unsaved changes in the last operation set
  queue,    \* per object, its unfinished tasks, in order
  mutex,    \* per object, the task whose enqueue holds the queue's mutex
  tasks,    \* all tasks, in the order of their creation
  saves,    \* bound counter
  client    \* whether saveAllInBackground is called, and changes still to come

vars == <<points, new, changed, queue, mutex, tasks, saves, client>>

NoTask == 0
TaskIds == 1 .. MaxTasks

Kinds == {"save", "saveAll", "batch"}
Phases == {"locking", "queued", "children", "sent", "done"}

\* taken: objects whose changes the task has snapshotted and started to save.
Tasks == [kind : Kinds, objects : SUBSET Objects, phase : Phases,
          waves : Seq(SUBSET Objects), batch : 0 .. MaxTasks,
          taken : SUBSET Objects, ok : BOOLEAN]

TypeOK ==
  /\ \E i \in Instances :
       /\ points = i.points
       /\ client.saveAll = i.saveAll /\ client.changes \in 0 .. i.changes
  /\ new \subseteq Objects /\ changed \subseteq Objects
  /\ queue \in [Objects -> Seq(1 .. Len(tasks))]
  /\ mutex \in [Objects -> 0 .. Len(tasks)]
  /\ tasks \in Seq(Tasks) /\ Len(tasks) <= MaxTasks
  /\ saves \in 0 .. MaxSaves

Init ==
  /\ \E i \in Instances :
       /\ points = i.points
       /\ client = [saveAll |-> i.saveAll, changes |-> i.changes]
  /\ new \in SUBSET Objects /\ changed \in SUBSET Objects
  /\ queue = [o \in Objects |-> <<>>]
  /\ mutex = [o \in Objects |-> NoTask]
  /\ tasks = <<>> /\ saves = 0

-----------------------------------------------------------------------------
(* What a save has to do.                                                  *)

IsDirty(o) == o \in new \/ o \in changed

\* Objects that paths of at most n pointers through P lead to from S.
Within(S, P) ==
  LET within[n \in 0 .. NumObjects] ==
        IF n = 0 THEN S
        ELSE within[n - 1] \union
             UNION {points[o] \intersect P : o \in within[n - 1] \intersect P}
  IN  within[NumObjects]

Reachable(S) == S \union Within(S, Objects)

\* collectDirtyChildren raises on a cycle that consists of new objects only.
NewCycle(S) ==
  \E o \in Reachable(S) \intersect new :
    o \in Within(points[o] \intersect new, new)

\* canBeSerializedAfterSaving: everything it points to has an objectId or is
\* saved before it.
CanBeSerialized(o, saved) == points[o] \intersect new \subseteq saved

\* The waves in which the objects of D can be saved; they end with an empty
\* one when the rest points to objects that are not going to be saved.
WavesOf(D) ==
  LET waves[R \in SUBSET D] ==
        LET current == {o \in R : CanBeSerialized(o, D \ R)}
        IN  IF R = {} THEN <<>>
            ELSE IF current = {} THEN <<{}>>
            ELSE <<current>> \o waves[R \ current]
  IN  waves[D]

\* Mutant: everything that is dirty goes in a single wave.
SingleWave(D) == IF D = {} THEN <<>> ELSE <<D>>

Waves(D) == WavesOf(D)

Impossible(S, D) == NewCycle(S) \/ {} \in {Waves(D)[i] : i \in DOMAIN Waves(D)}

-----------------------------------------------------------------------------
(* Enqueueing: all mutexes, lowest address first, then all queues.         *)

NewTask(k, S, p) ==
  [kind |-> k, objects |-> S, phase |-> p, waves |-> <<>>, batch |-> NoTask,
   taken |-> {}, ok |-> TRUE]

SaveInBackground(o) ==
  /\ saves < MaxSaves /\ Len(tasks) < MaxTasks
  /\ saves' = saves + 1
  /\ tasks' = Append(tasks, NewTask("save", {o}, "locking"))
  /\ UNCHANGED <<points, new, changed, queue, mutex, client>>

\* The children of the array, itself in no queue.
SaveAllInBackground(S) ==
  /\ client.saveAll
  /\ saves < MaxSaves /\ Len(tasks) < MaxTasks
  /\ saves' = saves + 1
  /\ LET dirty == {o \in Reachable(S) : IsDirty(o)} IN
       tasks' = Append(tasks,
         IF Impossible(S, dirty)
           THEN [NewTask("saveAll", {}, "done") EXCEPT !.ok = FALSE]
           ELSE [NewTask("saveAll", {}, "children") EXCEPT !.waves = Waves(dirty)])
  /\ UNCHANGED <<points, new, changed, queue, mutex, client>>

Change(o) ==
  /\ client.changes > 0
  /\ client' = [client EXCEPT !.changes = @ - 1]
  /\ changed' = changed \union {o}
  /\ UNCHANGED <<points, new, queue, mutex, tasks, saves>>

\* The mutexes the enqueue of t has still to take.
Missing(t) == {o \in tasks[t].objects : mutex[o] # t}

\* Mutant: an enqueue that takes the mutexes in any order.
TakeAnyMutex(t) ==
  /\ tasks[t].phase = "locking"
  /\ \E o \in Missing(t) :
       /\ mutex[o] = NoTask
       /\ mutex' = [mutex EXCEPT ![o] = t]
  /\ UNCHANGED <<points, new, changed, queue, tasks, saves, client>>

\* The one it takes next, unless another enqueue holds it.
FreeMutex(t) == {o \in Missing(t) : mutex[o] = NoTask /\ \A p \in Missing(t) : o <= p}

TakeMutex(t) ==
  /\ tasks[t].phase = "locking"
  /\ \E o \in FreeMutex(t) : mutex' = [mutex EXCEPT ![o] = t]
  /\ UNCHANGED <<points, new, changed, queue, tasks, saves, client>>

\* Mutant: every queue is entered, and its mutex released, one at a time.
EnqueueOneByOne(t) ==
  LET In(o, q) == \E i \in DOMAIN q[o] : q[o][i] = t IN
  /\ tasks[t].phase = "locking"
  /\ \E o \in tasks[t].objects \ Missing(t) :
       /\ queue' = IF In(o, queue) THEN queue ELSE [queue EXCEPT ![o] = Append(@, t)]
       /\ mutex' = [mutex EXCEPT ![o] = NoTask]
  /\ tasks' = IF \A o \in tasks[t].objects : In(o, queue')
                THEN [tasks EXCEPT ![t].phase = "queued"] ELSE tasks
  /\ UNCHANGED <<points, new, changed, saves, client>>

Enqueue(t) ==
  /\ tasks[t].phase = "locking"
  /\ Missing(t) = {}
  /\ queue' = [o \in Objects |-> IF o \in tasks[t].objects
                                   THEN Append(queue[o], t) ELSE queue[o]]
  /\ mutex' = [o \in Objects |-> IF mutex[o] = t THEN NoTask ELSE mutex[o]]
  /\ tasks' = [tasks EXCEPT ![t].phase = "queued"]
  /\ UNCHANGED <<points, new, changed, saves, client>>

-----------------------------------------------------------------------------
(* Running.                                                                *)

\* Mutant: a task does not wait for its turn.
ReadyAtOnce(t) == tasks[t].phase = "queued"

\* toAwait: every task ahead in every queue of t has ended.
Ready(t) ==
  /\ tasks[t].phase = "queued"
  /\ \A o \in tasks[t].objects : Head(queue[o]) = t

\* t ends, with its objects saved or not: the changes of a failed save go back
\* to the unsaved ones, unless it was an exception that ended it.
Finish(t, saved, restored) ==
  /\ tasks' = [tasks EXCEPT ![t].phase = "done", ![t].ok = @ /\ tasks[t].objects \subseteq saved]
  /\ queue' = [o \in Objects |-> IF o \in tasks[t].objects THEN Tail(queue[o]) ELSE queue[o]]
  /\ new' = new \ saved
  /\ changed' = changed \union restored
  /\ UNCHANGED <<points, mutex, saves, client>>

\* saveAsync: with nothing dirty, the end; else startSave and the children.
BeginSave(t) ==
  /\ Ready(t) /\ tasks[t].kind = "save"
  /\ \E o \in tasks[t].objects :
       LET children == {c \in Reachable({o}) : IsDirty(c)} \ {o} IN
       IF ~IsDirty(o) /\ children = {} THEN Finish(t, {o}, {})
       ELSE IF Impossible({o}, children)
         THEN /\ tasks' = [tasks EXCEPT ![t].phase = "done", ![t].ok = FALSE]
              /\ queue' = [queue EXCEPT ![o] = Tail(@)]
              /\ changed' = changed \ {o}
              /\ UNCHANGED <<points, new, mutex, saves, client>>
         ELSE /\ tasks' = [tasks EXCEPT ![t].phase = "children",
                                        ![t].waves = Waves(children),
                                        ![t].taken = {o} \intersect changed]
              /\ changed' = changed \ {o}
              /\ UNCHANGED <<points, new, queue, mutex, saves, client>>

\* A save that saves its children has no wave of them under way, or one whose
\* batch has ended.
BetweenWaves(t) == tasks[t].phase = "children" /\ tasks[t].batch = NoTask

WaveEnded(t) ==
  tasks[t].phase = "children" /\ tasks[t].batch # NoTask /\ tasks[tasks[t].batch].phase = "done"

BeginWave(t) ==
  /\ BetweenWaves(t)
  /\ tasks[t].waves # <<>>
  /\ Len(tasks) < MaxTasks
  /\ tasks' = Append([tasks EXCEPT ![t].batch = Len(tasks) + 1],
                     NewTask("batch", Head(tasks[t].waves), "locking"))
  /\ UNCHANGED <<points, new, changed, queue, mutex, saves, client>>

EndWave(t) ==
  /\ WaveEnded(t) /\ tasks[tasks[t].batch].ok
  /\ tasks' = [tasks EXCEPT ![t].batch = NoTask, ![t].waves = Tail(@)]
  /\ UNCHANGED <<points, new, changed, queue, mutex, saves, client>>

\* Mutant: a save fails with its children but stays in the queue.
AbandonInQueue(t) ==
  /\ WaveEnded(t) /\ ~tasks[tasks[t].batch].ok
  /\ tasks' = [tasks EXCEPT ![t].phase = "done", ![t].ok = FALSE]
  /\ UNCHANGED <<points, new, changed, queue, mutex, saves, client>>

\* A failed wave fails the save that needs it.
AbandonWaves(t) ==
  /\ WaveEnded(t) /\ ~tasks[tasks[t].batch].ok
  /\ IF tasks[t].kind = "save"
       THEN Finish(t, {}, tasks[t].taken)
       ELSE /\ tasks' = [tasks EXCEPT ![t].phase = "done", ![t].ok = FALSE]
            /\ UNCHANGED <<points, new, changed, queue, mutex, saves, client>>

\* All children are saved: the command goes, unless only they were dirty.
SendSave(t) ==
  /\ BetweenWaves(t) /\ tasks[t].waves = <<>>
  /\ IF tasks[t].kind = "save" /\ (tasks[t].taken # {} \/ tasks[t].objects \subseteq new)
       THEN /\ tasks' = [tasks EXCEPT ![t].phase = "sent"]
            /\ UNCHANGED <<points, new, changed, queue, mutex, saves, client>>
       ELSE Finish(t, tasks[t].objects, {})

\* Snapshots the changes of its objects and sends them.
SendBatch(t) ==
  /\ Ready(t) /\ tasks[t].kind = "batch"
  /\ tasks' = [tasks EXCEPT ![t].phase = "sent",
                            ![t].taken = tasks[t].objects \intersect changed]
  /\ changed' = changed \ tasks[t].objects
  /\ UNCHANGED <<points, new, queue, mutex, saves, client>>

\* The answer: any of the objects may have failed.
HandleResult(t) ==
  /\ tasks[t].phase = "sent"
  /\ \E saved \in SUBSET tasks[t].objects :
       Finish(t, saved, tasks[t].taken \ saved)

TaskStep(t) ==
  \/ TakeMutex(t) \/ Enqueue(t) \/ BeginSave(t) \/ BeginWave(t) \/ EndWave(t)
  \/ AbandonWaves(t) \/ SendSave(t) \/ SendBatch(t) \/ HandleResult(t)

Next ==
  \/ \E o \in Objects : SaveInBackground(o) \/ Change(o)
  \/ \E S \in SUBSET Objects : S # {} /\ SaveAllInBackground(S)
  \/ \E t \in DOMAIN tasks : TaskStep(t)

Spec == Init /\ [][Next]_vars

-----------------------------------------------------------------------------
Running(t) == tasks[t].phase \in {"children", "sent"}

(***************************************************************************)
(* "Saves actually get executed in the order they were setup": two tasks   *)
(* that share several objects are in the same order in all their queues,   *)
(* even while other threads enqueue.                                       *)
(***************************************************************************)
SameOrderInAllQueues ==
  \A a, b \in Objects :
    \A i, j \in DOMAIN queue[a] : \A k, l \in DOMAIN queue[b] :
      (queue[a][i] = queue[b][k] /\ queue[a][j] = queue[b][l]) => (i < j <=> k < l)

(***************************************************************************)
(* An object has at most one save under way, by itself or in a batch.      *)
(***************************************************************************)
OneSaveAtATime ==
  \A o \in Objects : \A t, u \in DOMAIN tasks :
    (o \in tasks[t].objects /\ o \in tasks[u].objects /\ Running(t) /\ Running(u)) => t = u

(***************************************************************************)
(* No command is sent while it has a pointer to an object that the server  *)
(* does not know, whatever other saves succeed or fail meanwhile.          *)
(***************************************************************************)
ChildrenSavedFirst ==
  \A t \in DOMAIN tasks : tasks[t].phase = "sent" =>
    \A o \in tasks[t].objects : points[o] \intersect new = {}

\* There is a step of the task that waits for nothing (but for MaxTasks).
GetsOn(t) ==
  \/ tasks[t].phase = "locking" /\ (Missing(t) = {} \/ FreeMutex(t) # {})
  \/ Ready(t) \/ BetweenWaves(t) \/ WaveEnded(t)
  \/ tasks[t].phase = "sent"

(***************************************************************************)
(* "The locks have to be sorted so that we always acquire them in the same *)
(* order.  Otherwise, there's some risk of deadlock": while enqueues are   *)
(* under way one of them gets on, also where the saves behind them block   *)
(* each other, and so each gets all its mutexes.                           *)
(***************************************************************************)
EveryEnqueueReturns ==
  LET locking == {t \in DOMAIN tasks : tasks[t].phase = "locking"}
  IN  locking # {} => \E t \in locking : GetsOn(t)

(***************************************************************************)
(* "Returns a promise that is fulfilled once the promise returned by the   *)
(* block is fulfilled": while saves are under way one of them gets on.     *)
(* Steps only ever advance a task or add one for a wave, of which a save   *)
(* has boundedly many, so with executors that run every block each ends.   *)
(***************************************************************************)
EverySaveEnds ==
  (\E t \in DOMAIN tasks : tasks[t].phase # "done") => \E t \in DOMAIN tasks : GetsOn(t)

(***************************************************************************)
(* The same where the code keeps to it: when what is pointed to points to  *)
(* nothing, and objects are saved one by one, every save ends, whatever    *)
(* fails.                                                                  *)
(***************************************************************************)
FlatSavesEnd ==
  (/\ \A o \in Objects : \A p \in points[o] : points[p] = {}
   /\ \A t \in DOMAIN tasks : tasks[t].kind # "saveAll") => EverySaveEnds
=============================================================================
