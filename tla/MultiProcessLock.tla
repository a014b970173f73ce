-------------------------- MODULE MultiProcessLock --------------------------
(***************************************************************************)
(* PFMultiProcessFileLockController and PFMultiProcessFileLock: the locks  *)
(* an application and its extensions take on the files they share.  Each   *)
(* process has one controller; begin and end run as barriers of its queue, *)
(* and begin waits inside the barrier for the exclusive open of the lock   *)
(* file.  A process holds the lock while it has the lock file open.        *)
(*                                                                         *)
(* A worker is a chain of tasks that begins and ends accesses in pairs,    *)
(* possibly nested, as PFCommandCache does while it saves a command.       *)
(***************************************************************************)
EXTENDS Integers

CONSTANTS
  Processes, Workers, Files,
  Uses,                \* which worker of a process accesses which file
  NoWait,              \* no worker waits in the barrier
  MaxDepth,            \* bound: nested accesses of a worker to a file
  MaxAccesses,         \* bound: begins of a process for a file
  MaxAccidents         \* bound: deaths of a process and removals of a lock file

ASSUME LockAssumption ==
  /\ Uses \subseteq Processes \X Workers \X Files
  /\ {MaxDepth, MaxAccesses, MaxAccidents} \subseteq Nat

VARIABLES
  inode,     \* the lock file now at a path (it may be removed and recreated)
  fd,        \* inode a process has open with O_EXLOCK, 0 when none
  waiting,   \* the begin that occupies a process's barrier
  count,     \* _contentAccessDictionary; no entry is 0
  depth,     \* begins of a worker that it has not ended
  accidents,   \* bound counter
  overlapped \* history: accesses of a process to a file that overlapped

vars == <<inode, fd, waiting, count, depth, accidents, overlapped>>

Inodes == 1 .. MaxAccidents + 1
Waits == [worker : Workers, file : Files, inode : Inodes]

TypeOK ==
  /\ inode \in [Files -> Inodes]
  /\ fd \in [Processes -> [Files -> 0 .. MaxAccidents + 1]]
  /\ waiting \in [Processes -> Waits \union {NoWait}]
  /\ count \in [Processes -> [Files -> 0 .. MaxAccesses]]
  /\ depth \in [Processes -> [Workers -> [Files -> 0 .. MaxDepth]]]
  /\ accidents \in 0 .. MaxAccidents
  /\ overlapped \subseteq Processes \X Files

Init ==
  /\ inode = [f \in Files |-> 1]
  /\ fd = [p \in Processes |-> [f \in Files |-> 0]]
  /\ waiting = [p \in Processes |-> NoWait]
  /\ count = [p \in Processes |-> [f \in Files |-> 0]]
  /\ depth = [p \in Processes |-> [w \in Workers |-> [f \in Files |-> 0]]]
  /\ accidents = 0 /\ overlapped = {}

Accessing(p, f) == \E w \in Workers : depth[p][w][f] > 0

\* The rest of begin, once the lock is held.
Granted(p, w, f) ==
  /\ count' = [count EXCEPT ![p][f] = @ + 1]
  /\ depth' = [depth EXCEPT ![p][w][f] = @ + 1]
  /\ overlapped' = overlapped \union
                     (IF Accessing(p, f) THEN {<<p, f>>} ELSE {})

\* The barrier is free, and begin finds the lock already held by its process.
BeginHeld(p, w, f) ==
  /\ waiting[p] = NoWait
  /\ <<p, w, f>> \in Uses /\ depth[p][w][f] < MaxDepth /\ count[p][f] < MaxAccesses
  /\ fd[p][f] # 0
  /\ Granted(p, w, f)
  /\ UNCHANGED <<inode, fd, waiting, accidents>>

\* Otherwise it opens the lock file, creating it if need be ...
BeginOpen(p, w, f) ==
  /\ waiting[p] = NoWait
  /\ <<p, w, f>> \in Uses /\ depth[p][w][f] < MaxDepth /\ count[p][f] < MaxAccesses
  /\ fd[p][f] = 0
  /\ waiting' = [waiting EXCEPT ![p] = [worker |-> w, file |-> f, inode |-> inode[f]]]
  /\ UNCHANGED <<inode, fd, count, depth, accidents, overlapped>>

\* Mutant: the open does not ask for an exclusive lock.
AcquireShared(p) ==
  /\ waiting[p] # NoWait
  /\ LET w == waiting[p] IN
       /\ fd' = [fd EXCEPT ![p][w.file] = w.inode]
       /\ Granted(p, w.worker, w.file)
  /\ waiting' = [waiting EXCEPT ![p] = NoWait]
  /\ UNCHANGED <<inode, accidents>>

\* ... and the open returns when no process has that file locked.
Acquire(p) ==
  /\ waiting[p] # NoWait
  /\ LET w == waiting[p] IN
       /\ \A q \in Processes : fd[q][w.file] # w.inode
       /\ fd' = [fd EXCEPT ![p][w.file] = w.inode]
       /\ Granted(p, w.worker, w.file)
  /\ waiting' = [waiting EXCEPT ![p] = NoWait]
  /\ UNCHANGED <<inode, accidents>>

\* Mutant: an end that does not unlock while the count is not zero.
EndCounted(p, w, f) ==
  /\ waiting[p] = NoWait
  /\ depth[p][w][f] > 0
  /\ depth' = [depth EXCEPT ![p][w][f] = @ - 1]
  /\ fd' = [fd EXCEPT ![p][f] = IF count[p][f] = 0 THEN 0 ELSE @]
  /\ UNCHANGED <<inode, waiting, count, accidents, overlapped>>

\* End always unlocks.  The count is never decremented, so that it is never
\* zero here and the two dictionaries keep their entries.
End(p, w, f) ==
  /\ waiting[p] = NoWait
  /\ depth[p][w][f] > 0
  /\ depth' = [depth EXCEPT ![p][w][f] = @ - 1]
  /\ fd' = [fd EXCEPT ![p][f] = 0]
  /\ UNCHANGED <<inode, waiting, count, accidents, overlapped>>

\* removeAllDataAsync of a persistence group, run under the lock of one of its
\* files, removes everything in the directory, lock files included.
RemoveLockFile(p, f) ==
  /\ Accessing(p, f)
  /\ accidents < MaxAccidents
  /\ accidents' = accidents + 1
  /\ inode' = [inode EXCEPT ![f] = @ + 1]
  /\ UNCHANGED <<fd, waiting, count, depth, overlapped>>

\* The kernel closes the files of a process that dies.
Die(p) ==
  /\ accidents < MaxAccidents
  /\ accidents' = accidents + 1
  /\ fd' = [fd EXCEPT ![p] = [f \in Files |-> 0]]
  /\ waiting' = [waiting EXCEPT ![p] = NoWait]
  /\ count' = [count EXCEPT ![p] = [f \in Files |-> 0]]
  /\ depth' = [depth EXCEPT ![p] = [w \in Workers |-> [f \in Files |-> 0]]]
  /\ overlapped' = overlapped \ ({p} \X Files)
  /\ UNCHANGED inode

Next ==
  \E p \in Processes :
    \/ Acquire(p)
    \/ Die(p)
    \/ \E f \in Files :
         \/ RemoveLockFile(p, f)
         \/ \E w \in Workers : BeginHeld(p, w, f) \/ BeginOpen(p, w, f) \/ End(p, w, f)

Spec == Init /\ [][Next]_vars

\* The system call returns when it can, and workers end what they begin.
Fairness ==
  \A p \in Processes :
    /\ WF_vars(Acquire(p))
    /\ \A w \in Workers : WF_vars(\E f \in Files : End(p, w, f))

FairSpec == Spec /\ Fairness

-----------------------------------------------------------------------------
(***************************************************************************)
(* The lock excludes: two processes access a file at the same time only if *)
(* one of them had overlapping accesses of its own, or the lock file was   *)
(* removed while it was locked.                                            *)
(***************************************************************************)
ExclusiveUnlessOverlapped ==
  \A p, q \in Processes, f \in Files :
    (p # q /\ Accessing(p, f) /\ Accessing(q, f)) =>
      <<p, f>> \in overlapped \/ <<q, f>> \in overlapped \/ inode[f] > 1

\* A process waits in its barrier for a lock file that another has open.
WaitsFor(p, q) == waiting[p] # NoWait /\ fd[q][waiting[p].file] = waiting[p].inode

(***************************************************************************)
(* A begin waits for ever only when some processes wait for each other,    *)
(* each with a file open that the last waits for; it need not be one of    *)
(* them, and the others may go on.  A process that is not caught so ends   *)
(* its accesses and lets the next one through.                             *)
(***************************************************************************)
StuckOnlyInACycle ==
  \A p \in Processes :
    <>[](waiting[p] # NoWait) =>
      <>[](\E S \in SUBSET Processes :
             S # {} /\ \A q \in S : \E r \in S : WaitsFor(q, r))
=============================================================================
