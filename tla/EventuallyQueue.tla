-------------------------- MODULE EventuallyQueue --------------------------
(***************************************************************************)
(* PFEventuallyQueue: the queue behind saveEventually and deleteEventually.*)
(* A command is stored by the subclass, then its completion source is      *)
(* registered; a dispatch source on the serial processing queue runs the   *)
(* stored commands in order.  A temporary failure waits on a semaphore     *)
(* before the whole pass is retried.                                       *)
(*                                                                         *)
(* Commands are numbered in the order enqueueCommandInBackground accepts   *)
(* them; the serial _commandEnqueueTaskQueue makes that the order in which *)
(* they reach the subclass's storage.  This module holds the state and the *)
(* steps of the base class; MemoryEventuallyQueue and CommandCache add the *)
(* subclass hooks and the next-state relation.                             *)
(***************************************************************************)
EXTENDS Integers

CONSTANTS
  NumCommands,      \* bound: commands enqueued in a behaviour
  MaxAttempts,      \* maxAttemptsCount
  MaxNotifications, \* bound: calls of setConnected:
  MaxPauses         \* bound: calls of pause

ASSUME ConstantsAssumption ==
  /\ NumCommands \in Nat \ {0}
  /\ MaxAttempts \in Nat
  /\ MaxNotifications \in Nat
  /\ MaxPauses \in Nat

Commands == 1 .. NumCommands
NoCommand == 0

VARIABLES
  accepted,    \* commands handed to enqueueCommandInBackground so far
  written,     \* commands whose subclass enqueue hook has completed
  registered,  \* commands whose _didEnqueueCommand has run (or was skipped)
  stored,      \* the commands in the subclass's storage
  sources,     \* keys of _taskCompletionSources
  promise,     \* what the caller of enqueueCommandInBackground sees
  running,     \* the running property; the source is suspended when FALSE
  connected,   \* _connected
  kick,        \* data merged into _processingQueueSource, not yet handled
  pc,          \* where the processing queue is
  snapshot,    \* identifiers the current pass has still to handle
  cur,         \* identifier the current pass is handling
  holdsSource, \* the pass found a completion source for cur
  outcome,     \* result of the command just run
  retries,     \* retriesCount of the current pass
  semaphore,   \* _retryingSemaphore
  request,     \* setConnected: call waiting at its barrier
  signals,     \* semaphore signals dispatched and not yet executed
  calls,       \* bound counters: [notifications, pauses]
  delivered,   \* history: commands the server has executed
  stranded     \* history: the last pass quit its wait with no kick pending

callVars  == <<accepted, written, registered>>
storeVars == <<stored, sources, promise>>
passVars  == <<snapshot, cur, holdsSource, outcome, retries>>
connVars  == <<connected, request, signals>>
histVars  == <<delivered, stranded>>
vars == <<callVars, storeVars, passVars, connVars, histVars,
          running, kick, pc, semaphore, calls>>

\* The processing queue is busy with one command.
Handling == {"fetch", "send", "failed", "backoff", "finish", "notify"}

FlagsOK ==
  /\ running \in BOOLEAN /\ connected \in BOOLEAN /\ kick \in BOOLEAN
  /\ holdsSource \in BOOLEAN /\ stranded \in BOOLEAN

BaseTypeOK ==
  /\ FlagsOK
  /\ accepted \in 0 .. NumCommands
  /\ registered \in 0 .. accepted
  /\ written \in {registered, registered + 1}
  /\ written <= accepted
  /\ stored \subseteq 1 .. written
  /\ sources \subseteq 1 .. registered
  /\ promise \in [Commands -> {"pending", "success", "error"}]
  /\ pc \in {"idle", "pass", "load"} \union Handling
  /\ pc \in Handling => cur # NoCommand
  /\ snapshot \subseteq 1 .. written
  /\ cur \in 0 .. written
  /\ outcome \in {"none", "success", "permanent", "temporary"}
  /\ retries \in 0 .. MaxAttempts
  /\ semaphore \in {"none", "armed", "signalled"}
  /\ request \in {"none", "up", "down"}
  /\ calls \in [notifications : 0 .. MaxNotifications, pauses : 0 .. MaxPauses]
  /\ signals \in 0 .. calls.notifications
  /\ delivered \subseteq 1 .. written

(***************************************************************************)
(* The initial state is the one initWithDataSource: leaves: the source is  *)
(* suspended and, when the network is reachable, setConnected:YES has      *)
(* already merged data into it.                                            *)
(***************************************************************************)
BaseInit ==
  /\ accepted = 0 /\ written = 0 /\ registered = 0
  /\ stored = {} /\ sources = {}
  /\ promise = [c \in Commands |-> "pending"]
  /\ running = FALSE
  /\ connected \in BOOLEAN /\ kick = connected
  /\ pc = "idle" /\ snapshot = {} /\ cur = NoCommand
  /\ holdsSource = FALSE /\ outcome = "none" /\ retries = 0
  /\ semaphore = "none" /\ request = "none" /\ signals = 0
  /\ calls = [notifications |-> 0, pauses |-> 0]
  /\ delivered = {} /\ stranded = FALSE

-----------------------------------------------------------------------------
(* Enqueueing.  The subclass hook is StoreCommand (below: append; a disk   *)
(* subclass may reject).                                                   *)

EnqueueCommand ==
  /\ accepted < NumCommands
  /\ accepted' = accepted + 1
  /\ UNCHANGED <<written, registered, storeVars, passVars, connVars, histVars,
                 running, kick, pc, semaphore, calls>>

\* The head of _commandEnqueueTaskQueue is ready for the subclass hook.
HookReady == written = registered /\ written < accepted

StoreCommand ==
  /\ HookReady
  /\ written' = written + 1
  /\ stored' = stored \union {written + 1}
  /\ UNCHANGED <<accepted, registered, sources, promise, passVars, connVars,
                 histVars, running, kick, pc, semaphore, calls>>

\* Signalling a semaphore only matters while a pass waits on it.
Signalled(s) == IF s = "armed" THEN "signalled" ELSE s

\* Mutant: a new command is not announced to the processing queue.
DidEnqueueWithoutKick ==
  /\ registered < written
  /\ registered' = written
  /\ sources' = sources \union {written}
  /\ semaphore' = Signalled(semaphore)
  /\ UNCHANGED <<accepted, written, stored, promise, passVars, connVars,
                 histVars, running, kick, pc, calls>>

DidEnqueueCommand ==
  /\ registered < written
  /\ registered' = written
  /\ sources' = sources \union {written}
  /\ kick' = TRUE
  /\ semaphore' = Signalled(semaphore)
  /\ UNCHANGED <<accepted, written, stored, promise, passVars, connVars,
                 histVars, running, pc, calls>>

-----------------------------------------------------------------------------
(* Controlling the queue.                                                  *)

\* start installs the handler and resumes.
Resume ==
  /\ ~running
  /\ running' = TRUE
  /\ kick' = TRUE
  /\ UNCHANGED <<callVars, storeVars, passVars, connVars, histVars, pc,
                 semaphore, calls>>

Pause ==
  /\ running
  /\ calls.pauses < MaxPauses
  /\ calls' = [calls EXCEPT !.pauses = @ + 1]
  /\ running' = FALSE
  /\ UNCHANGED <<callVars, storeVars, passVars, connVars, histVars, kick, pc,
                 semaphore>>

-----------------------------------------------------------------------------
(* Running commands, on the processing queue.                              *)

\* The dispatch source fires: all data merged so far is consumed at once.
RunCommands ==
  /\ pc = "idle" /\ running /\ kick
  /\ kick' = FALSE
  /\ pc' = "pass"
  /\ retries' = MaxAttempts
  /\ stranded' = FALSE
  /\ UNCHANGED <<callVars, storeVars, snapshot, cur, holdsSource, outcome,
                 connVars, delivered, running, semaphore, calls>>

BeginPass ==
  /\ pc = "pass"
  /\ IF running /\ connected
       THEN pc' = "load" /\ snapshot' = stored
       ELSE pc' = "idle" /\ snapshot' = {}
  /\ cur' = NoCommand /\ holdsSource' = FALSE /\ outcome' = "none"
  /\ UNCHANGED <<callVars, storeVars, retries, connVars, histVars, running,
                 kick, semaphore, calls>>

\* Mutant: identifiers are not sorted.
IsNextInAnyOrder(c) == c \in snapshot

\* c is the next identifier of the pass.
IsNext(c) == c \in snapshot /\ \A d \in snapshot : c <= d

LoadCommand ==
  /\ pc = "load"
  /\ \E c \in snapshot \intersect stored :
       /\ IsNext(c)
       /\ cur' = c
       /\ snapshot' = snapshot \ {c}
  /\ pc' = "fetch"
  /\ UNCHANGED <<callVars, storeVars, holdsSource, outcome, retries, connVars,
                 histVars, running, kick, semaphore, calls>>

\* The command is gone: its completion source is dropped, and not resolved.
SkipMissingCommand ==
  /\ pc = "load"
  /\ \E c \in snapshot \ stored :
       /\ IsNext(c)
       /\ sources' = sources \ {c}
       /\ snapshot' = snapshot \ {c}
  /\ UNCHANGED <<callVars, stored, promise, cur, holdsSource, outcome, retries,
                 connVars, histVars, running, kick, pc, semaphore, calls>>

EndPass ==
  /\ pc = "load" /\ snapshot = {}
  /\ pc' = "idle"
  /\ UNCHANGED <<callVars, storeVars, snapshot, cur, holdsSource, outcome, retries,
                 connVars, histVars, running, kick, semaphore, calls>>

FetchCompletionSource ==
  /\ pc = "fetch"
  /\ holdsSource' = (cur \in sources)
  /\ pc' = "send"
  /\ UNCHANGED <<callVars, storeVars, snapshot, cur, outcome, retries,
                 connVars, histVars, running, kick, semaphore, calls>>

\* The command runner's answer.  The server may have executed a command whose
\* answer was lost; an exception is converted to a permanent error.
RunCommand ==
  /\ pc = "send"
  /\ \E o \in {"success", "permanent", "temporary"} :
       /\ outcome' = o
       /\ pc' = IF o = "temporary" THEN "failed" ELSE "finish"
       /\ \/ o # "permanent" /\ delivered' = delivered \union {cur}
          \/ o # "success" /\ delivered' = delivered
  /\ UNCHANGED <<callVars, storeVars, snapshot, cur, holdsSource, retries,
                 connVars, stranded, running, kick, semaphore, calls>>

BeginBackoff ==
  /\ pc = "failed"
  /\ semaphore' = "armed"
  /\ pc' = "backoff"
  /\ UNCHANGED <<callVars, storeVars, passVars, connVars, histVars, running,
                 kick, calls>>

\* The wait was cut short: the pass quits and leaves the rest to a later kick.
QuitBackoff ==
  /\ pc = "backoff" /\ semaphore = "signalled"
  /\ semaphore' = "none"
  /\ pc' = "idle" /\ snapshot' = {} /\ cur' = NoCommand
  /\ holdsSource' = FALSE /\ outcome' = "none"
  /\ stranded' = ~kick
  /\ UNCHANGED <<callVars, storeVars, retries, connVars, delivered, running,
                 kick, calls>>

\* Mutant: the last attempt is followed by another one.
BackoffPastZero ==
  /\ pc = "backoff" /\ semaphore = "armed"
  /\ semaphore' = "none"
  /\ retries' = retries - 1 /\ pc' = "pass"
  /\ UNCHANGED <<callVars, storeVars, snapshot, cur, holdsSource, outcome,
                 connVars, histVars, running, kick, calls>>

\* Mutant: the wait has no timeout.
BackoffUntilSignalled ==
  /\ pc = "backoff" /\ semaphore = "signalled"
  /\ semaphore' = "none"
  /\ retries > 0 /\ retries' = retries - 1 /\ pc' = "pass"
  /\ UNCHANGED <<callVars, storeVars, snapshot, cur, holdsSource, outcome,
                 connVars, histVars, running, kick, calls>>

\* The retry interval is over: a new pass, or the command has failed for good.
BackoffElapsed ==
  /\ pc = "backoff" /\ semaphore = "armed"
  /\ semaphore' = "none"
  /\ \/ retries > 0 /\ retries' = retries - 1 /\ pc' = "pass"
     \/ retries = 0 /\ retries' = retries /\ pc' = "finish"
  /\ UNCHANGED <<callVars, storeVars, snapshot, cur, holdsSource, outcome,
                 connVars, histVars, running, kick, calls>>

\* Mutant: the subclass keeps the command.
KeepCommand ==
  /\ pc = "finish"
  /\ pc' = "notify"
  /\ UNCHANGED <<callVars, storeVars, passVars, connVars, histVars, running,
                 kick, semaphore, calls>>

\* The subclass forgets the command ...
RemoveCommand ==
  /\ pc = "finish"
  /\ stored' = stored \ {cur}
  /\ pc' = "notify"
  /\ UNCHANGED <<callVars, sources, promise, passVars, connVars, histVars,
                 running, kick, semaphore, calls>>

\* ... then the base class drops the completion source, and the pass resolves
\* the one it fetched before running the command.
ResolvePromise ==
  /\ pc = "notify"
  /\ sources' = sources \ {cur}
  /\ promise' = IF holdsSource
                  THEN [promise EXCEPT ![cur] =
                          IF outcome = "success" THEN "success" ELSE "error"]
                  ELSE promise
  /\ pc' = "load"
  /\ cur' = NoCommand /\ holdsSource' = FALSE /\ outcome' = "none"
  /\ UNCHANGED <<callVars, stored, snapshot, retries, connVars, histVars,
                 running, kick, semaphore, calls>>

-----------------------------------------------------------------------------
(* Reachability.  setConnected: dispatches a block to the processing queue *)
(* and, when connected, a signal to the synchronization queue, then blocks *)
(* its caller until the first has run.                                     *)

SetConnected ==
  /\ request = "none"
  /\ calls.notifications < MaxNotifications
  /\ calls' = [calls EXCEPT !.notifications = @ + 1]
  /\ \/ request' = "up" /\ signals' = signals + 1
     \/ request' = "down" /\ signals' = signals
  /\ UNCHANGED <<callVars, storeVars, passVars, connected, histVars, running,
                 kick, pc, semaphore>>

ApplyConnected ==
  /\ pc = "idle" /\ request # "none"
  /\ connected' = (request = "up")
  /\ kick' = (kick \/ (request = "up" /\ ~connected))
  /\ request' = "none"
  /\ UNCHANGED <<callVars, storeVars, passVars, signals, histVars, running, pc,
                 semaphore, calls>>

SignalRetry ==
  /\ signals > 0
  /\ signals' = signals - 1
  /\ semaphore' = Signalled(semaphore)
  /\ UNCHANGED <<callVars, storeVars, passVars, connected, request, histVars,
                 running, kick, pc, calls>>

-----------------------------------------------------------------------------
\* The process dies and the application is opened again: what the subclass
\* stored is its business, everything else is lost, and a new queue is about to
\* be started.  Commands that were not stored yet are gone.
Reopen ==
  /\ written' = accepted /\ registered' = accepted
  /\ sources' = {}
  /\ running' = FALSE
  /\ connected' \in BOOLEAN /\ kick' = connected'
  /\ pc' = "idle" /\ snapshot' = {} /\ cur' = NoCommand
  /\ holdsSource' = FALSE /\ outcome' = "none" /\ retries' = 0
  /\ semaphore' = "none" /\ request' = "none" /\ signals' = 0
  /\ stranded' = FALSE
  /\ UNCHANGED <<accepted, promise, calls, delivered>>

-----------------------------------------------------------------------------
\* Steps of the serial processing queue.
ProcessingStep ==
  \/ RunCommands \/ BeginPass \/ LoadCommand \/ SkipMissingCommand \/ EndPass
  \/ FetchCompletionSource \/ RunCommand \/ BeginBackoff \/ QuitBackoff
  \/ BackoffElapsed \/ RemoveCommand \/ ResolvePromise

\* Steps of the application and of PFReachability.
ClientStep == EnqueueCommand \/ Resume \/ Pause \/ SetConnected

-----------------------------------------------------------------------------
(* What the application and the server see of a queue: EventualDelivery.   *)

Delivery == INSTANCE EventualDelivery WITH
  left <- (1 .. written) \ stored,
  sending <- IF pc \in Handling THEN cur ELSE NoCommand,
  executed <- delivered,
  answer <- promise

-----------------------------------------------------------------------------
(* Properties.                                                             *)

(***************************************************************************)
(* No lost wakeup: whenever the processing queue is idle, able to work and *)
(* has a stored command whose enqueue has completed, the dispatch source   *)
(* has data to fire on, unless the last pass was woken from its retry wait *)
(* by a reachability signal (see SentWhenConnected).  It relates merges    *)
(* made by enqueue, resume and setConnected: to the consumption in         *)
(* _runCommands.                                                           *)
(***************************************************************************)
NoLostWakeup ==
  (pc = "idle" /\ running /\ connected /\ stored \intersect (1 .. registered) # {})
     => kick \/ stranded

(***************************************************************************)
(* Commands leave the queue in the order they entered it: once a pass has  *)
(* decided the fate of a command, no earlier command is still stored.      *)
(***************************************************************************)
FinishInOrder ==
  pc \in {"finish", "notify"} => \A d \in stored : d >= cur

(***************************************************************************)
(* The answer given to the caller is final and true: a command whose       *)
(* promise is resolved is out of the storage and out of the current pass,  *)
(* so it is not sent again, and success is reported only for a command the *)
(* server has executed.                                                    *)
(***************************************************************************)
ResolvedIsFinal ==
  \A c \in Commands :
    /\ promise[c] # "pending" => c \notin stored /\ c \notin snapshot
    /\ promise[c] = "success" => c \in delivered

(***************************************************************************)
(* Whatever passes, retries, pauses and notifications do: commands are     *)
(* sent one at a time and in order, and answers come once and are true     *)
(* (PFEventuallyQueue, as EventualDelivery states it).                     *)
(***************************************************************************)
DeliversInOrder == Delivery!Spec
=============================================================================
