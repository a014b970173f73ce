----------------------- MODULE MemoryEventuallyQueue -----------------------
(***************************************************************************)
(* PFMemoryEventuallyQueue: PFEventuallyQueue with its commands in memory. *)
(* removeAllCommands first drops the completion sources, then, in another  *)
(* critical section, the commands.                                         *)
(***************************************************************************)
EXTENDS EventuallyQueue

CONSTANT MaxRemovals    \* bound: calls of removeAllCommands

ASSUME MaxRemovalsAssumption == MaxRemovals \in Nat

VARIABLES
  removing,   \* a removeAllCommands is between its two critical sections
  removals,   \* bound counter
  discarded   \* history: commands removeAllCommands has dropped

memVars == <<vars, removing, removals, discarded>>

TypeOK ==
  /\ BaseTypeOK
  /\ removing \in BOOLEAN
  /\ removals \in 0 .. MaxRemovals
  /\ discarded \subseteq 1 .. written

Init ==
  /\ BaseInit
  /\ removing = FALSE /\ removals = 0 /\ discarded = {}

BeginRemoveAllCommands ==
  /\ ~removing
  /\ removals < MaxRemovals
  /\ removals' = removals + 1
  /\ removing' = TRUE
  /\ sources' = {}
  /\ UNCHANGED <<callVars, stored, promise, passVars, connVars, histVars,
                 running, kick, pc, semaphore, calls, discarded>>

EndRemoveAllCommands ==
  /\ removing
  /\ removing' = FALSE
  /\ discarded' = discarded \union stored
  /\ stored' = {}
  /\ UNCHANGED <<callVars, sources, promise, passVars, connVars, histVars,
                 running, kick, pc, semaphore, calls, removals>>

BaseStep ==
  \/ ClientStep \/ ProcessingStep
  \/ StoreCommand \/ DidEnqueueCommand
  \/ ApplyConnected \/ SignalRetry

Next ==
  \/ BaseStep /\ UNCHANGED <<removing, removals, discarded>>
  \/ BeginRemoveAllCommands
  \/ EndRemoveAllCommands

Spec == Init /\ [][Next]_memVars

(***************************************************************************)
(* Every dispatch queue eventually runs what was submitted to it, and a    *)
(* wait with a timeout ends.  Nothing is assumed of the client.            *)
(***************************************************************************)
Fairness ==
  /\ WF_memVars(ProcessingStep /\ UNCHANGED <<removing, removals, discarded>>)
  /\ WF_memVars(StoreCommand /\ UNCHANGED <<removing, removals, discarded>>)
  /\ WF_memVars(DidEnqueueCommand /\ UNCHANGED <<removing, removals, discarded>>)
  /\ WF_memVars(ApplyConnected /\ UNCHANGED <<removing, removals, discarded>>)
  /\ WF_memVars(SignalRetry /\ UNCHANGED <<removing, removals, discarded>>)
  /\ WF_memVars(EndRemoveAllCommands)

FairSpec == Spec /\ Fairness

-----------------------------------------------------------------------------
(***************************************************************************)
(* Every command leaves the queue: if from some time on the queue runs and *)
(* the network is reachable, a stored command is eventually answered or    *)
(* dropped, or the pass is stranded by a reachability signal.              *)
(***************************************************************************)
EventuallyFinished ==
  <>[](running /\ connected) =>
    \A c \in Commands : (c \in stored) ~> (c \notin stored \/ stranded)

(***************************************************************************)
(* The caller of setConnected: is released: it waits for the processing    *)
(* queue, which may be in the middle of a retry wait.                      *)
(***************************************************************************)
SetConnectedReturns == (request # "none") ~> (request = "none")

(***************************************************************************)
(* "They will be sent immediately if possible.  Otherwise, they will be    *)
(* sent the next time a network connection is available": with a network   *)
(* that is reachable all along and a queue that is not paused for ever, a  *)
(* stored command does not stay stored.                                    *)
(***************************************************************************)
SentWhenConnected ==
  ([]connected /\ <>[]running) =>
    \A c \in Commands : (c \in stored) ~> (c \notin stored)
=============================================================================
