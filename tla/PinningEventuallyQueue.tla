----------------------- MODULE PinningEventuallyQueue -----------------------
(***************************************************************************)
(* PFPinningEventuallyQueue: PFEventuallyQueue over the offline store.  A  *)
(* command is an object of class _EventuallyPin pinned with the object it  *)
(* is about.  A save is rebuilt when it runs, from the operation set that  *)
(* the object offers to the queue on a task queue of its own, so a save    *)
(* lives in four places: the pin on disk, the queue's maps, the object's   *)
(* operationSetQueue, and that object's row on disk.                       *)
(*                                                                         *)
(* Commands are numbered in the order they are accepted; all are about one *)
(* object, and the set of a save has the number of the save.  The object   *)
(* is saved with saveEventually only; ObjectSave has the object of which   *)
(* ordinary saves use the same operationSetQueue.                          *)
(***************************************************************************)
EXTENDS EventuallyQueue, SequencesExt

CONSTANTS
  Saves,         \* the commands that are saves; the others need no changes
  PinnedChoices, \* whether the application pinned the object itself
  MaxDisruptions \* bound: removeAllCommands calls and deaths of the process

ASSUME PinningAssumption ==
  /\ Saves \subseteq Commands
  /\ PinnedChoices \subseteq BOOLEAN
  /\ MaxDisruptions \in Nat

VARIABLES
  inMemory,  \* _eventuallyPinUUIDQueue and _uuidToEventuallyPin
  ready,     \* keys of _operationSetUUIDToOperationSet
  offering,  \* sets the object's task queue has still to offer, in order
  sets,      \* the object's operationSetQueue without its unsaved last set
  diskSets,  \* the same as the object's row has it
  userPinned,
  built,     \* the command about to run was built with its changes
  phase,     \* progress of _didFinishRunningCommand
  removing,  \* "none", or the phase of a removeAllCommands
  listed,    \* pins that removeAllCommands has still to unpin
  disruptions,
  failed,    \* history: unpinned after a final error
  discarded, \* history: unpinned by removeAllCommands, or never pinned
  wiped,     \* history: in memory when removeAllCommands cleared it
  sentEmpty  \* history: saves executed by the server without their changes

queueVars == <<inMemory, ready>>
objectVars == <<offering, sets, diskSets, userPinned>>
finishVars == <<built, phase>>
removeVars == <<removing, listed, disruptions>>
pinHist == <<failed, discarded, wiped, sentEmpty>>
extraVars == <<queueVars, objectVars, finishVars, removeVars, pinHist>>
pinVars == <<vars, extraVars>>

TypeOK ==
  /\ BaseTypeOK
  /\ inMemory \subseteq 1 .. written
  /\ ready \subseteq Saves
  /\ offering \in Seq(Saves) /\ sets \in Seq(Saves) /\ diskSets \in Seq(Saves)
  /\ userPinned \in PinnedChoices
  /\ built \in BOOLEAN
  /\ phase \in {"none", "unpinned", "forgotten", "popped"}
  /\ phase # "none" => pc = "finish"
  /\ removing \in {"none", "waiting", "held"}
  /\ listed \subseteq 1 .. written
  /\ disruptions \in 0 .. MaxDisruptions
  /\ failed \subseteq 1 .. written /\ discarded \subseteq 1 .. accepted
  /\ sentEmpty \subseteq Saves /\ wiped \subseteq 1 .. written

Init ==
  /\ BaseInit
  /\ inMemory = {} /\ ready = {}
  /\ offering = <<>> /\ sets = <<>> /\ diskSets = <<>>
  /\ userPinned \in PinnedChoices
  /\ built = FALSE /\ phase = "none"
  /\ removing = "none" /\ listed = {} /\ disruptions = 0
  /\ failed = {} /\ discarded = {} /\ wiped = {} /\ sentEmpty = {}

-----------------------------------------------------------------------------
(* The object.                                                             *)

\* saveEventually: the changes become a set of their own, and the command and
\* the offer of the set are enqueued on two different queues.
SaveEventually ==
  /\ EnqueueCommand
  /\ IF accepted' \in Saves
       THEN sets' = Append(sets, accepted') /\ offering' = Append(offering, accepted')
       ELSE UNCHANGED <<sets, offering>>
  /\ UNCHANGED <<queueVars, diskSets, userPinned, finishVars, removeVars, pinHist>>

\* _waitForOperationSet:eventuallyPin:nil, when the saves before it on the
\* object's task queue are over.
OfferOperationSet ==
  /\ offering # <<>>
  /\ ready' = ready \union {Head(offering)}
  /\ offering' = Tail(offering)
  /\ UNCHANGED <<vars, inMemory, sets, diskSets, userPinned, finishVars,
                 removeVars, pinHist>>

-----------------------------------------------------------------------------
(* Pins.                                                                   *)

\* The queue's _taskQueue is held while removeAllCommands unpins.
TaskQueueFree == removing # "held" \/ listed = {}

\* Mutant: the pin is saved without the object it refers to.
StorePinAlone ==
  /\ TaskQueueFree
  /\ StoreCommand
  /\ UNCHANGED <<queueVars, objectVars, finishVars, removeVars, pinHist>>

\* Saving the pin saves the object it refers to, with all its sets.
StorePin ==
  /\ TaskQueueFree
  /\ StoreCommand
  /\ diskSets' = sets
  /\ UNCHANGED <<queueVars, offering, sets, userPinned, finishVars, removeVars,
                 pinHist>>

\* Unpinning c saves what is still pinned, and the object goes with the last
\* pin unless it has one of its own.
Unpin(c) ==
  /\ stored' = stored \ {c}
  /\ diskSets' = IF stored' # {} THEN sets
                 ELSE IF userPinned THEN diskSets ELSE <<>>

-----------------------------------------------------------------------------
(* Running commands.                                                       *)

\* Mutant: the pins on the disk are read once, when the queue is made.
PassFromMemory ==
  /\ pc = "pass"
  /\ IF running /\ connected
       THEN pc' = "load" /\ snapshot' = inMemory
       ELSE pc' = "idle" /\ snapshot' = {}
  /\ cur' = NoCommand /\ holdsSource' = FALSE /\ outcome' = "none"
  /\ UNCHANGED <<callVars, storeVars, retries, connVars, histVars, running,
                 kick, semaphore, calls, extraVars>>

\* _pendingCommandIdentifiers reads the pins that are not in memory; the
\* condition meant to hold back a save without its set is about the map that
\* reading the pins has just filled, and holds for each of them.
BeginPinnedPass ==
  /\ pc = "pass"
  /\ IF running /\ connected
       THEN /\ TaskQueueFree
            /\ inMemory' = inMemory \union stored
            /\ pc' = "load" /\ snapshot' = inMemory'
       ELSE /\ pc' = "idle" /\ snapshot' = {}
            /\ UNCHANGED inMemory
  /\ cur' = NoCommand /\ holdsSource' = FALSE /\ outcome' = "none"
  /\ UNCHANGED <<callVars, storeVars, retries, connVars, histVars, running,
                 kick, semaphore, calls, ready, objectVars, finishVars,
                 removeVars, pinHist>>

\* A save is built from the set the object has offered, or from no set.
BuildCommand ==
  /\ pc = "load"
  /\ \E c \in snapshot \intersect inMemory :
       /\ IsNext(c)
       /\ cur' = c
       /\ snapshot' = snapshot \ {c}
       /\ built' = (c \in Saves => c \in ready)
  /\ pc' = "fetch"
  /\ UNCHANGED <<callVars, storeVars, holdsSource, outcome, retries, connVars,
                 histVars, running, kick, semaphore, calls, queueVars,
                 objectVars, phase, removeVars, pinHist>>

SkipForgottenPin ==
  /\ pc = "load"
  /\ \E c \in snapshot \ inMemory :
       /\ IsNext(c)
       /\ sources' = sources \ {c}
       /\ snapshot' = snapshot \ {c}
  /\ UNCHANGED <<callVars, stored, promise, cur, holdsSource, outcome, retries,
                 connVars, histVars, running, kick, pc, semaphore, calls,
                 extraVars>>

RunBuiltCommand ==
  /\ RunCommand
  /\ sentEmpty' = IF ~built /\ cur \in delivered' THEN sentEmpty \union {cur}
                  ELSE sentEmpty
  /\ built' = FALSE
  /\ UNCHANGED <<queueVars, objectVars, phase, removeVars, failed, discarded,
                 wiped>>

\* The base class drops the completion source, and the pin leaves the disk.
UnpinFinished ==
  /\ pc = "finish" /\ phase = "none"
  /\ cur \in inMemory
  /\ sources' = sources \ {cur}
  /\ Unpin(cur)
  /\ phase' = "unpinned"
  /\ failed' = IF outcome = "success" THEN failed ELSE failed \union {cur}
  /\ UNCHANGED <<callVars, promise, passVars, connVars, histVars, running, kick,
                 pc, semaphore, calls, queueVars, offering, sets, userPinned,
                 built, removeVars, discarded, wiped, sentEmpty>>

\* removeAllCommands has cleared the maps: there is no pin to unpin, and the
\* caller is told of a success whatever the server said.
FinishWithoutPin ==
  /\ pc = "finish" /\ phase = "none"
  /\ cur \notin inMemory
  /\ sources' = sources \ {cur}
  /\ outcome' = "success"
  /\ pc' = "notify"
  /\ UNCHANGED <<callVars, stored, promise, snapshot, cur, holdsSource, retries,
                 connVars, histVars, running, kick, semaphore, calls, extraVars>>

\* Mutant: the result is that of unpinning, not of the request.
ForgetPinAndError ==
  /\ phase = "unpinned"
  /\ inMemory' = inMemory \ {cur}
  /\ IF outcome = "success" /\ cur \in Saves
       THEN phase' = "forgotten" /\ pc' = pc
       ELSE phase' = "none" /\ pc' = "notify"
  /\ ready' = IF outcome = "success" THEN ready \ {cur} ELSE ready
  /\ outcome' = "success"
  /\ UNCHANGED <<callVars, storeVars, snapshot, cur, holdsSource, retries,
                 connVars, histVars, running, kick, semaphore, calls, objectVars,
                 built, removeVars, pinHist>>

\* After an error the set stays in the maps and with the object.
ForgetPin ==
  /\ phase = "unpinned"
  /\ inMemory' = inMemory \ {cur}
  /\ IF outcome = "success" /\ cur \in Saves
       THEN phase' = "forgotten" /\ pc' = pc
       ELSE phase' = "none" /\ pc' = "notify"
  /\ ready' = IF outcome = "success" THEN ready \ {cur} ELSE ready
  /\ UNCHANGED <<callVars, storeVars, passVars, connVars, histVars, running,
                 kick, semaphore, calls, objectVars, built, removeVars, pinHist>>

\* handleSaveResultAsync: the first set of the object is the one that counts as
\* saved ...
PopOperationSet ==
  /\ phase = "forgotten"
  /\ sets' = Tail(sets)
  /\ phase' = "popped"
  /\ UNCHANGED <<vars, queueVars, offering, diskSets, userPinned, built,
                 removeVars, pinHist>>

\* Mutant: the queue goes on before the row is updated.
UpdateRowLater ==
  /\ phase = "popped"
  /\ pc' = "notify"
  /\ UNCHANGED <<callVars, storeVars, passVars, connVars, histVars, running,
                 kick, semaphore, calls, queueVars, objectVars, finishVars,
                 removeVars, pinHist>>

\* ... and the object's row is updated, if it still has one.
UpdateRow ==
  /\ phase = "popped"
  /\ diskSets' = IF userPinned \/ stored # {} THEN sets ELSE diskSets
  /\ phase' = "none" /\ pc' = "notify"
  /\ UNCHANGED <<callVars, storeVars, passVars, connVars, histVars, running,
                 kick, semaphore, calls, queueVars, offering, sets, userPinned,
                 built, removeVars, pinHist>>

-----------------------------------------------------------------------------
(* removeAllCommands: drop the completion sources; when the task queue is  *)
(* free unpin every pin while holding it; then clear the maps.             *)

BeginRemoveAllCommands ==
  /\ removing = "none" /\ disruptions < MaxDisruptions
  /\ disruptions' = disruptions + 1
  /\ removing' = "waiting"
  /\ sources' = {}
  /\ UNCHANGED <<callVars, stored, promise, passVars, connVars, histVars,
                 running, kick, pc, semaphore, calls, queueVars, objectVars,
                 finishVars, listed, pinHist>>

FindPins ==
  /\ removing = "waiting"
  /\ removing' = "held" /\ listed' = stored
  /\ UNCHANGED <<vars, queueVars, objectVars, finishVars, disruptions, pinHist>>

UnpinListed ==
  /\ removing = "held"
  /\ \E c \in listed :
       /\ listed' = listed \ {c}
       /\ Unpin(c)
       /\ discarded' = discarded \union {c}
  /\ UNCHANGED <<callVars, sources, promise, passVars, connVars, histVars,
                 running, kick, pc, semaphore, calls, queueVars, offering, sets,
                 userPinned, finishVars, removing, disruptions, failed, wiped,
                 sentEmpty>>

ClearMemory ==
  /\ removing = "held" /\ listed = {}
  /\ removing' = "none"
  /\ inMemory' = {} /\ ready' = {}
  /\ wiped' = wiped \union inMemory
  /\ UNCHANGED <<vars, objectVars, finishVars, listed, disruptions, failed,
                 discarded, sentEmpty>>

-----------------------------------------------------------------------------
\* Mutant: sets read back are inserted at the front of the queue.
ReopenReversingSets ==
  /\ disruptions < MaxDisruptions
  /\ disruptions' = disruptions + 1
  /\ Reopen
  /\ inMemory' = {} /\ ready' = {}
  /\ sets' = Reverse(diskSets) /\ offering' = Reverse(diskSets)
  /\ built' = FALSE /\ phase' = "none" /\ removing' = "none" /\ listed' = {}
  /\ discarded' = discarded \union (written + 1 .. accepted)
  /\ UNCHANGED <<stored, diskSets, userPinned, failed, wiped, sentEmpty>>

\* The process dies and is opened again.  The object is read back from its row
\* (mergeFromRESTDictionary:withDecoder:), which offers its sets once more.
DieAndReopen ==
  /\ disruptions < MaxDisruptions
  /\ disruptions' = disruptions + 1
  /\ Reopen
  /\ inMemory' = {} /\ ready' = {}
  /\ sets' = diskSets /\ offering' = diskSets
  /\ built' = FALSE /\ phase' = "none" /\ removing' = "none" /\ listed' = {}
  /\ discarded' = discarded \union (written + 1 .. accepted)
  /\ UNCHANGED <<stored, diskSets, userPinned, failed, wiped, sentEmpty>>

-----------------------------------------------------------------------------
\* Steps of the base class that the pins do not take part in.
BasePassStep ==
  \/ RunCommands \/ EndPass \/ FetchCompletionSource \/ BeginBackoff
  \/ QuitBackoff \/ BackoffElapsed \/ ResolvePromise

BaseStep ==
  \/ Resume \/ Pause \/ SetConnected \/ ApplyConnected \/ SignalRetry
  \/ DidEnqueueCommand
  \/ BasePassStep

FinishStep ==
  \/ UnpinFinished \/ FinishWithoutPin \/ ForgetPin \/ PopOperationSet \/ UpdateRow

RunStep ==
  \/ BeginPinnedPass \/ BuildCommand \/ SkipForgottenPin \/ RunBuiltCommand
  \/ FinishStep

RemoveStep ==
  BeginRemoveAllCommands \/ FindPins \/ UnpinListed \/ ClearMemory

Next ==
  \/ BaseStep /\ UNCHANGED extraVars
  \/ SaveEventually \/ OfferOperationSet \/ StorePin
  \/ RunStep
  \/ RemoveStep
  \/ DieAndReopen

Spec == Init /\ [][Next]_pinVars

(***************************************************************************)
(* Every dispatch queue and executor eventually runs its blocks, database  *)
(* operations end, and a reopened application starts its queue.            *)
(***************************************************************************)
Fairness ==
  /\ WF_pinVars(BasePassStep /\ UNCHANGED extraVars)
  /\ WF_pinVars(RunStep)
  /\ WF_pinVars((DidEnqueueCommand \/ SignalRetry) /\ UNCHANGED extraVars)
  /\ WF_pinVars(ApplyConnected /\ UNCHANGED extraVars)
  /\ WF_pinVars(OfferOperationSet)
  /\ WF_pinVars(StorePin)
  /\ WF_pinVars(FindPins \/ UnpinListed \/ ClearMemory)
  /\ WF_pinVars(disruptions > 0 /\ Resume /\ UNCHANGED extraVars)

FairSpec == Spec /\ Fairness

-----------------------------------------------------------------------------
(* Properties.                                                             *)

(***************************************************************************)
(* "Objects saved this way will persist even after the app is closed": a   *)
(* command that was pinned stays pinned until the server has executed it,  *)
(* it failed for good, or removeAllCommands discarded it, and the row of   *)
(* its object keeps the changes of a pinned save, through deaths of the    *)
(* process and failures of other saves.  (Of an object saved with          *)
(* saveEventually only: the answer of an ordinary save rewrites the row.)  *)
(***************************************************************************)
PinnedUntilDecided ==
  /\ 1 .. written \subseteq stored \union delivered \union failed \union discarded
  /\ stored \intersect Saves \subseteq ToSet(diskSets)

(***************************************************************************)
(* The caller of saveEventually is told of a success only when the server  *)
(* has executed the command, and once it was told anything the command is  *)
(* neither on disk nor in memory, so that no later pass sends it again;    *)
(* unless removeAllCommands cleared the queue's memory of it meanwhile     *)
(* (the result of the request is then lost, and the pin may stay).         *)
(***************************************************************************)
AnsweredIsFinal ==
  \A c \in Commands \ wiped :
    /\ promise[c] = "success" => c \in delivered
    /\ promise[c] # "pending" => c \notin stored \union inMemory

\* Sets of the object that no pin, on disk or in memory, will ever send: left
\* behind by a save that failed or was discarded, or whose pin a death of the
\* process has kept from the disk.
Orphans ==
  {c \in ToSet(sets) : c <= written /\ c \notin stored \union inMemory /\ c # cur}

(***************************************************************************)
(* handleSaveResultAsync: takes the first set of the object for the one    *)
(* that was sent.  There is one to take, and it is the save's own or an    *)
(* orphan: never the set of another save that is still to be sent, however *)
(* failures, removals and deaths came between the saves.  (Of an object    *)
(* saved with saveEventually only; ObjectSave has both ways of saving.)    *)
(***************************************************************************)
PopsItsOwnSet ==
  phase = "forgotten" => sets # <<>> /\ Head(sets) \in Orphans \union {cur}

(***************************************************************************)
(* "... in which case they will be sent the next time the app is opened":  *)
(* with a queue that runs and a network that stays reachable, every pin    *)
(* leaves the disk, unless a reachability signal strands the pass, or      *)
(* removeAllCommands clears the memory of a pin stored while it ran.       *)
(***************************************************************************)
EventuallySent ==
  <>[](running /\ connected) =>
    \A c \in Commands : (c \in stored) ~> (c \notin stored \/ stranded \/ c \in wiped)

(***************************************************************************)
(* "Filter out all pins that don't have operationSet data ready yet to     *)
(* make sure we send the command with all the changes": no save reaches    *)
(* the server without its changes.                                         *)
(***************************************************************************)
SentWithAllChanges == sentEmpty = {}
=============================================================================
