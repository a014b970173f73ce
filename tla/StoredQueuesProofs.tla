------------------------- MODULE StoredQueuesProofs -------------------------
(***************************************************************************)
(* Proofs about the two eventually queues that keep their commands on disk,*)
(* for every number of commands, whichever of them are saves, and every    *)
(* number of attempts, client calls, removals and deaths of the process.   *)
(***************************************************************************)
EXTENDS MCStoredQueues, EventuallyQueueProofs, SequenceTheorems

-----------------------------------------------------------------------------
(* The pinning queue: its types.                                           *)

OwnTypes ==
  /\ inMemory \subseteq 1 .. written
  /\ ready \subseteq Saves
  /\ offering \in Seq(Saves) /\ sets \in Seq(Saves) /\ diskSets \in Seq(Saves)
  /\ userPinned \in PinnedChoices
  /\ built \in BOOLEAN
  /\ phase \in {"none", "unpinned", "forgotten", "popped"}
  /\ phase # "none" => pc = "finish"
  /\ removing \in {"none", "waiting", "held"}
  /\ listed \subseteq 1 .. written
  /\ disruptions \in 0 .. MaxDisruptions
  /\ failed \subseteq 1 .. written /\ discarded \subseteq 1 .. accepted
  /\ sentEmpty \subseteq Saves /\ wiped \subseteq 1 .. written

\* A command about to run that was built without its changes is a save.
BuiltForSaves == pc \in {"fetch", "send"} /\ ~built => cur \in Saves

LEMMA TypeOKParts == TypeOK <=> BaseTypeOK /\ OwnTypes
BY DEF TypeOK, OwnTypes

\* The Boolean variables of the base class in the steps that are not its own.
LEMMA PinFlags ==
  ASSUME FlagsOK,
         \/ BeginPinnedPass \/ BuildCommand \/ SkipForgottenPin \/ FinishStep
         \/ RemoveStep \/ DieAndReopen \/ OfferOperationSet
  PROVE  FlagsOK'
<1> USE DEF FlagsOK, connVars, histVars, passVars, vars
<1>1. CASE BeginPinnedPass
  BY <1>1, Zenon DEF BeginPinnedPass
<1>2. CASE BuildCommand
  BY <1>2, Zenon DEF BuildCommand
<1>3. CASE SkipForgottenPin
  BY <1>3, Zenon DEF SkipForgottenPin
<1>4. CASE FinishStep
  <2>1. CASE UnpinFinished
    BY <2>1, Zenon DEF UnpinFinished
  <2>2. CASE FinishWithoutPin
    BY <2>2, Zenon DEF FinishWithoutPin
  <2>3. CASE ForgetPin
    BY <2>3, Zenon DEF ForgetPin
  <2>4. CASE PopOperationSet
    BY <2>4, Zenon DEF PopOperationSet
  <2>5. CASE UpdateRow
    BY <2>5, Zenon DEF UpdateRow
  <2>6. QED
    BY <1>4, <2>1, <2>2, <2>3, <2>4, <2>5 DEF FinishStep
<1>5. CASE RemoveStep
  <2>1. CASE BeginRemoveAllCommands
    BY <2>1, Zenon DEF BeginRemoveAllCommands
  <2>2. CASE FindPins
    BY <2>2, Zenon DEF FindPins
  <2>3. CASE UnpinListed
    BY <2>3, Zenon DEF UnpinListed
  <2>4. CASE ClearMemory
    BY <2>4, Zenon DEF ClearMemory
  <2>5. QED
    BY <1>5, <2>1, <2>2, <2>3, <2>4 DEF RemoveStep
<1>6. CASE DieAndReopen
  BY <1>6, Zenon DEF DieAndReopen, Reopen
<1>7. CASE OfferOperationSet
  BY <1>7, Zenon DEF OfferOperationSet
<1>8. QED
  BY <1>1, <1>2, <1>3, <1>4, <1>5, <1>6, <1>7

\* A pass reads the pins, and those in memory.
LEMMA BeginPassTypes ==
  ASSUME TypeOK, BeginPinnedPass PROVE BaseTypeOK' /\ OwnTypes'
<1>1. FlagsOK'
  BY PinFlags DEF TypeOK, BaseTypeOK
<1>2. inMemory' \subseteq inMemory \union stored /\ snapshot' \subseteq inMemory \union stored
  BY DEF BeginPinnedPass
<1>3. inMemory' \subseteq 1 .. written /\ snapshot' \subseteq 1 .. written
  BY <1>2 DEF TypeOK, BaseTypeOK
<1>4. /\ pc = "pass" /\ pc' \in {"load", "idle"} /\ cur' = NoCommand /\ outcome' = "none"
      /\ UNCHANGED <<callVars, storeVars, retries, connVars, histVars, semaphore, calls,
                     ready, objectVars, finishVars, removeVars, pinHist>>
  BY DEF BeginPinnedPass
<1>5. BaseTypeOK'
  BY <1>1, <1>3, <1>4
     DEF TypeOK, BaseTypeOK, Handling, NoCommand, callVars, storeVars, connVars, histVars
<1>6. built' \in BOOLEAN /\ userPinned' \in PinnedChoices
  BY <1>4, Zenon DEF TypeOK, finishVars, objectVars
<1>7. OwnTypes'
  BY <1>3, <1>4, <1>6
     DEF TypeOK, OwnTypes, callVars, objectVars, finishVars, removeVars, pinHist
<1>8. QED
  BY <1>5, <1>7

LEMMA BuildTypes ==
  ASSUME TypeOK, BuildCommand \/ SkipForgottenPin PROVE BaseTypeOK' /\ OwnTypes'
<1>1. FlagsOK'
  BY PinFlags DEF TypeOK, BaseTypeOK
<1>2. PICK c \in snapshot : snapshot' = snapshot \ {c} /\ cur' \in {c, cur}
  <2>1. CASE BuildCommand
    BY <2>1 DEF BuildCommand
  <2>2. CASE SkipForgottenPin
    BY <2>2 DEF SkipForgottenPin
  <2>3. QED
    BY <2>1, <2>2
<1>3. /\ pc = "load" /\ pc' \in {"fetch", "load"} /\ sources' \subseteq sources
      /\ pc' = "fetch" => cur' \in snapshot
      /\ UNCHANGED <<callVars, stored, promise, outcome, retries, connVars, histVars,
                     semaphore, calls, queueVars, objectVars, phase, removeVars, pinHist>>
  <2>1. CASE BuildCommand
    <3>1. cur' \in snapshot
      BY <2>1 DEF BuildCommand
    <3>2. QED
      BY <2>1, <3>1 DEF BuildCommand, storeVars
  <2>2. CASE SkipForgottenPin
    BY <2>2 DEF SkipForgottenPin, extraVars, finishVars
  <2>3. QED
    BY <2>1, <2>2
<1>4. BaseTypeOK'
  BY SMTT(30), <1>1, <1>2, <1>3
     DEF TypeOK, BaseTypeOK, Handling, NoCommand, callVars, connVars, histVars
<1>5. built' \in BOOLEAN /\ userPinned' \in PinnedChoices
  <2>1. CASE BuildCommand
    <3>1. PICK d \in snapshot \intersect inMemory : built' = (d \in Saves => d \in ready)
      BY <2>1, Zenon DEF BuildCommand
    <3>2. (d \in Saves => d \in ready) \in BOOLEAN
      BY Zenon
    <3>3. QED
      BY <1>3, <3>1, <3>2, Zenon DEF TypeOK, objectVars
  <2>2. CASE SkipForgottenPin
    BY <2>2, Zenon DEF SkipForgottenPin, TypeOK, extraVars, objectVars, finishVars
  <2>3. QED
    BY <2>1, <2>2
<1>6. OwnTypes'
  BY <1>3, <1>5
     DEF TypeOK, OwnTypes, callVars, queueVars, objectVars, removeVars, pinHist
<1>7. QED
  BY <1>4, <1>6

LEMMA FinishTypes ==
  ASSUME TypeOK, FinishStep, phase = "forgotten" => sets # <<>>
  PROVE  BaseTypeOK' /\ OwnTypes'
<1>1. FlagsOK'
  BY PinFlags DEF TypeOK, BaseTypeOK
<1>2. /\ stored' \subseteq stored /\ sources' \subseteq sources
      /\ outcome' \in {outcome, "success"}
      /\ pc = "finish" /\ pc' \in {"finish", "notify"}
      /\ UNCHANGED <<callVars, promise, snapshot, cur, retries, connVars, histVars, semaphore,
                     calls>>
  BY DEF FinishStep, UnpinFinished, FinishWithoutPin, ForgetPin, PopOperationSet, UpdateRow,
         Unpin, TypeOK, OwnTypes, vars, storeVars, passVars
<1>3. BaseTypeOK'
  BY <1>1, <1>2 DEF TypeOK, BaseTypeOK, Handling, NoCommand, callVars, connVars, histVars
<1>4. built' \in BOOLEAN /\ userPinned' \in PinnedChoices
  BY Zenon
     DEF FinishStep, UnpinFinished, FinishWithoutPin, ForgetPin, PopOperationSet, UpdateRow,
         TypeOK, OwnTypes, extraVars, finishVars, objectVars
<1>5. sets' \in Seq(Saves) /\ diskSets' \in Seq(Saves) /\ offering' \in Seq(Saves)
  <2>1. CASE PopOperationSet
    <3>1. Tail(sets) \in Seq(Saves)
      BY <2>1 DEF TypeOK, PopOperationSet
    <3>2. sets' = Tail(sets) /\ UNCHANGED <<offering, diskSets>>
      BY <2>1 DEF PopOperationSet
    <3>3. QED
      BY <3>1, <3>2 DEF TypeOK
  <2>2. CASE ~PopOperationSet
    <3>1. sets' = sets /\ offering' = offering
          /\ (diskSets' = sets \/ diskSets' = diskSets \/ diskSets' = <<>>)
      BY <2>2
         DEF FinishStep, UnpinFinished, FinishWithoutPin, ForgetPin, UpdateRow, Unpin, extraVars,
             objectVars
    <3>2. <<>> \in Seq(Saves)
      OBVIOUS
    <3>3. QED
      BY <3>1, <3>2 DEF TypeOK
  <2>3. QED
    BY <2>1, <2>2
<1>6. /\ inMemory' \subseteq inMemory /\ ready' \subseteq ready
      /\ UNCHANGED <<listed, removing, disruptions, discarded, sentEmpty, wiped>>
      /\ failed' \subseteq failed \union {cur}
      /\ phase' \in {"none", "unpinned", "forgotten", "popped"}
      /\ phase' # "none" => pc' = "finish"
  BY DEF FinishStep, UnpinFinished, FinishWithoutPin, ForgetPin, PopOperationSet, UpdateRow,
         TypeOK, OwnTypes, extraVars, queueVars, finishVars, removeVars, pinHist, vars
<1>7. cur \in 1 .. written
  BY <1>2 DEF TypeOK, BaseTypeOK, Handling, NoCommand
<1>8. OwnTypes'
  BY <1>2, <1>4, <1>5, <1>6, <1>7 DEF TypeOK, OwnTypes, callVars
<1>9. QED
  BY <1>3, <1>8

LEMMA RemoveTypes ==
  ASSUME TypeOK, RemoveStep \/ OfferOperationSet PROVE BaseTypeOK' /\ OwnTypes'
<1>1. FlagsOK'
  BY PinFlags DEF TypeOK, BaseTypeOK
<1> USE DEF RemoveStep, BeginRemoveAllCommands, FindPins, UnpinListed, ClearMemory,
            OfferOperationSet, Unpin, vars
<1>2. /\ stored' \subseteq stored /\ sources' \subseteq sources
      /\ UNCHANGED <<callVars, promise, passVars, connVars, histVars, pc, semaphore, calls>>
  BY DEF storeVars
<1>3. BaseTypeOK'
  BY <1>1, <1>2
     DEF TypeOK, BaseTypeOK, Handling, NoCommand, callVars, passVars, connVars, histVars
<1>4. built' \in BOOLEAN /\ userPinned' \in PinnedChoices
  <2>1. UNCHANGED <<built, userPinned>>
    BY DEF finishVars, objectVars
  <2>2. QED
    BY <2>1, Zenon DEF TypeOK
<1>5. sets' \in Seq(Saves) /\ diskSets' \in Seq(Saves) /\ offering' \in Seq(Saves)
  <2>1. <<>> \in Seq(Saves) /\ (offering # <<>> => Tail(offering) \in Seq(Saves))
    BY DEF TypeOK
  <2>2. CASE OfferOperationSet
    BY <2>1, <2>2 DEF TypeOK
  <2>3. CASE RemoveStep
    <3>1. sets' = sets /\ offering' = offering /\ diskSets' \in {sets, diskSets, <<>>}
      BY <2>3 DEF objectVars
    <3>2. QED
      BY <2>1, <3>1 DEF TypeOK
  <2>4. QED
    BY <2>2, <2>3
<1>6. ready' \subseteq Saves
  <2>1. CASE OfferOperationSet
    <3>1. Head(offering) \in Saves
      BY <2>1 DEF TypeOK
    <3>2. QED
      BY <2>1, <3>1 DEF TypeOK
  <2>2. CASE RemoveStep
    BY <2>2 DEF TypeOK, queueVars
  <2>3. QED
    BY <2>1, <2>2
<1>7. listed' \subseteq listed \union stored /\ discarded' \subseteq discarded \union listed
  <2>1. CASE UnpinListed
    BY <2>1
  <2>2. CASE ~UnpinListed
    BY <2>2 DEF pinHist, removeVars
  <2>3. QED
    BY <2>1, <2>2
<1>8. /\ inMemory' \subseteq inMemory
      /\ UNCHANGED <<phase, failed, sentEmpty>> /\ wiped' \subseteq wiped \union inMemory
      /\ removing' \in {"none", "waiting", "held"}
  BY DEF queueVars, finishVars, removeVars, pinHist, TypeOK
<1>9. disruptions' \in 0 .. MaxDisruptions
  BY PinningAssumption DEF TypeOK, removeVars, PinningAssumption
<1>10. discarded' \subseteq 1 .. accepted /\ listed' \subseteq 1 .. written
       /\ wiped' \subseteq 1 .. written
  BY <1>7, <1>8 DEF TypeOK, BaseTypeOK
<1>11. OwnTypes'
  BY <1>2, <1>4, <1>5, <1>6, <1>8, <1>9, <1>10 DEF TypeOK, OwnTypes, callVars
<1>12. QED
  BY <1>3, <1>11

LEMMA ReopenTypes ==
  ASSUME TypeOK, DieAndReopen PROVE BaseTypeOK' /\ OwnTypes'
<1> USE DEF DieAndReopen, Reopen
<1>1. FlagsOK'
  BY PinFlags DEF TypeOK, BaseTypeOK
<1>2. /\ written' = accepted /\ registered' = accepted /\ accepted' = accepted
      /\ written \in Nat /\ accepted \in Nat /\ written <= accepted /\ accepted <= NumCommands
  BY ConstantsAssumption DEF TypeOK, BaseTypeOK, ConstantsAssumption
<1>3. BaseTypeOK'
  BY <1>1, <1>2, ConstantsAssumption
     DEF TypeOK, BaseTypeOK, Handling, NoCommand, Commands, ConstantsAssumption
<1>4. built' \in BOOLEAN /\ userPinned' \in PinnedChoices
  BY Zenon DEF TypeOK
<1>5. disruptions' \in 0 .. MaxDisruptions
  BY PinningAssumption DEF TypeOK, PinningAssumption
<1>6. discarded' \subseteq 1 .. accepted
  BY <1>2 DEF TypeOK
<1>7. OwnTypes'
  BY <1>2, <1>4, <1>5, <1>6 DEF TypeOK, OwnTypes
<1>8. QED
  BY <1>3, <1>7

\* Steps that are the base class's, with what the pins add to them.
LEMMA BaseStepIsQueueStep ==
  BaseStep \/ SaveEventually \/ StorePin \/ RunBuiltCommand => QueueStep
BY DEF BaseStep, BasePassStep, SaveEventually, StorePin, RunBuiltCommand, QueueStep, ClientStep,
       ProcessingStep

\* What they do to the variables that bound the others.
LEMMA BaseStepGrows ==
  ASSUME TypeOK,
         (BaseStep /\ UNCHANGED extraVars) \/ SaveEventually \/ StorePin \/ RunBuiltCommand
  PROVE  /\ written <= written' /\ accepted <= accepted'
         /\ pc = "finish" => pc' = "finish"
<1>1. QueueStep
  BY BaseStepIsQueueStep
<1>2. written \in Nat /\ accepted \in Nat
  BY DEF TypeOK, BaseTypeOK
<1>3. accepted' = accepted \/ accepted' = accepted + 1
  BY DEF BaseStep, BasePassStep, SaveEventually, StorePin, RunBuiltCommand, RunCommand,
         StoreCommand, EnqueueCommand, Resume, Pause, SetConnected, ApplyConnected, SignalRetry,
         DidEnqueueCommand, RunCommands, EndPass, FetchCompletionSource, BeginBackoff, QuitBackoff,
         BackoffElapsed, ResolvePromise, callVars
<1>4. pc = "finish" => pc' = "finish"
  BY DEF BaseStep, BasePassStep, SaveEventually, StorePin, RunBuiltCommand, RunCommand,
         StoreCommand, EnqueueCommand, Resume, Pause, SetConnected, ApplyConnected, SignalRetry,
         DidEnqueueCommand, RunCommands, EndPass, FetchCompletionSource, BeginBackoff, QuitBackoff,
         BackoffElapsed, ResolvePromise
<1>5. QED
  BY <1>1, <1>2, <1>3, <1>4, WrittenGrows

LEMMA QueueTypes ==
  ASSUME TypeOK, BuiltForSaves,
         (BaseStep /\ UNCHANGED extraVars) \/ SaveEventually \/ StorePin \/ RunBuiltCommand
  PROVE  BaseTypeOK' /\ OwnTypes'
<1>1. BaseTypeOK'
  BY BaseStepIsQueueStep, BaseTypeStep DEF TypeOK
<1>2. /\ written <= written' /\ accepted <= accepted'
      /\ pc = "finish" => pc' = "finish"
  BY BaseStepGrows
<1>n. /\ written \in Nat /\ accepted \in Nat /\ written' \in Nat /\ accepted' \in Nat
  <2>1. accepted \in Nat /\ registered \in Nat /\ written \in {registered, registered + 1}
    BY DEF TypeOK, BaseTypeOK
  <2>2. /\ accepted' \in 0 .. NumCommands
        /\ registered' \in 0 .. accepted'
        /\ written' = registered' \/ written' = registered' + 1
    BY <1>1, Zenon DEF BaseTypeOK
  <2>3. accepted' \in Nat
    BY <2>2, ConstantsAssumption DEF ConstantsAssumption
  <2>4. registered' \in Nat
    BY <2>2, <2>3
  <2>5. QED
    BY <2>1, <2>2, <2>3, <2>4
<1>3. /\ UNCHANGED <<inMemory, ready, userPinned, phase, removing, listed, disruptions, failed,
                     discarded, wiped>>
      /\ built' \in {built, FALSE}
  BY DEF SaveEventually, StorePin, RunBuiltCommand, extraVars, queueVars, objectVars, finishVars,
         removeVars, pinHist
<1>4. built' \in BOOLEAN /\ userPinned' \in PinnedChoices
  BY <1>3, Zenon DEF TypeOK
<1>5. sets' \in Seq(Saves) /\ diskSets' \in Seq(Saves) /\ offering' \in Seq(Saves)
  <2>1. CASE SaveEventually
    <3>1. CASE accepted' \in Saves
      <4>1. sets \in Seq(Saves) /\ offering \in Seq(Saves) /\ diskSets \in Seq(Saves)
        BY DEF TypeOK
      <4>2. Append(sets, accepted') \in Seq(Saves) /\ Append(offering, accepted') \in Seq(Saves)
        BY <3>1, <4>1
      <4>3. QED
        BY <2>1, <3>1, <4>1, <4>2 DEF SaveEventually
    <3>2. CASE accepted' \notin Saves
      BY <2>1, <3>2 DEF SaveEventually, TypeOK
    <3>3. QED
      BY <3>1, <3>2
  <2>2. CASE ~SaveEventually
    <3>1. sets' = sets /\ offering' = offering /\ diskSets' \in {sets, diskSets}
      BY <2>2 DEF StorePin, RunBuiltCommand, extraVars, objectVars
    <3>2. QED
      BY <3>1 DEF TypeOK
  <2>3. QED
    BY <2>1, <2>2
<1>6. sentEmpty' \subseteq Saves
  <2>1. CASE RunBuiltCommand
    <3>1. CASE ~built /\ cur \in delivered'
      BY <2>1, <3>1 DEF RunBuiltCommand, RunCommand, TypeOK, BuiltForSaves
    <3>2. CASE ~(~built /\ cur \in delivered')
      <4>1. sentEmpty' = sentEmpty
        BY <2>1, <3>2, Zenon DEF RunBuiltCommand
      <4>2. QED
        BY <4>1 DEF TypeOK
    <3>3. QED
      BY <3>1, <3>2
  <2>2. CASE ~RunBuiltCommand
    BY <2>2 DEF SaveEventually, StorePin, extraVars, pinHist, TypeOK
  <2>3. QED
    BY <2>1, <2>2
<1>7. OwnTypes'
  BY <1>2, <1>n, <1>3, <1>4, <1>5, <1>6 DEF TypeOK, OwnTypes
<1>8. QED
  BY <1>1, <1>7

-----------------------------------------------------------------------------
(* The pinning queue: its invariant.                                       *)

Undecided == {"fetch", "send", "failed", "backoff", "finish"}

\* removeAllCommands cleared the memory during the pass.
Cleared == cur \in wiped /\ inMemory = {}

\* The command a pass is running was read from memory, and is still there
\* unless removeAllCommands cleared it; a success is the server's.
CurrentPin ==
  /\ pc = "load" => cur = NoCommand
  /\ \A c \in snapshot : cur < c
  /\ outcome = "success" /\ pc # "notify" => cur \in delivered
  /\ pc \in Undecided /\ phase = "none" => cur \in inMemory \/ Cleared

\* While removeAllCommands has not cleared the memory, a pass has still to run
\* what is in memory, and nothing before the current command is on disk.
PassReadsMemory ==
  InPass /\ inMemory # {} =>
    /\ snapshot \subseteq inMemory
    /\ \A d \in stored \union inMemory :
         d \in snapshot \union {cur} \/ \A c \in snapshot \union {cur} : c < d

\* What holds of the command that _didFinishRunningCommand has unpinned ...
UnpinnedCommand ==
  /\ phase # "none" => cur \notin stored /\ \A d \in stored \union inMemory : cur <= d
  /\ phase \in {"forgotten", "popped"} =>
       cur \in Saves /\ cur \notin inMemory /\ cur \in delivered

\* ... and of one whose caller is about to be answered.
DecidedCommand ==
  pc = "notify" /\ ~Cleared =>
    cur \notin stored \union inMemory /\ (outcome = "success" => cur \in delivered)

PassInv ==
  /\ CurrentPin
  /\ PassReadsMemory
  /\ UnpinnedCommand
  /\ DecidedCommand
  /\ BuiltForSaves

\* A step that leaves alone what the invariant speaks of.
Aside ==
  UNCHANGED <<accepted, written, stored, promise, snapshot, cur, outcome, delivered, pc,
              inMemory, sets, diskSets, built, phase, failed, discarded, wiped>>

LEMMA StepKinds ==
  ASSUME [Next]_pinVars
  PROVE  \/ Aside
         \/ SaveEventually \/ StorePin
         \/ /\ \/ RunCommands \/ EndPass \/ FetchCompletionSource \/ BeginBackoff
               \/ QuitBackoff \/ BackoffElapsed \/ ResolvePromise
            /\ UNCHANGED extraVars
         \/ BeginPinnedPass \/ BuildCommand \/ SkipForgottenPin \/ RunBuiltCommand
         \/ FinishStep
         \/ UnpinListed \/ ClearMemory
         \/ DieAndReopen
<1>1. CASE UNCHANGED pinVars
  BY <1>1
     DEF pinVars, vars, extraVars, callVars, storeVars, passVars, histVars, queueVars, objectVars,
         finishVars, removeVars, pinHist, Aside
<1>2. CASE (Resume \/ Pause \/ SetConnected \/ ApplyConnected \/ SignalRetry \/ DidEnqueueCommand)
           /\ UNCHANGED extraVars
  BY <1>2
     DEF Resume, Pause, SetConnected, ApplyConnected, SignalRetry, DidEnqueueCommand, extraVars,
         callVars, storeVars, passVars, histVars, queueVars, objectVars, finishVars, removeVars,
         pinHist, Aside
<1>3. CASE OfferOperationSet \/ BeginRemoveAllCommands \/ FindPins
  BY <1>3
     DEF OfferOperationSet, BeginRemoveAllCommands, FindPins, vars, callVars, storeVars, passVars,
         histVars, queueVars, objectVars, finishVars, removeVars, pinHist, Aside
<1>4. QED
  BY <1>1, <1>2, <1>3 DEF Next, BaseStep, BasePassStep, RunStep, RemoveStep

LEMMA PassInvStep ==
  ASSUME TypeOK, TypeOK', PassInv, [Next]_pinVars PROVE PassInv'
<1> USE DEF PassInv, CurrentPin, PassReadsMemory, UnpinnedCommand, DecidedCommand, BuiltForSaves,
            Cleared, InPass, Undecided, Handling, NoCommand
<1>1. CASE Aside
  BY <1>1 DEF Aside
<1>2. CASE SaveEventually
  BY <1>2
     DEF SaveEventually, EnqueueCommand, storeVars, passVars, histVars, queueVars, finishVars,
         pinHist
<1>3. CASE StorePin
  <2>1. /\ stored' = stored \union {written + 1} /\ written \in Nat
        /\ UNCHANGED <<snapshot, cur, outcome, delivered, pc, inMemory, built, phase, wiped>>
    BY <1>3
       DEF StorePin, StoreCommand, passVars, histVars, queueVars, finishVars, pinHist, TypeOK,
           BaseTypeOK
  <2>2. /\ cur < written + 1 /\ \A c \in snapshot : c < written + 1
        /\ pc = "notify" \/ phase # "none" => cur \in Nat
    BY <2>1 DEF TypeOK, BaseTypeOK
  <2>3. QED
    BY <2>1, <2>2
<1>4. CASE /\ RunCommands \/ EndPass \/ FetchCompletionSource \/ BeginBackoff
           /\ UNCHANGED extraVars
  BY <1>4
     DEF RunCommands, EndPass, FetchCompletionSource, BeginBackoff, storeVars, passVars, histVars,
         extraVars, queueVars, finishVars, pinHist, TypeOK
<1>5. CASE (QuitBackoff \/ BackoffElapsed \/ ResolvePromise) /\ UNCHANGED extraVars
  <2> USE DEF storeVars, passVars, histVars, extraVars, queueVars, finishVars, pinHist, TypeOK,
              BaseTypeOK
  <2>1. CASE QuitBackoff
    BY <1>5, <2>1 DEF QuitBackoff
  <2>2. CASE BackoffElapsed
    BY <1>5, <2>2 DEF BackoffElapsed
  <2>3. CASE ResolvePromise
    <3>1. cur' = 0 /\ phase = "none" /\ \A c \in snapshot : 0 < c
      BY <1>5, <2>3 DEF ResolvePromise
    <3>2. ASSUME inMemory # {}, NEW d \in stored \union inMemory
          PROVE  d \in snapshot \union {0} \/ \A c \in snapshot \union {0} : c < d
      <4>1. d # cur
        <5>1. pc = "notify"
          BY <2>3 DEF ResolvePromise
        <5>2. QED
          BY <3>2, <5>1
      <4>2. d > 0
        <5>1. stored \subseteq 1 .. written /\ inMemory \subseteq 1 .. written
          OBVIOUS
        <5>2. d \in 1 .. written
          BY <3>2, <5>1
        <5>3. QED
          BY <5>2
      <4>3. QED
        BY <2>3, <3>1, <3>2, <4>1, <4>2 DEF ResolvePromise
    <3>3. QED
      BY <1>5, <2>3, <3>1, <3>2 DEF ResolvePromise
  <2>4. QED
    BY <1>5, <2>1, <2>2, <2>3
<1>6. CASE BeginPinnedPass
  BY SMTT(30), <1>6
     DEF BeginPinnedPass, storeVars, histVars, finishVars, pinHist, TypeOK, BaseTypeOK
<1>7. CASE BuildCommand
  <2>1. PICK c \in snapshot \intersect inMemory :
          /\ \A d \in snapshot : c <= d
          /\ cur' = c /\ snapshot' = snapshot \ {c}
          /\ built' = (c \in Saves => c \in ready)
    BY <1>7, Zenon DEF BuildCommand, IsNext
  <2>2. /\ pc = "load" /\ pc' = "fetch" /\ phase' = "none"
        /\ UNCHANGED <<stored, inMemory, outcome, delivered, wiped>>
    BY <1>7 DEF BuildCommand, storeVars, histVars, queueVars, pinHist, TypeOK
  <2>3. ~built' => cur' \in Saves
    BY <2>1, Zenon
  <2>4. snapshot \subseteq Nat /\ cur = 0 /\ snapshot = snapshot' \union {cur'}
    <3>1. snapshot \subseteq Nat /\ cur = 0
      BY <2>2 DEF TypeOK, BaseTypeOK
    <3>2. QED
      BY <2>1, <3>1
  <2>5. /\ snapshot' \subseteq inMemory'
        /\ \A d \in stored' \union inMemory' :
             d \in snapshot' \union {cur'} \/ \A b \in snapshot' \union {cur'} : b < d
    <3>1. inMemory # {}
      BY <2>1
    <3>2. /\ snapshot \subseteq inMemory
          /\ \A d \in stored \union inMemory :
               d \in snapshot \union {cur} \/ \A b \in snapshot \union {cur} : b < d
      BY <2>2, <3>1
    <3>3. 0 \notin stored \union inMemory
      BY DEF TypeOK, BaseTypeOK
    <3>4. snapshot' \subseteq inMemory'
      BY <2>1, <2>2, <3>2
    <3>5. ASSUME NEW d \in stored \union inMemory, d \notin snapshot
          PROVE  \A b \in snapshot : b < d
      BY <2>4, <3>2, <3>3, <3>5
    <3>6. QED
      BY <2>2, <2>4, <3>4, <3>5
  <2>6. \A d \in snapshot' : cur' < d
    BY <2>1, <2>4
  <2>7. CurrentPin'
    <3>1. outcome' # "success"
      <4>1. cur = 0 /\ 0 \notin delivered /\ outcome' = outcome /\ pc = "load"
        BY <2>2, <2>4 DEF TypeOK, BaseTypeOK
      <4>2. QED
        BY <4>1
    <3>2. QED
      BY <2>1, <2>2, <2>6, <3>1
  <2>8. PassReadsMemory'
    BY <2>5
  <2>9. UnpinnedCommand' /\ DecidedCommand' /\ BuiltForSaves'
    BY <2>2, <2>3
  <2>10. QED
    BY <2>7, <2>8, <2>9
<1>8. CASE SkipForgottenPin
  BY <1>8
     DEF SkipForgottenPin, IsNext, histVars, extraVars, queueVars, finishVars, pinHist, TypeOK,
         BaseTypeOK
<1>9. CASE RunBuiltCommand
  BY <1>9
     DEF RunBuiltCommand, RunCommand, storeVars, queueVars, TypeOK, BaseTypeOK
<1>10. CASE UnpinFinished
  BY SMTT(30), <1>10
     DEF UnpinFinished, Unpin, passVars, histVars, queueVars, TypeOK, BaseTypeOK
<1>11. CASE FinishWithoutPin
  BY <1>11
     DEF FinishWithoutPin, histVars, extraVars, queueVars, finishVars, pinHist, TypeOK, BaseTypeOK
<1>12. CASE ForgetPin
  <2>1. /\ phase = "unpinned" /\ pc = "finish" /\ inMemory' = inMemory \ {cur}
        /\ UNCHANGED <<stored, snapshot, cur, outcome, delivered, wiped>>
        /\ \/ outcome = "success" /\ cur \in Saves /\ phase' = "forgotten" /\ pc' = "finish"
           \/ phase' = "none" /\ pc' = "notify"
    BY <1>12 DEF ForgetPin, storeVars, passVars, histVars, pinHist, TypeOK
  <2>2. cur \notin snapshot
    BY DEF TypeOK, BaseTypeOK
  <2>3. QED
    BY <2>1, <2>2
<1>13. CASE PopOperationSet \/ UpdateRow
  BY <1>13
     DEF PopOperationSet, UpdateRow, vars, storeVars, passVars, histVars, queueVars, pinHist,
         TypeOK, BaseTypeOK
<1>14. CASE UnpinListed
  BY <1>14
     DEF UnpinListed, Unpin, passVars, histVars, queueVars, finishVars, TypeOK, BaseTypeOK
<1>15. CASE ClearMemory
  BY <1>15
     DEF ClearMemory, vars, storeVars, passVars, histVars, finishVars, TypeOK, BaseTypeOK
<1>16. CASE DieAndReopen
  BY <1>16 DEF DieAndReopen, Reopen
<1>17. QED
  BY <1>1, <1>2, <1>3, <1>4, <1>5, <1>6, <1>7, <1>8, <1>9, <1>10, <1>11, <1>12, <1>13, <1>14,
     <1>15, <1>16, StepKinds DEF FinishStep

-----------------------------------------------------------------------------
(* The sets of the object.                                                 *)

Increasing(s) == \A i, j \in 1 .. Len(s) : i < j => s[i] < s[j]

LEMMA AppendIncreases ==
  ASSUME NEW s \in Seq(Saves), NEW c \in Saves, Increasing(s), \A d \in ToSet(s) : d < c
  PROVE  Increasing(Append(s, c)) /\ ToSet(Append(s, c)) = ToSet(s) \union {c}
<1> DEFINE t == Append(s, c)
<1>1. /\ Len(s) \in Nat /\ Len(t) = Len(s) + 1 /\ t[Len(s) + 1] = c
      /\ \A i \in 1 .. Len(s) : t[i] = s[i]
      /\ DOMAIN s = 1 .. Len(s) /\ DOMAIN t = 1 .. Len(s) + 1
  OBVIOUS
<1> HIDE DEF t
<1>2. Increasing(t)
  BY <1>1 DEF Increasing, ToSet
<1>3. ToSet(t) = ToSet(s) \union {c}
  BY <1>1 DEF ToSet
<1>4. QED
  BY <1>2, <1>3 DEF t

LEMMA TailIncreases ==
  ASSUME NEW s \in Seq(Saves), s # <<>>, Increasing(s)
  PROVE  /\ Increasing(Tail(s)) /\ Head(s) \in ToSet(s)
         /\ ToSet(s) = {Head(s)} \union ToSet(Tail(s))
         /\ \A d \in ToSet(Tail(s)) : Head(s) < d
<1> DEFINE t == Tail(s)
<1>1. /\ Len(s) \in Nat \ {0} /\ Len(t) = Len(s) - 1 /\ Head(s) = s[1]
      /\ \A i \in 1 .. Len(s) - 1 : t[i] = s[i + 1]
      /\ DOMAIN s = 1 .. Len(s) /\ DOMAIN t = 1 .. Len(s) - 1
  OBVIOUS
<1> HIDE DEF t
<1>2. Increasing(t)
  BY <1>1 DEF Increasing
<1>3. ToSet(s) \subseteq {s[1]} \union ToSet(t)
  <2>1. ASSUME NEW i \in 1 .. Len(s) PROVE s[i] \in {s[1]} \union ToSet(t)
    <3>1. CASE i = 1
      BY <3>1
    <3>2. CASE i # 1
      <4>1. i - 1 \in 1 .. Len(s) - 1 /\ t[i - 1] = s[i]
        BY <1>1, <3>2
      <4>2. QED
        BY <1>1, <4>1 DEF ToSet
    <3>3. QED
      BY <3>1, <3>2
  <2>2. QED
    BY <1>1, <2>1 DEF ToSet
<1>4. ToSet(t) \subseteq ToSet(s) /\ \A d \in ToSet(t) : s[1] < d
  <2>1. ASSUME NEW i \in 1 .. Len(s) - 1 PROVE t[i] \in ToSet(s) /\ s[1] < t[i]
    <3>1. i + 1 \in 1 .. Len(s) /\ t[i] = s[i + 1] /\ 1 < i + 1 /\ 1 \in 1 .. Len(s)
      BY <1>1
    <3>2. QED
      BY <1>1, <3>1 DEF ToSet, Increasing
  <2>2. QED
    BY <1>1, <2>1 DEF ToSet
<1>5. s[1] \in ToSet(s)
  BY <1>1 DEF ToSet
<1>6. ToSet(s) = {Head(s)} \union ToSet(t) /\ \A d \in ToSet(t) : Head(s) < d
  BY <1>1, <1>3, <1>4, <1>5
<1>7. QED
  BY <1>1, <1>2, <1>5, <1>6 DEF t

\* The object has a set, in the order of the commands, for every save that is
\* still to be sent, and for the one being sent until it is taken off; its row
\* has one for every save that is pinned.
SetsInv ==
  /\ Increasing(sets) /\ Increasing(diskSets)
  /\ ToSet(sets) \union ToSet(diskSets) \subseteq 1 .. accepted
  /\ (stored \union inMemory \union (written + 1 .. accepted)) \intersect Saves \subseteq ToSet(sets)
  /\ pc \in Undecided /\ phase # "popped" /\ cur \in Saves => cur \in ToSet(sets)
  /\ stored \intersect Saves \subseteq ToSet(diskSets)

\* When a set is taken off it is that of the current command or of an earlier
\* one, and no later one is.
LEMMA PopInOrder ==
  ASSUME TypeOK, PassInv, SetsInv, phase = "forgotten"
  PROVE  /\ sets # <<>> /\ Head(sets) \in ToSet(sets) /\ Head(sets) <= cur
         /\ Increasing(Tail(sets)) /\ ToSet(Tail(sets)) \subseteq ToSet(sets)
         /\ \A c \in ToSet(sets) : cur < c => c \in ToSet(Tail(sets))
<1>1. cur \in ToSet(sets) /\ sets \in Seq(Saves) /\ Increasing(sets) /\ cur \in Int
  BY DEF TypeOK, BaseTypeOK, PassInv, UnpinnedCommand, SetsInv, Undecided
<1>2. sets # <<>>
  BY <1>1 DEF ToSet
<1>3. /\ Increasing(Tail(sets)) /\ Head(sets) \in ToSet(sets)
      /\ ToSet(sets) = {Head(sets)} \union ToSet(Tail(sets))
      /\ \A d \in ToSet(Tail(sets)) : Head(sets) < d
  BY <1>1, <1>2, TailIncreases
<1>4. Head(sets) \in Int
  BY <1>3, PinningAssumption DEF SetsInv
<1>5. Head(sets) <= cur
  BY <1>1, <1>3, <1>4
<1>6. \A c \in ToSet(sets) : cur < c => c \in ToSet(Tail(sets))
  BY <1>1, <1>3, <1>4, <1>5 DEF SetsInv
<1>7. QED
  BY <1>2, <1>3, <1>5, <1>6

LEMMA PinRanges ==
  TypeOK => /\ written \in Nat /\ accepted \in Nat /\ written <= accepted
            /\ stored \subseteq 1 .. written /\ inMemory \subseteq 1 .. written
BY DEF TypeOK, BaseTypeOK

LEMMA SetsInvStep ==
  ASSUME TypeOK, TypeOK', PassInv, SetsInv, [Next]_pinVars PROVE SetsInv'
<1>w. /\ written \in Nat /\ accepted \in Nat /\ written <= accepted
      /\ stored \subseteq 1 .. written /\ inMemory \subseteq 1 .. written
  BY PinRanges
<1>1. CASE Aside
  BY <1>1 DEF Aside, SetsInv
<1>2. CASE SaveEventually
  <2>1. /\ accepted' = accepted + 1
        /\ UNCHANGED <<stored, inMemory, written, diskSets, pc, phase, cur>>
    BY <1>2
       DEF SaveEventually, EnqueueCommand, storeVars, passVars, queueVars, finishVars
  <2>2. CASE accepted' \in Saves
    <3>1. \A d \in ToSet(sets) : d < accepted'
      BY <1>w, <2>1 DEF SetsInv
    <3>2. sets' = Append(sets, accepted') /\ sets \in Seq(Saves)
      BY <1>2, <2>2 DEF SaveEventually, TypeOK
    <3>3. Increasing(sets') /\ ToSet(sets') = ToSet(sets) \union {accepted'}
      <4>1. Increasing(sets)
        BY DEF SetsInv
      <4>2. QED
        BY <2>2, <3>1, <3>2, <4>1, AppendIncreases
    <3>4. QED
      BY <1>w, <2>1, <3>3 DEF SetsInv
  <2>3. CASE accepted' \notin Saves
    <3>1. sets' = sets
      BY <1>2, <2>3 DEF SaveEventually
    <3>2. QED
      BY <1>w, <2>1, <2>3, <3>1 DEF SetsInv
  <2>4. QED
    BY <2>2, <2>3
<1>3. CASE StorePin
  <2>1. /\ written' = written + 1 /\ stored' = stored \union {written + 1} /\ written < accepted
        /\ diskSets' = sets /\ UNCHANGED <<accepted, inMemory, sets, pc, phase, cur>>
    BY <1>3
       DEF StorePin, StoreCommand, HookReady, passVars, queueVars, finishVars
  <2>2. QED
    BY <1>w, <2>1 DEF SetsInv
<1>4. CASE /\ \/ RunCommands \/ EndPass \/ FetchCompletionSource \/ BeginBackoff
              \/ QuitBackoff \/ BackoffElapsed \/ ResolvePromise
           /\ UNCHANGED extraVars
  <2>1. /\ UNCHANGED <<accepted, written, stored, inMemory, sets, diskSets, phase>>
        /\ pc' \in Undecided => pc \in Undecided /\ cur' = cur
    BY <1>4
       DEF RunCommands, EndPass, FetchCompletionSource, BeginBackoff, QuitBackoff, BackoffElapsed,
           ResolvePromise, callVars, storeVars, passVars, extraVars, queueVars, objectVars,
           finishVars, Undecided
  <2>2. QED
    BY <2>1 DEF SetsInv
<1>5. CASE BeginPinnedPass \/ SkipForgottenPin
  <2>1. /\ UNCHANGED <<accepted, written, stored, sets, diskSets>> /\ pc' \notin Undecided
        /\ inMemory' \subseteq inMemory \union stored
    BY <1>5
       DEF BeginPinnedPass, SkipForgottenPin, callVars, storeVars, extraVars, queueVars,
           objectVars, Undecided
  <2>2. QED
    BY <2>1 DEF SetsInv
<1>6. CASE BuildCommand
  <2>1. /\ UNCHANGED <<accepted, written, stored, inMemory, sets, diskSets>> /\ cur' \in inMemory
    BY <1>6 DEF BuildCommand, callVars, storeVars, queueVars, objectVars
  <2>2. QED
    BY <2>1 DEF SetsInv
<1>7. CASE RunBuiltCommand
  <2>1. /\ UNCHANGED <<accepted, written, stored, inMemory, sets, diskSets, cur, phase>>
        /\ pc \in Undecided
    BY <1>7
       DEF RunBuiltCommand, RunCommand, callVars, storeVars, queueVars, objectVars, Undecided
  <2>2. phase # "popped"
    BY <1>7 DEF RunBuiltCommand, RunCommand, TypeOK
  <2>3. QED
    BY <2>1, <2>2 DEF SetsInv
<1>8. CASE UnpinFinished \/ UnpinListed
  <2>1. /\ stored' \subseteq stored
        /\ \/ diskSets' = sets
           \/ stored' = {} /\ (diskSets' = diskSets \/ diskSets' = <<>>)
        /\ UNCHANGED <<accepted, written, inMemory, sets, pc, cur>>
        /\ phase' = "popped" => phase = "popped"
        /\ phase = "popped" => phase' = "popped"
    BY <1>8
       DEF UnpinFinished, UnpinListed, Unpin, callVars, passVars, queueVars, finishVars
  <2>2. Increasing(<<>>) /\ ToSet(<<>>) = {}
    BY DEF Increasing, ToSet
  <2>3. Increasing(diskSets') /\ ToSet(diskSets') \subseteq 1 .. accepted
    BY <2>1, <2>2 DEF SetsInv
  <2>4. QED
    BY <2>1, <2>3 DEF SetsInv
<1>9. CASE FinishWithoutPin \/ ForgetPin \/ ClearMemory
  <2>1. /\ inMemory' \subseteq inMemory
        /\ UNCHANGED <<accepted, written, stored, sets, diskSets, cur>>
        /\ pc' \in Undecided /\ phase' # "popped" => pc \in Undecided /\ phase # "popped"
    BY <1>9
       DEF FinishWithoutPin, ForgetPin, ClearMemory, vars, callVars, storeVars, passVars,
           extraVars, queueVars, objectVars, finishVars, Undecided
  <2>2. QED
    BY <2>1 DEF SetsInv
<1>10. CASE PopOperationSet
  <2>1. /\ phase = "forgotten" /\ sets' = Tail(sets) /\ phase' = "popped"
        /\ UNCHANGED <<accepted, written, stored, inMemory, diskSets, pc, cur>>
    BY <1>10 DEF PopOperationSet, vars, callVars, storeVars, passVars, queueVars
  <2>2. /\ Increasing(sets') /\ ToSet(sets') \subseteq ToSet(sets)
        /\ \A c \in ToSet(sets) : cur < c => c \in ToSet(sets')
    BY <2>1, PopInOrder
  <2>3. \A c \in stored \union inMemory \union (written + 1 .. accepted) : cur < c
    <3>1. /\ cur \notin stored /\ cur \notin inMemory /\ cur <= written /\ cur \in Int
          /\ \A d \in stored \union inMemory : cur <= d
      BY <2>1 DEF PassInv, UnpinnedCommand, TypeOK, BaseTypeOK
    <3>2. QED
      BY <1>w, <3>1
  <2>4. QED
    BY <2>1, <2>2, <2>3 DEF SetsInv
<1>11. CASE UpdateRow
  <2>1. /\ UNCHANGED <<accepted, written, stored, inMemory, sets>> /\ pc' = "notify"
        /\ \/ diskSets' = sets
           \/ stored = {} /\ diskSets' = diskSets
    BY <1>11 DEF UpdateRow, callVars, storeVars, queueVars
  <2>2. QED
    BY <2>1 DEF SetsInv, Undecided
<1>12. CASE DieAndReopen
  <2>1. /\ UNCHANGED <<accepted, stored, diskSets>> /\ written' = accepted /\ inMemory' = {}
        /\ sets' = diskSets /\ pc' = "idle"
    BY <1>12 DEF DieAndReopen, Reopen
  <2>2. QED
    BY <1>w, <2>1 DEF SetsInv, Undecided
<1>13. QED
  BY <1>1, <1>2, <1>3, <1>4, <1>5, <1>6, <1>7, <1>8, <1>9, <1>10, <1>11, <1>12, StepKinds
     DEF FinishStep

-----------------------------------------------------------------------------
(* Answers, and what becomes of a pinned command.                          *)

AnswersInv ==
  /\ \A c \in Commands : promise[c] # "pending" => c <= written
  /\ AnsweredIsFinal

Decided == 1 .. written \subseteq stored \union delivered \union failed \union discarded

\* All but one kind of step leave the answers alone.
LEMMA AnswersKept ==
  ASSUME TypeOK, AnswersInv, promise' = promise, written <= written', written' \in Nat,
         delivered \subseteq delivered', wiped \subseteq wiped',
         \/ stored' \union inMemory' \subseteq stored \union inMemory
         \/ /\ written' = written + 1 /\ stored' = stored \union {written + 1}
            /\ inMemory' = inMemory
  PROVE  AnswersInv'
<1>1. written \in Nat /\ \A c \in Commands : c \in Int
  BY ConstantsAssumption DEF TypeOK, BaseTypeOK, Commands, ConstantsAssumption
<1>2. \A c \in Commands : promise'[c] # "pending" => c <= written'
  BY <1>1 DEF AnswersInv
<1>3. ASSUME NEW c \in Commands, c \notin wiped'
      PROVE  /\ promise'[c] = "success" => c \in delivered'
             /\ promise'[c] # "pending" => c \notin stored' \union inMemory'
  BY <1>1, <1>3 DEF AnswersInv, AnsweredIsFinal
<1>4. AnsweredIsFinal'
  BY <1>3 DEF AnsweredIsFinal
<1>5. QED
  BY <1>2, <1>4 DEF AnswersInv

LEMMA AnswersInvStep ==
  ASSUME TypeOK, TypeOK', PassInv, AnswersInv, [Next]_pinVars PROVE AnswersInv'
<1>w. written \in Nat /\ written' \in Nat /\ accepted \in Nat /\ written <= accepted
  <2>1. /\ accepted' \in 0 .. NumCommands /\ registered' \in 0 .. accepted'
        /\ written' = registered' \/ written' = registered' + 1
    BY DEF TypeOK, BaseTypeOK
  <2>2. accepted' \in Nat /\ registered' \in Nat
    BY <2>1, ConstantsAssumption DEF ConstantsAssumption
  <2>3. written' \in Nat
    BY <2>1, <2>2
  <2>4. QED
    BY <2>3, PinRanges
<1>1. CASE Aside \/ SaveEventually
  <2>1. UNCHANGED <<written, stored, promise, delivered, inMemory, wiped>>
    BY <1>1
       DEF Aside, SaveEventually, EnqueueCommand, storeVars, histVars, queueVars, pinHist
  <2>2. QED
    BY <1>w, <2>1, AnswersKept
<1>2. CASE StorePin
  <2>1. /\ written' = written + 1 /\ stored' = stored \union {written + 1}
        /\ UNCHANGED <<promise, delivered, inMemory, wiped>>
    BY <1>2 DEF StorePin, StoreCommand, histVars, queueVars, pinHist
  <2>2. QED
    BY <1>w, <2>1, AnswersKept
<1>3. CASE /\ \/ RunCommands \/ EndPass \/ FetchCompletionSource \/ BeginBackoff
              \/ QuitBackoff \/ BackoffElapsed
           /\ UNCHANGED extraVars
  <2>1. UNCHANGED <<written, stored, promise, delivered, inMemory, wiped>>
    BY <1>3
       DEF RunCommands, EndPass, FetchCompletionSource, BeginBackoff, QuitBackoff, BackoffElapsed,
           callVars, storeVars, histVars, extraVars, queueVars, pinHist
  <2>2. QED
    BY <1>w, <2>1, AnswersKept
<1>4. CASE BeginPinnedPass \/ BuildCommand \/ SkipForgottenPin
  <2>1. /\ UNCHANGED <<written, stored, promise, delivered, wiped>>
        /\ inMemory' \subseteq stored \union inMemory
    BY <1>4
       DEF BeginPinnedPass, BuildCommand, SkipForgottenPin, callVars, storeVars, histVars,
           extraVars, queueVars, pinHist
  <2>2. QED
    BY <1>w, <2>1, AnswersKept
<1>5. CASE RunBuiltCommand
  <2>1. /\ UNCHANGED <<written, stored, promise, inMemory, wiped>>
        /\ delivered \subseteq delivered'
    BY <1>5 DEF RunBuiltCommand, RunCommand, callVars, storeVars, queueVars
  <2>2. QED
    BY <1>w, <2>1, AnswersKept
<1>6. CASE FinishStep \/ UnpinListed \/ ClearMemory
  <2>1. /\ UNCHANGED <<written, promise, delivered>> /\ wiped \subseteq wiped'
        /\ stored' \subseteq stored /\ inMemory' \subseteq inMemory
    BY <1>6
       DEF FinishStep, UnpinFinished, FinishWithoutPin, ForgetPin, PopOperationSet, UpdateRow,
           UnpinListed, Unpin, ClearMemory, vars, callVars, storeVars, histVars, extraVars,
           queueVars, pinHist
  <2>2. QED
    BY <1>w, <2>1, AnswersKept
<1>7. CASE DieAndReopen
  <2>1. UNCHANGED <<stored, promise, delivered, wiped>> /\ inMemory' = {} /\ written' = accepted
    BY <1>7 DEF DieAndReopen, Reopen
  <2>2. QED
    BY <1>w, <2>1, AnswersKept
<1>8. CASE ResolvePromise /\ UNCHANGED extraVars
  <2>1. /\ pc = "notify" /\ UNCHANGED <<written, stored, delivered, inMemory, wiped>>
        /\ \/ promise' = promise
           \/ promise' = [promise EXCEPT ![cur] = IF outcome = "success" THEN "success" ELSE "error"]
    BY <1>8 DEF ResolvePromise, callVars, histVars, extraVars, queueVars, pinHist
  <2>2. CASE promise' = promise
    BY <1>w, <2>1, <2>2, AnswersKept
  <2>3. CASE promise' = [promise EXCEPT ![cur] = IF outcome = "success" THEN "success" ELSE "error"]
    <3>1. promise \in [Commands -> {"pending", "success", "error"}] /\ cur \in 0 .. written
      BY DEF TypeOK, BaseTypeOK
    <3>2. \A c \in Commands : c # cur => promise'[c] = promise[c]
      BY <2>3, <3>1
    <3>3. cur \in Commands => promise'[cur] = IF outcome = "success" THEN "success" ELSE "error"
      BY <2>3, <3>1
    <3>4. cur \notin wiped =>
            cur \notin stored \union inMemory /\ (outcome = "success" => cur \in delivered)
      BY <2>1 DEF PassInv, DecidedCommand, Cleared
    <3>5. \A c \in Commands : promise'[c] # "pending" => c <= written'
      BY <1>w, <2>1, <3>1, <3>2 DEF AnswersInv
    <3>6. AnsweredIsFinal'
      BY <2>1, <3>2, <3>3, <3>4 DEF AnswersInv, AnsweredIsFinal
    <3>7. QED
      BY <3>5, <3>6 DEF AnswersInv
  <2>4. QED
    BY <2>1, <2>2, <2>3
<1>9. QED
  BY <1>1, <1>2, <1>3, <1>4, <1>5, <1>6, <1>7, <1>8, StepKinds

LEMMA DecidedStep ==
  ASSUME TypeOK, TypeOK', PassInv, Decided, [Next]_pinVars PROVE Decided'
<1>w. written \in Nat /\ accepted \in Nat /\ written <= accepted
  BY PinRanges
<1>1. CASE Aside \/ SaveEventually
  <2>1. UNCHANGED <<written, stored, delivered, failed, discarded>>
    BY <1>1 DEF Aside, SaveEventually, EnqueueCommand, storeVars, histVars, pinHist
  <2>2. QED
    BY <2>1 DEF Decided
<1>2. CASE StorePin
  <2>1. /\ written' = written + 1 /\ stored' = stored \union {written + 1}
        /\ UNCHANGED <<delivered, failed, discarded>>
    BY <1>2 DEF StorePin, StoreCommand, histVars, pinHist
  <2>2. QED
    BY <1>w, <2>1 DEF Decided
<1>3. CASE /\ \/ RunCommands \/ EndPass \/ FetchCompletionSource \/ BeginBackoff
              \/ QuitBackoff \/ BackoffElapsed \/ ResolvePromise
           /\ UNCHANGED extraVars
  <2>1. UNCHANGED <<written, stored, delivered, failed, discarded>>
    BY <1>3
       DEF RunCommands, EndPass, FetchCompletionSource, BeginBackoff, QuitBackoff, BackoffElapsed,
           ResolvePromise, callVars, storeVars, histVars, extraVars, pinHist
  <2>2. QED
    BY <2>1 DEF Decided
<1>4. CASE BeginPinnedPass \/ BuildCommand \/ SkipForgottenPin \/ ClearMemory
  <2>1. UNCHANGED <<written, stored, delivered, failed, discarded>>
    BY <1>4
       DEF BeginPinnedPass, BuildCommand, SkipForgottenPin, ClearMemory, vars, callVars, storeVars,
           histVars, extraVars, pinHist
  <2>2. QED
    BY <2>1 DEF Decided
<1>5. CASE RunBuiltCommand
  <2>1. UNCHANGED <<written, stored, failed, discarded>> /\ delivered \subseteq delivered'
    BY <1>5 DEF RunBuiltCommand, RunCommand, callVars, storeVars
  <2>2. QED
    BY <2>1 DEF Decided
<1>6. CASE UnpinFinished
  <2>1. /\ stored' = stored \ {cur} /\ UNCHANGED <<written, delivered, discarded>>
        /\ failed \subseteq failed' /\ (outcome # "success" => cur \in failed')
        /\ pc = "finish"
    BY <1>6 DEF UnpinFinished, Unpin, callVars, histVars
  <2>2. outcome = "success" => cur \in delivered
    BY <2>1 DEF PassInv, CurrentPin
  <2>3. QED
    BY <2>1, <2>2 DEF Decided
<1>7. CASE FinishWithoutPin \/ ForgetPin \/ PopOperationSet \/ UpdateRow
  <2>1. UNCHANGED <<written, stored, delivered, failed, discarded>>
    BY <1>7
       DEF FinishWithoutPin, ForgetPin, PopOperationSet, UpdateRow, vars, callVars, storeVars,
           histVars, extraVars, pinHist
  <2>2. QED
    BY <2>1 DEF Decided
<1>8. CASE UnpinListed
  <2>1. PICK c \in listed : stored' = stored \ {c} /\ discarded' = discarded \union {c}
    BY <1>8 DEF UnpinListed, Unpin
  <2>2. UNCHANGED <<written, delivered, failed>>
    BY <1>8 DEF UnpinListed, callVars, histVars
  <2>3. QED
    BY <2>1, <2>2 DEF Decided
<1>9. CASE DieAndReopen
  <2>1. /\ UNCHANGED <<stored, delivered, failed>> /\ written' = accepted
        /\ discarded' = discarded \union (written + 1 .. accepted)
    BY <1>9 DEF DieAndReopen, Reopen
  <2>2. QED
    BY <1>w, <2>1 DEF Decided
<1>10. QED
  BY <1>1, <1>2, <1>3, <1>4, <1>5, <1>6, <1>7, <1>8, <1>9, StepKinds DEF FinishStep

-----------------------------------------------------------------------------
(***************************************************************************)
(* The inductive invariant of the pinning queue.                           *)
(***************************************************************************)
PinInv == TypeOK /\ PassInv /\ SetsInv /\ AnswersInv /\ Decided

LEMMA PinTypeStep ==
  ASSUME PinInv, [Next]_pinVars PROVE TypeOK'
<1>1. phase = "forgotten" => sets # <<>>
  BY PopInOrder DEF PinInv
<1>2. TypeOK /\ BuiltForSaves
  BY DEF PinInv, PassInv
<1>3. CASE UNCHANGED pinVars
  <2>1. FlagsOK' /\ built' \in BOOLEAN /\ userPinned' \in PinnedChoices
    BY <1>2, <1>3, Zenon
       DEF TypeOK, BaseTypeOK, FlagsOK, pinVars, vars, extraVars, connVars, histVars, passVars,
           objectVars, finishVars
  <2>2. QED
    BY SMTT(30), <1>2, <1>3, <2>1
       DEF TypeOK, BaseTypeOK, pinVars, vars, extraVars, callVars, storeVars, passVars, connVars,
           histVars, queueVars, objectVars, finishVars, removeVars, pinHist
<1>4. CASE Next
  <2>1. BaseTypeOK' /\ OwnTypes'
    <3>1. CASE (BaseStep /\ UNCHANGED extraVars) \/ SaveEventually \/ StorePin \/ RunBuiltCommand
      BY <1>2, <3>1, QueueTypes
    <3>2. CASE BeginPinnedPass
      BY <1>2, <3>2, BeginPassTypes
    <3>3. CASE BuildCommand \/ SkipForgottenPin
      BY <1>2, <3>3, BuildTypes
    <3>4. CASE FinishStep
      BY <1>1, <1>2, <3>4, FinishTypes
    <3>5. CASE RemoveStep \/ OfferOperationSet
      BY <1>2, <3>5, RemoveTypes
    <3>6. CASE DieAndReopen
      BY <1>2, <3>6, ReopenTypes
    <3>7. QED
      BY <1>4, <3>1, <3>2, <3>3, <3>4, <3>5, <3>6 DEF Next, RunStep
  <2>2. QED
    BY <2>1 DEF TypeOK, OwnTypes
<1>5. QED
  BY <1>3, <1>4

LEMMA PinInvStep ==
  ASSUME PinInv, [Next]_pinVars PROVE PinInv'
<1>1. TypeOK /\ PassInv /\ SetsInv /\ AnswersInv /\ Decided
  BY DEF PinInv
<1>2. TypeOK'
  BY PinTypeStep
<1>3. PassInv' /\ SetsInv' /\ AnswersInv' /\ Decided'
  BY <1>1, <1>2, PassInvStep, SetsInvStep, AnswersInvStep, DecidedStep
<1>4. QED
  BY <1>2, <1>3 DEF PinInv

LEMMA PinInvInit == Init => PinInv
<1> SUFFICES ASSUME Init PROVE PinInv
  OBVIOUS
<1>1. BaseTypeOK
  BY BaseTypeInit DEF Init
<1>2. built \in BOOLEAN /\ userPinned \in PinnedChoices
  BY Zenon DEF Init
<1>3. TypeOK
  BY <1>1, <1>2, PinningAssumption DEF Init, TypeOK, BaseInit, PinningAssumption
<1>4. ToSet(<<>>) = {} /\ Increasing(<<>>)
  BY DEF ToSet, Increasing
<1>5. PassInv
  BY DEF Init, BaseInit, PassInv, CurrentPin, PassReadsMemory, UnpinnedCommand, DecidedCommand,
         BuiltForSaves, InPass, Undecided, Handling, NoCommand
<1>6. SetsInv
  BY <1>4 DEF Init, BaseInit, SetsInv, Undecided
<1>7. AnswersInv /\ Decided
  BY DEF Init, BaseInit, AnswersInv, AnsweredIsFinal, Decided
<1>8. QED
  BY <1>3, <1>5, <1>6, <1>7 DEF PinInv

-----------------------------------------------------------------------------
(***************************************************************************)
(* The command cache of this module is the one CommandCacheProofs is about:*)
(* what the two say of their states and of their steps is the same.        *)
(***************************************************************************)
FP == INSTANCE CommandCacheProofs

LEMMA SameClient ==
  /\ Files!EnqueueCommand <=> FP!EnqueueCommand
  /\ Files!Resume <=> FP!Resume
  /\ Files!Pause <=> FP!Pause
  /\ Files!SetConnected <=> FP!SetConnected
  /\ Files!DidEnqueueCommand <=> FP!DidEnqueueCommand
  /\ Files!ApplyConnected <=> FP!ApplyConnected
  /\ Files!SignalRetry <=> FP!SignalRetry
BY DEF Files!EnqueueCommand, FP!EnqueueCommand, Files!Resume, FP!Resume, Files!Pause, FP!Pause,
       Files!SetConnected, FP!SetConnected, Files!DidEnqueueCommand, FP!DidEnqueueCommand,
       Files!ApplyConnected, FP!ApplyConnected, Files!SignalRetry, FP!SignalRetry,
       Files!storeVars, FP!storeVars, Files!passVars, FP!passVars, Files!connVars, FP!connVars,
       Files!histVars, FP!histVars, Files!callVars, FP!callVars, Files!Signalled, FP!Signalled

LEMMA SamePass ==
  /\ Files!RunCommands <=> FP!RunCommands
  /\ Files!BeginPass <=> FP!BeginPass
  /\ Files!LoadCommandFile <=> FP!LoadCommandFile
  /\ Files!UnreadableCommand <=> FP!UnreadableCommand
  /\ Files!SkipMissingCommand <=> FP!SkipMissingCommand
  /\ Files!EndPass <=> FP!EndPass
  /\ Files!FetchCompletionSource <=> FP!FetchCompletionSource
BY DEF Files!UnreadableCommand, FP!UnreadableCommand, Files!RunCommands, FP!RunCommands, Files!BeginPass, FP!BeginPass, Files!LoadCommandFile,
       FP!LoadCommandFile, Files!SkipMissingCommand, FP!SkipMissingCommand, Files!EndPass,
       FP!EndPass, Files!FetchCompletionSource, FP!FetchCompletionSource, Files!callVars,
       FP!callVars, Files!storeVars, FP!storeVars, Files!connVars, FP!connVars, Files!NoCommand,
       FP!NoCommand, Files!histVars, FP!histVars, Files!LoadCommand, FP!LoadCommand, Files!IsNext,
       FP!IsNext

LEMMA SameAnswers ==
  /\ Files!RunCommand <=> FP!RunCommand
  /\ Files!BeginBackoff <=> FP!BeginBackoff
  /\ Files!QuitBackoff <=> FP!QuitBackoff
  /\ Files!BackoffElapsed <=> FP!BackoffElapsed
  /\ Files!ResolvePromise <=> FP!ResolvePromise
  /\ Files!RemoveCommandFile <=> FP!RemoveCommandFile
BY DEF Files!RunCommand, FP!RunCommand, Files!BeginBackoff, FP!BeginBackoff, Files!QuitBackoff,
       FP!QuitBackoff, Files!BackoffElapsed, FP!BackoffElapsed, Files!ResolvePromise,
       FP!ResolvePromise, Files!RemoveCommandFile, FP!RemoveCommandFile, Files!callVars,
       FP!callVars, Files!storeVars, FP!storeVars, Files!connVars, FP!connVars, Files!passVars,
       FP!passVars, Files!histVars, FP!histVars, Files!NoCommand, FP!NoCommand,
       Files!RemoveCommand, FP!RemoveCommand, Files!diskVars, FP!diskVars, Files!removeVars,
       FP!removeVars, Files!crashVars, FP!crashVars

LEMMA SameFiles ==
  /\ Files!RejectCommand <=> FP!RejectCommand
  /\ Files!WriteCommand <=> FP!WriteCommand
  /\ Files!WriteFails <=> FP!WriteFails
  /\ Files!EvictCommand <=> FP!EvictCommand
  /\ Files!Crash <=> FP!Crash
  /\ Files!LoadRaises <=> FP!LoadRaises
BY DEF Files!RejectCommand, FP!RejectCommand, Files!WriteFails, FP!WriteFails, Files!Refused, FP!Refused,
       Files!WriteCommand, FP!WriteCommand,
       Files!EvictCommand, FP!EvictCommand, Files!Crash, FP!Crash, Files!LoadRaises,
       FP!LoadRaises, Files!HookReady, FP!HookReady, Files!passVars, FP!passVars, Files!connVars,
       FP!connVars, Files!histVars, FP!histVars, Files!diskVars, FP!diskVars, Files!removeVars,
       FP!removeVars, Files!crashVars, FP!crashVars, Files!StoreCommand, FP!StoreCommand,
       Files!cacheHist, FP!cacheHist, Files!callVars, FP!callVars, Files!DieAndReopen,
       FP!DieAndReopen, Files!IsNext, FP!IsNext, Files!Reopen, FP!Reopen, Files!NoCommand,
       FP!NoCommand

LEMMA SameRemoval ==
  /\ Files!BeginRemoveAllCommands <=> FP!BeginRemoveAllCommands
  /\ Files!ListFiles <=> FP!ListFiles
  /\ Files!RemoveListedFile <=> FP!RemoveListedFile
  /\ Files!EndRemoveAllCommands <=> FP!EndRemoveAllCommands
BY DEF Files!BeginRemoveAllCommands, FP!BeginRemoveAllCommands, Files!ListFiles, FP!ListFiles,
       Files!RemoveListedFile, FP!RemoveListedFile, Files!EndRemoveAllCommands,
       FP!EndRemoveAllCommands, Files!callVars, FP!callVars, Files!passVars, FP!passVars,
       Files!connVars, FP!connVars, Files!histVars, FP!histVars, Files!diskVars, FP!diskVars,
       Files!crashVars, FP!crashVars, Files!cacheHist, FP!cacheHist, Files!vars, FP!vars,
       Files!Resume, FP!Resume, Files!storeVars, FP!storeVars

LEMMA SameCleanup == Files!CleanupDiskCache <=> FP!CleanupDiskCache
<1>1. Files!SizeFrom = FP!SizeFrom
  BY DEF Files!SizeFrom, FP!SizeFrom, Files!Commands, FP!Commands, Files!FileSize, FP!FileSize
<1>2. ASSUME NEW s PROVE Files!Victims(s) = FP!Victims(s)
  <2>1. Files!DirectorySize = FP!DirectorySize
    BY Zenon DEF Files!DirectorySize, FP!DirectorySize, Files!Cardinality, FP!Cardinality,
                 Files!IsFiniteSet, FP!IsFiniteSet
  <2>2. {c \in stored : s + Files!SizeFrom[c] > DiskCacheSize}
          = {c \in stored : s + FP!SizeFrom[c] > DiskCacheSize}
    BY <1>1, Zenon
  <2>3. QED
    BY <2>1, <2>2, Zenon DEF Files!Victims, FP!Victims
<1>3. Files!CleanupDiskCache => FP!CleanupDiskCache
  BY <1>2 DEF Files!CleanupDiskCache, FP!CleanupDiskCache, Files!HookReady, FP!HookReady,
              Files!vars, FP!vars, Files!removeVars, FP!removeVars, Files!crashVars, FP!crashVars,
              Files!cacheHist, FP!cacheHist, Files!callVars, FP!callVars, Files!storeVars,
              FP!storeVars, Files!passVars, FP!passVars, Files!connVars, FP!connVars,
              Files!histVars, FP!histVars, Files!Commands, FP!Commands
<1>4. FP!CleanupDiskCache => Files!CleanupDiskCache
  BY <1>2 DEF Files!CleanupDiskCache, FP!CleanupDiskCache, Files!HookReady, FP!HookReady,
              Files!vars, FP!vars, Files!removeVars, FP!removeVars, Files!crashVars, FP!crashVars,
              Files!cacheHist, FP!cacheHist, Files!callVars, FP!callVars, Files!storeVars,
              FP!storeVars, Files!passVars, FP!passVars, Files!connVars, FP!connVars,
              Files!histVars, FP!histVars, Files!Commands, FP!Commands
<1>5. QED
  BY <1>3, <1>4

LEMMA SameNext == Files!Next <=> FP!Next
<1>1. UNCHANGED Files!extraVars <=> UNCHANGED FP!extraVars
  BY DEF Files!extraVars, FP!extraVars, Files!diskVars, FP!diskVars, Files!removeVars,
         FP!removeVars, Files!crashVars, FP!crashVars, Files!cacheHist, FP!cacheHist
<1>2. QED
  BY <1>1, SameClient, SamePass, SameAnswers, SameFiles, SameRemoval, SameCleanup
     DEF Files!Next, FP!Next, Files!BaseStep, FP!BaseStep, Files!PassStep, FP!PassStep,
         Files!ClientStep, FP!ClientStep, Files!CacheStep, FP!CacheStep

LEMMA SameInit == Files!Init <=> FP!Init
BY DEF Files!Init, FP!Init, Files!BaseInit, FP!BaseInit, Files!Commands, FP!Commands,
       Files!NoCommand, FP!NoCommand

LEMMA SameTypes == Files!TypeOK <=> FP!TypeOK
BY DEF Files!TypeOK, FP!TypeOK, Files!BaseTypeOK, FP!BaseTypeOK, Files!Commands, FP!Commands,
       Files!FlagsOK, FP!FlagsOK, Files!Handling, FP!Handling, Files!NoCommand, FP!NoCommand

-----------------------------------------------------------------------------
(***************************************************************************)
(* The inductive invariant of either queue: its own, and that the command  *)
(* cache leaves alone the pinning queue's memory, of which what both queues*)
(* promise speaks too.                                                     *)
(***************************************************************************)
AllInv ==
  /\ kind \in {"pins", "files"}
  /\ kind = "pins" => PinInv
  /\ kind = "files" => FP!FilesInv /\ inMemory = {} /\ wiped = {} /\ phase = "none"

LEMMA FilesConstants == FP!CacheConstants /\ FP!ConstantsAssumption
BY CacheAssumption, PinningAssumption, ConstantsAssumption
   DEF CacheAssumption, PinningAssumption, ConstantsAssumption, FP!CacheConstants,
       FP!ConstantsAssumption

LEMMA AllInvInit == AllInit => AllInv
<1> SUFFICES ASSUME AllInit PROVE AllInv
  OBVIOUS
<1>1. kind \in {"pins", "files"} /\ Init /\ FP!Init
  BY SameInit DEF AllInit
<1>2. PinInv
  BY <1>1, PinInvInit
<1>3. FP!FilesInv
  BY <1>1, FilesConstants, FP!FilesInvInit
<1>4. inMemory = {} /\ wiped = {} /\ phase = "none"
  BY <1>1 DEF Init
<1>5. QED
  BY <1>1, <1>2, <1>3, <1>4 DEF AllInv

LEMMA AllInvStep == AllInv /\ [AllNext]_allVars => AllInv'
<1> SUFFICES ASSUME AllInv, [AllNext]_allVars PROVE AllInv'
  OBVIOUS
<1>1. kind' = kind /\ kind \in {"pins", "files"}
  BY DEF AllNext, AllInv, allVars
<1>2. CASE kind = "pins"
  <2>1. PinInv
    BY <1>2 DEF AllInv
  <2>2. [Next]_pinVars
    BY <1>2 DEF AllNext, allVars
  <2>3. PinInv'
    BY <2>1, <2>2, PinInvStep
  <2>4. QED
    BY <1>1, <1>2, <2>3 DEF AllInv
<1>3. CASE kind = "files"
  <2>1. FP!FilesInv /\ inMemory = {} /\ wiped = {} /\ phase = "none"
    BY <1>3 DEF AllInv
  <2>2. [FP!Next]_(FP!cacheVars)
    <3>1. CASE UNCHANGED allVars
      BY <3>1
         DEF allVars, fileOnlyVars, pinVars, vars, callVars, storeVars, passVars, connVars,
             histVars, extraVars, removeVars, pinHist, FP!cacheVars, FP!vars, FP!callVars,
             FP!storeVars, FP!passVars, FP!connVars, FP!histVars, FP!extraVars, FP!diskVars,
             FP!removeVars, FP!crashVars, FP!cacheHist
    <3>2. CASE AllNext
      BY <1>3, <3>2, SameNext DEF AllNext
    <3>3. QED
      BY <3>1, <3>2
  <2>3. FP!FilesInv'
    BY <2>1, <2>2, FilesConstants, FP!FilesInvStep
  <2>4. UNCHANGED <<inMemory, wiped, phase>>
    BY <1>3
       DEF AllNext, allVars, pinOnlyVars, pinVars, extraVars, queueVars, finishVars, pinHist
  <2>5. QED
    BY <1>1, <1>3, <2>1, <2>3, <2>4 DEF AllInv
<1>4. QED
  BY <1>1, <1>2, <1>3

LEMMA AllInvariance == AllSpec => []AllInv
BY AllInvInit, AllInvStep, PTL DEF AllSpec

-----------------------------------------------------------------------------
(***************************************************************************)
(* The state of both queues keeps its types, whatever they store, evict,   *)
(* unpin or discard, and whenever the process dies.                        *)
(***************************************************************************)
THEOREM QueueTypesCorrect == AllSpec => []AllTypeOK
<1>1. AllInv => AllTypeOK
  BY FilesConstants, FP!FilesAreRight, SameTypes DEF AllInv, PinInv, AllTypeOK
<1>2. QED
  BY <1>1, AllInvariance, PTL

(***************************************************************************)
(* A pin is found until its command was executed, failed for good or was   *)
(* discarded, and the operation set it refers to is on disk with it, also  *)
(* when the process dies between unpinning and forgetting                  *)
(* (_didFinishRunningCommand:, _enqueueCommandInBackground:).              *)
(***************************************************************************)
THEOREM PinsAreKept == AllSpec => []PinsKept
<1>1. PinInv => PinnedUntilDecided
  BY DEF PinInv, Decided, SetsInv, PinnedUntilDecided
<1>2. AllInv => PinsKept
  BY <1>1 DEF AllInv, PinsKept
<1>3. QED
  BY <1>2, AllInvariance, PTL

(***************************************************************************)
(* Whichever the queue, a caller that was told of a success was told the   *)
(* truth, and an answered command is neither on disk nor in memory any     *)
(* more, unless removeAllCommands wiped the memory meanwhile.              *)
(***************************************************************************)
THEOREM AnswersAreNotTakenBack == AllSpec => []AnsweredIsFinal
<1>1. PinInv => AnsweredIsFinal
  BY DEF PinInv, AnswersInv
<1>2. FP!FilesInv /\ inMemory = {} => AnsweredIsFinal
  BY FilesConstants, FP!FilesAreRight
     DEF AnsweredIsFinal, FP!ResolvedIsFinal, Commands, FP!Commands
<1>3. AllInv => AnsweredIsFinal
  BY <1>1, <1>2 DEF AllInv
<1>4. QED
  BY <1>3, AllInvariance, PTL

(***************************************************************************)
(* When the answer of a stored save arrives its object, saved with         *)
(* saveEventually only, has an operation set to take off, and it is the    *)
(* one that was sent or one that nothing will ever send: never that of a   *)
(* save still to come (handleSaveResultAsync:).                            *)
(***************************************************************************)
THEOREM TheSentSetIsTakenOff == AllSpec => []PopsItsOwnSet
<1>1. ASSUME PinInv PROVE PopsItsOwnSet
  <2> SUFFICES ASSUME phase = "forgotten"
               PROVE  sets # <<>> /\ Head(sets) \in Orphans \union {cur}
    BY DEF PopsItsOwnSet
  <2>1. sets # <<>> /\ Head(sets) \in ToSet(sets) /\ Head(sets) <= cur
    BY <1>1, PopInOrder DEF PinInv
  <2>2. Head(sets) \in Int /\ cur \in 1 .. written /\ written \in Int
    BY <1>1, <2>1, PinningAssumption
       DEF PinInv, SetsInv, TypeOK, BaseTypeOK, Handling, PinningAssumption
  <2>3. \A d \in stored \union inMemory : cur <= d
    BY <1>1 DEF PinInv, PassInv, UnpinnedCommand
  <2>4. QED
    BY <2>1, <2>2, <2>3 DEF Orphans
<1>2. AllInv => PopsItsOwnSet
  BY <1>1 DEF AllInv, PopsItsOwnSet
<1>3. QED
  BY <1>2, AllInvariance, PTL
=============================================================================
