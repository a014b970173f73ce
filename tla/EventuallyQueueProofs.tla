------------------------ MODULE EventuallyQueueProofs ------------------------
(***************************************************************************)
(* What PFEventuallyQueue keeps to whatever its subclass does with the     *)
(* commands: lemmas about its own steps, for every number of commands, of  *)
(* attempts and of client calls, on which the proofs about the queue in    *)
(* memory and the command cache rest.                                      *)
(***************************************************************************)
EXTENDS EventuallyQueue, TLAPS

(***************************************************************************)
(* The inductive invariant.  While a pass is under way it covers every     *)
(* registered command or a kick is pending; it handles them in order; what *)
(* a resolved promise says stays true; and the command being handled has   *)
(* no answer yet.                                                          *)
(***************************************************************************)
InPass == pc = "load" \/ pc \in Handling

PassCoversStored ==
  InPass => \A c \in stored : c <= registered => c \in snapshot \/ c = cur \/ kick

CurrentCommand ==
  /\ pc = "load" => cur = NoCommand
  /\ pc = "notify" => cur \notin stored
  /\ \A c \in snapshot : cur < c
  /\ outcome = "success" => cur \in delivered

PassInOrder ==
  InPass => \A d \in stored :
              d \in snapshot \union {cur} \/ \A c \in snapshot \union {cur} : c < d

Unanswered ==
  /\ \A c \in Commands : promise[c] # "pending" => c <= written
  /\ pc \in Handling => promise[cur] = "pending"

QueueInv ==
  /\ BaseTypeOK
  /\ NoLostWakeup
  /\ PassCoversStored
  /\ CurrentCommand
  /\ PassInOrder
  /\ ResolvedIsFinal
  /\ Unanswered

\* The steps of the base class; subclasses store and remove commands in them.
QueueStep ==
  \/ ClientStep \/ ProcessingStep
  \/ StoreCommand \/ DidEnqueueCommand
  \/ ApplyConnected \/ SignalRetry

-----------------------------------------------------------------------------
LEMMA BaseTypeInit == BaseInit => BaseTypeOK
<1> SUFFICES ASSUME BaseInit PROVE BaseTypeOK
  OBVIOUS
<1>1. FlagsOK
  BY Zenon DEF BaseInit, FlagsOK
<1>2. calls \in [notifications : 0 .. MaxNotifications, pauses : 0 .. MaxPauses]
      /\ signals \in 0 .. calls.notifications
  BY ConstantsAssumption DEF BaseInit, ConstantsAssumption
<1>3. QED
  BY <1>1, <1>2, ConstantsAssumption
     DEF BaseInit, BaseTypeOK, Commands, NoCommand, Handling, ConstantsAssumption

LEMMA QueueInvInit == BaseInit => QueueInv
BY BaseTypeInit
   DEF BaseInit, QueueInv, NoLostWakeup, PassCoversStored, InPass, CurrentCommand,
       PassInOrder, ResolvedIsFinal, Unanswered, Commands, Handling, NoCommand

(***************************************************************************)
(* The Boolean variables keep their type.                                  *)
(***************************************************************************)
LEMMA FlagsStep == FlagsOK /\ QueueStep => FlagsOK'
<1> SUFFICES ASSUME FlagsOK, QueueStep PROVE FlagsOK'
  OBVIOUS
<1> USE DEF FlagsOK, connVars, histVars, passVars
<1>1. CASE EnqueueCommand
  BY <1>1, Zenon DEF EnqueueCommand
<1>2. CASE Resume
  BY <1>2, Zenon DEF Resume
<1>3. CASE Pause
  BY <1>3, Zenon DEF Pause
<1>4. CASE SetConnected
  BY <1>4, Zenon DEF SetConnected
<1>5. CASE RunCommands
  BY <1>5, Zenon DEF RunCommands
<1>6. CASE BeginPass
  BY <1>6, Zenon DEF BeginPass
<1>7. CASE LoadCommand
  BY <1>7, Zenon DEF LoadCommand
<1>8. CASE SkipMissingCommand
  BY <1>8, Zenon DEF SkipMissingCommand
<1>9. CASE EndPass
  BY <1>9, Zenon DEF EndPass
<1>10. CASE FetchCompletionSource
  BY <1>10 DEF FetchCompletionSource
<1>11. CASE RunCommand
  BY <1>11, Zenon DEF RunCommand
<1>12. CASE BeginBackoff
  BY <1>12, Zenon DEF BeginBackoff
<1>13. CASE QuitBackoff
  BY <1>13, Zenon DEF QuitBackoff
<1>14. CASE BackoffElapsed
  BY <1>14, Zenon DEF BackoffElapsed
<1>15. CASE RemoveCommand
  BY <1>15, Zenon DEF RemoveCommand
<1>16. CASE ResolvePromise
  BY <1>16, Zenon DEF ResolvePromise
<1>17. CASE StoreCommand
  BY <1>17, Zenon DEF StoreCommand
<1>18. CASE DidEnqueueCommand
  BY <1>18, Zenon DEF DidEnqueueCommand
<1>19. CASE ApplyConnected
  BY <1>19, Zenon DEF ApplyConnected
<1>20. CASE SignalRetry
  BY <1>20, Zenon DEF SignalRetry
<1>21. QED
  BY <1>1, <1>2, <1>3, <1>4, <1>5, <1>6, <1>7, <1>8, <1>9, <1>10,
     <1>11, <1>12, <1>13, <1>14, <1>15, <1>16, <1>17,
     <1>18, <1>19, <1>20
     DEF QueueStep, ClientStep, ProcessingStep
(***************************************************************************)
(* Every step preserves the types of all variables.                        *)
(***************************************************************************)
LEMMA BaseTypeStep == BaseTypeOK /\ QueueStep => BaseTypeOK'
<1> SUFFICES ASSUME BaseTypeOK, QueueStep PROVE BaseTypeOK'
  OBVIOUS
<1>f. FlagsOK'
  BY FlagsStep DEF BaseTypeOK
<1> USE <1>f, ConstantsAssumption
    DEF BaseTypeOK, Commands, NoCommand, Handling, callVars, storeVars,
        passVars, connVars, histVars, ConstantsAssumption
<1>1. CASE EnqueueCommand
  BY <1>1 DEF EnqueueCommand
<1>2. CASE Resume
  BY <1>2 DEF Resume
<1>3. CASE Pause
  <2>1. calls' \in [notifications : 0 .. MaxNotifications, pauses : 0 .. MaxPauses]
    BY <1>3 DEF Pause
  <2>2. calls'.notifications = calls.notifications
    BY <1>3 DEF Pause
  <2>3. signals' \in 0 .. calls'.notifications
    BY <1>3, <2>2 DEF Pause
  <2>4. QED
    BY SMTT(30), <1>3, <2>1, <2>3 DEF Pause
<1>4. CASE SetConnected
  <2>1. calls' \in [notifications : 0 .. MaxNotifications, pauses : 0 .. MaxPauses]
    BY SMTT(30), <1>4 DEF SetConnected
  <2>2. calls'.notifications = calls.notifications + 1
    BY <1>4 DEF SetConnected
  <2>3. signals' \in 0 .. calls'.notifications
    BY <1>4, <2>2 DEF SetConnected
  <2>4. QED
    BY <1>4, <2>1, <2>3 DEF SetConnected
<1>5. CASE RunCommands
  BY <1>5 DEF RunCommands
<1>6. CASE BeginPass
  <2>1. CASE running /\ connected
    <3>1. pc' = "load" /\ snapshot' = stored /\ cur' = 0 /\ outcome' = "none"
      BY <1>6, <2>1 DEF BeginPass
    <3>2. QED
      BY <1>6, <3>1 DEF BeginPass
  <2>2. CASE ~(running /\ connected)
    BY <1>6, <2>2 DEF BeginPass
  <2>3. QED
    BY <2>1, <2>2
<1>7. CASE LoadCommand
  BY <1>7 DEF LoadCommand, IsNext
<1>8. CASE SkipMissingCommand
  BY <1>8 DEF SkipMissingCommand, IsNext
<1>9. CASE EndPass
  BY <1>9 DEF EndPass
<1>10. CASE FetchCompletionSource
  BY <1>10 DEF FetchCompletionSource
<1>11. CASE RunCommand
  <2>0. cur \in 1 .. written /\ written' = written
    BY <1>11 DEF RunCommand
  <2>1. delivered' \subseteq 1 .. written'
    <3>1. delivered' \in {delivered, delivered \union {cur}}
      BY <1>11 DEF RunCommand
    <3>2. QED
      BY <2>0, <3>1
  <2>2. outcome' \in {"success", "permanent", "temporary"} /\ pc' \in {"failed", "finish"}
    BY <1>11 DEF RunCommand
  <2>3. QED
    BY <1>11, <2>1, <2>2 DEF RunCommand
<1>12. CASE BeginBackoff
  BY <1>12 DEF BeginBackoff
<1>13. CASE QuitBackoff
  BY <1>13 DEF QuitBackoff
<1>14. CASE BackoffElapsed
  BY <1>14 DEF BackoffElapsed
<1>15. CASE RemoveCommand
  BY <1>15 DEF RemoveCommand
<1>16. CASE ResolvePromise
  BY <1>16 DEF ResolvePromise
<1>17. CASE StoreCommand
  BY <1>17 DEF StoreCommand, HookReady
<1>18. CASE DidEnqueueCommand
  BY <1>18 DEF DidEnqueueCommand, Signalled
<1>19. CASE ApplyConnected
  BY <1>19 DEF ApplyConnected
<1>20. CASE SignalRetry
  BY <1>20 DEF SignalRetry, Signalled
<1>21. QED
  BY <1>1, <1>2, <1>3, <1>4, <1>5, <1>6, <1>7, <1>8, <1>9, <1>10,
     <1>11, <1>12, <1>13, <1>14, <1>15, <1>16, <1>17,
     <1>18, <1>19, <1>20
     DEF QueueStep, ClientStep, ProcessingStep
-----------------------------------------------------------------------------
(***************************************************************************)
(* Every step preserves the inductive invariant.                           *)
(***************************************************************************)
LEMMA QueueInvStep == QueueInv /\ QueueStep => QueueInv'
<1> SUFFICES ASSUME QueueInv, QueueStep PROVE QueueInv'
  OBVIOUS
<1>t. BaseTypeOK'
  BY BaseTypeStep DEF QueueInv
<1> USE <1>t, ConstantsAssumption
    DEF QueueInv, NoLostWakeup, PassCoversStored, InPass, CurrentCommand, PassInOrder,
        ResolvedIsFinal, Unanswered, BaseTypeOK, FlagsOK, Commands, NoCommand, Handling,
        callVars, storeVars, passVars, connVars, histVars, ConstantsAssumption
<1>1. CASE EnqueueCommand
  BY <1>1 DEF EnqueueCommand
<1>2. CASE Resume
  BY <1>2 DEF Resume
<1>3. CASE Pause
  BY <1>3 DEF Pause
<1>4. CASE SetConnected
  BY <1>4 DEF SetConnected
<1>5. CASE RunCommands
  BY <1>5 DEF RunCommands
<1>6. CASE BeginPass
  <2>1. CASE running /\ connected
    <3>1. pc' = "load" /\ snapshot' = stored /\ cur' = 0 /\ outcome' = "none"
      BY <1>6, <2>1 DEF BeginPass
    <3>2. QED
      BY <1>6, <3>1 DEF BeginPass
  <2>2. CASE ~(running /\ connected)
    BY <1>6, <2>2 DEF BeginPass
  <2>3. QED
    BY <2>1, <2>2
<1>7. CASE LoadCommand
  BY <1>7 DEF LoadCommand, IsNext
<1>8. CASE SkipMissingCommand
  BY <1>8 DEF SkipMissingCommand, IsNext
<1>9. CASE EndPass
  BY <1>9 DEF EndPass
<1>10. CASE FetchCompletionSource
  BY <1>10 DEF FetchCompletionSource
<1>11. CASE RunCommand
  BY <1>11 DEF RunCommand
<1>12. CASE BeginBackoff
  BY <1>12 DEF BeginBackoff
<1>13. CASE QuitBackoff
  BY <1>13 DEF QuitBackoff
<1>14. CASE BackoffElapsed
  BY <1>14 DEF BackoffElapsed
<1>15. CASE RemoveCommand
  BY <1>15 DEF RemoveCommand
<1>16. CASE ResolvePromise
  BY SMTT(30), <1>16 DEF ResolvePromise
<1>17. CASE StoreCommand
  <2>1. written' = written + 1 /\ stored' = stored \union {written + 1}
    BY <1>17 DEF StoreCommand
  <2>2. PassInOrder'
    BY <1>17, <2>1 DEF StoreCommand, HookReady
  <2>3. QED
    BY <1>17, <2>1, <2>2 DEF StoreCommand, HookReady
<1>18. CASE DidEnqueueCommand
  BY <1>18 DEF DidEnqueueCommand, Signalled
<1>19. CASE ApplyConnected
  BY <1>19 DEF ApplyConnected
<1>20. CASE SignalRetry
  BY <1>20 DEF SignalRetry, Signalled
<1>21. QED
  BY <1>1, <1>2, <1>3, <1>4, <1>5, <1>6, <1>7, <1>8, <1>9, <1>10,
     <1>11, <1>12, <1>13, <1>14, <1>15, <1>16, <1>17,
     <1>18, <1>19, <1>20
     DEF QueueStep, ClientStep, ProcessingStep
-----------------------------------------------------------------------------
(* What EventualDelivery sees.                                              *)

Sending == IF pc \in Handling THEN cur ELSE NoCommand

Left == (1 .. written) \ stored

\* A step that does nothing to the state that EventualDelivery speaks of.
Unseen == UNCHANGED <<accepted, Left, Sending, delivered, promise>>

LEMMA DeliveryInit == BaseInit => Delivery!Init
BY DEF BaseInit, Delivery!Init, Handling, NoCommand, Commands

LEMMA UnseenStutters == Unseen => UNCHANGED Delivery!deliveryVars
BY DEF Unseen, Left, Sending, Delivery!deliveryVars

(***************************************************************************)
(* Every step of the queue is one of EventualDelivery, or none.            *)
(***************************************************************************)
LEMMA DeliveryStep == QueueInv /\ QueueStep => Delivery!Next \/ Unseen
<1> SUFFICES ASSUME QueueInv, QueueStep PROVE Delivery!Next \/ Unseen
  OBVIOUS
<1> USE DEF Handling, callVars, storeVars, passVars, connVars, histVars
<1>1. CASE EnqueueCommand
  <2>1. Delivery!Accept
    BY <1>1 DEF EnqueueCommand, Delivery!Accept
  <2>2. QED
    BY <2>1 DEF Delivery!Next
<1>2. CASE Resume \/ Pause \/ SetConnected \/ DidEnqueueCommand \/ ApplyConnected \/ SignalRetry
  BY <1>2
     DEF Resume, Pause, SetConnected, DidEnqueueCommand, ApplyConnected, SignalRetry,
         Unseen, Left, Sending
<1>3. CASE RunCommands \/ BeginPass \/ SkipMissingCommand \/ EndPass
  BY <1>3 DEF RunCommands, BeginPass, SkipMissingCommand, EndPass, Unseen, Left, Sending
<1>4. CASE FetchCompletionSource \/ BeginBackoff
  BY <1>4 DEF FetchCompletionSource, BeginBackoff, Unseen, Left, Sending
<1>5. CASE StoreCommand
  <2>1. written' = written + 1 /\ stored' = stored \union {written + 1}
    BY <1>5 DEF StoreCommand
  <2>2. Left' = Left
    BY <2>1 DEF Left, QueueInv, BaseTypeOK
  <2>3. QED
    BY <1>5, <2>2 DEF StoreCommand, Unseen, Sending
<1>6. CASE LoadCommand
  <2>1. PICK c \in snapshot \intersect stored :
          IsNext(c) /\ cur' = c /\ pc = "load" /\ pc' = "fetch"
    BY <1>6 DEF LoadCommand
  <2>2. c \in 1 .. written /\ written \in Nat /\ accepted \in Nat /\ written <= accepted
    BY <2>1 DEF QueueInv, BaseTypeOK
  <2>3. ASSUME NEW d \in 1 .. accepted, d < c
        PROVE  d \notin stored
    BY <2>1, <2>2, <2>3 DEF QueueInv, PassInOrder, InPass, CurrentCommand, IsNext, NoCommand
  <2>4. Sending = 0 /\ Sending' = c
    BY <2>1 DEF Sending, NoCommand
  <2>5. Sending' \in (1 .. accepted) \ Left /\ \A d \in 1 .. accepted : d < Sending' => d \in Left
    BY <2>1, <2>2, <2>3, <2>4 DEF Left
  <2>6. UNCHANGED <<accepted, Left, delivered, promise>>
    BY <1>6 DEF LoadCommand, Left
  <2>7. Delivery!Send
    BY <2>4, <2>5, <2>6 DEF Delivery!Send, Left, Sending
  <2>8. QED
    BY <2>7 DEF Delivery!Next
<1>t. pc \in Handling => Sending = cur /\ cur \in 1 .. written /\ cur # 0
  BY DEF Sending, NoCommand, QueueInv, BaseTypeOK
<1>7. CASE RunCommand
  <2>1. CASE delivered' = delivered
    BY <1>7, <2>1 DEF RunCommand, Unseen, Left, Sending
  <2>2. CASE delivered' = delivered \union {cur}
    <3>1. Delivery!Execute
      BY <1>7, <1>t, <2>2 DEF RunCommand, Delivery!Execute, Left, Sending
    <3>2. QED
      BY <3>1 DEF Delivery!Next
  <2>3. QED
    BY <1>7, <2>1, <2>2 DEF RunCommand
<1>8. CASE QuitBackoff \/ BackoffElapsed
  <2>1. CASE pc' \notin Handling
    <3>1. Delivery!Release
      BY <1>8, <1>t, <2>1
         DEF QuitBackoff, BackoffElapsed, Delivery!Release, Left, Sending, NoCommand
    <3>2. QED
      BY <3>1 DEF Delivery!Next
  <2>2. CASE pc' \in Handling
    BY <1>8, <2>2 DEF QuitBackoff, BackoffElapsed, Unseen, Left, Sending
  <2>3. QED
    BY <2>1, <2>2
<1>9. CASE RemoveCommand
  <2>1. Left' = Left \union {cur}
    BY <1>9, <1>t DEF RemoveCommand, Left
  <2>2. Delivery!Finish
    BY <1>9, <1>t, <2>1 DEF RemoveCommand, Delivery!Finish, Left, Sending
  <2>3. QED
    BY <2>2 DEF Delivery!Next
<1>10. CASE ResolvePromise
  <2>1. cur \in Left /\ promise[cur] = "pending" /\ (outcome = "success" => cur \in delivered)
    BY <1>10, <1>t DEF ResolvePromise, QueueInv, CurrentCommand, Unanswered, Left
  <2>2. Sending' = 0 /\ UNCHANGED <<accepted, Left, delivered>>
    BY <1>10 DEF ResolvePromise, Sending, Left, NoCommand
  <2>3. CASE holdsSource
    <3>1. PICK a \in {"success", "error"} :
            /\ a = "success" => cur \in delivered
            /\ promise' = [promise EXCEPT ![cur] = a]
      BY <1>10, <2>1, <2>3 DEF ResolvePromise
    <3>2. Delivery!Answer
      BY <1>10, <1>t, <2>1, <2>2, <3>1 DEF ResolvePromise, Delivery!Answer, Left, Sending
    <3>3. QED
      BY <3>2 DEF Delivery!Next
  <2>4. CASE ~holdsSource
    <3>1. Delivery!Release
      BY <1>10, <1>t, <2>2, <2>4 DEF ResolvePromise, Delivery!Release, Left, Sending
    <3>2. QED
      BY <3>1 DEF Delivery!Next
  <2>5. QED
    BY <2>3, <2>4
<1>11. QED
  BY <1>1, <1>2, <1>3, <1>4, <1>5, <1>6, <1>7, <1>8, <1>9, <1>10
     DEF QueueStep, ClientStep, ProcessingStep

\* Three steps change what is stored and what was executed.
LEMMA StorageKept ==
  QueueStep =>
    StoreCommand \/ RunCommand \/ RemoveCommand \/ UNCHANGED <<written, stored, delivered>>
<1> SUFFICES ASSUME QueueStep, ~StoreCommand, ~RunCommand, ~RemoveCommand
             PROVE  UNCHANGED <<written, stored, delivered>>
  OBVIOUS
<1> USE DEF callVars, storeVars, histVars
<1>1. CASE ClientStep
  BY <1>1 DEF ClientStep, EnqueueCommand, Resume, Pause, SetConnected
<1>2. CASE RunCommands \/ BeginPass \/ LoadCommand \/ SkipMissingCommand \/ EndPass
  BY <1>2 DEF RunCommands, BeginPass, LoadCommand, SkipMissingCommand, EndPass
<1>3. CASE FetchCompletionSource \/ BeginBackoff \/ QuitBackoff \/ BackoffElapsed \/ ResolvePromise
  BY <1>3 DEF FetchCompletionSource, BeginBackoff, QuitBackoff, BackoffElapsed, ResolvePromise
<1>4. CASE DidEnqueueCommand \/ ApplyConnected \/ SignalRetry
  BY <1>4 DEF DidEnqueueCommand, ApplyConnected, SignalRetry
<1>5. QED
  BY <1>1, <1>2, <1>3, <1>4 DEF QueueStep, ProcessingStep

LEMMA WrittenGrows == QueueStep => written' = written \/ written' = written + 1
BY StorageKept DEF StoreCommand, RunCommand, RemoveCommand, callVars

LEMMA DecidedInOrder == QueueInv => FinishInOrder
BY DEF QueueInv, FinishInOrder, PassInOrder, InPass, CurrentCommand, Handling, BaseTypeOK

\* Commands that disappear from the storage are dropped.
LEMMA StoredIsDropped ==
  ASSUME QueueInv, stored' \subseteq stored,
         UNCHANGED <<accepted, written, Sending, delivered, promise>>
  PROVE  Delivery!Drop
<1>1. accepted \in Nat /\ written \in Nat /\ written <= accepted
  BY DEF QueueInv, BaseTypeOK
<1>2. Left \subseteq Left' /\ Left' \subseteq 1 .. accepted
  BY <1>1 DEF Left
<1>3. QED
  BY <1>2 DEF Delivery!Drop, Left, Sending
=============================================================================
