-------------------- MODULE MemoryEventuallyQueueProofs --------------------
(***************************************************************************)
(* Proofs about PFEventuallyQueue with its in-memory storage, for every    *)
(* number of commands, of attempts and of client calls.                    *)
(***************************************************************************)
EXTENDS MemoryEventuallyQueue, EventuallyQueueProofs

IInv == TypeOK /\ QueueInv

-----------------------------------------------------------------------------
LEMMA IInvInit == Init => IInv
<1> SUFFICES ASSUME Init PROVE IInv
  OBVIOUS
<1>1. QueueInv
  BY QueueInvInit DEF Init
<1>2. removing \in BOOLEAN
  BY Zenon DEF Init
<1>3. removals \in 0 .. MaxRemovals /\ discarded \subseteq 1 .. written
  BY MaxRemovalsAssumption DEF Init, MaxRemovalsAssumption
<1>4. QED
  BY <1>1, <1>2, <1>3 DEF IInv, TypeOK, QueueInv

LEMMA StepKinds ==
  [Next]_memVars =>
    \/ UNCHANGED memVars
    \/ QueueStep /\ UNCHANGED <<removing, removals, discarded>>
    \/ BeginRemoveAllCommands
    \/ EndRemoveAllCommands
BY DEF Next, BaseStep, QueueStep

\* The first critical section drops the completion sources.
LEMMA BeginRemoveKeeps == IInv /\ BeginRemoveAllCommands => QueueInv'
<1> SUFFICES ASSUME IInv, BeginRemoveAllCommands PROVE QueueInv'
  OBVIOUS
<1>1. FlagsOK'
  BY Zenon DEF IInv, QueueInv, BaseTypeOK, FlagsOK, BeginRemoveAllCommands, connVars,
               histVars, passVars
<1>2. QED
  BY <1>1
     DEF BeginRemoveAllCommands, IInv, QueueInv, NoLostWakeup, PassCoversStored, InPass,
         CurrentCommand, PassInOrder, ResolvedIsFinal, Unanswered, BaseTypeOK, Handling,
         callVars, passVars, connVars, histVars

\* The second drops the commands: nothing is left to be covered or in order.
LEMMA EndRemoveKeeps == IInv /\ EndRemoveAllCommands => QueueInv'
<1> SUFFICES ASSUME IInv, EndRemoveAllCommands PROVE QueueInv'
  OBVIOUS
<1>1. FlagsOK'
  BY Zenon DEF IInv, QueueInv, BaseTypeOK, FlagsOK, EndRemoveAllCommands, connVars,
               histVars, passVars
<1>2. QED
  BY <1>1
     DEF EndRemoveAllCommands, IInv, QueueInv, NoLostWakeup, PassCoversStored, InPass,
         CurrentCommand, PassInOrder, ResolvedIsFinal, Unanswered, BaseTypeOK, Handling,
         callVars, passVars, connVars, histVars

(***************************************************************************)
(* Every step preserves the inductive invariant.                           *)
(***************************************************************************)
LEMMA IInvStep == IInv /\ [Next]_memVars => IInv'
<1> SUFFICES ASSUME IInv, [Next]_memVars PROVE IInv'
  OBVIOUS
<1>q. QueueInv'
  <2>1. CASE UNCHANGED memVars
    BY <2>1
       DEF memVars, vars, callVars, storeVars, passVars, connVars, histVars, IInv, QueueInv,
           BaseTypeOK, FlagsOK, NoLostWakeup, PassCoversStored, InPass, CurrentCommand,
           PassInOrder, ResolvedIsFinal, Unanswered
  <2>2. QED
    BY <2>1, StepKinds, QueueInvStep, BeginRemoveKeeps, EndRemoveKeeps DEF IInv
<1>b. removing' \in BOOLEAN
  BY StepKinds, Zenon
     DEF IInv, TypeOK, memVars, BeginRemoveAllCommands, EndRemoveAllCommands
<1>w. written \in Nat /\ (written' = written \/ written' = written + 1)
  <2>1. written' = written \/ written' = written + 1
    BY StepKinds, WrittenGrows
       DEF memVars, vars, callVars, BeginRemoveAllCommands, EndRemoveAllCommands
  <2>2. QED
    BY <2>1 DEF IInv, QueueInv, BaseTypeOK
<1>r. removals' \in 0 .. MaxRemovals /\ discarded' \subseteq 1 .. written'
  <2>1. CASE UNCHANGED <<removals, discarded>>
    BY <1>w, <2>1 DEF IInv, TypeOK
  <2>2. CASE BeginRemoveAllCommands
    BY <1>w, <2>2, MaxRemovalsAssumption
       DEF IInv, TypeOK, BeginRemoveAllCommands, callVars, MaxRemovalsAssumption
  <2>3. CASE EndRemoveAllCommands
    BY <1>w, <2>3 DEF IInv, TypeOK, BaseTypeOK, EndRemoveAllCommands, callVars
  <2>4. QED
    BY <2>1, <2>2, <2>3, StepKinds DEF memVars
<1>z. QED
  BY <1>q, <1>b, <1>r DEF IInv, TypeOK, QueueInv

LEMMA Invariance == Spec => []IInv
BY IInvInit, IInvStep, PTL DEF Spec

-----------------------------------------------------------------------------
(***************************************************************************)
(* Type correctness.                                                       *)
(***************************************************************************)
THEOREM TypeCorrect == Spec => []TypeOK
BY Invariance, PTL DEF IInv

(***************************************************************************)
(* An idle, running and connected queue with registered commands has a     *)
(* kick pending or was woken from a retry wait: _runCommands never goes to *)
(* sleep on work it has not seen.                                          *)
(***************************************************************************)
THEOREM WakeupsAreNotLost == Spec => []NoLostWakeup
BY Invariance, PTL DEF IInv, QueueInv

(***************************************************************************)
(* No command is decided before an earlier one that is still stored.       *)
(***************************************************************************)
THEOREM CommandsFinishInOrder == Spec => []FinishInOrder
BY Invariance, DecidedInOrder, PTL DEF IInv

(***************************************************************************)
(* A resolved promise is final, and truthful about success.                *)
(***************************************************************************)
THEOREM AnswersAreFinal == Spec => []ResolvedIsFinal
BY Invariance, PTL DEF IInv, QueueInv

-----------------------------------------------------------------------------
(***************************************************************************)
(* Every step of the queue is one of EventualDelivery, or none.            *)
(***************************************************************************)
LEMMA MemoryDeliveryStep ==
  IInv /\ [Next]_memVars => [Delivery!Next]_(Delivery!deliveryVars)
<1> SUFFICES ASSUME IInv, [Next]_memVars PROVE Delivery!Next \/ Unseen
  BY UnseenStutters
<1>1. CASE UNCHANGED memVars
  BY <1>1 DEF memVars, vars, callVars, storeVars, passVars, connVars, histVars, Unseen, Left, Sending
<1>2. CASE QueueStep
  BY <1>2, DeliveryStep DEF IInv
<1>3. CASE BeginRemoveAllCommands
  BY <1>3 DEF BeginRemoveAllCommands, callVars, passVars, histVars, Unseen, Left, Sending
<1>4. CASE EndRemoveAllCommands
  <2>1. stored' = {} /\ UNCHANGED <<accepted, written, Sending, delivered, promise>>
    BY <1>4 DEF EndRemoveAllCommands, callVars, passVars, histVars, Sending
  <2>2. Delivery!Drop
    BY <2>1, StoredIsDropped DEF IInv
  <2>3. QED
    BY <2>2 DEF Delivery!Next
<1>5. QED
  BY <1>1, <1>2, <1>3, <1>4, StepKinds

(***************************************************************************)
(* The queue in memory delivers as EventualDelivery says: commands go out  *)
(* one at a time, each when all before it have left, and an answer is      *)
(* given once and is true (PFEventuallyQueue with PFMemoryEventuallyQueue).*)
(***************************************************************************)
THEOREM MemoryQueueDelivers == Spec => DeliversInOrder
<1>1. Init => Delivery!Init
  BY DeliveryInit DEF Init
<1>2. Spec => Delivery!Init /\ [][Delivery!Next]_(Delivery!deliveryVars)
  BY <1>1, MemoryDeliveryStep, Invariance, PTL DEF Spec
<1>3. QED
  BY <1>2 DEF DeliversInOrder, Delivery!Spec
=============================================================================
