--------------------------- MODULE MCStoredQueues ---------------------------
(***************************************************************************)
(* Model checking of the two eventually queues that keep their commands on *)
(* disk, and of what they owe the application after it was closed.  In a   *)
(* behaviour the queue is one of the two (Parse uses the pins when the     *)
(* local datastore is enabled, the command cache otherwise); the state of  *)
(* the base class is the same.                                             *)
(***************************************************************************)
EXTENDS PinningEventuallyQueue

CONSTANTS Sizes, DiskCacheSize, EntrySize, BackandChoices  \* of CommandCache

ASSUME CacheAssumption ==
  /\ Sizes \subseteq Nat
  /\ {DiskCacheSize, EntrySize} \subseteq Nat
  /\ BackandChoices \subseteq BOOLEAN

VARIABLES kind, size, cleaned, evicting, removals, crashes, usingBackand, dropped

Files == INSTANCE CommandCache

pinOnlyVars == <<queueVars, objectVars, finishVars, disruptions, discarded, wiped, sentEmpty>>
fileOnlyVars == <<size, cleaned, evicting, removals, crashes, usingBackand, dropped>>
fileVars == <<fileOnlyVars, removing, listed, failed>>
allVars == <<kind, pinVars, fileOnlyVars>>

\* Of the queue that takes no step one initial state is enough.
AllInit ==
  /\ kind \in {"pins", "files"}
  /\ Init /\ Files!Init

AllNext ==
  \/ kind = "pins" /\ Next /\ UNCHANGED <<kind, fileOnlyVars>>
  \/ kind = "files" /\ Files!Next /\ UNCHANGED <<kind, pinOnlyVars>>

PinsFair(A) == kind = "pins" /\ A /\ UNCHANGED <<kind, fileOnlyVars>>
FilesFair(A) == kind = "files" /\ A /\ UNCHANGED <<kind, pinOnlyVars>>

\* The fairness of the queue there is, step by step as the two modules state it.
AllFairness ==
  /\ WF_allVars(\/ PinsFair(BasePassStep /\ UNCHANGED extraVars)
                \/ FilesFair(Files!PassStep /\ UNCHANGED fileVars))
  /\ WF_allVars(PinsFair(RunStep) \/ FilesFair(Files!RemoveCommandFile \/ Files!LoadRaises))
  /\ WF_allVars(\/ PinsFair((DidEnqueueCommand \/ SignalRetry) /\ UNCHANGED extraVars)
                \/ FilesFair((DidEnqueueCommand \/ SignalRetry) /\ UNCHANGED fileVars))
  /\ WF_allVars(\/ PinsFair(ApplyConnected /\ UNCHANGED extraVars)
                \/ FilesFair(ApplyConnected /\ UNCHANGED fileVars))
  /\ WF_allVars(\/ PinsFair(StorePin)
                \/ FilesFair(\/ Files!RejectCommand \/ Files!CleanupDiskCache
                          \/ Files!WriteCommand \/ Files!WriteFails))
  /\ WF_allVars(PinsFair(OfferOperationSet) \/ FilesFair(Files!EvictCommand))
  /\ WF_allVars(\/ PinsFair(FindPins \/ UnpinListed \/ ClearMemory)
                \/ FilesFair(Files!ListFiles \/ Files!RemoveListedFile \/ Files!EndRemoveAllCommands))
  /\ WF_allVars(\/ PinsFair(disruptions > 0 /\ Resume /\ UNCHANGED extraVars)
                \/ FilesFair(crashes > 0 /\ Resume /\ UNCHANGED fileVars))

AllSpec == AllInit /\ [][AllNext]_allVars /\ AllFairness

-----------------------------------------------------------------------------
\* The types of both queues.
AllTypeOK == IF kind = "pins" THEN TypeOK ELSE Files!TypeOK

\* A pinned command stays pinned, as PinningEventuallyQueue states it.
PinsKept == kind = "pins" => PinnedUntilDecided

\* Every stored command leaves the disk, whichever the queue
\* (PinningEventuallyQueue states it; of the command cache nothing is wiped).
AllEventuallySent == EventuallySent
=============================================================================
