---------------------------- MODULE LocalIdStore ----------------------------
(***************************************************************************)
(* PFObjectLocalIdStore: the map from the local ids of objects that have   *)
(* not been saved to the object ids the server gave them.  It has a memory *)
(* cache and one file per local id, which exists while the id is retained. *)
(* Every operation holds the store's lock, so it is one step here.         *)
(***************************************************************************)
EXTENDS Integers

CONSTANTS
  LocalIds,     \* local ids in use
  ObjectIds,    \* ids the server may assign
  NoId,         \* nil
  MaxRetains    \* bound on the retain count of an entry

ASSUME LocalIdAssumption == NoId \notin ObjectIds /\ MaxRetains \in Nat

VARIABLES
  file,   \* local id -> its entry on disk; retain count 0 means no file
  cache   \* _inMemoryCache: local id -> object id or nil

vars == <<file, cache>>

Entries == [referenceCount : 0 .. MaxRetains, objectId : ObjectIds \union {NoId}]
NoEntry == [referenceCount |-> 0, objectId |-> NoId]

TypeOK ==
  /\ file \in [LocalIds -> Entries]
  /\ cache \in [LocalIds -> ObjectIds \union {NoId}]

Init ==
  /\ file = [l \in LocalIds |-> NoEntry]
  /\ cache = [l \in LocalIds |-> NoId]

-----------------------------------------------------------------------------
\* getMapEntry: the file's entry, completed from memory.
MapEntry(l) ==
  IF file[l].objectId = NoId THEN [file[l] EXCEPT !.objectId = cache[l]]
                             ELSE file[l]

\* The write-back getMapEntry does for an entry that is retained on disk.
WrittenBack(l) ==
  IF file[l].referenceCount > 0 THEN [file EXCEPT ![l] = MapEntry(l)] ELSE file

RetainLocalIdOnDisk(l) ==
  /\ file[l].referenceCount < MaxRetains
  /\ file' = [file EXCEPT ![l] =
                [MapEntry(l) EXCEPT !.referenceCount = @ + 1]]
  /\ UNCHANGED cache

\* Mutant: an excess release is counted.
ReleaseBelowZero(l) ==
  /\ file' = [file EXCEPT ![l] = [MapEntry(l) EXCEPT !.referenceCount = @ - 1]]
  /\ UNCHANGED cache

\* The last release, and any excess one, removes the file.
ReleaseLocalIdOnDisk(l) ==
  /\ file' = [file EXCEPT ![l] =
                IF MapEntry(l).referenceCount > 1
                  THEN [MapEntry(l) EXCEPT !.referenceCount = @ - 1]
                  ELSE NoEntry]
  /\ UNCHANGED cache

\* Mutant: an id that is retained is resolved in memory only.
SetObjectIdInMemory(o, l) ==
  /\ cache' = [cache EXCEPT ![l] = o]
  /\ file' = WrittenBack(l)

SetObjectId(o, l) ==
  /\ file' = IF file[l].referenceCount > 0
               THEN [file EXCEPT ![l].objectId = o]
               ELSE file
  /\ cache' = [cache EXCEPT ![l] = o]

\* What objectIdForLocalId: answers.
ObjectIdForLocalId(l) == IF cache[l] # NoId THEN cache[l] ELSE MapEntry(l).objectId

LookUp(l) ==
  /\ file' = IF cache[l] = NoId THEN WrittenBack(l) ELSE file
  /\ UNCHANGED cache

\* clear.
Clear ==
  /\ file' = [l \in LocalIds |-> NoEntry]
  /\ cache' = [l \in LocalIds |-> NoId]

\* clearInMemoryCache, and what the death of the process does.
ForgetMemory ==
  /\ cache' = [l \in LocalIds |-> NoId]
  /\ UNCHANGED file

Next ==
  \/ \E l \in LocalIds :
       \/ RetainLocalIdOnDisk(l)
       \/ ReleaseLocalIdOnDisk(l)
       \/ LookUp(l)
       \/ \E o \in ObjectIds : SetObjectId(o, l)
  \/ Clear
  \/ ForgetMemory

Spec == Init /\ [][Next]_vars

-----------------------------------------------------------------------------
(***************************************************************************)
(* Memory and disk never disagree about an id that both have resolved, and *)
(* memory knows nothing of a retained id that the disk does not: an id     *)
(* resolved before it was retained is written when it is retained.         *)
(***************************************************************************)
MemoryAgreesWithDisk ==
  \A l \in LocalIds :
    (file[l].referenceCount > 0 /\ cache[l] # NoId) => file[l].objectId = cache[l]

(***************************************************************************)
(* The death of the process does not change the answer for an id that is   *)
(* retained on disk.                                                       *)
(***************************************************************************)
RetainedSurvivesReboot ==
  [][ForgetMemory =>
       \A l \in LocalIds : file[l].referenceCount > 0 =>
         ObjectIdForLocalId(l)' = ObjectIdForLocalId(l)]_vars

(***************************************************************************)
(* "The entry will be removed from the map if the retain count reaches 0": *)
(* an id that nobody retains leaves nothing on disk.                       *)
(***************************************************************************)
UnretainedLeavesNoFile ==
  \A l \in LocalIds : file[l].referenceCount = 0 => file[l].objectId = NoId
=============================================================================
