---------------------------- MODULE MCStandalone ----------------------------
(***************************************************************************)
(* Model checking of components that share no state: the locks of several  *)
(* processes, the local id store, the names of command files, reachability *)
(* and the key-value cache.  In a behaviour only one of them takes steps,  *)
(* which is enough for properties of each alone.                           *)
(***************************************************************************)
EXTENDS MultiProcessLock, Sequences

CONSTANTS
  LocalIds, ObjectIds, NoId, MaxRetains,              \* of LocalIdStore
  MaxCounter, MaxTime, MaxCommands, MaxDisturbances,  \* of CommandIdentifiers
  Listeners, None, MaxChanges,                        \* of Reachability
  Threads, Keys, Values, MaxRecords, MaxBytes, MaxInMemory, MaxAges, MaxCalls
                                                      \* of KeyValueCache

VARIABLES
  component,
  file, cache,
  now, counter, files, era,
  network, flags, listeners, blocks, alive, client, read, monitors, connected,
  changes, overtaken,
  clock, calls, memory, disk, dirDate, index, diskQueue, thread, latest, raced, excess

\* An application with two workers, an extension that shares both files with it,
\* and one that shares one of them.
LockUses ==
  {<<"app", "w1", "f1">>, <<"app", "w1", "f2">>, <<"app", "w2", "f1">>,
   <<"ext", "w1", "f1">>, <<"ext", "w1", "f2">>, <<"other", "w1", "f2">>}

\* What the instances assume of their constants.
ASSUME IdAssumption == NoId \notin ObjectIds /\ MaxRetains \in Nat

ASSUME NameAssumption == {MaxCounter, MaxTime, MaxCommands, MaxDisturbances} \subseteq Nat

ASSUME ReachAssumption == None \notin Listeners /\ MaxChanges \in Nat

\* A value is its number of bytes, and 0 is no value.
ASSUME CacheAssumption ==
  /\ Values \subseteq Nat \ {0}
  /\ {MaxRecords, MaxBytes, MaxInMemory, MaxAges, MaxCalls} \subseteq Nat

Ids == INSTANCE LocalIdStore
Identifiers == INSTANCE CommandIdentifiers
Reach == INSTANCE Reachability
Cache == INSTANCE KeyValueCache WITH now <- clock, blocks <- diskQueue, MaxTime <- MaxAges

idVars == <<file, cache>>
nameVars == <<now, counter, files, era>>
reachVars == <<network, flags, listeners, blocks, alive, client, read, monitors,
               connected, changes, overtaken>>
cacheVars == <<clock, calls, memory, disk, dirDate, index, diskQueue, thread, latest, raced,
               excess>>
allVars == <<component, vars, idVars, nameVars, reachVars, cacheVars>>

Components == {"locks", "local ids", "identifiers", "reachability", "key-value cache"}

AllInit ==
  /\ component \in Components
  /\ Init /\ Ids!Init /\ Identifiers!Init /\ Reach!Init /\ Cache!Init
  /\ component # "reachability" => network   \* one initial state is enough

AllNext ==
  \/ /\ component = "locks" /\ Next
     /\ UNCHANGED <<component, idVars, nameVars, reachVars, cacheVars>>
  \/ /\ component = "local ids" /\ Ids!Next
     /\ UNCHANGED <<component, vars, nameVars, reachVars, cacheVars>>
  \/ /\ component = "identifiers" /\ Identifiers!Next
     /\ UNCHANGED <<component, vars, idVars, reachVars, cacheVars>>
  \/ /\ component = "reachability" /\ Reach!Next
     /\ UNCHANGED <<component, vars, idVars, nameVars, cacheVars>>
  \/ /\ component = "key-value cache" /\ Cache!Next
     /\ UNCHANGED <<component, vars, idVars, nameVars, reachVars>>

AllSpec == AllInit /\ [][AllNext]_allVars /\ Fairness

-----------------------------------------------------------------------------
\* The types of all five.
AllTypeOK ==
  component \in Components /\ TypeOK /\ Ids!TypeOK /\ Identifiers!TypeOK /\ Reach!TypeOK /\ Cache!TypeOK

\* Memory and disk agree about every local id, as LocalIdStore states it.
MemoryAgreesWithDisk == Ids!MemoryAgreesWithDisk

\* Names of stored commands sort in the order of storing, as
\* CommandIdentifiers states it.
OldestFirst == Identifiers!OldestFirst

\* The last state of the network wins, as Reachability states it.
AgreesWhenQuiet == Reach!AgreesWhenQuiet

\* A quiet key holds its last value or nothing, as KeyValueCache states it.
CoherentWhenQuiet == Cache!CoherentWhenQuiet
=============================================================================
