------------------------------ MODULE MCQueues ------------------------------
(***************************************************************************)
(* Model checking of two things that hold back what is to be sent: the     *)
(* task queues of objects and the command cache.  Each is specified alone, *)
(* and in a behaviour only one of them takes steps.                        *)
(***************************************************************************)
EXTENDS MCObjectTaskQueues

CONSTANTS
  NumCommands, MaxAttempts, MaxNotifications, MaxPauses, Sizes, DiskCacheSize, EntrySize,
  BackandChoices, MaxDisruptions                        \* of CommandCache

ASSUME CountsAssumption ==
  /\ NumCommands \in Nat \ {0}
  /\ {MaxAttempts, MaxNotifications, MaxPauses} \subseteq Nat

ASSUME CacheAssumption ==
  /\ Sizes \subseteq Nat
  /\ {DiskCacheSize, EntrySize, MaxDisruptions} \subseteq Nat
  /\ BackandChoices \subseteq BOOLEAN

VARIABLES
  kind,
  accepted, written, registered, stored, sources, promise, running, connected, kick, pc,
  snapshot, cur, holdsSource, outcome, retries, semaphore, request, signals, calls,
  delivered, stranded, size, cleaned, evicting, removing, listed, removals, crashes,
  usingBackand, dropped, failed

Cache == INSTANCE CommandCache

cacheVars == <<accepted, written, registered, stored, sources, promise, running, connected,
               kick, pc, snapshot, cur, holdsSource, outcome, retries, semaphore, request,
               signals, calls, delivered, stranded, size, cleaned, evicting, removing, listed,
               removals, crashes, usingBackand, dropped, failed>>
allVars == <<kind, vars, cacheVars>>

Idle == CHOOSE i \in Instances : TRUE

\* Of the component that takes no step one initial state is enough.
AllInit ==
  /\ kind \in {"tasks", "commands", "disruptions"}
  /\ Init /\ Cache!Init
  /\ kind = "tasks" => connected /\ usingBackand = CHOOSE b \in BackandChoices : TRUE
  /\ kind # "tasks" => /\ new = {} /\ changed = {}
                       /\ points = Idle.points /\ client.saveAll = Idle.saveAll

\* Bound: disruptions come with one command less than there may be.
Disrupted == removals + crashes > 0
DisruptionsBound == IF kind = "disruptions" THEN accepted < NumCommands ELSE ~Disrupted

AllNext ==
  \/ kind = "tasks" /\ Next /\ UNCHANGED <<kind, cacheVars>>
  \/ kind # "tasks" /\ Cache!Next /\ UNCHANGED <<kind, vars>> /\ DisruptionsBound'

AllSpec == AllInit /\ [][AllNext]_allVars

-----------------------------------------------------------------------------
\* The types of both.
AllTypeOK == TypeOK /\ Cache!TypeOK

\* A command that was written is not lost, and eviction is oldest first, as CommandCache states it.
NothingLost == Cache!NothingLost

\* The command cache delivers as EventualDelivery says, also when it evicts and
\* when the process dies (EventuallyQueue states it).
DeliversInOrder == Cache!DeliversInOrder
=============================================================================
