---------------------------- MODULE Reachability ----------------------------
(***************************************************************************)
(* PFReachability and its listener, PFEventuallyQueue.  The system reports *)
(* network changes; each one is a barrier block on a concurrent queue that *)
(* stores the flags and submits a block that notifies the listeners.  A    *)
(* queue registers as a listener, then reads the state and applies it to   *)
(* its connected property; the notifications apply theirs meanwhile.       *)
(***************************************************************************)
EXTENDS Naturals, SequencesExt

CONSTANTS
  Listeners,    \* eventually queues
  None,
  MaxChanges    \* bound: network changes

VARIABLES
  network,    \* what the system says: is the server reachable
  flags,      \* _flags, as far as reachability goes
  listeners,  \* _listenersArray, in whatever order
  blocks,     \* submitted blocks that have not ended, in order
  alive,      \* listeners not deallocated
  client,     \* how far a queue is in starting or stopping to monitor
  read,       \* the state a starting queue has read
  monitors,   \* monitorsReachability
  connected,  \* connected of a queue
  changes,    \* bound counter
  overtaken   \* history: queues notified between their read and its use

vars == <<network, flags, listeners, blocks, alive, client, read, monitors,
          connected, changes, overtaken>>

Barriers == {"add", "remove", "setFlags", "prune"}
Phases == {"new", "add", "read", "apply", "monitoring", "remove", "unlisted",
           "quiet", "stopped"}

\* A notify block has listeners still to call and one it is calling.
Blocks == [kind : Barriers \union {"read", "notify"}, listener : Listeners \union {None},
           state : BOOLEAN, started : BOOLEAN, todo : SUBSET Listeners]

TypeOK ==
  /\ network \in BOOLEAN /\ flags \in BOOLEAN
  /\ listeners \subseteq Listeners
  /\ blocks \in Seq(Blocks)
  /\ alive \subseteq Listeners
  /\ client \in [Listeners -> Phases]
  /\ read \in [Listeners -> BOOLEAN]
  /\ monitors \subseteq Listeners /\ connected \subseteq Listeners
  /\ changes \in 0 .. MaxChanges
  /\ overtaken \subseteq Listeners

Block(k, l, s) ==
  [kind |-> k, listener |-> l, state |-> s, started |-> FALSE, todo |-> {}]

\* Monitoring begins with the flags the system has at the time.
Init ==
  /\ network \in BOOLEAN
  /\ flags = FALSE
  /\ listeners = {}
  /\ blocks = <<Block("setFlags", None, network)>>
  /\ alive = Listeners
  /\ client = [l \in Listeners |-> "new"]
  /\ read = [l \in Listeners |-> FALSE]
  /\ monitors = {} /\ connected = {} /\ changes = 0 /\ overtaken = {}

\* Block i may run: a barrier alone, any other with no barrier before it.
CanRun(i) ==
  IF blocks[i].kind \in Barriers THEN i = 1
  ELSE \A j \in 1 .. i - 1 : blocks[j].kind \notin Barriers

-----------------------------------------------------------------------------
(* Flags and notifications.                                                *)

\* Mutant: changes without number.
NetworkFlaps ==
  /\ changes' = changes + 1
  /\ network' = ~network
  /\ blocks' = Append(blocks, Block("setFlags", None, network'))
  /\ UNCHANGED <<flags, listeners, alive, client, read, monitors, connected, overtaken>>

NetworkChanges ==
  /\ changes < MaxChanges
  /\ changes' = changes + 1
  /\ network' = ~network
  /\ blocks' = Append(blocks, Block("setFlags", None, network'))
  /\ UNCHANGED <<flags, listeners, alive, client, read, monitors, connected, overtaken>>

\* Mutant: the block that stores the flags is not a barrier.
SetFlagsAtOnce(i) ==
  /\ blocks[i].kind = "setFlags"
  /\ flags' = blocks[i].state
  /\ blocks' = Append(RemoveAt(blocks, i), Block("notify", None, FALSE))
  /\ UNCHANGED <<network, listeners, alive, client, read, monitors, connected,
                 changes, overtaken>>

\* The flags are stored and a notification is submitted.
SetFlags(i) ==
  /\ CanRun(i) /\ blocks[i].kind = "setFlags"
  /\ flags' = blocks[i].state
  /\ blocks' = Append(RemoveAt(blocks, i), Block("notify", None, FALSE))
  /\ UNCHANGED <<network, listeners, alive, client, read, monitors, connected,
                 changes, overtaken>>

BeginNotify(i) ==
  /\ CanRun(i) /\ blocks[i].kind = "notify" /\ ~blocks[i].started
  /\ blocks' = [blocks EXCEPT ![i].started = TRUE, ![i].state = flags,
                              ![i].todo = listeners]
  /\ UNCHANGED <<network, flags, listeners, alive, client, read, monitors,
                 connected, changes, overtaken>>

\* A listener that is still to be called: it looks at monitorsReachability ...
CallListener(i) ==
  /\ blocks[i].kind = "notify" /\ blocks[i].listener = None
  /\ \E l \in blocks[i].todo :
       blocks' = [blocks EXCEPT ![i].todo = @ \ {l},
                                ![i].listener = IF l \in alive \intersect monitors
                                                  THEN l ELSE None]
  /\ UNCHANGED <<network, flags, listeners, alive, client, read, monitors,
                 connected, changes, overtaken>>

Connect(l, s) == IF s THEN connected \union {l} ELSE connected \ {l}

\* ... and then sets connected.
ApplyNotification(i) ==
  /\ blocks[i].kind = "notify" /\ blocks[i].listener # None
  /\ LET l == blocks[i].listener IN
       /\ connected' = Connect(l, blocks[i].state)
       /\ overtaken' = IF client[l] \in {"read", "apply"}
                         THEN overtaken \union {l} ELSE overtaken
  /\ blocks' = [blocks EXCEPT ![i].listener = None]
  /\ UNCHANGED <<network, flags, listeners, alive, client, read, monitors, changes>>

\* All listeners called: a block to forget the dead ones is submitted.
EndNotify(i) ==
  /\ blocks[i].kind = "notify" /\ blocks[i].started
  /\ blocks[i].listener = None /\ blocks[i].todo = {}
  /\ blocks' = Append(RemoveAt(blocks, i), Block("prune", None, FALSE))
  /\ UNCHANGED <<network, flags, listeners, alive, client, read, monitors,
                 connected, changes, overtaken>>

Prune(i) ==
  /\ CanRun(i) /\ blocks[i].kind = "prune"
  /\ listeners' = listeners \intersect alive
  /\ blocks' = RemoveAt(blocks, i)
  /\ UNCHANGED <<network, flags, alive, client, read, monitors, connected,
                 changes, overtaken>>

-----------------------------------------------------------------------------
(* A queue starts and stops monitoring; each dispatch_sync is a submission *)
(* and, in the block's turn, its end.                                      *)

Submit(l, from, to, kind) ==
  /\ client[l] = from /\ l \in alive
  /\ client' = [client EXCEPT ![l] = to]
  /\ blocks' = Append(blocks, Block(kind, l, FALSE))

StartMonitoring(l) ==
  /\ Submit(l, "new", "add", "add")
  /\ monitors' = monitors \union {l}
  /\ UNCHANGED <<network, flags, listeners, alive, read, connected, changes, overtaken>>

\* addListener returns; currentState is asked for.
AddListener(i) ==
  /\ CanRun(i) /\ blocks[i].kind = "add"
  /\ LET l == blocks[i].listener IN
       /\ listeners' = listeners \union {l}
       /\ client' = [client EXCEPT ![l] = "read"]
       /\ blocks' = Append(RemoveAt(blocks, i), Block("read", l, FALSE))
  /\ UNCHANGED <<network, flags, alive, read, monitors, connected, changes, overtaken>>

ReadState(i) ==
  /\ CanRun(i) /\ blocks[i].kind = "read"
  /\ LET l == blocks[i].listener IN
       /\ read' = [read EXCEPT ![l] = flags]
       /\ client' = [client EXCEPT ![l] = "apply"]
       /\ overtaken' = overtaken \ {l}
  /\ blocks' = RemoveAt(blocks, i)
  /\ UNCHANGED <<network, flags, listeners, alive, monitors, connected, changes>>

ApplyInitialState(l) ==
  /\ client[l] = "apply"
  /\ connected' = Connect(l, read[l])
  /\ client' = [client EXCEPT ![l] = "monitoring"]
  /\ UNCHANGED <<network, flags, listeners, blocks, alive, read, monitors,
                 changes, overtaken>>

StopMonitoring(l) ==
  /\ Submit(l, "monitoring", "remove", "remove")
  /\ UNCHANGED <<network, flags, listeners, alive, read, monitors, connected,
                 changes, overtaken>>

\* The predicate of removeListener keeps what it should drop.
RemoveListener(i) ==
  /\ CanRun(i) /\ blocks[i].kind = "remove"
  /\ LET l == blocks[i].listener IN
       /\ listeners' = {m \in listeners : m \notin alive \/ m = l}
       /\ client' = [client EXCEPT ![l] = "unlisted"]
  /\ blocks' = RemoveAt(blocks, i)
  /\ UNCHANGED <<network, flags, alive, read, monitors, connected, changes, overtaken>>

StopListening(l) ==
  /\ client[l] = "unlisted"
  /\ client' = [client EXCEPT ![l] = "quiet"]
  /\ monitors' = monitors \ {l}
  /\ UNCHANGED <<network, flags, listeners, blocks, alive, read, connected,
                 changes, overtaken>>

AssumeConnected(l) ==
  /\ client[l] = "quiet"
  /\ client' = [client EXCEPT ![l] = "stopped"]
  /\ connected' = connected \union {l}
  /\ UNCHANGED <<network, flags, listeners, blocks, alive, read, monitors,
                 changes, overtaken>>

\* A queue is deallocated; no call of its own is under way.
Dealloc(l) ==
  /\ l \in alive /\ client[l] \in {"new", "monitoring", "stopped"}
  /\ \A i \in DOMAIN blocks : blocks[i].listener # l
  /\ alive' = alive \ {l}
  /\ UNCHANGED <<network, flags, listeners, blocks, client, read, monitors,
                 connected, changes, overtaken>>

Next ==
  \/ NetworkChanges
  \/ \E i \in DOMAIN blocks :
       \/ SetFlags(i) \/ BeginNotify(i) \/ CallListener(i)
       \/ ApplyNotification(i) \/ EndNotify(i) \/ Prune(i)
       \/ AddListener(i) \/ ReadState(i) \/ RemoveListener(i)
  \/ \E l \in Listeners :
       \/ StartMonitoring(l) \/ ApplyInitialState(l) \/ StopMonitoring(l)
       \/ StopListening(l) \/ AssumeConnected(l) \/ Dealloc(l)

Spec == Init /\ [][Next]_vars

-----------------------------------------------------------------------------
(***************************************************************************)
(* The last state wins: when no block is left, a queue that monitors and   *)
(* is still listed is connected exactly when the network is reachable,     *)
(* unless a notification overtook its initial status.                      *)
(***************************************************************************)
AgreesWhenQuiet ==
  \A l \in Listeners :
    (blocks = <<>> /\ client[l] = "monitoring" /\ l \in alive /\ l \in listeners
       /\ l \notin overtaken)
      => (l \in connected <=> network)
=============================================================================
