---------------------------- MODULE CommandCache ----------------------------
(***************************************************************************)
(* PFCommandCache: PFEventuallyQueue with one file per command in a        *)
(* directory shared by every run of the application.  Storing a command    *)
(* may evict old ones, removing files is asynchronous, and the process may *)
(* die between any two steps: files survive, everything else is lost.      *)
(*                                                                         *)
(* Identifiers sort in the order of enqueueing here; CommandIdentifiers    *)
(* says when they do.                                                      *)
(***************************************************************************)
EXTENDS EventuallyQueue, FiniteSets

CONSTANTS
  Sizes,          \* possible sizes of a serialized command
  DiskCacheSize,  \* diskCacheSize
  EntrySize,      \* what one entry adds to the directory's own file size
  BackandChoices, \* values of [Parse usingBackand] to start from
  MaxDisruptions  \* bound: removeAllCommands calls and deaths of the process

VARIABLES
  size,      \* size of the file of a stored command
  cleaned,   \* the command being saved has had its cleanup
  evicting,  \* files whose asynchronous removal has not run yet
  removing,  \* "none", or the phase of a removeAllCommands
  listed,    \* files that removeAllCommands has still to remove
  removals,  \* bound counters
  crashes,
  usingBackand,  \* [Parse usingBackand], fixed for a behaviour
  dropped,   \* history: commands evicted, discarded, or never stored
  failed     \* history: commands removed after a final error, or that could
             \* not be read

diskVars == <<size, cleaned, evicting>>
removeVars == <<removing, listed, removals>>
cacheHist == <<dropped, failed>>
crashVars == <<crashes, usingBackand>>
extraVars == <<diskVars, removeVars, crashVars, cacheHist>>
cacheVars == <<vars, extraVars>>

TypeOK ==
  /\ BaseTypeOK
  /\ size \in [Commands -> Sizes \union {0}]
  /\ cleaned \in BOOLEAN
  /\ evicting \subseteq 1 .. written
  /\ removing \in {"none", "paused", "listed"}
  /\ listed \subseteq 1 .. written
  /\ removals \in 0 .. MaxDisruptions /\ crashes \in 0 .. MaxDisruptions
  /\ usingBackand \in BackandChoices
  /\ dropped \subseteq 1 .. accepted /\ failed \subseteq 1 .. accepted

Init ==
  /\ BaseInit
  /\ size = [c \in Commands |-> 0] /\ cleaned = FALSE /\ evicting = {}
  /\ removing = "none" /\ listed = {} /\ removals = 0 /\ crashes = 0
  /\ usingBackand \in BackandChoices
  /\ dropped = {} /\ failed = {}

-----------------------------------------------------------------------------
(* _saveCommandToCacheInBackground:.                                       *)

FileSize(c) == IF c \in stored THEN size[c] ELSE 0

\* The bytes in the files that are no older than c.
SizeFrom[c \in 1 .. NumCommands + 1] ==
  IF c \in Commands THEN FileSize(c) + SizeFrom[c + 1] ELSE 0

\* The size the file system reports for the directory itself.
DirectorySize == EntrySize * Cardinality(stored)

\* Mutant: what is too large is reported, and written all the same.
RejectAfterWriting ==
  /\ HookReady /\ ~cleaned
  /\ \E s \in Sizes : s = 0 \/ s > DiskCacheSize
  /\ written' = written + 1 /\ registered' = written + 1
  /\ stored' = stored \union {written + 1}
  /\ promise' = [promise EXCEPT ![written + 1] = "error"]
  /\ UNCHANGED <<accepted, sources, passVars, connVars, histVars, running, kick, pc,
                 semaphore, calls, diskVars, removeVars, crashVars, cacheHist>>

\* A command that cannot be stored: its promise fails, it is neither
\* registered nor announced.
Refused ==
  /\ HookReady
  /\ written' = written + 1 /\ registered' = written + 1
  /\ promise' = [promise EXCEPT ![written + 1] = "error"]
  /\ dropped' = dropped \union {written + 1}
  /\ UNCHANGED <<accepted, stored, sources, passVars, connVars, histVars,
                 running, kick, pc, semaphore, calls, size, evicting, removeVars,
                 crashVars, failed>>

\* It is empty, or larger than the cache ...
RejectCommand ==
  /\ ~cleaned /\ cleaned' = FALSE
  /\ \E s \in Sizes : s = 0 \/ s > DiskCacheSize
  /\ Refused

\* ... or its file cannot be written, after others made room for it.
WriteFails == cleaned /\ cleaned' = FALSE /\ Refused

\* The oldest files whose removal brings the total down to the limit; none
\* are counted unless the directory's own size exceeds it.
Victims(s) ==
  IF DirectorySize <= DiskCacheSize THEN {}
  ELSE {c \in stored : s + SizeFrom[c] > DiskCacheSize}

CleanupDiskCache ==
  /\ HookReady /\ ~cleaned
  /\ \E s \in Sizes :
       /\ s > 0 /\ s <= DiskCacheSize
       /\ size' = [size EXCEPT ![written + 1] = s]
       /\ evicting' = evicting \union Victims(s)
  /\ cleaned' = TRUE
  /\ UNCHANGED <<vars, removeVars, crashVars, cacheHist>>

WriteCommand ==
  /\ cleaned
  /\ StoreCommand
  /\ cleaned' = FALSE
  /\ UNCHANGED <<size, evicting, removeVars, crashVars, cacheHist>>

EvictCommand ==
  /\ \E c \in evicting :
       /\ evicting' = evicting \ {c}
       /\ stored' = stored \ {c}
       /\ dropped' = dropped \union (stored \intersect {c})
  /\ UNCHANGED <<callVars, sources, promise, passVars, connVars, histVars,
                 running, kick, pc, semaphore, calls, size, cleaned,
                 removeVars, crashVars, failed>>

-----------------------------------------------------------------------------
(* removeAllCommands: pause, drop the completion sources, list the files,  *)
(* remove them one by one, and resume.                                     *)

BeginRemoveAllCommands ==
  /\ removing = "none" /\ removals + crashes < MaxDisruptions
  /\ removals' = removals + 1
  /\ removing' = "paused"
  /\ running' = FALSE
  /\ sources' = {}
  /\ UNCHANGED <<callVars, stored, promise, passVars, connVars, histVars, kick,
                 pc, semaphore, calls, diskVars, listed, crashVars, cacheHist>>

ListFiles ==
  /\ removing = "paused"
  /\ removing' = "listed"
  /\ listed' = stored
  /\ UNCHANGED <<vars, diskVars, removals, crashVars, cacheHist>>

RemoveListedFile ==
  /\ removing = "listed"
  /\ \E c \in listed :
       /\ listed' = listed \ {c}
       /\ stored' = stored \ {c}
       /\ dropped' = dropped \union (stored \intersect {c})
  /\ UNCHANGED <<callVars, sources, promise, passVars, connVars, histVars,
                 running, kick, pc, semaphore, calls, diskVars, removing,
                 removals, crashVars, failed>>

EndRemoveAllCommands ==
  /\ removing = "listed" /\ listed = {}
  /\ removing' = "none"
  /\ IF running THEN UNCHANGED vars ELSE Resume
  /\ UNCHANGED <<diskVars, listed, removals, crashVars, cacheHist>>

-----------------------------------------------------------------------------
(* The process dies, and the application is opened again: the files are    *)
(* what they were, a new queue is about to be started.                     *)

\* Mutant: the files of the current pass die with the process.
DieLosingPass ==
  /\ Reopen
  /\ dropped' = dropped \union (written + 1 .. accepted)
  /\ stored' = stored \ snapshot
  /\ cleaned' = FALSE /\ evicting' = {}
  /\ removing' = "none" /\ listed' = {}
  /\ UNCHANGED <<size, removals, failed>>

DieAndReopen ==
  /\ Reopen
  /\ dropped' = dropped \union (written + 1 .. accepted)
  /\ cleaned' = FALSE /\ evicting' = {}
  /\ removing' = "none" /\ listed' = {}
  /\ UNCHANGED <<stored, size, removals, failed>>

Crash ==
  /\ removals + crashes < MaxDisruptions
  /\ crashes' = crashes + 1
  /\ DieAndReopen
  /\ UNCHANGED usingBackand

\* With Backand, rebuilding a command from its file raises on the processing
\* queue, outside of the @try that guards running it: the process dies.
LoadRaises ==
  /\ usingBackand
  /\ pc = "load"
  /\ \E c \in snapshot \intersect stored : IsNext(c)
  /\ crashes' = IF removals + crashes < MaxDisruptions THEN crashes + 1 ELSE crashes
  /\ DieAndReopen
  /\ UNCHANGED usingBackand

\* Mutant: a command's file is removed when it is loaded.
LoadAndRemoveFile ==
  /\ ~usingBackand
  /\ pc = "load"
  /\ \E c \in snapshot \intersect stored :
       /\ IsNext(c)
       /\ cur' = c
       /\ snapshot' = snapshot \ {c}
       /\ stored' = stored \ {c}
  /\ pc' = "fetch"
  /\ UNCHANGED <<callVars, sources, promise, holdsSource, outcome, retries,
                 connVars, histVars, running, kick, semaphore, calls>>

LoadCommandFile == ~usingBackand /\ LoadCommand

\* A file that is there, but cannot be read or decoded: the command is finished
\* with an error, without the completion source of its caller.
UnreadableCommand ==
  /\ pc = "load"
  /\ \E c \in snapshot \intersect stored :
       /\ IsNext(c)
       /\ cur' = c
       /\ snapshot' = snapshot \ {c}
  /\ outcome' = "permanent"
  /\ pc' = "finish"
  /\ UNCHANGED <<callVars, storeVars, holdsSource, retries, connVars, histVars,
                 running, kick, semaphore, calls>>

-----------------------------------------------------------------------------
\* _didFinishRunningCommand: removes the file before the base class's part.
RemoveCommandFile ==
  /\ RemoveCommand
  /\ failed' = IF outcome = "success" THEN failed ELSE failed \union {cur}
  /\ UNCHANGED <<diskVars, removeVars, crashVars, dropped>>

PassStep ==
  \/ RunCommands \/ BeginPass \/ LoadCommandFile
  \/ UnreadableCommand \/ SkipMissingCommand \/ EndPass
  \/ FetchCompletionSource \/ RunCommand
  \/ BeginBackoff \/ QuitBackoff \/ BackoffElapsed \/ ResolvePromise

BaseStep ==
  \/ ClientStep \/ PassStep
  \/ DidEnqueueCommand \/ ApplyConnected \/ SignalRetry

CacheStep ==
  \/ RejectCommand \/ CleanupDiskCache \/ WriteCommand \/ WriteFails
  \/ EvictCommand
  \/ BeginRemoveAllCommands \/ ListFiles \/ RemoveListedFile
  \/ EndRemoveAllCommands \/ RemoveCommandFile

Next ==
  \/ BaseStep /\ UNCHANGED extraVars
  \/ CacheStep
  \/ Crash
  \/ LoadRaises

Spec == Init /\ [][Next]_cacheVars

(***************************************************************************)
(* Every dispatch queue and every executor eventually runs its blocks, a   *)
(* retry wait ends, and a reopened application starts its queue.           *)
(***************************************************************************)
Fairness ==
  /\ WF_cacheVars(PassStep /\ UNCHANGED extraVars)
  /\ WF_cacheVars(RemoveCommandFile \/ LoadRaises)
  /\ WF_cacheVars((DidEnqueueCommand \/ SignalRetry) /\ UNCHANGED extraVars)
  /\ WF_cacheVars(ApplyConnected /\ UNCHANGED extraVars)
  /\ WF_cacheVars(RejectCommand \/ CleanupDiskCache \/ WriteCommand \/ WriteFails)
  /\ WF_cacheVars(EvictCommand)
  /\ WF_cacheVars(ListFiles \/ RemoveListedFile \/ EndRemoveAllCommands)
  /\ WF_cacheVars(crashes > 0 /\ Resume /\ UNCHANGED extraVars)

FairSpec == Spec /\ Fairness

-----------------------------------------------------------------------------
WrittenIsAccountedFor ==
  \A c \in 1 .. written : c \in stored \union delivered \union failed \union dropped

OldestEvictedFirst ==
  \A c \in evicting \intersect stored : \A d \in stored : d < c => d \in evicting

(***************************************************************************)
(* "Objects saved this way will persist even after the app is closed": a   *)
(* command that was written is still stored unless the server executed it, *)
(* it failed for good, its file could not be read, or it was discarded or  *)
(* evicted; and eviction starts from the oldest: while a file waits to be  *)
(* evicted, no older one stays.                                            *)
(***************************************************************************)
NothingLost == WrittenIsAccountedFor /\ OldestEvictedFirst

(***************************************************************************)
(* "... in which case they will be sent the next time the app is opened":  *)
(* for an application that is opened again and again, and a network that   *)
(* stays reachable, stored commands are sent.                              *)
(***************************************************************************)
SentWhenOpened ==
  ([]<>running /\ <>[]connected) =>
    \A c \in Commands : (c \in stored) ~> (c \notin stored)
=============================================================================
