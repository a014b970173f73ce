# A TLA+ model of the Parse SDK (Backand fork) for iOS and OS X

This directory models the parts of `src/Parse` whose correctness depends on the
order in which things happen: the queue behind `saveEventually` and its three
storages, the ids of objects that were never saved, the task queues, operation
sets and field operations of objects, the local datastore, the current user, the
runs of commands, files, reachability, the key-value cache, and the locks shared
between processes. Line numbers refer to the files under `src/Parse/`.

## The system

The SDK is a set of controllers around a Bolts task graph. Almost nothing runs
under one lock: every component has its own serial dispatch queue, mutex or
task queue, and continuations move work between them.

| Component | State | Operations | Interacts with |
|---|---|---|---|
| `PFEventuallyQueue` (Internal) | pending completion sources, dispatch source, semaphore, `running`, `connected`, retry count | enqueue, resume, pause, `setConnected:`, `_runCommands` | storage subclass, command runner, reachability |
| `PFMemoryEventuallyQueue` | array and dictionary of commands | storage hooks, `removeAllCommands` | base class |
| `PFCommandCache` | one file per command in a shared directory, a counter for file names | storage hooks, clean-up, `removeAllCommands` | file manager, multi-process lock, local id store |
| `PFObjectLocalIdStore` | memory map, one file per retained local id | retain, release, resolve, look up, clear | command cache, objects |
| `PFRESTCommand` | local id, method, path | serialise, rebuild, resolve local ids, `maybeChangeServerOperation` | local id store |
| `PFObject` | operation sets, server data, estimated data, task queue, dirty flag | set, save, saveEventually, saveAll, fetch, revert | task queues, eventually queue, batch commands |
| `PFTaskQueue` | tail task, mutex | enqueue | objects, user and file controllers |
| `PFReachability` | flags, weak listeners | flag changes, add and remove listener | eventually queues |
| `PFMultiProcessFileLockController` | locks and counts per path | begin, end | every component that shares a file with an extension |
| `PFPinningEventuallyQueue`, `PFEventuallyPin` | pins in the local datastore, operation set barriers | storage hooks, waiting for operation sets | offline store, base class |
| `PFOfflineStore`, SQLite layer | objects, pins, uuids in SQLite and in weak maps | save, fetch, pin, unpin, find | objects, queries |
| `PFFieldOperation` | none: pure functions on values | merge with the previous operation, apply to a value | operation sets, estimated data |
| `PFFile`, `PFFileController` | task queue, staged copy, shared downloads, cached files | save, get data, cancel, clear the cache | command runner, file manager |
| `PFURLSessionCommandRunner`, `PFURLSession` | attempts left, session delegates, output streams | run with retries, cancel | eventually queue, controllers |
| `PFCurrentUserController`, `PFUser` | current user, whether memory matches the disk, keychain, file or pin | get, log in, log out, save, lazy log in | persistence, keychain, command runner |
| `PFKeyValueCache` | memory cache, files, an index of the directory | set, get with a maximal age, remove, clear | cached queries, files |
| Cached queries, installation, config, purchases, location | memory copy and file each | get, set, clear | file manager |

Hard behaviours, all listed in `PROJECT.json` under `hazards` with their lines:
wakeups of a coalescing dispatch source, retry waits that a reachability change
cuts short, snapshots of a queue that others change, answers matched to operation
sets by position, tasks that hold a place in one queue and wait in another, a
process that dies between two file operations, and two processes on one file.

What makes each component correct:

* eventually queue: no lost wakeup, commands finish in order, a final and true
  answer, every command leaves the queue, nobody who calls it waits for ever;
* its storage: a stored command is lost only where the code says so, old ones go
  first, a death changes nothing that was promised;
* local ids: both copies agree, one object at the server per new object;
* objects: estimated data is what server data and operation sets make of it, no
  change is lost, saves of one object do not overlap, children first, saves end;
* field operations: what is sent and what is shown mean what the application
  asked for, however operations are merged, saved, refused and reverted;
* pins: a pin stays until its save is decided, the object pops the set of the
  save that was sent, and what is on disk is sent after the next start;
* local datastore: a name lists what it was asked to, data is stored as long as
  something depends on it, and memory and tables belong together;
* files: data that counts as available is there and whole, and nobody waits for
  a download that is over;
* current user: credentials stay with their user, nobody comes back after a log
  out, memory is right about the disk, one user at most believes to be current;
* command runner: all attempts and no more, whole downloads, every run ends;
* key-value cache: a quiet key holds its last value or nothing, and compaction
  keeps to the limits;
* reachability: the last state wins; locks: exclusion, and begin returns.

## Modules

| Module | Models | How |
|---|---|---|
| `EventualDelivery` | what an eventually queue promises | The abstract specification: commands in order, one at a time, dropped only for good, answered once and truthfully. |
| `EventuallyQueue` | `PFEventuallyQueue.m` | State and steps of the base class. `pc` is where the serial processing queue is; `kick` is data merged into the dispatch source; `registered`, `written`, `accepted` count commands through the enqueue task queue. `DeliversInOrder` is the refinement. |
| `EventuallyQueueProofs` | | The invariant of a pass, and the refinement step, for any subclass. |
| `MemoryEventuallyQueue` | `PFMemoryEventuallyQueue.m` | Extends it with the storage hooks and `removeAllCommands` in its two critical sections; next-state relation, fairness. |
| `MemoryEventuallyQueueProofs` | | Theorems. |
| `CommandCache` | `PFCommandCache.m` | Extends `EventuallyQueue` with files, writes that fail and files that cannot be read, clean-up with asynchronous removals, `removeAllCommands` file by file, the death and reopening of the application, and what Backand does to stored commands. |
| `CommandCacheProofs` | | Theorems. |
| `PinningEventuallyQueue` | `PFPinningEventuallyQueue.m`, `PFEventuallyPin.m` | Extends `EventuallyQueue` with pins. One object whose saves wait in its task queue (`offering`) to offer their operation sets; the set of a save is on disk in the object's row (`diskSets`) and in memory (`sets`); `phase` is how far `_didFinishRunningCommand` and `handleSaveResultAsync` are. The object is saved with `saveEventually` only; `ObjectSave` has both ways of saving. |
| `CommandIdentifiers` | file names, `PFCommandCache.m` 120-140 | Clock, counter, order of names. |
| `LocalIdStore` | `PFObjectLocalIdStore.m` | One step per operation, all under the store's lock: `file` and `cache`. |
| `OfflineSaves` | `PFCommandCache`, `PFRESTCommand`, `PFObject` together | Extends `LocalIdStore`: saves of new objects stored as creates, sent as updates once the local id is resolved, with lost answers and a death. |
| `ObjectTaskQueues` | `PFTaskQueue.m`, the deep saves of `PFObject.m` | One record per task with its phase; mutexes taken one by one; waves and batches. |
| `ObjectTaskQueuesProofs` | | Theorems. |
| `ObjectSave` | operation sets of `PFObject.m` | One object, two fields: `operationSetQueue`, server data, estimated data, one save of the task queue and any number of stored saves. |
| `FieldOperations` | `PFFieldOperation.m`, `PFInternalUtils.m`, and what `PFObject.m` does with the operations of one field | Values and operations as records, `Merged`, `Apply`; around them the pending and the saved operation of a field, its server value and the value shown. `wanted` is the reference: the operations of the application applied one by one. |
| `OfflineStore` | `PFOfflineStore.m`, `PFPinningObjectStore.m`, `PFPin.m`, opening and transactions of `PFSQLiteDatabaseController.m` | Tables as a map of rows and a set of dependencies; the maps from objects to uuids; calls that wait their turn for the database between their steps. The maps are weak: objects leave them when the application lets go of them (`Release`), all of them when it dies (`DieAndReopen`). |
| `ObjectDataProofs` | | The law of merging, and theorems about `FieldOperations` and `OfflineStore`. |
| `FileTransfers` | `PFFile.m`, `PFFileController.m`, `PFFileStagingController.m` | A task queue per file, the shared downloads by URL, temporary and cached files as the chunks in them, output streams that follow a file that is moved. |
| `Reachability` | `PFReachability.m` and its use in `PFEventuallyQueue.m` | Blocks on a concurrent queue with barriers as a sequence. |
| `MultiProcessLock` | `MultiProcessLock/` | Processes with a barrier queue each, lock files with inodes; `Uses` says which worker of which process accesses which file. |
| `CurrentUser` | `PFCurrentUserController.m` and the calls `PFUser.m`, `PFUserController.m` make of it | The task queue as a sequence whose head advances in steps (`step`); users are instances, which stand for accounts; both storages; deaths between the steps, and failures of disk and keychain. |
| `CommandRunner` | `PFURLSessionCommandRunner.m`, `PFURLSession.m`, the task delegates | A run is a phase (`at`) and its `NSURLSessionDataTask`; delegates are registered by run; a download's file holds chunks labelled with their attempt. |
| `KeyValueCache` | `PFKeyValueCache.m` | Threads that call, blocks of the disk queue, dates as ticks of the second the index is believed for. |
| `MCObjectTaskQueues`, `MCQueues`, `MCStoredQueues`, `MCObjects`, `MCStandalone` | | Instances for TLC. The last four hold several components, of which one takes steps in a behaviour: those share no state, so this loses nothing. The last four also state what is assumed of the constants of their components. |
| `StoredQueuesProofs`, `ObjectsProofs`, `StandaloneProofs` | | Theorems about the components of `MCStoredQueues`, `MCObjects` and `MCStandalone`. |

Names of actions follow the methods. Definitions marked "Mutant" are the same
operation with a plausible mistake; they are used by no behaviour and show, for
each property, a change of the code that it would notice.

## Runs

Bounds are constants, all named in the modules and given in the `.cfg` files.

| Run | Checks | Bounds, and why they are enough |
|---|---|---|
| `MemQueue` | types, `NoLostWakeup`, `ResolvedIsFinal`, the refinement `DeliversInOrder`, `EventuallyFinished`, `SetConnectedReturns` | Two commands (order needs two), one retry, and one each of `setConnected:`, `pause` and `removeAllCommands`: all pairs of disturbances of one pass. |
| `MemQueueSentWhenConnected` | finds `SentWhenConnected` violated | One command, one retry, one notification (of a change while the queue stays connected), one pause. |
| `StoredQueues` | the types of both queues on disk; `PinsKept`, `AnsweredIsFinal`, `PopsItsOwnSet` of `PinningEventuallyQueue`; `AllEventuallySent` of both | Two commands, for the pins both `saveEventually` of one object, because sets are told apart by order; one death or `removeAllCommands` anywhere. Retries, pauses and notifications are those of the base class, and are in `MemQueue`. |
| `PinningQueueChanges` | finds `SentWithAllChanges` violated | One save of an object that is pinned, one death. |
| `CommandCacheBackand` | finds `SentWhenOpened` violated | One command with Backand. |
| `Queues` | `ObjectTaskQueues`: `SameOrderInAllQueues`, `OneSaveAtATime`, `ChildrenSavedFirst`, `EveryEnqueueReturns`, `FlatSavesEnd`; `CommandCache`: `NothingLost`, `DeliversInOrder` | Three objects, two saves and their batches, on three shapes of pointer graphs with any objects new or changed. Three commands without a disruption, or two and one death or `removeAllCommands` anywhere, in a cache that has room for two of the smaller size and refuses the larger: the third finds an older and a younger file, and evicts the older. Any write may fail and any file be unreadable; both values of `usingBackand`. |
| `ObjectTaskQueuesChain` | finds `EverySaveEnds` violated | The chain 1 to 2 to 3, two plain saves. |
| `Objects` | types; `OfflineSaves`: `OneObjectPerLocalId`; `FieldOperations`: `FieldIsWhatIsSent`; `ObjectSave`: `EstimatedIsCurrent`, `NoChangeLost`; `OfflineStore`: `PinsAreAsAsked`, `StoreIsClosed`; `CurrentUser`: `CredentialsAreTheUsers`, `LoggedOutStaysOut`, `MemoryMatchesDisk`, `OnlyOneIsCurrent`; `CommandRunner`: `DownloadedFileIsWhole`, `RunsEnd`; `FileTransfers`: `AvailableDataIsWhole`, `SharedDownloadsAreLive` | Two new objects, three saves, one death, one lost answer; three operations on a field, two elements, a step, a fraction and a number wider than an int (one that holds up to 3), two saves; two fields, three changes, three saves (two under way and one to follow); three calls that pin and unpin under two names, a root that has an objectId and a child that has none, one death or release of any of the objects; two instances of one account and another account, a lazy user, three calls, a failure (of the disk or the keychain) and a death, both storages; one run (runs share only the session's dictionary, by task) with three attempts and two chunks; two files that share a URL or one of which is made from data, two transfers, two attempts, two chunks, one file removed from the cache. The names of pins are symmetric, and so are the fields of the object. |
| `ObjectSaveRollforward` | finds `ErrorsRollForward` violated | Two fields, three changes, three saves. |
| `OfflineStore` | finds `StoredRecursively` violated | Two calls and one death or release, all objects but the child with an objectId. |
| `Standalone` | types; `MultiProcessLock`: `ExclusiveUnlessOverlapped`, `StuckOnlyInACycle`; `LocalIdStore`: `MemoryAgreesWithDisk`; `CommandIdentifiers`: `OldestFirst`; `Reachability`: `AgreesWhenQuiet`; `KeyValueCache`: `CoherentWhenQuiet` | An application and two extensions with two files, six uses of them by two workers (`LockUses`), two accesses each at most, one death or removed lock file: the application and one extension can wait for each other's file while the other extension is free, or waits for one of them from outside. (A cycle of three needs a third file.) two ids and two retains; three names, one set-back; two listeners, two changes; two threads, two keys, three calls, a directory that holds one record, values that memory keeps and that it does not. |
| `KeyValueCacheLimits` | finds `NeverOverAggressive` violated | The same cache alone. |

### Fairness

The eventually queues: weak fairness of every step of a dispatch queue or
executor, because a submitted block is run and a wait with a timeout ends; none
of the application, the network or deaths. In `CommandCache` and
`PinningEventuallyQueue` an application that was reopened starts its queue, as
`eventuallyQueue` does. `MultiProcessLock`: the exclusive open returns when it
can, and workers end what they begin. In `CommandRunner` a run is never stuck
except where it has ended: `RunsEnd` says so of runs without a step to come
(`UnderWay`), and needs no fairness; `SharedDownloadsAreLive` says of
`FileTransfers` that what is waited for is still under way. In
`ObjectTaskQueues` a step only ever advances a task or adds one for a wave, of
which a save has boundedly many, so "every save ends" and "every enqueue returns"
are stated as invariants: while one has not ended, one of them gets on. `GetsOn`
is made of the guards of the steps of a task, except the bound `MaxTasks`;
`UnderWay` is where TLC finds a step of the run enabled. Neither uses `ENABLED`, of
which nothing could be proved.

## What is proved

All theorems hold for every value of the constants; they assume only what the
modules assume of them by name: sizes, limits, counts and bounds are numbers,
the value that stands for "none" is not one of the values, an account is not a
lazy user, a file is not an outcome. The runs evaluate each assumption on their
instance. None of them bounds the number of commands, objects, saves, users,
runs, files, threads or deaths. Uuids of the local datastore come from a bounded
set, and a pin is saved only while more of them are free than there are objects
(`SavePin`): in the code a new uuid is always fresh.

Where a component is checked within a composition, its theorem is about the
composition (`AllSpec`): another component changes none of its variables. Each
theorem rests on an inductive invariant, proved action by action; the property
itself is rarely inductive, and what has to be added to it says why the code is
right.

**Eventually queues.** `EventuallyQueueProofs` proves once what the base class
keeps to whatever its subclass does with the commands. `NoLostWakeup` speaks of
an idle queue and is established when a pass ends, so it is not inductive:
`QueueInv` adds `PassCoversStored` (during a pass every registered stored
command is in the snapshot, is the current one, or a kick is pending),
`PassInOrder` (what is stored and not in the snapshot is younger than everything
in it), `CurrentCommand` (the snapshot lies after the current command, which is
out of the storage when its promise is resolved, and a success outcome means
that the server executed it) and `Unanswered` (the command being handled has no
answer yet). `DeliveryStep` maps each step of the base class to a step of
`EventualDelivery` or to none. On these rest, for the queue in memory,

* `TypeCorrect`, `WakeupsAreNotLost`, `CommandsFinishInOrder`, `AnswersAreFinal`,
* `MemoryQueueDelivers`: it implements `EventualDelivery`;

and for the command cache, where evictions, refusals, removals file by file,
deaths and reopenings come in,

* `WrittenIsKept`: a written command is in a file, or executed, failed,
  unreadable in its file, evicted or discarded; `FilesAreNotLost` adds that the oldest are evicted first. That
  needs the bytes of the files from one command on (`SizeFrom`) to grow with
  every older file, which `SizesGrow` proves by a least counterexample;
* `CacheWakeupsAreNotLost`, `CacheAnswersAreFinal`,
* `CommandCacheDelivers`: it implements `EventualDelivery` too.

`CommandsAreNotLost` and `CommandsAreDeliveredInOrder` say the same of the
compositions that the runs check. A module instantiated in two modules gives two
copies of each definition, of which the provers do not know that they agree;
the lemmas `Same...` prove it action by action.

**The pinning queue.** `StoredQueuesProofs`: `PinsAreKept`,
`AnswersAreNotTakenBack`, `TheSentSetIsTakenOff`, `QueueTypesCorrect`. That the
answer of a save finds its own operation set at the head of the queue relates
the object, the queue and the disk: `SetsInv` says that the sets are in the order
of their commands, and that every save that is pinned, in memory or about to be
written still has its set; `PassInv` says that nothing older than the command
being run is stored (`PassReadsMemory`, but for a memory that `removeAllCommands`
cleared), and that this command is unpinned before it is forgotten. Then a set
before its own is one that no pin will send any more (`Orphans`), which is what
the property says of an object that is saved with `saveEventually` only.

**Task queues of objects.** `ObjectTaskQueuesProofs`: `SavesKeepTheirOrder` (the
order of shared tasks is the same in all queues), `SavesAreSerialized` (one save
of an object at a time) and `PointersAreSavedFirst` (nothing is sent that points
to an object the server does not know), for any objects, pointers, saves and
outcomes. The invariant `TaskInv` says that a queue holds exactly the unfinished
tasks of its object, each once (`QueuesHoldTasks`), that a running task is at the
head of all its queues (`RunningAtHead`), and `SameOrderInAllQueues` itself, which
is kept because a task enters all its queues in one step, last in each, and
leaves them as the head of each. `WavesInv` adds what the waves of a deep save
hold: with those already saved, everything the object still points to, and each
wave only what points to earlier ones (`WaitsForWaves`), that the batch waited
for is the next wave (`SavesNextWave`), and that what is sent needs nothing more.
The waves and the objects within reach are recursive functions; that they exist,
and what they contain, is proved by least counterexamples over the number of
rounds, which needs no induction rule.

Two theorems say that nobody waits in a circle. `EnqueuesGetOn`: an enqueue that
holds a mutex misses only mutexes of higher addresses (`HeldInOrder`), so the one
that holds the highest gets on, or one that holds none. `FlatSavesComeToAnEnd`,
where what is pointed to points to nothing: the queues are all in one order, that
of the enqueues (`InOneOrder`; that any two queues agree, as `SavesKeepTheirOrder`
says, would leave room for a circle of three), the waves of a save are among what
its object points to (`FlatInv`), and so the first of the tasks of objects without
pointers is at the head of all its queues. Without that shape saves do block each
other, which `ObjectTaskQueuesChain` shows.

**Field operations.** `MergeMeansBoth` is the law the operations of a field rest
on: a merged operation does what its parts do one after the other.
`FieldTypeCorrect` and `FieldCorrect` follow: what is on its way to the server
means what the application asked for. The exceptions are in the statement: where
adding numbers loses a fraction or wraps, where removing from nothing invents a
value (`strayed`), where a merge raised (`dropped`, `torn`).

**Operation sets.** `ObjectsProofs`: `EstimatedDataIsCurrent`: the estimated data
is what rebuilding it would give, although the code only applies operations to
it. It is the last operation on each field (`EstimatedMeans`), which merging a
failed set into the next one does not change. `ChangesAreNotLost`: with
`SetsAreOfTheirSaves`, which says that the sets in front of the last are those of
the saves under way, with their operations, and that the last operation on each
field is the latest change or the server has that; `SetsAreCounted` and
`SetsAreNumbered` keep one set for every save, and the last one for changes.

**Saves of new objects made offline.** `OneObjectIsMade`. `ObjectsAreCounted`
says what the count of objects at the server rests on: an object is made only
while its local id is not resolved, the answer resolves it before the next
command is sent (`Resolved`), and only a lost answer or a death leaves it
unresolved, which is what the bound counts.

**The current user.** `UsersKeepTheirCredentials`, `NobodyComesBack`,
`MemoryIsRightAboutTheDisk`, `OneInstanceIsCurrent`. `UserInv` follows a call
through its steps: which steps go with which call (`UserSteps`), whose
credentials the keychain has at each of them (`KeychainIsTheUsers`, unless it
refused to take or to drop some), that after a
log out nothing that is queued or stored belongs to anybody but a lazy user
(`NobodyLeft`), who may believe to be current while another takes over
(`OneIsCurrent`).

**The command runner.** `DownloadsAreWhole`, `RunsComeToAnEnd`. `RunInv` says how far the task of a
run may be while the run is in each phase (`TaskOfRun`), that an attempt puts one
request on the wire (`SentOnce`), and that the file has the chunks that came in
during this attempt and none of another (`WrittenIn`). `Heard` adds how the end of a
task is heard of: a run waits only with a delegate that is registered and a task
that goes on, so the exception in `RunsEnd`, a task that ends before its delegate is
registered, is the only one.

**Files.** `NobodyWaitsForAnEndedDownload`, `AvailableFilesAreWhole`.
`TransferInv`: a run is under way while its file waits for it or registers it
(`RunsGo`, `TasksGo`); of downloads that have not crossed only one writes, what it
has written is what it has received (`WritersGo`), and so what is in the cache is
whole; so it is when an upload has moved its staged copy there (`CacheGoes`).

**The local datastore** (`ObjectDataProofs`): `StoreStaysClosed`, for any
objectIds, names, uuids, calls, deaths and objects that leave the memory. An operation is a chain of functions
on a record of the tables and maps, and so is the invariant: `Closed(s, k)` says
that the record s is in order, but perhaps for the row k of a pin that is being
written. What a dependency is, and that nothing dangles, is not inductive alone.
That data is stored once rests on `MapsRight`: once the process has looked for
the row of an object, or has met an object without an objectId, the map has its
row, so that `getOrCreateUUIDAsyncForObject:` never makes a second one. That what
is pointed to is known rests on `HeldRight`: what instances point to is in
memory too. That `_unpinKeyAsync:` takes nothing that is still needed rests on
`PinRow` and `DepsRight`: the row of a pin keeps itself and what it points to, and
only pins keep anything. `CallsRight` says what a call relies on between its
steps. `ObjectsTypesCorrect` puts the types of the components of `MCObjects`
together.

**Components that share no state** (`StandaloneProofs`).

* Locks: `LocksExclude`: two processes access a file at once only if one had
  overlapping accesses of its own or the lock file was removed. The invariant
  adds that an open lock file is open in one process (`OneHolder`) and that
  accesses that do not overlap hold it (`HeldWhileAccessing`).
* Local ids: `StoreAgrees`, `ReleasedLeavesNothing`, `RebootKeepsAnswers`. That
  memory and disk agree needs the second of them: an id retained for the first
  time finds nothing stale.
* Names of command files: `NamesSortByAge`, because every name is older than the
  clock and the counter (`NamesAreOld`).
* Reachability: `LastStateWins`. `ReachInv` speaks of the blocks that are still
  queued: the last flags among them are those of the network
  (`LastFlagsAreRight`), a notification that has started reports the current
  flags (`NotificationsAreRight`), and a queue that nobody is still to tell of
  the flags knows them (`InformedUnlessPending`).
* Key-value cache: `CacheIsCoherent`. `CacheInv` says what the file of a key will
  hold once the blocks queued so far have run (`RightAfter`), which is the last
  value or nothing while no two calls race (`ChangesAreAlone`).
* `StandaloneTypesCorrect` puts the types of the five together.

Only model-checked:

* liveness under fairness: `EventuallyFinished`, `SetConnectedReturns`,
  `AllEventuallySent`, and `StuckOnlyInACycle`, which is about what holds for ever;
  the prover has no rule for fairness;
* `PinsAreAsAsked`: which of the overlapping calls of a name did what has to be
  followed from the question to the row, through unpins that saw an older pin.
  What its proof needs of the tables is in `StoreStaysClosed`.

## Where the code does not do what it says

Shown by runs, with the quotations in `PROJECT.json`:

* `MemQueueSentWhenConnected`: with `connected` YES all along, `setConnected:YES`
  signals a pass out of its retry wait, and, as nothing has changed, merges no
  data that would start another.
* `PinningQueueChanges`: a save whose set the object has not offered yet is sent
  without any of its changes.
* `CommandCacheBackand`: rebuilding a stored command raises outside of the `@try`.
* `ObjectTaskQueuesChain`: saves block each other through their children.
* `ObjectSaveRollforward`: an exception after `startSave` leaves its set behind.
* `OfflineStore`: pinning another object under a name deletes the row of a child
  that is not in memory, after a restart or once the application has let go of
  the objects, and nothing writes it again.
* `KeyValueCacheLimits`: overwriting a key counts it twice, and the compaction
  deletes a file of a directory that was within its limits.

Seen in the models, and allowed for in the properties:

* The completion source of a command is registered after the command is stored
  (`PFEventuallyQueue.m` 106, 123-125, 146): a pass in between runs the command
  and its caller is never answered.
* A command file that is there but cannot be read or decoded
  (`PFCommandCache.m` 152-183) finishes its identifier without a result
  (`PFEventuallyQueue.m` 231-238): the file is deleted (`PFCommandCache.m` 213)
  and its caller never answered, hence `UnreadableCommand`.
* A write that fails refuses its command after others were evicted to make room
  for it (`PFCommandCache.m` 310-316), hence `WriteFails`.
* `_cleanupDiskCacheWithRequiredFreeSize:` compares the size of the directory
  entry, not of the files, with the limit (`PFCommandCache.m` 234-235).
* Names of command files start with the wall clock (`PFCommandCache.m` 125-129):
  a clock that is set back reorders commands. `OldestFirst` compares names of one
  `era` only.
* No code retains a local id for a stored command, so a death forgets the mapping
  of a create that is done, and the next stored save creates a second object.
  `OneObjectPerLocalId` allows for one object more per death.
* `endLockedContentAccessForFileAtPath:` unlocks whatever the count
  (`PFMultiProcessFileLockController.m` 71), hence the `overlapped` history.
* `removeListener:` keeps the listener and drops the others
  (`PFReachability.m` 134-137).
* The initial reachability is read, then applied, while notifications arrive
  (`PFEventuallyQueue.m` 371-374), hence `overtaken`.
* A save of the user that is answered while it is current, and enqueued after the
  log out, makes it the current user again, stored without its credentials
  (`PFUser.m` 184-187); with the file storage so does a save of another instance
  of the account, which stays `_current`. `LoggedOutStaysOut` is stated for the
  log outs with neither.
* With the file storage the credentials are written before the file
  (`PFCurrentUserController.m` 258-262), and an error of the file is dropped by
  the continuation that ends its lock (`PFObjectFilePersistenceController.m`
  70-72): a death or a failure between the two leaves the credentials of one user
  beside another, hence `split`.
* The keychain says when it cannot store or remove an item
  (`PFKeychainStore.m` 118-151), and nobody listens (`PFCurrentUserController.m`
  311, 318): with either storage, the credentials of the former user then stay
  beside the next one, hence `split` again.
* A log out whose removal fails says that memory matches the disk
  (`PFCurrentUserController.m` 194-198); the user is back after a restart.
* A run that is cancelled after its delegate observes the token and before the
  session has the delegate is never told that its task ended (`PFURLSession.m`
  106-108, 173), hence `lost`.
* A write that fails with the last data of a download goes unnoticed
  (`PFURLSessionDataTaskDelegate.m` 113-119): `DownloadedFileIsWhole` promises
  all chunks but the last.
* A status of 500 and more is tried again only for a JSON answer with the key
  `error` (`PFURLSessionJSONDataTaskDelegate.m` 94-101), never for a download
  (`PFURLSessionFileDownloadTaskDelegate.m` 94-98).
* A `set` of the key-value cache that overlaps a read which misses in memory can
  leave the old value in memory (`PFKeyValueCache.m` 118-119, 160-162), hence
  `raced`.
* A `saveEventually` that fails for good leaves its set in `operationSetQueue`
  (`PFObject.m` 1105-1118), hence `leaked`.
* A pin stored while `removeAllCommands` runs can stay on disk with nothing in
  memory to send it before the next start; when the memory of a pin is cleared
  while its command is sent, the result of the request is lost (`wiped`). A pin
  that `removeAllCommands` removed from the disk can still be sent from memory,
  which is why `PinningEventuallyQueue` does not implement `EventualDelivery`.
* Saves in the background and `saveEventually` of one object share its
  `operationSetQueue`, and the answer of either pops the first set
  (`PFObject.m` 1272, 1361), also that of another save: `ObjectSave` models both,
  and states what it does for the case where every save takes its own.
  `PopsItsOwnSet` is about `saveEventually` alone; there a set left behind by a
  save that failed is what the next answer pops, hence `Orphans`.
* `remove` from a field without a value returns the objects to remove
  (`PFFieldOperation.m` 359-361). The kind of a sum is that of the amount
  (`PFInternalUtils.m` 94-122), so that adding to a fraction cuts it off and an
  int can wrap; both are `strayed`. An operation that does not fit the value
  raises after it was merged (`torn`), and one that cannot be merged back after
  a failed save takes the rest of the set with it (`dropped`).
* Two first pins under one name that overlap make two `PFPin` rows, of which a
  later unpin sees one; an unpin of all that overlaps a save reads the uuid
  before it and unpins nothing: hence `overlapped`.
* `PFOfflineStore` holds objects weakly (`PFOfflineStore.m` 104-109): what points
  to an object that has left the memory is written again without it, so its row
  goes with the next pin under the name. `PinsAreAsAsked` promises what a pinned
  object points to only while both have stayed in memory.
* Pinned with its children under one name and without under another, an object
  keeps a row, after the first is unpinned, that points to a row that is gone.
  Decoding it raises (`PFOfflineStore.m` 911-914), and its data is lost with the
  next save of its pin: hence `dangled`. Placeholders of objects that were only
  pointed to are never deleted.
* Two downloads of one URL can both start between the look-up and the
  registration (`PFFileController.m` 101, 126-128), although
  `Tests/Unit/FileControllerTests.m` 150 says that downloads share operations;
  both write one temporary file, and what is cached can be torn for good: hence
  `crossed`. A download that is over before it is registered stays registered, and later
  ones of the URL get its outcome: hence `late`.
* A file that joins a download is cancelled with the token of the file that
  started it, and cancelling it does nothing to the download.
* Between the move of its staged copy and the change of its state an uploaded file
  says that its data is available (`PFFile.m` 476) and looks for the staged copy,
  which is gone (`PFFileController.m` 234, `PFFile.m` 312-316); the data is whole
  in the cache, which is what `AvailableDataIsWhole` says of that stage.
* An upload that is cancelled after the answer of the server leaves the file dirty
  and its staged copy moved away: hence `stranded`.

## Not modelled

Contents of requests, encodings, queries, ACLs and other value classes; the user
interface helpers, logging and analytics; Backand's conversions. Lazy users,
files within objects and the splitting of batches over fifty objects are left
out of `ObjectTaskQueues`. `createLocalId` is a fresh value. In `CurrentUser` the
migration from the file to the pin, linking and sign-up are left out; in
`CommandRunner` progress and the construction of requests; in `KeyValueCache`
another process on the same directory. In `PinningEventuallyQueue` all commands
are `saveEventually` of one object; saves in the background of it are in
`ObjectSave`. In `CommandCache` removing a file succeeds (its result is ignored
at `PFCommandCache.m` 213), and in `Reachability` so does creating the
reachability reference and setting its callback (`PFReachability.m` 191-203). In `OfflineStore` deletes, `updateDataForObject:`,
statements that fail, objects that get their objectId after they were stored,
and pointers that change. In `FileTransfers` downloads read as a stream,
progress blocks, disk writes that fail (`CommandRunner` has them) and URLs whose
last path component is the same.

Config, cached queries, the current installation, purchases, location and push
channels keep one value each behind a queue or a lock, and repeat patterns that
`CurrentUser` and `KeyValueCache` model with more at stake. What decides on the
order of events in purchases and authentication is code of the application or
the system.

## What could follow

1. The current installation with its identifier shared by two processes, and
   `PFOfflineStore` with the objectIds that arrive after an object was stored.
2. A proof of `PinsAreAsAsked`, with an invariant of the calls of a name that
   overlap.
