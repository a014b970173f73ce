--------------------------- MODULE KeyValueCache ---------------------------
(***************************************************************************)
(* PFKeyValueCache: a memory cache (NSCache) in front of one file per key. *)
(* The callers are threads; every file is touched by blocks of one serial  *)
(* queue.  A set and a removal change memory and then append a block; a    *)
(* read that misses in memory waits for a block of its own.  The writer    *)
(* keeps an index of the directory, believed as long as the directory's    *)
(* modification date is less than a second past the date it remembers, and *)
(* uses it to keep the directory within a number of records and bytes.     *)
(*                                                                         *)
(* One tick of `now' is that second.  A value is its number of bytes.  A   *)
(* date that is nil compares as the platform happens to: either answer is  *)
(* possible.                                                               *)
(***************************************************************************)
EXTENDS Integers, FiniteSets, SequencesExt

CONSTANTS
  Threads,       \* the threads that call the cache
  Keys,
  Values,        \* positive sizes, which tell values apart
  MaxRecords,    \* maxDiskCacheRecords
  MaxBytes,      \* maxDiskCacheBytes
  MaxInMemory,   \* maxMemoryCacheBytesPerRecord: only smaller values stay in memory
  MaxTime,       \* bound on the clock
  MaxCalls       \* bound on the calls made

NoValue == 0        \* no value
NoDate == -1

VARIABLES
  now,
  calls,         \* calls made so far
  memory,        \* [key -> its entry in the NSCache]
  disk,          \* [key -> its file: the contents and the date]
  dirDate,       \* modification date of the directory, NoDate when it does not exist
  index,         \* _lastDiskCacheModDate, _lastDiskCacheSize, _lastDiskCacheAttributes
  blocks,        \* _diskCacheQueue
  thread,        \* what each thread is doing
  latest,        \* the last value set for each key, NoValue once removed (history)
  raced,         \* keys on which a change overlapped another call (history)
  excess         \* has a directory within its limits been compacted? (history)

kvVars == <<now, calls, memory, disk, dirDate, index, blocks, thread, latest, raced, excess>>

Absent == [present |-> FALSE, value |-> NoValue, date |-> NoDate]
Entry(value, date) == [present |-> TRUE, value |-> value, date |-> date]
NoFile == [value |-> NoValue, date |-> NoDate]
NoIndex == [date |-> NoDate, size |-> 0, entries |-> <<>>]

\* A thread and the block it is about to append or waits for.
Doing(at, op, keys, value, maxAge, changes) ==
  [at |-> at, op |-> op, keys |-> keys, value |-> value, maxAge |-> maxAge, changes |-> changes]
Idle == Doing("idle", "none", {}, NoValue, 0, FALSE)

Init ==
  /\ now = 0 /\ calls = 0
  /\ memory = [k \in Keys |-> Absent]
  /\ disk = [k \in Keys |-> NoFile]
  /\ dirDate = NoDate
  /\ index = NoIndex
  /\ blocks = <<>>
  /\ thread = [t \in Threads |-> Idle]
  /\ latest = [k \in Keys |-> NoValue]
  /\ raced = {}
  /\ excess = FALSE

-----------------------------------------------------------------------------
(* The index of the directory. *)

Total(entries) == FoldLeft(LAMBDA sum, e : sum + e.size, 0, entries)
Fits(entries) == Len(entries) <= MaxRecords /\ Total(entries) <= MaxBytes

\* A directory that does not exist compares as a date long past: not dirty.
IsDirty(ix, dir) == ix.date = NoDate \/ (dir # NoDate /\ dir - ix.date >= 1)

\* Entries found by reading the directory name the file, those added when a
\* file is written hold its whole path.
Found(d, k) == [key |-> k, whole |-> FALSE, date |-> d[k].date, size |-> d[k].value]
Added(k, v) == [key |-> k, whole |-> TRUE, date |-> now, size |-> v]

\* The files by date, those of the same date in any order.
Listings(d) ==
  {s \in SetToSeqs({Found(d, k) : k \in {f \in Keys : d[f] # NoFile}}) :
     \A i, j \in DOMAIN s : i < j => s[i].date <= s[j].date}

RecreatedIndexes(d, dir) ==
  {[date |-> dir, size |-> Total(s), entries |-> s] : s \in Listings(d)}

\* How many of the oldest entries go, and the files that go with them: the
\* path of an entry is appended to that of the directory, so that a whole path
\* names no file.
Surplus(entries) ==
  LET fitting == {n \in 0 .. Len(entries) : Fits(SubSeq(entries, n + 1, Len(entries)))}
  IN  CHOOSE n \in fitting : \A m \in fitting : n <= m

Evicted(entries) ==
  {k \in Keys : \E i \in 1 .. Surplus(entries) : entries[i].key = k /\ ~entries[i].whole}

Compacted(ix) ==
  LET n == Surplus(ix.entries)
  IN  [ix EXCEPT !.entries = SubSeq(@, n + 1, Len(@)),
                 !.size = @ - Total(SubSeq(ix.entries, 1, n))]

-----------------------------------------------------------------------------
(* Calls. *)

\* Thread t starts a call, which first does what `next' is the rest of.
Begin(t, next) ==
  /\ thread[t].at = "idle" /\ calls < MaxCalls
  /\ calls' = calls + 1
  /\ thread' = [thread EXCEPT ![t] = next]
  /\ raced' = raced \cup
       UNION {next.keys \cap thread[u].keys :
                u \in {w \in Threads \ {t} : next.changes \/ thread[w].changes}}

\* Mutant: a value too big for memory leaves the old one there.
SetObjectKeepingOld(t, k, v) ==
  /\ Begin(t, Doing("post", "write", {k}, v, 0, TRUE))
  /\ memory' = [memory EXCEPT ![k] = IF v < MaxInMemory THEN Entry(v, now) ELSE @]
  /\ latest' = [latest EXCEPT ![k] = v]
  /\ UNCHANGED <<now, disk, dirDate, index, blocks, excess>>

SetObject(t, k, v) ==
  /\ Begin(t, Doing("post", "write", {k}, v, 0, TRUE))
  /\ memory' = [memory EXCEPT ![k] = IF v < MaxInMemory THEN Entry(v, now) ELSE Absent]
  /\ latest' = [latest EXCEPT ![k] = v]
  /\ UNCHANGED <<now, disk, dirDate, index, blocks, excess>>

\* Is an entry of this date older than maxAge?
TooOld(date, maxAge) == IF date = NoDate THEN BOOLEAN ELSE {now - date > maxAge}

ObjectForKey(t, k, maxAge) ==
  /\ \E old \in TooOld(memory[k].date, maxAge) :
       Begin(t, CASE ~memory[k].present -> Doing("post", "load", {k}, NoValue, maxAge, FALSE)
                  [] memory[k].present /\ old -> Doing("drop", "remove", {k}, NoValue, 0, FALSE)
                  [] OTHER -> Doing("post", "touch", {k}, NoValue, 0, FALSE))
  /\ UNCHANGED <<now, memory, disk, dirDate, index, blocks, latest, excess>>

\* The entry was too old: removeObjectForKey, which looks at nothing again.
DropOldEntry(t) ==
  /\ thread[t].at = "drop"
  /\ memory' = [k \in Keys |-> IF k \in thread[t].keys THEN Absent ELSE memory[k]]
  /\ thread' = [thread EXCEPT ![t].at = "post"]
  /\ UNCHANGED <<now, calls, disk, dirDate, index, blocks, latest, raced, excess>>

\* removeObjectForKey and removeAllObjects
RemoveObjects(t, op, keys) ==
  /\ Begin(t, Doing("post", op, keys, NoValue, 0, TRUE))
  /\ memory' = [k \in Keys |-> IF k \in keys THEN Absent ELSE memory[k]]
  /\ latest' = [k \in Keys |-> IF k \in keys THEN NoValue ELSE latest[k]]
  /\ UNCHANGED <<now, disk, dirDate, index, blocks, excess>>

\* The call appends its block, and waits for it if it is a dispatch_sync.
Post(t) ==
  LET call == thread[t]
  IN  /\ call.at = "post"
      /\ blocks' = Append(blocks, [op |-> call.op, keys |-> call.keys, value |-> call.value,
                                   maxAge |-> call.maxAge, from |-> t])
      /\ thread' = [thread EXCEPT ![t] = IF call.op \in {"load", "clear"}
                                           THEN [call EXCEPT !.at = "wait"] ELSE Idle]
      /\ UNCHANGED <<now, calls, memory, disk, dirDate, index, latest, raced, excess>>

-----------------------------------------------------------------------------
(* Blocks of the disk queue, one at a time. *)

Block(op, k) == blocks # <<>> /\ Head(blocks).op = op /\ k \in Head(blocks).keys

\* _createDiskCacheEntry and _compactDiskCache.  Overwriting a file may or may
\* not touch the directory.
WriteAndCompact(k) ==
  /\ Block("write", k)
  /\ LET v == Head(blocks).value
         written == [disk EXCEPT ![k] = [value |-> v, date |-> now]]
         noted == IF IsDirty(index, dirDate) THEN NoIndex
                  ELSE [date |-> now, size |-> index.size + v,
                        entries |-> Append(index.entries, Added(k, v))]
     IN  \E dir \in IF disk[k] = NoFile THEN {now} ELSE {dirDate, now} :
         \E ix \in IF IsDirty(noted, dir) THEN RecreatedIndexes(written, dir) ELSE {noted} :
           LET gone == {f \in Evicted(ix.entries) : written[f] # NoFile}
           IN  /\ index' = Compacted(ix)
               /\ disk' = [f \in Keys |-> IF f \in gone THEN NoFile ELSE written[f]]
               /\ dirDate' = IF gone = {} THEN dir ELSE now
               /\ excess' = (excess \/ (gone # {} /\ \E s \in Listings(written) : Fits(s)))
  /\ blocks' = Tail(blocks)
  /\ UNCHANGED <<now, calls, memory, thread, latest, raced>>

\* The rest of objectForKey:maxAge: after a miss in memory.
Load(k) ==
  /\ Block("load", k)
  /\ \E old \in TooOld(disk[k].date, Head(blocks).maxAge) :
       IF old
         THEN /\ memory' = [memory EXCEPT ![k] = Absent]
              /\ blocks' = Append(Tail(blocks), [Head(blocks) EXCEPT !.op = "remove", !.maxAge = 0])
              /\ UNCHANGED disk
         ELSE /\ memory' = [memory EXCEPT ![k] = Entry(disk[k].value, disk[k].date)]
              /\ disk' = [disk EXCEPT ![k] = IF @ = NoFile THEN @ ELSE [@ EXCEPT !.date = now]]
              /\ blocks' = Tail(blocks)
  /\ thread' = [thread EXCEPT ![Head(blocks).from] = Idle]
  /\ UNCHANGED <<now, calls, dirDate, index, latest, raced, excess>>

\* A hit in memory freshens the file, if there is one.
Touch(k) ==
  /\ Block("touch", k)
  /\ disk' = [disk EXCEPT ![k] = IF @ = NoFile THEN @ ELSE [@ EXCEPT !.date = now]]
  /\ blocks' = Tail(blocks)
  /\ UNCHANGED <<now, calls, memory, dirDate, index, thread, latest, raced, excess>>

\* The index is not told: it is only ever checked against the directory's date.
RemoveFile(k) ==
  /\ Block("remove", k)
  /\ disk' = [disk EXCEPT ![k] = NoFile]
  /\ dirDate' = IF disk[k] = NoFile THEN dirDate ELSE now
  /\ blocks' = Tail(blocks)
  /\ UNCHANGED <<now, calls, memory, index, thread, latest, raced, excess>>

RemoveDirectory ==
  /\ blocks # <<>> /\ Head(blocks).op = "clear"
  /\ disk' = [k \in Keys |-> NoFile]
  /\ dirDate' = NoDate
  /\ blocks' = Tail(blocks)
  /\ thread' = [thread EXCEPT ![Head(blocks).from] = Idle]
  /\ UNCHANGED <<now, calls, memory, index, latest, raced, excess>>

-----------------------------------------------------------------------------
(* The environment. *)

\* The NSCache may drop an entry at any time.
MemoryPressure(k) ==
  /\ memory[k].present
  /\ memory' = [memory EXCEPT ![k] = Absent]
  /\ UNCHANGED <<now, calls, disk, dirDate, index, blocks, thread, latest, raced, excess>>

Tick ==
  /\ now < MaxTime
  /\ now' = now + 1
  /\ UNCHANGED <<calls, memory, disk, dirDate, index, blocks, thread, latest, raced, excess>>

\* The process ends and starts again: blocks that have not run are lost, and
\* the files are what there is.
Restart ==
  /\ blocks # <<>> \/ index # NoIndex
  /\ memory' = [k \in Keys |-> Absent]
  /\ index' = NoIndex
  /\ blocks' = <<>>
  /\ thread' = [t \in Threads |-> Idle]
  /\ latest' = [k \in Keys |-> disk[k].value]
  /\ raced' = {}
  /\ UNCHANGED <<now, calls, disk, dirDate, excess>>

Next ==
  \/ \E t \in Threads : DropOldEntry(t) \/ Post(t)
  \/ \E t \in Threads, k \in Keys, v \in Values : SetObject(t, k, v)
  \/ \E t \in Threads, k \in Keys, maxAge \in 0 .. MaxTime : ObjectForKey(t, k, maxAge)
  \/ \E t \in Threads, k \in Keys : RemoveObjects(t, "remove", {k})
  \/ \E t \in Threads : RemoveObjects(t, "clear", Keys)
  \/ \E k \in Keys : WriteAndCompact(k) \/ Load(k) \/ Touch(k) \/ RemoveFile(k)
  \/ \E k \in Keys : MemoryPressure(k)
  \/ RemoveDirectory \/ Tick \/ Restart

Spec == Init /\ [][Next]_kvVars

-----------------------------------------------------------------------------
(* Properties. *)

Dates == NoDate .. MaxTime
Ops == {"write", "load", "touch", "remove", "clear"}

TypeOK ==
  /\ now \in 0 .. MaxTime /\ calls \in 0 .. MaxCalls
  /\ memory \in [Keys -> [present : BOOLEAN, value : Values \cup {NoValue}, date : Dates]]
  /\ disk \in [Keys -> [value : Values \cup {NoValue}, date : Dates]]
  /\ dirDate \in Dates
  /\ index.date \in Dates
  /\ \A i \in DOMAIN blocks : blocks[i].op \in Ops /\ blocks[i].from \in Threads
  /\ \A t \in Threads : thread[t].at \in {"idle", "drop", "post", "wait"}
  /\ latest \in [Keys -> Values \cup {NoValue}]
  /\ raced \subseteq Keys
  /\ excess \in BOOLEAN

\* No call on key k is under way and no block about it is left.
Quiet(k) ==
  /\ \A t \in Threads : k \notin thread[t].keys
  /\ \A i \in DOMAIN blocks : k \notin blocks[i].keys

\* Once the calls on a key are done, what memory and the directory hold of it
\* is the last value set, or nothing; a value that was removed, or one that has
\* been replaced, is in neither (setObject, objectForKey and removeObjectForKey,
\* unless two calls on the key, one of them a change, overlapped).
CoherentWhenQuiet ==
  \A k \in Keys \ raced :
    Quiet(k) => {memory[k].value, disk[k].value} \subseteq {latest[k], NoValue}

\* "we will never over-agressively remove something from the cache, we just
\* might go a little bit over our limit" (PFKeyValueCache.m): a directory
\* within its limits loses nothing to a compaction.
NeverOverAggressive == ~excess
=============================================================================
