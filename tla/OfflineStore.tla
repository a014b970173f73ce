---------------------------- MODULE OfflineStore ----------------------------
(***************************************************************************)
(* The local datastore: PFPinningObjectStore, which keeps one PFPin for    *)
(* each name, and PFOfflineStore, which keeps objects and pins as rows of  *)
(* a database, each row for as long as some key depends on it.             *)
(*                                                                         *)
(* The database is opened for one operation at a time, in the order in     *)
(* which they were asked for, and a transaction that the process does not  *)
(* live to commit is as if it was not begun: an operation is one step.     *)
(* What is between the operations of a call interleaves with other calls.  *)
(*                                                                         *)
(* There are three objects.  Root points to Child and that does not        *)
(* change.                                                                 *)
(***************************************************************************)
EXTENDS Integers, Sequences, FiniteSets

CONSTANTS
  Root, Child, Other,
  Saved,         \* the objects that have an objectId
  PinNames,
  MaxUuids,      \* bound: uuids in use, of which a pin is saved with enough to spare
  MaxPinCalls,   \* bound: calls of the application
  MaxLapses      \* bound: deaths of the process, and times it lets go of objects

Objects == {Root, Child, Other}
PointsTo(o) == IF o = Root THEN {Child} ELSE {}

Uuids == 1 .. MaxUuids
NoUuid == 0
Calls == 1 .. MaxPinCalls

\* A row points to a saved object by its objectId, to another by its uuid.  A
\* row without data is the placeholder of an object that was pointed to.
Rows == [of : Objects \union PinNames, points : SUBSET (Saved \union Uuids), data : BOOLEAN]
NoRow == [of |-> "nothing", points |-> {}, data |-> FALSE]

\* Pins are told apart by the call that created the instance.
NoPin == [name |-> "none", objects |-> {}, uuid |-> NoUuid]
Pins == [name : PinNames, objects : SUBSET Objects, uuid : Uuids \union {NoUuid}]

\* Objects, uuids and names are told apart, and the bounds are numbers.
ASSUME StoreAssumption ==
  /\ Root # Child /\ Root # Other /\ Child # Other /\ Saved \subseteq Objects
  /\ Objects \cap Uuids = {} /\ PinNames \cap Uuids = {} /\ Objects \cap PinNames = {}
  /\ {"nothing", "none"} \cap (Objects \cup PinNames) = {}
  /\ MaxUuids \in Nat /\ MaxPinCalls \in Nat /\ MaxLapses \in Nat

VARIABLES
  rows, deps,   \* the tables Objects and Dependencies: pairs of key and uuid
  held,         \* what there is of an object in memory
  fetched,      \* keys of fetchedObjects
  uuidOf,       \* objectToUUIDMap of the objects
  pins,         \* the instances of PFPin, with their entry of objectToUUIDMap
  call,         \* the calls made so far
  dbQueue,      \* operations that wait for the database
  lapses,      \* bound counter
  asked,        \* history: what the application was promised of a name
  overlapped,   \* history: calls of a name that overlapped: "no", "pins" or "unpins"
  dangled       \* history: a row was left pointing to a row that is gone

diskVars == <<rows, deps>>
memoryVars == <<held, fetched, uuidOf, pins>>
askVars == <<asked, overlapped>>
storeVars == <<diskVars, memoryVars, call, dbQueue, lapses, askVars, dangled>>

NoCall == [op |-> "none", name |-> "none", obj |-> "none", step |-> "none",
           pin |-> 0, key |-> NoUuid]

CallStates ==
  [op : {"none", "pin", "pinWithoutChildren", "unpin", "unpinAll"}, name : PinNames \union {"none"},
   obj : Objects \union {"none"}, pin : Calls \union {0}, key : Uuids \union {NoUuid},
   step : {"none", "waiting", "find", "found", "drop", "save", "unpin", "done"}]

StoreTypeOK ==
  /\ rows \in [Uuids -> Rows \union {NoRow}]
  /\ deps \subseteq Uuids \X Uuids
  /\ held \in [Objects -> {"absent", "pointer", "data"}]
  /\ fetched \subseteq Objects
  /\ uuidOf \in [Objects -> Uuids \union {NoUuid}]
  /\ pins \in [Calls -> Pins \union {NoPin}]
  /\ call \in [Calls -> CallStates]
  /\ dbQueue \in Seq(Calls)
  /\ lapses \in 0 .. MaxLapses
  /\ asked \in [PinNames -> [Objects -> {"nothing", "out", "listed", "kept", "deep", "faded"}]]
  /\ overlapped \in [PinNames -> {"no", "pins", "unpins"}]
  /\ dangled \in BOOLEAN

StoreInit ==
  /\ rows = [u \in Uuids |-> NoRow] /\ deps = {}
  /\ held = [o \in Objects |-> "data"] /\ fetched = {}
  /\ uuidOf = [o \in Objects |-> NoUuid]
  /\ pins = [i \in Calls |-> NoPin]
  /\ call = [i \in Calls |-> NoCall] /\ dbQueue = <<>> /\ lapses = 0
  /\ asked = [n \in PinNames |-> [o \in Objects |-> "nothing"]]
  /\ overlapped = [n \in PinNames |-> "no"] /\ dangled = FALSE

InFlight(i) == call[i].step \notin {"none", "done"}

-----------------------------------------------------------------------------
(* PFOfflineStore, on a copy of the tables and the maps.                   *)

Now == [rows |-> rows, deps |-> deps, held |-> held, fetched |-> fetched, uuidOf |-> uuidOf,
        pins |-> pins]

RowsOf(s, x) == {u \in Uuids : s.rows[u].of = x}

\* The uuids that nothing names.
Unnamed(s) ==
  {u \in Uuids :
     /\ s.rows[u] = NoRow
     /\ \A v \in Uuids : u \notin s.rows[v].points
     /\ \A o \in Objects : s.uuidOf[o] # u
     /\ \A i \in Calls : s.pins[i].uuid # u /\ call[i].key # u}

NewUuid(s) == CHOOSE u \in Unnamed(s) : TRUE

\* What is done to each object in turn, to those that are pointed to first.
Each(Do(_, _), s, objects) ==
  LET c == IF Child \in objects THEN Do(s, Child) ELSE s
      r == IF Root \in objects THEN Do(c, Root) ELSE c
  IN IF Other \in objects THEN Do(r, Other) ELSE r

\* The instance for what a row points to.
Pointed(s, r) == IF r \in Uuids THEN s.rows[r].of ELSE r

\* Decoding a row makes pointers of what is not in memory.
Decoded(s, row) ==
  [s EXCEPT
     !.held = [o \in Objects |->
                 IF s.held[o] = "absent" /\ o \in {Pointed(s, r) : r \in row.points}
                 THEN "pointer" ELSE s.held[o]],
     !.uuidOf = [o \in Objects |->
                   IF \E r \in row.points \intersect Uuids : s.rows[r].of = o
                   THEN CHOOSE r \in row.points \intersect Uuids : s.rows[r].of = o
                   ELSE s.uuidOf[o]]]

\* It raises when a uuid is not in the table.
Dangles(rs, u) ==
  rs[u] # NoRow /\ \E r \in rs[u].points \intersect Uuids : rs[r] = NoRow

\* The row that fetchObjectLocallyAsync: looks for.
RowToFetch(s, o) ==
  IF o \in Saved THEN RowsOf(s, o) ELSE {s.uuidOf[o]} \ {NoUuid}

\* fetchObjectLocallyAsync: marks the object whatever it finds.
Fetched(s, o) ==
  IF o \in s.fetched THEN s
  ELSE LET marked == [s EXCEPT !.fetched = @ \union {o}]
           found == RowToFetch(s, o)
       IN IF found = {} THEN marked
          ELSE LET u == CHOOSE u \in found : TRUE
                   mapped == [marked EXCEPT !.uuidOf[o] = u]
               IN IF s.rows[u] = NoRow \/ Dangles(s.rows, u) \/ ~s.rows[u].data
                  THEN mapped
                  ELSE Decoded([mapped EXCEPT !.held[o] = "data"], s.rows[u])

\* getOrCreateUUIDAsyncForObject: inserts a placeholder for a new uuid.
WithUuid(s, o) ==
  IF s.uuidOf[o] # NoUuid THEN s
  ELSE LET u == NewUuid(s) IN
         [s EXCEPT !.uuidOf[o] = u, !.fetched = @ \union {o},
                   !.rows[u] = [of |-> o, points |-> {}, data |-> FALSE]]

WithPinUuid(s, p) ==
  IF s.pins[p].uuid # NoUuid THEN s
  ELSE LET u == NewUuid(s) IN
         [s EXCEPT !.pins[p].uuid = u,
                   !.rows[u] = [of |-> s.pins[p].name, points |-> {}, data |-> FALSE]]

\* Encoding a pointer needs a uuid unless there is an objectId.
Pointable(s, objects) == Each(WithUuid, s, objects \ Saved)
Points(s, objects) == {IF o \in Saved THEN o ELSE s.uuidOf[o] : o \in objects}

\* UPDATE the row, which does nothing when there is none, and INSERT its
\* dependency on the key.
Updated(s, u, points, data, key) ==
  [s EXCEPT !.rows[u] = IF @ = NoRow THEN @ ELSE [@ EXCEPT !.points = points, !.data = data],
            !.deps = @ \union {<<key, u>>}]

\* saveObjectLocallyAsync:key:  leaves a pointer to a saved object alone.
SavedUnder(s, o, key) ==
  IF o \in Saved /\ s.held[o] # "data" THEN s
  ELSE LET known == IF s.held[o] = "data" THEN PointsTo(o) ELSE {}
           t == Pointable(WithUuid(s, o), known)
       IN Updated(t, t.uuidOf[o], Points(t, known), s.held[o] = "data", key)

PinSavedUnder(s, p, key) ==
  LET t == Pointable(s, s.pins[p].objects)
  IN Updated(t, t.pins[p].uuid, Points(t, t.pins[p].objects), TRUE, key)

\* Mutant: the maps keep the uuids of rows that are gone.
RowsWithout(s, doomed) ==
  [s EXCEPT !.rows = [u \in Uuids |-> IF u \in doomed THEN NoRow ELSE @[u]]]

\* Rows are deleted and their uuids removed from the maps.
Without(s, doomed) ==
  [s EXCEPT
     !.rows = [u \in Uuids |-> IF u \in doomed THEN NoRow ELSE @[u]],
     !.uuidOf = [o \in Objects |-> IF @[o] \in doomed THEN NoUuid ELSE @[o]],
     !.pins = [i \in Calls |->
                 IF @[i].uuid \in doomed THEN [@[i] EXCEPT !.uuid = NoUuid]
                 ELSE @[i]]]

KeysOf(s, u) == {d[1] : d \in {d \in s.deps : d[2] = u}}

\* _unpinKeyAsync: deletes the rows that depend on no other key.
UnpinKey(s, key) ==
  [Without(s, {u \in Uuids : KeysOf(s, u) = {key}}) EXCEPT !.deps = {d \in @ : d[1] # key}]

\* traverseObject: goes as far as there is data in memory.
Traversed(s, objects) ==
  objects \union UNION {PointsTo(o) : o \in {o \in objects : s.held[o] = "data"}}

Rewritten(s, p, tree) ==
  LET old == s.pins[p].uuid
      named == WithPinUuid(IF old = NoUuid THEN s ELSE UnpinKey(s, old), p)
      key == named.pins[p].uuid
  IN PinSavedUnder(Each(LAMBDA t, o : SavedUnder(t, o, key), named, tree), p, key)

\* Mutant: what is not in memory is not fetched before its row is deleted.
SavedPinUnread(s, p, tree) == Rewritten(s, p, tree)

\* saveObjectLocallyAsync:withChildren:  the tree was collected before what is
\* in it is fetched.
SavedPin(s, p, tree) == Rewritten(Each(Fetched, s, tree), p, tree)

-----------------------------------------------------------------------------
(* The calls.                                                              *)

\* Instances of PFPin that no call uses are let go.
Becomes(s, calls) ==
  /\ rows' = s.rows /\ deps' = s.deps
  /\ held' = s.held /\ fetched' = s.fetched /\ uuidOf' = s.uuidOf
  /\ call' = calls
  /\ pins' = [i \in Calls |->
                IF \E j \in Calls : calls[j].pin = i /\ calls[j].step # "done"
                THEN s.pins[i] ELSE NoPin]
  /\ dangled' = (dangled \/ \E u \in Uuids : Dangles(s.rows, u))

At(i, step) == [call EXCEPT ![i].step = step]
Done(i) == [call EXCEPT ![i] = [NoCall EXCEPT !.step = "done"]]

PinOps == {"pin", "pinWithoutChildren"}

\* What is promised of name n once it was asked to do op with o: "deep" goes
\* for what o points to as well.
Promised(op, n, o) ==
  [asked EXCEPT ![n] =
     [x \in Objects |->
        CASE op \in PinOps /\ x = o ->
               IF held[o] # "data"
               THEN (IF @[x] \in {"kept", "deep", "faded"} THEN "kept" ELSE "listed")
               ELSE IF op = "pin" /\ \A c \in PointsTo(o) : held[c] = "data" THEN "deep"
               ELSE "kept"
          [] op = "pinWithoutChildren" /\ x # o /\ @[x] \in {"deep", "faded"} -> "kept"
          [] op = "unpinAll" \/ (op = "unpin" /\ x = o) -> "out"
          [] OTHER -> @[x]]]

Overlap(op, n) ==
  LET others == {i \in Calls : InFlight(i) /\ call[i].name = n}
  IN IF others = {} THEN overlapped[n]
     ELSE IF op \in PinOps /\ overlapped[n] # "unpins"
             /\ \A i \in others : call[i].op \in PinOps
     THEN "pins" ELSE "unpins"

\* The application has the object, or makes a pointer from its objectId; to
\* unpin all it needs none.
Call(i, op, n, o) ==
  /\ call[i] = NoCall /\ \A j \in Calls : j < i => call[j] # NoCall
  /\ o \in Objects => held[o] # "absent" \/ o \in Saved
  /\ call' = [call EXCEPT ![i] = [op |-> op, name |-> n, obj |-> o, step |-> "waiting",
                                  pin |-> 0, key |-> NoUuid]]
  /\ held' = [x \in Objects |-> IF x = o /\ held[x] = "absent" THEN "pointer" ELSE held[x]]
  /\ asked' = Promised(op, n, o)
  /\ overlapped' = [overlapped EXCEPT ![n] = Overlap(op, n)]
  /\ UNCHANGED <<diskVars, fetched, uuidOf, pins, dbQueue, lapses, dangled>>

\* fetchPinAsyncWithName: queries for the pin after the queries of the calls
\* before it for that name, but not after what those calls then save.
Query(i) ==
  /\ call[i].step = "waiting"
  /\ \A j \in Calls : j < i /\ call[j].name = call[i].name => call[j].step \notin {"waiting", "find"}
  /\ call' = At(i, "find")
  /\ dbQueue' = Append(dbQueue, i)
  /\ UNCHANGED <<diskVars, memoryVars, lapses, askVars, dangled>>

NextInDatabase(i, step) == dbQueue # <<>> /\ Head(dbQueue) = i /\ call[i].step = step

\* A new PFPin when there is none; any one when there are more.
FindPin(i) ==
  /\ NextInDatabase(i, "find")
  /\ dbQueue' = Tail(dbQueue)
  /\ LET n == call[i].name
         found == RowsOf(Now, n)
     IN \/ /\ found = {}
           /\ Becomes([Now EXCEPT !.pins[i] = [name |-> n, objects |-> {}, uuid |-> NoUuid]],
                      [call EXCEPT ![i].step = "found", ![i].pin = i])
        \/ \E u \in found, j \in Calls :
             /\ pins[j].uuid = u
             /\ Becomes(Now, [call EXCEPT ![i].step = "found", ![i].pin = j])
        \/ \E u \in found :
             /\ \A j \in Calls : pins[j].uuid # u
             /\ Becomes([Decoded(Now, rows[u]) EXCEPT !.pins[i] =
                           [name |-> n, objects |-> {Pointed(Now, r) : r \in rows[u].points},
                            uuid |-> u]],
                        [call EXCEPT ![i].step = "found", ![i].pin = i])
  /\ UNCHANGED <<lapses, askVars>>

\* pinObjectsAsync: changes the objects of the instance and saves it.
ChangePin(i) ==
  /\ call[i].step = "found" /\ call[i].op \in PinOps
  /\ Becomes([Now EXCEPT !.pins[call[i].pin].objects = @ \union {call[i].obj}], At(i, "save"))
  /\ dbQueue' = Append(dbQueue, i)
  /\ UNCHANGED <<lapses, askVars>>

\* unpinObjectsAsync: saves what is left of the objects, or drops the pin.
ChangeUnpin(i) ==
  /\ call[i].step = "found" /\ call[i].op = "unpin"
  /\ LET p == call[i].pin
         left == pins[p].objects \ {call[i].obj}
         s == [Now EXCEPT !.pins[p].objects = left]
     IN IF pins[p].uuid = NoUuid /\ pins[p].objects = {}
        THEN Becomes(s, Done(i)) /\ UNCHANGED dbQueue
        ELSE IF left = {} THEN Becomes(s, At(i, "drop")) /\ UNCHANGED dbQueue
        ELSE Becomes(s, At(i, "save")) /\ dbQueue' = Append(dbQueue, i)
  /\ UNCHANGED <<lapses, askVars>>

\* unpinObjectAsync: reads the uuid of the pin now, and unpins it later.
DropPin(i) ==
  /\ call[i].step = "drop" \/ (call[i].step = "found" /\ call[i].op = "unpinAll")
  /\ LET u == pins[call[i].pin].uuid
     IN IF u = NoUuid THEN Becomes(Now, Done(i)) /\ UNCHANGED dbQueue
        ELSE /\ Becomes(Now, [call EXCEPT ![i].step = "unpin", ![i].key = u])
             /\ dbQueue' = Append(dbQueue, i)
  /\ UNCHANGED <<lapses, askVars>>

SavePin(i) ==
  /\ NextInDatabase(i, "save")
  /\ Cardinality(Unnamed(Now)) > Cardinality(Objects)
  /\ dbQueue' = Tail(dbQueue)
  /\ LET p == call[i].pin
         tree == IF call[i].op = "pinWithoutChildren" THEN pins[p].objects
                 ELSE Traversed(Now, pins[p].objects)
     IN Becomes(SavedPin(Now, p, tree), Done(i))
  /\ UNCHANGED <<lapses, askVars>>

RunUnpin(i) ==
  /\ NextInDatabase(i, "unpin")
  /\ dbQueue' = Tail(dbQueue)
  /\ Becomes(UnpinKey(Now, call[i].key), Done(i))
  /\ UNCHANGED <<lapses, askVars>>

\* The application queries the local datastore for an object.
LoadObject(o) ==
  /\ o \notin fetched /\ held[o] # "data"
  /\ \E u \in RowsOf(Now, o) :
       LET instance == IF held[o] = "absent"
                       THEN [Now EXCEPT !.held[o] = "pointer",
                                        !.uuidOf[o] = IF o \in Saved THEN @ ELSE u]
                       ELSE Now
       IN Becomes(Fetched(instance, o), call)
  /\ UNCHANGED <<dbQueue, lapses, askVars>>

\* Deep promises of objects that leave the memory.
Faded(objects) ==
  [n \in PinNames |->
     [o \in Objects |-> IF o \in objects /\ asked[n][o] = "deep" THEN "faded" ELSE asked[n][o]]]

\* A call holds its object until it has changed the pin, a pin its objects.
Using(o) ==
  \/ \E i \in Calls : call[i].step \in {"waiting", "find", "found"} /\ call[i].obj = o
  \/ \E p \in Calls : o \in pins[p].objects

\* The application lets go of objects at once.  The store has them in maps of
\* weak references, and there is no more of them than their rows.
Release(objects) ==
  /\ lapses < MaxLapses
  /\ objects # {}
  /\ \A o \in objects :
       /\ held[o] # "absent" /\ ~Using(o)
       /\ \A r \in Objects \ objects : held[r] = "data" => o \notin PointsTo(r)
  /\ lapses' = lapses + 1
  /\ held' = [o \in Objects |-> IF o \in objects THEN "absent" ELSE held[o]]
  /\ fetched' = fetched \ objects
  /\ uuidOf' = [o \in Objects |-> IF o \in objects THEN NoUuid ELSE uuidOf[o]]
  /\ asked' = Faded(objects)
  /\ UNCHANGED <<diskVars, pins, call, dbQueue, overlapped, dangled>>

\* The process dies and the application is opened again.  What was asked for
\* last of a name may have been done or not.
DieAndReopen ==
  /\ lapses < MaxLapses
  /\ lapses' = lapses + 1
  /\ held' = [o \in Objects |-> "absent"] /\ fetched' = {}
  /\ uuidOf' = [o \in Objects |-> NoUuid]
  /\ pins' = [i \in Calls |-> NoPin]
  /\ call' = [i \in Calls |-> IF InFlight(i) THEN [NoCall EXCEPT !.step = "done"] ELSE call[i]]
  /\ dbQueue' = <<>>
  /\ asked' = [n \in PinNames |->
                 [o \in Objects |->
                    IF \E i \in Calls : /\ InFlight(i) /\ call[i].name = n
                                        /\ call[i].obj = o \/ call[i].op = "unpinAll"
                    THEN "nothing" ELSE Faded(Objects)[n][o]]]
  /\ UNCHANGED <<diskVars, overlapped, dangled>>

StoreNext ==
  \/ \E i \in Calls :
       \/ \E n \in PinNames, o \in {Root, Other}, op \in PinOps \union {"unpin"} : Call(i, op, n, o)
       \/ \E n \in PinNames : Call(i, "unpinAll", n, "none")
       \/ Query(i) \/ FindPin(i) \/ ChangePin(i) \/ ChangeUnpin(i) \/ DropPin(i)
       \/ SavePin(i) \/ RunUnpin(i)
  \/ \E o \in Objects : LoadObject(o)
  \/ \E objects \in SUBSET Objects : Release(objects)
  \/ DieAndReopen

StoreSpec == StoreInit /\ [][StoreNext]_storeVars

-----------------------------------------------------------------------------
Quiet == \A i \in Calls : ~InFlight(i)

Lists(n, o) == \E u \in RowsOf(Now, n) : o \in {Pointed(Now, r) : r \in rows[u].points}

Stored(o) == \E u \in RowsOf(Now, o) : rows[u].data

\* With no call under way a name lists what was pinned with it and not what
\* was unpinned, whatever was done to other names; the data of what is listed
\* is stored, also of objects that have left the memory, and so is what an
\* object points to that has stayed in memory since it was pinned.
\* Calls for one name that overlap with an unpin promise nothing of that
\* name, and nothing is promised of data that points to a row that is gone.
\* (PFPinningObjectStore, PFOfflineStore.)
PinsAreAsAsked ==
  Quiet => \A n \in PinNames, o \in Objects :
    /\ asked[n][o] \notin {"nothing", "out"} /\ overlapped[n] # "unpins" =>
         /\ Lists(n, o)
         /\ asked[n][o] # "listed" /\ ~dangled => Stored(o)
         /\ asked[n][o] = "deep" /\ overlapped[n] = "no" /\ ~dangled =>
              \A c \in PointsTo(o) : Stored(c)
    /\ asked[n][o] = "out" /\ overlapped[n] = "no" => ~Lists(n, o)

\* Rows and dependencies belong together: a dependency has both its rows, data
\* is kept by some dependency and is stored once, a pin has its rows, and a
\* uuid in memory is that of a row of the object.
\* (PFOfflineStore _unpinKeyAsync:, getOrCreateUUIDAsyncForObject:.)
StoreIsClosed ==
  /\ \A d \in deps : rows[d[1]] # NoRow /\ rows[d[2]] # NoRow
  /\ \A u \in Uuids : rows[u] # NoRow /\ rows[u].data =>
       /\ \E d \in deps : d[2] = u
       /\ rows[u].of \in PinNames => ~Dangles(rows, u)
       /\ rows[u].of \in Objects => \A v \in RowsOf(Now, rows[u].of) : rows[v].data => v = u
  /\ \A o \in Objects : uuidOf[o] # NoUuid => rows[uuidOf[o]].of = o

\* "Asynchronously stores the object and every object it points to in the
\* local datastore, recursively": what a pinned object points to is stored,
\* also when the two have left the memory (the application was opened again, or
\* let go of them) and something else was pinned.
StoredRecursively ==
  Quiet => \A n \in PinNames, o \in Objects :
    asked[n][o] \in {"deep", "faded"} /\ overlapped[n] = "no" /\ ~dangled =>
      \A c \in PointsTo(o) : Stored(c)
=============================================================================
