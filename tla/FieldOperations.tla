--------------------------- MODULE FieldOperations ---------------------------
(***************************************************************************)
(* One field of a PFObject: the operations that change it, how operations  *)
(* that follow each other are merged into the one that is sent, and the    *)
(* value that the object shows meanwhile.                                  *)
(*                                                                         *)
(* An element of an array or a relation is its identity: an objectId, or   *)
(* for what has none the instance.  The operations treat instances with    *)
(* one objectId alike (PFFieldOperation.m:289-299, 370-381), and nothing   *)
(* here depends on the order in an array, which is a count for each        *)
(* element.  Numbers are halves, so that a fraction can get lost.          *)
(***************************************************************************)
EXTENDS Integers

CONSTANTS
  Elements,
  Amounts,         \* numbers the application uses
  IntMax,          \* the largest value of an int
  MaxOperations,   \* bound: operations on the field
  MaxFieldSaves    \* bound: saves of the object

Numbers == [type : {"number"}, kind : {"int", "long", "double"}, n : Int]
Arrays == [type : {"array"}, count : [Elements -> Nat]]
Relations == [type : {"relation"}, known : SUBSET Elements]
NoValue == [type |-> "none"]
OtherValue == [type |-> "other"]
Values == Numbers \union Arrays \union Relations \union {NoValue, OtherValue}

ASSUME FieldAssumption ==
  Amounts \subseteq Numbers /\ IntMax \in Nat /\ {MaxOperations, MaxFieldSaves} \subseteq Nat

Number(k, x) == [type |-> "number", kind |-> k, n |-> x]
Array(f) == [type |-> "array", count |-> f]
Relation(s) == [type |-> "relation", known |-> s]

\* Each of the objects once.
Once(objects) == [e \in Elements |-> IF e \in objects THEN 1 ELSE 0]

NoOperation == [op |-> "none"]
Set(v) == [op |-> "Set", value |-> v]
Delete == [op |-> "Delete"]
Increment(v) == [op |-> "Increment", amount |-> v]
Add(f) == [op |-> "Add", count |-> f]
AddUnique(s) == [op |-> "AddUnique", objects |-> s]
Remove(s) == [op |-> "Remove", objects |-> s]
ChangeRelation(add, remove) == [op |-> "Relation", toAdd |-> add, toRemove |-> remove]

Operations ==
  {NoOperation, Delete}
    \union [op : {"Set"}, value : Values \ {NoValue}]
    \union [op : {"Increment"}, amount : Numbers]
    \union [op : {"Add"}, count : [Elements -> Nat]]
    \union [op : {"AddUnique", "Remove"}, objects : SUBSET Elements]
    \union [op : {"Relation"}, toAdd : SUBSET Elements, toRemove : SUBSET Elements]

-----------------------------------------------------------------------------
(* Numbers.                                                                *)

\* longValue of a number of halves: the fraction is cut off.
Whole(x) == IF x >= 0 THEN x \div 2 ELSE -((-x) \div 2)

\* intValue of a whole number: its low bits.
AsInt(w) == ((w + IntMax + 1) % (2 * (IntMax + 1))) - (IntMax + 1)

\* addNumber:withNumber: computes in the type of the first number.
Plus(first, second) ==
  CASE first.kind = "double" -> Number("double", first.n + second.n)
    [] first.kind = "long" -> Number("long", 2 * (Whole(first.n) + Whole(second.n)))
    [] first.kind = "int" ->
         Number("int", 2 * AsInt(AsInt(Whole(first.n)) + AsInt(Whole(second.n))))

-----------------------------------------------------------------------------
(* applyToValue:forKey: and mergeWithPrevious:, and where they raise.      *)

Accepts(o, v) ==
  CASE o.op = "Increment" -> v.type \in {"none", "number"}
    [] o.op \in {"Add", "AddUnique", "Remove"} -> v.type \in {"none", "array"}
    [] o.op = "Relation" -> v.type \in {"none", "relation"}
    [] OTHER -> TRUE

CountIn(v) == IF v.type = "array" THEN v.count ELSE Once({})
KnownIn(v) == IF v.type = "relation" THEN v.known ELSE {}

\* removeObjectsInArray: of nothing gives the objects to be removed.
ApplyRemove(o, v) ==
  Array(IF v = NoValue THEN Once(o.objects)
        ELSE [e \in Elements |-> IF e \in o.objects THEN 0 ELSE v.count[e]])

Apply(o, v) ==
  CASE o.op = "Set" -> o.value
    [] o.op = "Delete" -> NoValue
    [] o.op = "Increment" -> IF v = NoValue THEN o.amount ELSE Plus(o.amount, v)
    [] o.op = "Add" -> Array([e \in Elements |-> CountIn(v)[e] + o.count[e]])
    [] o.op = "AddUnique" ->
         Array([e \in Elements |-> IF e \in o.objects /\ CountIn(v)[e] = 0
                                   THEN 1 ELSE CountIn(v)[e]])
    [] o.op = "Remove" -> ApplyRemove(o, v)
    [] o.op = "Relation" -> Relation((KnownIn(v) \union o.toAdd) \ o.toRemove)
    [] OTHER -> v

\* Operations of one kind that follow each other.
Combined(o, previous) ==
  CASE o.op = "Increment" -> Increment(Plus(o.amount, previous.amount))
    [] o.op = "Add" -> Add([e \in Elements |-> previous.count[e] + o.count[e]])
    [] o.op = "AddUnique" -> AddUnique(previous.objects \union o.objects)
    [] o.op = "Remove" -> Remove(previous.objects \union o.objects)
    [] o.op = "Relation" ->
         ChangeRelation(previous.toAdd \union o.toAdd,
                        (previous.toRemove \ o.toAdd) \union o.toRemove)

Merges(o, previous) ==
  \/ o.op \in {"Set", "Delete"}
  \/ previous.op = "none"
  \/ previous.op = "Delete" /\ o.op \in {"Increment", "Add", "AddUnique"}
  \/ /\ previous.op = "Set"
     /\ \/ o.op = "Increment" /\ previous.value.type = "number"
        \/ o.op \in {"Add", "AddUnique", "Remove"} /\ previous.value.type = "array"
  \/ previous.op = o.op

\* Mutant: what follows a Delete is sent as it is.
MergedOverDelete(o, previous) ==
  IF o.op \in {"Set", "Delete"} \/ previous.op \in {"none", "Delete"} THEN o
  ELSE IF previous.op = "Set" THEN Set(Apply(o, previous.value))
  ELSE Combined(o, previous)

Merged(o, previous) ==
  CASE o.op \in {"Set", "Delete"} \/ previous.op = "none" -> o
    [] o.op \notin {"Set", "Delete"} /\ previous.op = "Delete" -> Set(Apply(o, NoValue))
    [] o.op \notin {"Set", "Delete"} /\ previous.op = "Set" -> Set(Apply(o, previous.value))
    [] OTHER -> Combined(o, previous)

-----------------------------------------------------------------------------
(* What an operation means: a sum is exact and its type does not matter,   *)
(* and there is nothing to remove from nothing.                            *)

Meanings == [type : {"number"}, n : Int] \union (Values \ Numbers)

Meaning(v) == IF v.type = "number" THEN [type |-> "number", n |-> v.n] ELSE v

Meant(o, m) ==
  CASE o.op = "Set" -> Meaning(o.value)
    [] o.op = "Increment" /\ m = NoValue -> Meaning(o.amount)
    [] o.op = "Increment" /\ m.type = "number" ->
         [type |-> "number", n |-> o.amount.n + m.n]
    [] o.op = "Remove" /\ m = NoValue -> NoValue
    [] OTHER -> IF Accepts(o, m) /\ o.op # "Increment" THEN Apply(o, m) ELSE m

\* Applying o to v does something else.
Strays(o, v) ==
  \/ o.op = "Remove" /\ v = NoValue
  \/ o.op = "Increment" /\ v.type = "number" /\ Plus(o.amount, v).n # o.amount.n + v.n

\* Merging o does.
MergeStrays(o, previous) ==
  \/ previous.op = "Set" /\ Strays(o, previous.value)
  \/ o.op = "Increment" /\ previous.op = "Increment" /\ Strays(o, previous.amount)

-----------------------------------------------------------------------------
VARIABLES
  serverValue,  \* of the field in _state.serverData
  inflight,     \* the operation of the set that is being saved
  pending,      \* the operation of the set that collects changes
  shown,        \* of the field in _estimatedData
  operations, fieldSaves,   \* bound counters
  wanted,       \* history: what the operations of the application mean
  torn,         \* history: shown has a change that no set has
  dropped,      \* history: a failed save could not be merged into the next
  strayed       \* history: something was applied or merged differently

fieldVars == <<serverValue, inflight, pending, shown, operations, fieldSaves,
               wanted, torn, dropped, strayed>>

FieldTypeOK ==
  /\ {serverValue, shown} \subseteq Values
  /\ {inflight, pending} \subseteq Operations
  /\ operations \in Nat /\ fieldSaves \in Nat
  /\ wanted \in Meanings
  /\ {torn, dropped, strayed} \subseteq BOOLEAN

FieldInit ==
  /\ serverValue \in {NoValue, OtherValue, Array(Once({})), Relation({})}
                       \union Amounts
  /\ inflight = NoOperation /\ pending = NoOperation
  /\ shown = serverValue /\ wanted = Meaning(serverValue)
  /\ operations = 0 /\ fieldSaves = 0
  /\ torn = FALSE /\ dropped = FALSE /\ strayed = FALSE

\* The PFRelation that is shown is the very one of the server data.
Shared ==
  /\ serverValue.type = "relation" /\ shown.type = "relation"
  /\ inflight.op \in {"none", "Relation"} /\ pending.op \in {"none", "Relation"}

\* A change of a PFRelation is made in place (PFFieldOperation.m:548, 564-569).
InPlace(o, v) == IF o.op = "Relation" /\ v.type = "relation" THEN Apply(o, v) ELSE v

\* What the application may do to a field.
Inputs ==
  {Delete, Set(OtherValue)}
    \union {Set(v) : v \in Amounts} \union {Set(Array(Once({e}))) : e \in Elements}
    \union {Increment(v) : v \in Amounts}
    \union {Add(Once({e})) : e \in Elements}
    \union {AddUnique({e}) : e \in Elements} \union {Remove({e}) : e \in Elements}
    \union {ChangeRelation({e}, {}) : e \in Elements}
    \union {ChangeRelation({}, {e}) : e \in Elements}

\* performOperation:forKey: changes the estimated data first; one that its
\* value does not accept raises with nothing changed.
Show(o) ==
  /\ operations < MaxOperations
  /\ operations' = operations + 1
  /\ Accepts(o, shown)
  /\ shown' = Apply(o, shown)
  /\ serverValue' = IF Shared THEN InPlace(o, serverValue) ELSE serverValue

Perform(o) ==
  /\ Show(o)
  /\ Merges(o, pending)
  /\ pending' = Merged(o, pending)
  /\ wanted' = Meant(o, wanted)
  /\ strayed' = (strayed \/ Strays(o, shown) \/ MergeStrays(o, pending))
  /\ UNCHANGED <<inflight, fieldSaves, torn, dropped>>

\* The merge raises when the change is already shown.
PerformUnmerged(o) ==
  /\ Show(o)
  /\ ~Merges(o, pending)
  /\ torn' = TRUE
  /\ UNCHANGED <<inflight, pending, fieldSaves, wanted, dropped, strayed>>

StartFieldSave ==
  /\ fieldSaves < MaxFieldSaves
  /\ inflight = NoOperation /\ pending # NoOperation
  /\ inflight' = pending /\ pending' = NoOperation
  /\ fieldSaves' = fieldSaves + 1
  /\ UNCHANGED <<serverValue, shown, operations, wanted, torn, dropped, strayed>>

\* rebuildEstimatedData: o is the one operation left, base the server data.
Rebuild(o, base) ==
  /\ serverValue' = InPlace(o, base)
  /\ shown' = IF Accepts(o, base) THEN Apply(o, base) ELSE shown
  /\ torn' = ~Accepts(o, base)

\* _mergeAfterSaveWithResult: with an answer: the server has accepted the
\* operation.
SaveSucceeds ==
  /\ inflight # NoOperation /\ Accepts(inflight, serverValue)
  /\ inflight' = NoOperation
  /\ Rebuild(pending, Apply(inflight, serverValue))
  /\ strayed' = (\/ strayed \/ Strays(inflight, serverValue)
                 \/ Strays(pending, Apply(inflight, serverValue)))
  /\ UNCHANGED <<pending, operations, fieldSaves, wanted, dropped>>

\* ... and without: its set has left the queue before the merge, which may
\* raise.
SaveFails ==
  /\ inflight # NoOperation
  /\ inflight' = NoOperation
  /\ IF pending = NoOperation
     THEN pending' = inflight /\ UNCHANGED <<dropped, strayed>>
     ELSE IF Merges(pending, inflight)
     THEN /\ pending' = Merged(pending, inflight)
          /\ strayed' = (strayed \/ MergeStrays(pending, inflight))
          /\ UNCHANGED dropped
     ELSE dropped' = TRUE /\ UNCHANGED <<pending, strayed>>
  /\ UNCHANGED <<serverValue, shown, operations, fieldSaves, wanted, torn>>

\* revertObjectForKey:  What is left counts as wanted.
RevertKey ==
  /\ pending # NoOperation
  /\ pending' = NoOperation
  /\ Rebuild(inflight, serverValue)
  /\ wanted' = Meant(inflight, Meaning(serverValue))
  /\ strayed' = (strayed \/ Strays(inflight, serverValue))
  /\ UNCHANGED <<inflight, operations, fieldSaves, dropped>>

FieldNext ==
  \/ \E o \in Inputs : Perform(o) \/ PerformUnmerged(o)
  \/ StartFieldSave \/ SaveSucceeds \/ SaveFails \/ RevertKey

FieldSpec == FieldInit /\ [][FieldNext]_fieldVars

-----------------------------------------------------------------------------
\* The operations on their way to the server, merged or not, make of the
\* server's value what the application's operations mean one by one, and so
\* does the value it is shown; but for the divergences that the histories
\* name: numbers that do not add up, a merge that raises.
\* (PFFieldOperation mergeWithPrevious:, _mergeAfterSaveWithResult:.)
FieldIsWhatIsSent ==
  ~strayed /\ ~dropped =>
    /\ Meant(pending, Meant(inflight, Meaning(serverValue))) = wanted
    /\ ~torn => Meaning(shown) = wanted
=============================================================================
