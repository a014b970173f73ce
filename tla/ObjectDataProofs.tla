-------------------------- MODULE ObjectDataProofs --------------------------
(***************************************************************************)
(* Proofs about the data of objects, of the components that MCObjects      *)
(* extends: the operations on a field, and the local datastore.            *)
(*                                                                         *)
(* Merging operations on a field is sound for all elements, numbers and    *)
(* widths of an int, whatever operations, saves, failures and reverts      *)
(* follow each other.                                                      *)
(*                                                                         *)
(* The local datastore is proved about for any objectIds, names, uuids,    *)
(* calls and deaths.  An operation of it is a chain of functions from the  *)
(* tables and maps to others: there is a lemma for each function about the *)
(* state it leaves, and then one for each action.                          *)
(***************************************************************************)
EXTENDS FieldOperations, OfflineStore, TLAPS, FiniteSetTheorems

-----------------------------------------------------------------------------
\* Operations on a field.

\* Operations and values by their kind.
LEMMA OperationKinds ==
  ASSUME NEW o \in Operations
  PROVE  \/ o = NoOperation
         \/ o = Delete
         \/ o.op = "Set" /\ o.value \in Values \ {NoValue}
         \/ o.op = "Increment" /\ o.amount \in Numbers
         \/ o.op = "Add" /\ o.count \in [Elements -> Nat]
         \/ o.op \in {"AddUnique", "Remove"} /\ o.objects \in SUBSET Elements
         \/ o.op = "Relation" /\ o.toAdd \in SUBSET Elements /\ o.toRemove \in SUBSET Elements
BY DEF Operations

LEMMA ValueKinds ==
  ASSUME NEW v \in Values
  PROVE  \/ v = NoValue
         \/ v = OtherValue
         \/ v \in Numbers /\ v.type = "number" /\ v.n \in Int
         \/ v \in Arrays /\ v.type = "array" /\ v.count \in [Elements -> Nat]
         \/ v \in Relations /\ v.type = "relation" /\ v.known \in SUBSET Elements
BY DEF Values, Numbers, Arrays, Relations

\* A sum is a number (PFInternalUtils addNumber:withNumber:).
LEMMA SumIsNumber ==
  ASSUME NEW a \in Numbers, NEW b \in Numbers
  PROVE  Plus(a, b) \in Numbers
<1>1. /\ a.n \in Int /\ b.n \in Int /\ a.kind \in {"int", "long", "double"}
  BY DEF Numbers
<1>2. Whole(a.n) \in Int /\ Whole(b.n) \in Int
  BY <1>1 DEF Whole
<1>3. \A w \in Int : AsInt(w) \in Int
  BY FieldAssumption DEF AsInt
<1>4. /\ a.n + b.n \in Int
      /\ 2 * (Whole(a.n) + Whole(b.n)) \in Int
      /\ 2 * AsInt(AsInt(Whole(a.n)) + AsInt(Whole(b.n))) \in Int
  <2>1. AsInt(Whole(a.n)) \in Int /\ AsInt(Whole(b.n)) \in Int
    BY <1>2, <1>3
  <2>2. AsInt(AsInt(Whole(a.n)) + AsInt(Whole(b.n))) \in Int
    BY <2>1, <1>3
  <2> HIDE DEF Whole, AsInt
  <2> QED BY <1>1, <1>2, <2>2
<1>5. \A k \in {"int", "long", "double"}, x \in Int : Number(k, x) \in Numbers
  BY DEF Number, Numbers
<1> QED BY <1>1, <1>4, <1>5 DEF Plus

\* The constructors make values.
LEMMA Constructed ==
  /\ \A f \in [Elements -> Nat] : Array(f) \in Values
  /\ \A s \in SUBSET Elements : Relation(s) \in Values /\ Once(s) \in [Elements -> Nat]
  /\ NoValue \in Values /\ OtherValue \in Values
BY DEF Array, Arrays, Relation, Relations, Once, Values

\* Counts and known objects of any value.
LEMMA Contents ==
  ASSUME NEW v \in Values
  PROVE  CountIn(v) \in [Elements -> Nat] /\ KnownIn(v) \in SUBSET Elements
BY ValueKinds, Constructed DEF CountIn, KnownIn, NoValue, OtherValue

\* An operation makes a value of a value that accepts it.
LEMMA ApplyType ==
  ASSUME NEW o \in Operations, NEW v \in Values, Accepts(o, v)
  PROVE  Apply(o, v) \in Values
<1> USE OperationKinds, ValueKinds, Constructed, Contents
<1>1. CASE o.op \in {"none", "Set", "Delete"}
  BY <1>1 DEF Apply, NoOperation, Delete
<1>2. CASE o.op = "Increment"
  <2>1. o.amount \in Numbers /\ (v = NoValue \/ v \in Numbers)
    BY <1>2 DEF Accepts, NoValue, OtherValue, NoOperation, Delete
  <2>2. Apply(o, v) \in Numbers
    BY <1>2, <2>1, SumIsNumber DEF Apply
  <2> QED BY <2>2 DEF Values
<1>3. CASE o.op \in {"Add", "AddUnique"}
  BY <1>3 DEF Apply, NoOperation, Delete
<1>4. CASE o.op = "Remove"
  BY <1>4 DEF Apply, ApplyRemove, Accepts, NoValue, OtherValue, NoOperation, Delete
<1>5. CASE o.op = "Relation"
  BY <1>5 DEF Apply, NoOperation, Delete
<1> QED BY <1>1, <1>2, <1>3, <1>4, <1>5 DEF NoOperation, Delete

\* What a value means, and what an operation means, is a meaning.
LEMMA MeaningType ==
  ASSUME NEW v \in Values
  PROVE  Meaning(v) \in Meanings /\ Meaning(v).type = v.type
BY ValueKinds, Constructed DEF Meaning, Meanings, NoValue, OtherValue, Numbers, Arrays, Relations

LEMMA MeaningKinds ==
  ASSUME NEW m \in Meanings
  PROVE  \/ m = NoValue
         \/ m = OtherValue
         \/ m.type = "number" /\ m.n \in Int /\ m = [type |-> "number", n |-> m.n]
         \/ m \in Arrays /\ m.type = "array" /\ m.count \in [Elements -> Nat]
         \/ m \in Relations /\ m.type = "relation" /\ m.known \in SUBSET Elements
BY ValueKinds DEF Meanings, Values, Arrays, Relations

\* Meanings that are not numbers are values, and mean themselves.
LEMMA MeaningValues ==
  ASSUME NEW m \in Meanings, m.type # "number"
  PROVE  m \in Values /\ Meaning(m) = m
BY MeaningKinds, Constructed DEF Values, Meaning, Arrays, Relations

LEMMA AppliedIsNoNumber ==
  ASSUME NEW o, o.op \in {"Add", "AddUnique", "Remove", "Relation", "Delete"}, NEW v
  PROVE  Apply(o, v).type # "number"
BY DEF Apply, ApplyRemove, Array, Relation, NoValue

LEMMA MeantType ==
  ASSUME NEW o \in Operations, NEW m \in Meanings
  PROVE  Meant(o, m) \in Meanings
<1> USE DEF NoOperation, Delete
<1>1. CASE o.op = "none"
  BY <1>1 DEF Meant, Apply
<1>2. CASE o.op = "Set"
  BY <1>2, OperationKinds, MeaningType DEF Meant
<1>3. CASE o.op = "Increment"
  <2>1. o.amount \in Numbers
    BY <1>3, OperationKinds
  <2>2. CASE m = NoValue
    <3>1. Meant(o, m) = Meaning(o.amount)
      BY <1>3, <2>2 DEF Meant, NoValue
    <3> QED BY <2>1, <3>1, MeaningType DEF Values
  <2>3. CASE m.type = "number"
    <3>1. m # NoValue /\ m.n \in Int
      BY <2>3, MeaningKinds DEF NoValue, OtherValue, Arrays, Relations
    <3>2. Meant(o, m) = [type |-> "number", n |-> o.amount.n + m.n]
      BY <1>3, <2>3, <3>1 DEF Meant
    <3>3. o.amount.n + m.n \in Int
      BY <2>1, <3>1 DEF Numbers
    <3> QED BY <3>2, <3>3 DEF Meanings
  <2> QED BY <1>3, <2>2, <2>3 DEF Meant
<1>4. CASE o.op \in {"Delete", "Add", "AddUnique", "Remove", "Relation"}
  <2>1. CASE o.op = "Remove" /\ m = NoValue
    BY <2>1 DEF Meant, Meanings, Values, NoValue, Numbers
  <2>2. CASE ~(o.op = "Remove" /\ m = NoValue) /\ Accepts(o, m)
    <3>1. Meant(o, m) = Apply(o, m)
      BY <1>4, <2>2 DEF Meant
    <3>2. CASE o.op = "Delete"
      BY <3>1, <3>2, Constructed DEF Apply, Meanings, Numbers, NoValue
    <3>3. CASE o.op # "Delete"
      <4>1. m.type # "number"
        BY <1>4, <2>2, <3>3 DEF Accepts
      <4>2. Apply(o, m) \in Values
        BY <2>2, <4>1, MeaningValues, ApplyType
      <4> QED BY <1>4, <3>1, <4>2, AppliedIsNoNumber DEF Meanings, Numbers
    <3> QED BY <3>2, <3>3
  <2>3. CASE ~(o.op = "Remove" /\ m = NoValue) /\ ~Accepts(o, m)
    BY <1>4, <2>3 DEF Meant
  <2> QED BY <2>1, <2>2, <2>3
<1> QED BY <1>1, <1>2, <1>3, <1>4, OperationKinds

\* Applying does what the operation means, but for sums that are not exact and
\* what is removed from nothing (applyToValue:forKey:).
LEMMA ApplyMeans ==
  ASSUME NEW o \in Operations, NEW v \in Values, Accepts(o, v), ~Strays(o, v)
  PROVE  Meaning(Apply(o, v)) = Meant(o, Meaning(v))
<1> USE DEF NoOperation, Delete
<1>1. CASE o.op \in {"none", "Set"}
  BY <1>1 DEF Meant, Apply
<1>2. CASE o.op = "Increment"
  <2>1. o.amount \in Numbers
    BY <1>2, OperationKinds
  <2>0. v.type \in {"none", "number"}
    BY <1>2 DEF Accepts
  <2>2. CASE v = NoValue
    BY <1>2, <2>2 DEF Meant, Apply, Meaning, NoValue
  <2>3. CASE v \in Numbers /\ v.type = "number"
    <3>1. Plus(o.amount, v) \in Numbers /\ Plus(o.amount, v).n = o.amount.n + v.n
      BY <1>2, <2>1, <2>3, SumIsNumber DEF Strays
    <3>2. v # NoValue
      BY <2>3 DEF NoValue
    <3>3. Meaning(v) = [type |-> "number", n |-> v.n] /\ Meaning(v) # NoValue
      BY <2>3 DEF Meaning, NoValue
    <3>4. Apply(o, v) = Plus(o.amount, v)
      BY <1>2, <3>2 DEF Apply
    <3>5. Meaning(Plus(o.amount, v)) = [type |-> "number", n |-> o.amount.n + v.n]
      BY <3>1 DEF Meaning, Numbers
    <3>6. Meant(o, Meaning(v)) = [type |-> "number", n |-> o.amount.n + v.n]
      BY <1>2, <3>3 DEF Meant
    <3> QED BY <3>4, <3>5, <3>6
  <2> QED BY <2>0, <2>2, <2>3, ValueKinds DEF OtherValue
<1>3. CASE o.op = "Delete"
  BY <1>3 DEF Meant, Apply, Accepts, Meaning, NoValue
<1>4. CASE o.op \in {"Add", "AddUnique", "Remove", "Relation"}
  <2>1. v.type # "number"
    BY <1>4 DEF Accepts
  <2>2. Meaning(v) = v
    BY <2>1 DEF Meaning
  <2>3. Meant(o, v) = Apply(o, v)
    BY <1>4 DEF Meant, Strays
  <2>4. Meaning(Apply(o, v)) = Apply(o, v)
    BY <1>4, AppliedIsNoNumber DEF Meaning
  <2> QED BY <2>2, <2>3, <2>4
<1> QED BY <1>1, <1>2, <1>3, <1>4, OperationKinds

\* What an operation makes is never "no value", unless it deletes.
LEMMA AppliedIsValue ==
  ASSUME NEW o \in Operations, NEW v \in Values, Accepts(o, v),
         o.op \in {"Increment", "Add", "AddUnique", "Remove"}
  PROVE  Apply(o, v) \in Values \ {NoValue}
<1>1. Apply(o, v) \in Values
  BY ApplyType
<1>2. CASE o.op = "Increment"
  <2>1. o.amount \in Numbers /\ v.type \in {"none", "number"}
    BY <1>2, OperationKinds DEF Accepts, NoOperation, Delete
  <2>2. v = NoValue \/ v \in Numbers
    BY <2>1, ValueKinds DEF OtherValue
  <2>3. Apply(o, v) \in Numbers
    BY <1>2, <2>1, <2>2, SumIsNumber DEF Apply
  <2> QED BY <1>1, <2>3 DEF Numbers, NoValue
<1>3. CASE o.op \in {"Add", "AddUnique", "Remove"}
  BY <1>1, <1>3 DEF Apply, ApplyRemove, Array, NoValue
<1> QED BY <1>2, <1>3

\* Two operations of one kind do together what they do one after the other.
LEMMA CombinedMeans ==
  ASSUME NEW o \in Operations, NEW p \in Operations, p.op = o.op,
         o.op \in {"Increment", "Add", "AddUnique", "Remove", "Relation"},
         ~MergeStrays(o, p), NEW m \in Meanings
  PROVE  /\ Combined(o, p) \in Operations
         /\ Combined(o, p).op = o.op
         /\ Meant(Combined(o, p), m) = Meant(o, Meant(p, m))
<1> USE DEF NoOperation, Delete
<1>1. CASE o.op = "Increment"
  <2> DEFINE sum == Plus(o.amount, p.amount)
  <2>1. o.amount \in Numbers /\ p.amount \in Numbers /\ p.amount.type = "number"
    BY <1>1, OperationKinds DEF Numbers
  <2>2. sum \in Numbers /\ sum.n = o.amount.n + p.amount.n
    BY <1>1, <2>1, SumIsNumber DEF MergeStrays, Strays
  <2>3. Combined(o, p) = [op |-> "Increment", amount |-> sum]
    BY <1>1 DEF Combined, Increment
  <2>4. Combined(o, p) \in Operations /\ Combined(o, p).op = "Increment"
    BY <2>2, <2>3 DEF Operations
  <2>5. Meaning(p.amount) = [type |-> "number", n |-> p.amount.n]
        /\ Meaning(sum) = [type |-> "number", n |-> o.amount.n + p.amount.n]
    BY <2>1, <2>2 DEF Meaning, Numbers
  <2>6. CASE m = NoValue
    <3>1. Meant(p, m) = [type |-> "number", n |-> p.amount.n]
      BY <1>1, <2>5, <2>6 DEF Meant, NoValue
    <3>2. Meant(o, Meant(p, m)) = [type |-> "number", n |-> o.amount.n + p.amount.n]
      BY <1>1, <3>1 DEF Meant, NoValue
    <3>3. Meant(Combined(o, p), m) = Meaning(sum)
      BY <2>3, <2>6 DEF Meant, NoValue
    <3> QED BY <1>1, <2>4, <2>5, <3>2, <3>3
  <2>7. CASE m.type = "number"
    <3>1. m # NoValue /\ m.n \in Int
      BY <2>7, MeaningKinds DEF NoValue, OtherValue, Arrays, Relations
    <3>2. Meant(p, m) = [type |-> "number", n |-> p.amount.n + m.n]
      BY <1>1, <2>7, <3>1 DEF Meant
    <3>3. Meant(o, Meant(p, m)) = [type |-> "number", n |-> o.amount.n + (p.amount.n + m.n)]
      BY <1>1, <3>2 DEF Meant, NoValue
    <3>4. Meant(Combined(o, p), m) = [type |-> "number", n |-> sum.n + m.n]
      BY <2>3, <2>7, <3>1 DEF Meant
    <3>5. sum.n + m.n = o.amount.n + (p.amount.n + m.n)
      BY <2>1, <2>2, <3>1 DEF Numbers
    <3> QED BY <1>1, <2>4, <3>3, <3>4, <3>5
  <2>8. CASE m # NoValue /\ m.type # "number"
    <3>1. \A q : q.op = "Increment" => Meant(q, m) = m
      BY <2>8 DEF Meant
    <3> QED BY <1>1, <2>4, <3>1
  <2> QED BY <1>1, <2>4, <2>6, <2>7, <2>8
<1>2. CASE o.op = "Add"
  <2>1. o.count \in [Elements -> Nat] /\ p.count \in [Elements -> Nat]
    BY <1>2, OperationKinds
  <2> DEFINE Both(f, g) == [e \in Elements |-> f[e] + g[e]]
  <2>2. Combined(o, p) = [op |-> "Add", count |-> Both(p.count, o.count)]
    BY <1>2 DEF Combined, Add
  <2>3. Both(p.count, o.count) \in [Elements -> Nat]
    BY <2>1
  <2>4. Combined(o, p) \in Operations /\ Combined(o, p).op = "Add"
    <3> HIDE DEF Both
    <3> QED BY <2>2, <2>3 DEF Operations
  <2>5. CASE m.type \in {"none", "array"}
    <3>1. CountIn(m) \in [Elements -> Nat]
      BY <2>5, MeaningKinds, Constructed DEF CountIn, NoValue, OtherValue, Relations
    <3>2. \A q, x : q.op = "Add" /\ x.type \in {"none", "array"}
            => Meant(q, x) = Array(Both(CountIn(x), q.count))
      BY DEF Meant, Accepts, Apply
    <3>3. \A f : Array(f).type = "array" /\ CountIn(Array(f)) = f
      BY DEF Array, CountIn
    <3>4. \A f, g, h \in [Elements -> Nat] : Both(Both(f, g), h) = Both(f, Both(g, h))
      OBVIOUS
    <3> HIDE DEF Both
    <3>5. Meant(o, Meant(p, m)) = Array(Both(Both(CountIn(m), p.count), o.count))
      BY <1>2, <2>5, <3>2, <3>3
    <3>6. Meant(Combined(o, p), m) = Array(Both(CountIn(m), Both(p.count, o.count)))
      BY <2>2, <2>5, <3>2
    <3> QED BY <1>2, <2>1, <2>4, <3>1, <3>4, <3>5, <3>6
  <2>6. CASE m.type \notin {"none", "array"}
    BY <1>2, <2>4, <2>6 DEF Meant, Accepts
  <2> QED BY <2>5, <2>6
<1>3. CASE o.op = "AddUnique"
  <2>0. o.objects \in SUBSET Elements /\ p.objects \in SUBSET Elements
    BY <1>3, OperationKinds
  <2>1. /\ Combined(o, p) \in Operations /\ Combined(o, p).op = "AddUnique"
        /\ Combined(o, p).objects = p.objects \union o.objects
    BY <1>3, <2>0 DEF Combined, AddUnique, Operations
  <2>2. CASE m.type \in {"none", "array"}
    <3> DEFINE With(s, f) ==
          [e \in Elements |-> IF e \in s /\ f[e] = 0 THEN 1 ELSE f[e]]
    <3>1. \A q, x : q.op = "AddUnique" /\ x.type \in {"none", "array"}
            => Meant(q, x) = Array(With(q.objects, CountIn(x)))
      BY DEF Meant, Accepts, Apply
    <3>2. \A f : Array(f).type = "array" /\ CountIn(Array(f)) = f
      BY DEF Array, CountIn
    <3>3. \A s, t, f : With(t, With(s, f)) = With(s \union t, f)
      OBVIOUS
    <3> HIDE DEF With
    <3>4. Meant(o, Meant(p, m)) = Array(With(o.objects, With(p.objects, CountIn(m))))
      BY <1>3, <2>2, <3>1, <3>2
    <3>5. Meant(Combined(o, p), m) = Array(With(p.objects \union o.objects, CountIn(m)))
      BY <2>1, <2>2, <3>1
    <3> QED BY <1>3, <2>1, <3>3, <3>4, <3>5
  <2>3. CASE m.type \notin {"none", "array"}
    BY <1>3, <2>1, <2>3 DEF Meant, Accepts
  <2> QED BY <2>2, <2>3
<1>4. CASE o.op = "Remove"
  <2>0. o.objects \in SUBSET Elements /\ p.objects \in SUBSET Elements
    BY <1>4, OperationKinds
  <2>1. /\ Combined(o, p) \in Operations /\ Combined(o, p).op = "Remove"
        /\ Combined(o, p).objects = p.objects \union o.objects
    BY <1>4, <2>0 DEF Combined, Remove, Operations
  <2>2. CASE m.type = "array"
    <3> DEFINE Less(s, f) == [e \in Elements |-> IF e \in s THEN 0 ELSE f[e]]
    <3>1. \A q, x : q.op = "Remove" /\ x.type = "array"
            => Meant(q, x) = Array(Less(q.objects, x.count))
      BY DEF Meant, Accepts, Apply, ApplyRemove, NoValue
    <3>2. \A f : Array(f).type = "array" /\ Array(f).count = f
      BY DEF Array
    <3>3. \A s, t, f : Less(t, Less(s, f)) = Less(s \union t, f)
      OBVIOUS
    <3> HIDE DEF Less
    <3>4. Meant(o, Meant(p, m)) = Array(Less(o.objects, Less(p.objects, m.count)))
      BY <1>4, <2>2, <3>1, <3>2
    <3>5. Meant(Combined(o, p), m) = Array(Less(p.objects \union o.objects, m.count))
      BY <2>1, <2>2, <3>1
    <3> QED BY <1>4, <2>1, <3>3, <3>4, <3>5
  <2>3. CASE m = NoValue
    BY <1>4, <2>1, <2>3 DEF Meant
  <2>4. CASE m.type \notin {"none", "array"}
    BY <1>4, <2>1, <2>4 DEF Meant, Accepts, NoValue
  <2>5. m.type = "none" => m = NoValue
    BY MeaningKinds DEF OtherValue
  <2> QED BY <2>2, <2>3, <2>4, <2>5
<1>5. CASE o.op = "Relation"
  <2>1. /\ Combined(o, p) \in Operations /\ Combined(o, p).op = "Relation"
        /\ Combined(o, p).toAdd = p.toAdd \union o.toAdd
        /\ Combined(o, p).toRemove = (p.toRemove \ o.toAdd) \union o.toRemove
    BY <1>5, OperationKinds DEF Combined, ChangeRelation, Operations
  <2>2. CASE m.type \in {"none", "relation"}
    <3>1. \A q \in Operations : \A x : q.op = "Relation" /\ x.type \in {"none", "relation"}
            => Meant(q, x) = Relation((KnownIn(x) \union q.toAdd) \ q.toRemove)
      BY DEF Meant, Accepts, Apply
    <3>2. \A f : Relation(f).type = "relation" /\ KnownIn(Relation(f)) = f
      BY DEF Relation, KnownIn
    <3>3. Meant(o, Meant(p, m))
            = Relation((((KnownIn(m) \union p.toAdd) \ p.toRemove) \union o.toAdd) \ o.toRemove)
      BY <1>5, <2>2, <3>1, <3>2
    <3>4. Meant(Combined(o, p), m)
            = Relation((KnownIn(m) \union (p.toAdd \union o.toAdd))
                         \ ((p.toRemove \ o.toAdd) \union o.toRemove))
      BY <2>1, <2>2, <3>1
    <3>5. (((KnownIn(m) \union p.toAdd) \ p.toRemove) \union o.toAdd) \ o.toRemove
            = (KnownIn(m) \union (p.toAdd \union o.toAdd))
                \ ((p.toRemove \ o.toAdd) \union o.toRemove)
      OBVIOUS
    <3> QED BY <1>5, <2>1, <3>3, <3>4, <3>5
  <2>3. CASE m.type \notin {"none", "relation"}
    BY <1>5, <2>1, <2>3 DEF Meant, Accepts
  <2> QED BY <2>2, <2>3
<1> QED BY <1>1, <1>2, <1>3, <1>4, <1>5

\* Merging gives an operation, exact or not.
LEMMA MergedType ==
  ASSUME NEW o \in Operations, NEW p \in Operations, o # NoOperation, Merges(o, p)
  PROVE  Merged(o, p) \in Operations
<1> USE DEF NoOperation, Delete
<1>1. CASE o.op \in {"Set", "Delete"} \/ p.op = "none"
  BY <1>1 DEF Merged
<1>2. CASE o.op \notin {"Set", "Delete"} /\ p.op = "Delete"
  <2>1. o.op \in {"Increment", "Add", "AddUnique"} /\ Accepts(o, NoValue)
    BY <1>2, OperationKinds DEF Merges, Accepts, NoValue
  <2>2. Apply(o, NoValue) \in Values \ {NoValue}
    BY <2>1, Constructed, AppliedIsValue
  <2>3. Merged(o, p) = Set(Apply(o, NoValue))
    BY <1>2 DEF Merged
  <2> QED BY <2>2, <2>3 DEF Set, Operations
<1>3. CASE o.op \notin {"Set", "Delete"} /\ p.op = "Set"
  <2>1. p.value \in Values /\ Accepts(o, p.value)
        /\ o.op \in {"Increment", "Add", "AddUnique", "Remove"}
    BY <1>3, OperationKinds DEF Merges, Accepts
  <2>2. Apply(o, p.value) \in Values \ {NoValue}
    BY <2>1, AppliedIsValue
  <2>3. Merged(o, p) = Set(Apply(o, p.value))
    BY <1>3 DEF Merged
  <2> QED BY <2>2, <2>3 DEF Set, Operations
<1>4. CASE o.op \notin {"Set", "Delete"} /\ p.op \notin {"none", "Delete", "Set"}
  <2>1. p.op = o.op /\ o.op \in {"Increment", "Add", "AddUnique", "Remove", "Relation"}
    BY <1>4, OperationKinds DEF Merges
  <2>2. Merged(o, p) = Combined(o, p)
    BY <1>4, <2>1 DEF Merged
  <2>3. CASE o.op = "Increment"
    <3>1. Plus(o.amount, p.amount) \in Numbers
      BY <2>1, <2>3, OperationKinds, SumIsNumber
    <3>2. Combined(o, p) = [op |-> "Increment", amount |-> Plus(o.amount, p.amount)]
      BY <2>3 DEF Combined, Increment
    <3> QED BY <2>2, <3>1, <3>2 DEF Operations
  <2>4. CASE o.op # "Increment"
    <3>1. ~MergeStrays(o, p)
      BY <1>4, <2>4 DEF MergeStrays
    <3>2. NoValue \in Meanings
      BY Constructed DEF Meanings, Numbers, NoValue
    <3> QED BY <2>1, <2>2, <3>1, <3>2, CombinedMeans
  <2> QED BY <2>3, <2>4
<1> QED BY <1>1, <1>2, <1>3, <1>4

\* A merged operation does what its parts do one after the other
\* (mergeWithPrevious:).
THEOREM MergeMeansBoth ==
  ASSUME NEW o \in Operations, NEW p \in Operations, o # NoOperation,
         Merges(o, p), ~MergeStrays(o, p), NEW m \in Meanings
  PROVE  Merged(o, p) \in Operations /\ Meant(Merged(o, p), m) = Meant(o, Meant(p, m))
<1> USE DEF NoOperation, Delete
<1>1. CASE o.op \in {"Set", "Delete"}
  BY <1>1 DEF Merged, Meant, Accepts, Apply
<1>2. CASE p.op = "none"
  BY <1>2 DEF Merged, Meant, Accepts, Apply
<1>3. CASE o.op \notin {"Set", "Delete"} /\ p.op = "Delete"
  <2>1. o.op \in {"Increment", "Add", "AddUnique"}
    BY <1>3, OperationKinds DEF Merges
  <2>2. Accepts(o, NoValue) /\ ~Strays(o, NoValue) /\ Meaning(NoValue) = NoValue
    BY <2>1 DEF Accepts, Strays, NoValue, Meaning
  <2>3. Apply(o, NoValue) \in Values \ {NoValue}
    BY <2>1, <2>2, Constructed, AppliedIsValue
  <2>4. Meaning(Apply(o, NoValue)) = Meant(o, NoValue)
    BY <2>2, Constructed, ApplyMeans
  <2>5. Merged(o, p) = Set(Apply(o, NoValue))
    BY <1>3 DEF Merged
  <2>6. Meant(p, m) = NoValue
    BY <1>3 DEF Meant, Accepts, Apply
  <2>7. Meant(Set(Apply(o, NoValue)), m) = Meaning(Apply(o, NoValue))
    BY DEF Meant, Set
  <2>8. Set(Apply(o, NoValue)) \in Operations
    BY <2>3 DEF Set, Operations
  <2> QED BY <2>4, <2>5, <2>6, <2>7, <2>8
<1>4. CASE o.op \notin {"Set", "Delete"} /\ p.op = "Set"
  <2>1. p.value \in Values
    BY <1>4, OperationKinds
  <2>2. o.op \in {"Increment", "Add", "AddUnique", "Remove"} /\ Accepts(o, p.value)
    BY <1>4, OperationKinds DEF Merges, Accepts
  <2>3. ~Strays(o, p.value)
    BY <1>4 DEF MergeStrays
  <2>4. Apply(o, p.value) \in Values \ {NoValue}
    BY <2>1, <2>2, AppliedIsValue
  <2>5. Meaning(Apply(o, p.value)) = Meant(o, Meaning(p.value))
    BY <2>1, <2>2, <2>3, ApplyMeans
  <2>6. Merged(o, p) = Set(Apply(o, p.value)) /\ Meant(p, m) = Meaning(p.value)
    BY <1>4 DEF Merged, Meant
  <2>7. Meant(Set(Apply(o, p.value)), m) = Meaning(Apply(o, p.value))
    BY DEF Meant, Set
  <2>8. Set(Apply(o, p.value)) \in Operations
    BY <2>4 DEF Set, Operations
  <2> QED BY <2>5, <2>6, <2>7, <2>8
<1>5. CASE o.op \notin {"Set", "Delete"} /\ p.op \notin {"none", "Delete", "Set"}
  <2>1. p.op = o.op /\ o.op \in {"Increment", "Add", "AddUnique", "Remove", "Relation"}
    BY <1>5, OperationKinds DEF Merges
  <2>2. Merged(o, p) = Combined(o, p)
    BY <1>5, <2>1 DEF Merged
  <2> QED BY <2>1, <2>2, CombinedMeans
<1> QED BY <1>1, <1>2, <1>3, <1>4, <1>5

-----------------------------------------------------------------------------
(* The invariant.  A change of a PFRelation in place reaches the server    *)
(* data before it is saved; done again with the save it makes no           *)
(* difference, which is what keeps the invariant.                          *)

LEMMA RelationMeans ==
  ASSUME NEW q, q.op = "Relation", NEW x, x.type = "relation"
  PROVE  Meant(q, x) = Relation((x.known \union q.toAdd) \ q.toRemove)
BY DEF Meant, Accepts, Apply, KnownIn

LEMMA InPlaceKeepsMeaning ==
  ASSUME NEW o \in Operations, o.op = "Relation",
         NEW p \in Operations, p.op \in {"none", "Relation"},
         NEW q \in Operations, q.op \in {"none", "Relation"},
         NEW v \in Values, v.type = "relation"
  PROVE  /\ Meaning(Apply(o, v)) = Apply(o, v) /\ Meaning(v) = v
         /\ Meant(o, Meant(p, Meant(q, Apply(o, v)))) = Meant(o, Meant(p, Meant(q, v)))
<1> DEFINE After(r, s) == IF r.op = "none" THEN s ELSE (s \union r.toAdd) \ r.toRemove
<1> DEFINE k == v.known
<1>1. \A r, s : r.op \in {"none", "Relation"} => Meant(r, Relation(s)) = Relation(After(r, s))
  <2>1. \A r, s : r.op = "none" => Meant(r, Relation(s)) = Relation(s)
    BY DEF Meant, Accepts, Apply
  <2>2. \A r, s : r.op = "Relation" =>
          Meant(r, Relation(s)) = Relation((s \union r.toAdd) \ r.toRemove)
    BY RelationMeans DEF Relation
  <2> QED BY <2>1, <2>2
<1>2. v = Relation(k)
  BY ValueKinds DEF NoValue, OtherValue, Numbers, Arrays, Relations, Relation
<1>3. Apply(o, v) = Relation(After(o, k))
  BY <1>2 DEF Apply, KnownIn
<1>4. \A s : Meaning(Relation(s)) = Relation(s)
  BY DEF Meaning, Relation
<1>5. After(o, After(p, After(q, After(o, k)))) = After(o, After(p, After(q, k)))
  OBVIOUS
<1> HIDE DEF After, k
<1>6. \A s : Meant(o, Meant(p, Meant(q, Relation(s))))
               = Relation(After(o, After(p, After(q, s))))
  BY <1>1
<1> QED BY <1>2, <1>3, <1>4, <1>5, <1>6

LEMMA InputsAreOperations == \A o \in Inputs : o \in Operations /\ o # NoOperation
<1>1. /\ Delete \in Operations /\ Delete # NoOperation
      /\ \A v \in Values \ {NoValue} : Set(v) \in Operations /\ Set(v) # NoOperation
      /\ \A v \in Numbers : Increment(v) \in Operations /\ Increment(v) # NoOperation
      /\ \A f \in [Elements -> Nat] : Add(f) \in Operations /\ Add(f) # NoOperation
      /\ \A s \in SUBSET Elements :
           /\ AddUnique(s) \in Operations /\ AddUnique(s) # NoOperation
           /\ Remove(s) \in Operations /\ Remove(s) # NoOperation
      /\ \A s, t \in SUBSET Elements :
           ChangeRelation(s, t) \in Operations /\ ChangeRelation(s, t) # NoOperation
  BY DEF Operations, NoOperation, Delete, Set, Increment, Add, AddUnique, Remove, ChangeRelation
<1>2. /\ \A e \in Elements : Once({e}) \in [Elements -> Nat]
      /\ \A f \in [Elements -> Nat] : Array(f) \in Values \ {NoValue}
      /\ OtherValue \in Values \ {NoValue}
  BY Constructed DEF Array, NoValue, OtherValue
<1>3. Amounts \subseteq Numbers /\ Amounts \subseteq Values \ {NoValue}
  BY FieldAssumption DEF Values, Numbers, NoValue
<1>4. SUFFICES ASSUME NEW o \in Inputs PROVE o \in Operations /\ o # NoOperation
  OBVIOUS
<1>5. CASE o \in {Delete, Set(OtherValue)}
  BY <1>1, <1>2, <1>5
<1>6. CASE \E v \in Amounts : o = Set(v) \/ o = Increment(v)
  BY <1>1, <1>3, <1>6
<1>7. CASE \E e \in Elements : o = Set(Array(Once({e}))) \/ o = Add(Once({e}))
  BY <1>1, <1>2, <1>7
<1>8. CASE \E e \in Elements : o = AddUnique({e}) \/ o = Remove({e})
  BY <1>1, <1>8
<1>9. CASE \E e \in Elements : o = ChangeRelation({e}, {}) \/ o = ChangeRelation({}, {e})
  BY <1>1, <1>9
<1>10. QED BY <1>4, <1>5, <1>6, <1>7, <1>8, <1>9 DEF Inputs

LEMMA NothingMeansNothing == \A m : Meant(NoOperation, m) = m
BY DEF Meant, Accepts, Apply, NoOperation

LEMMA InPlaceType ==
  ASSUME NEW o \in Operations, NEW v \in Values
  PROVE  InPlace(o, v) \in Values
BY ApplyType DEF InPlace, Accepts

\* What is shown and what the server holds, in a change of a PFRelation.
LEMMA ShowMeans ==
  ASSUME FieldTypeOK, NEW o \in Operations, Show(o)
  PROVE  /\ serverValue' \in Values /\ shown' \in Values /\ operations' \in Nat
         /\ ~Strays(o, shown) => Meaning(shown') = Meant(o, Meaning(shown))
         /\ Meant(o, Meant(pending, Meant(inflight, Meaning(serverValue'))))
              = Meant(o, Meant(pending, Meant(inflight, Meaning(serverValue))))
<1>1. shown' \in Values /\ operations' \in Nat
  BY ApplyType DEF FieldTypeOK, Show
<1>2. serverValue' \in Values
  BY InPlaceType DEF FieldTypeOK, Show
<1>3. ~Strays(o, shown) => Meaning(shown') = Meant(o, Meaning(shown))
  BY ApplyMeans DEF FieldTypeOK, Show
<1>4. CASE Shared /\ o.op = "Relation"
  <2>1. /\ serverValue' = Apply(o, serverValue) /\ serverValue.type = "relation"
        /\ pending.op \in {"none", "Relation"} /\ inflight.op \in {"none", "Relation"}
    BY <1>4 DEF Show, Shared, InPlace
  <2>2. Meant(o, Meant(pending, Meant(inflight, serverValue')))
          = Meant(o, Meant(pending, Meant(inflight, serverValue)))
    BY <1>4, <2>1, InPlaceKeepsMeaning DEF FieldTypeOK
  <2>3. Meaning(serverValue') = serverValue' /\ Meaning(serverValue) = serverValue
    BY <1>4, <2>1, InPlaceKeepsMeaning DEF FieldTypeOK
  <2> QED BY <1>1, <1>2, <1>3, <2>2, <2>3
<1>5. CASE ~(Shared /\ o.op = "Relation")
  <2>1. serverValue' = serverValue
    BY <1>5 DEF Show, InPlace
  <2> QED BY <1>1, <1>2, <1>3, <2>1
<1> QED BY <1>4, <1>5

\* After a rebuild the one operation that is left does what it means.
LEMMA RebuildMeans ==
  ASSUME FieldTypeOK, NEW o \in Operations, NEW v \in Values, Rebuild(o, v)
  PROVE  /\ serverValue' \in Values /\ shown' \in Values /\ torn' \in BOOLEAN
         /\ Meant(o, Meaning(serverValue')) = Meant(o, Meaning(v))
         /\ ~Strays(o, v) /\ ~torn' => Meaning(shown') = Meant(o, Meaning(v))
<1>1. serverValue' \in Values /\ shown' \in Values /\ torn' \in BOOLEAN
  BY InPlaceType, ApplyType DEF Rebuild, FieldTypeOK
<1>2. ~Strays(o, v) /\ ~torn' => Meaning(shown') = Meant(o, Meaning(v))
  BY ApplyMeans DEF Rebuild
<1>3. CASE o.op = "Relation" /\ v.type = "relation"
  <2>1. serverValue' = Apply(o, v)
    BY <1>3 DEF Rebuild, InPlace
  <2>2. NoOperation \in Operations /\ NoOperation.op = "none"
    BY DEF Operations, NoOperation
  <2>3. Meant(o, Meant(NoOperation, Meant(NoOperation, Apply(o, v))))
          = Meant(o, Meant(NoOperation, Meant(NoOperation, v)))
    BY <1>3, <2>2, InPlaceKeepsMeaning
  <2>4. Meaning(Apply(o, v)) = Apply(o, v) /\ Meaning(v) = v
    BY <1>3, <2>2, InPlaceKeepsMeaning
  <2> QED BY <1>1, <1>2, <2>1, <2>3, <2>4, NothingMeansNothing
<1>4. CASE ~(o.op = "Relation" /\ v.type = "relation")
  BY <1>1, <1>2, <1>4 DEF Rebuild, InPlace
<1> QED BY <1>3, <1>4

FieldInv == FieldTypeOK /\ FieldIsWhatIsSent

LEMMA FieldInitially == FieldInit => FieldInv
<1> SUFFICES ASSUME FieldInit PROVE FieldInv
  OBVIOUS
<1>1. Array(Once({})) \in Values /\ Relation({}) \in Values
      /\ NoValue \in Values /\ OtherValue \in Values /\ Amounts \subseteq Values
  BY Constructed, FieldAssumption DEF Values
<1>2. serverValue \in Values /\ shown \in Values
  BY <1>1 DEF FieldInit
<1>3. NoOperation \in Operations
  BY DEF Operations
<1>4. FieldTypeOK
  BY <1>2, <1>3, MeaningType DEF FieldInit, FieldTypeOK
<1> QED BY <1>4, NothingMeansNothing DEF FieldInit, FieldInv, FieldIsWhatIsSent

LEMMA FieldStep == FieldInv /\ [FieldNext]_fieldVars => FieldInv'
<1> SUFFICES ASSUME FieldInv, [FieldNext]_fieldVars PROVE FieldInv'
  OBVIOUS
<1> USE DEF FieldInv
<1> DEFINE Sent(m) == Meant(pending, Meant(inflight, m))
<1>0. /\ serverValue \in Values /\ shown \in Values
      /\ inflight \in Operations /\ pending \in Operations
      /\ operations \in Nat /\ fieldSaves \in Nat /\ wanted \in Meanings
      /\ torn \in BOOLEAN /\ dropped \in BOOLEAN /\ strayed \in BOOLEAN
      /\ NoOperation \in Operations
  BY DEF FieldTypeOK, Operations
<1>1. ASSUME NEW o \in Inputs, Perform(o) PROVE FieldInv'
  <2>0. o \in Operations /\ o # NoOperation /\ Show(o) /\ Merges(o, pending)
    BY <1>1, InputsAreOperations DEF Perform
  <2>1. /\ pending' = Merged(o, pending) /\ wanted' = Meant(o, wanted)
        /\ UNCHANGED <<inflight, fieldSaves, torn, dropped>>
        /\ strayed' \in BOOLEAN
        /\ ~strayed' => ~strayed /\ ~Strays(o, shown) /\ ~MergeStrays(o, pending)
    BY <1>1 DEF Perform
  <2>2. \A m \in Meanings : ~strayed' =>
          pending' \in Operations /\ Meant(pending', m) = Meant(o, Meant(pending, m))
    BY <1>0, <2>0, <2>1, MergeMeansBoth
  <2>3. pending' \in Operations
    BY <1>0, <2>0, <2>1, MergedType
  <2>4. FieldTypeOK'
    BY <1>0, <2>0, <2>1, <2>3, ShowMeans, MeantType DEF FieldTypeOK
  <2>5. ASSUME ~strayed', ~dropped'
        PROVE  /\ Meant(pending', Meant(inflight', Meaning(serverValue'))) = wanted'
               /\ ~torn' => Meaning(shown') = wanted'
    <3>1. Sent(Meaning(serverValue)) = wanted /\ (~torn => Meaning(shown) = wanted)
      BY <2>1, <2>5 DEF FieldIsWhatIsSent
    <3>2. Meant(inflight, Meaning(serverValue')) \in Meanings
      BY <1>0, <2>0, ShowMeans, MeaningType, MeantType
    <3>3. Meant(pending', Meant(inflight', Meaning(serverValue'))) = Meant(o, Sent(Meaning(serverValue')))
      BY <2>1, <2>2, <2>5, <3>2
    <3>4. Meant(o, Sent(Meaning(serverValue'))) = Meant(o, Sent(Meaning(serverValue)))
      BY <2>0, ShowMeans
    <3>5. ~torn' => Meaning(shown') = wanted'
      BY <2>0, <2>1, <2>5, <3>1, ShowMeans
    <3> QED BY <2>1, <3>1, <3>3, <3>4, <3>5
  <2> QED BY <2>4, <2>5 DEF FieldIsWhatIsSent
<1>2. ASSUME NEW o \in Inputs, PerformUnmerged(o) PROVE FieldInv'
  <2>0. o \in Operations /\ o # NoOperation /\ Show(o) /\ ~Merges(o, pending)
    BY <1>2, InputsAreOperations DEF PerformUnmerged
  <2>1. torn' = TRUE /\ UNCHANGED <<inflight, pending, fieldSaves, wanted, dropped, strayed>>
    BY <1>2 DEF PerformUnmerged
  <2>2. serverValue' = serverValue
    <3>1. o.op = "Relation" => pending.op \notin {"none", "Relation"}
      BY <2>0 DEF Merges
    <3> QED BY <2>0, <3>1 DEF Show, Shared, InPlace
  <2>3. FieldTypeOK'
    BY <1>0, <2>0, <2>1, ShowMeans DEF FieldTypeOK
  <2> QED BY <2>1, <2>2, <2>3 DEF FieldIsWhatIsSent
<1>3. CASE StartFieldSave
  <2>1. FieldTypeOK'
    BY <1>0, <1>3 DEF StartFieldSave, FieldTypeOK
  <2> QED BY <1>3, <2>1, NothingMeansNothing DEF StartFieldSave, FieldIsWhatIsSent
<1>4. CASE SaveSucceeds
  <2> DEFINE base == Apply(inflight, serverValue)
  <2>1. /\ Accepts(inflight, serverValue) /\ Rebuild(pending, base)
        /\ inflight' = NoOperation
        /\ UNCHANGED <<pending, operations, fieldSaves, wanted, dropped>>
        /\ strayed' \in BOOLEAN
        /\ ~strayed' => ~strayed /\ ~Strays(inflight, serverValue) /\ ~Strays(pending, base)
    BY <1>4 DEF SaveSucceeds
  <2>2. base \in Values
    BY <1>0, <2>1, ApplyType
  <2>3. FieldTypeOK'
    <3> HIDE DEF base
    <3> QED BY <1>0, <2>1, <2>2, RebuildMeans DEF FieldTypeOK
  <2>4. ~strayed' => Meaning(base) = Meant(inflight, Meaning(serverValue))
    BY <1>0, <2>1, ApplyMeans
  <2>5. ASSUME ~strayed', ~dropped'
        PROVE  /\ Meant(pending', Meant(inflight', Meaning(serverValue'))) = wanted'
               /\ ~torn' => Meaning(shown') = wanted'
    <3>1. Sent(Meaning(serverValue)) = wanted
      BY <2>1, <2>5 DEF FieldIsWhatIsSent
    <3> HIDE DEF base
    <3>2. /\ Meant(pending, Meaning(serverValue')) = Meant(pending, Meaning(base))
          /\ ~torn' => Meaning(shown') = Meant(pending, Meaning(base))
      BY <1>0, <2>1, <2>2, <2>5, RebuildMeans
    <3> QED BY <2>1, <2>4, <2>5, <3>1, <3>2, NothingMeansNothing
  <2> QED BY <2>3, <2>5 DEF FieldIsWhatIsSent
<1>5. CASE SaveFails
  <2>1. /\ inflight # NoOperation /\ inflight' = NoOperation
        /\ UNCHANGED <<serverValue, shown, operations, fieldSaves, wanted, torn>>
    BY <1>5 DEF SaveFails
  <2>2. CASE pending = NoOperation
    <3>1. pending' = inflight /\ UNCHANGED <<dropped, strayed>>
      BY <1>5, <2>2 DEF SaveFails
    <3>2. FieldTypeOK'
      BY <1>0, <2>1, <3>1 DEF FieldTypeOK
    <3> QED BY <2>1, <2>2, <3>1, <3>2, NothingMeansNothing DEF FieldIsWhatIsSent
  <2>3. CASE pending # NoOperation /\ Merges(pending, inflight)
    <3>1. /\ pending' = Merged(pending, inflight) /\ dropped' = dropped
          /\ strayed' \in BOOLEAN
          /\ ~strayed' => ~strayed /\ ~MergeStrays(pending, inflight)
      BY <1>5, <2>3 DEF SaveFails
    <3>2. FieldTypeOK'
      BY <1>0, <2>1, <2>3, <3>1, MergedType DEF FieldTypeOK
    <3>3. Meaning(serverValue) \in Meanings
      BY <1>0, MeaningType
    <3>4. ~strayed' => Meant(pending', Meaning(serverValue)) = Sent(Meaning(serverValue))
      BY <1>0, <2>3, <3>1, <3>3, MergeMeansBoth
    <3> QED BY <2>1, <3>1, <3>2, <3>4, NothingMeansNothing DEF FieldIsWhatIsSent
  <2>4. CASE pending # NoOperation /\ ~Merges(pending, inflight)
    <3>1. dropped' = TRUE /\ UNCHANGED <<pending, strayed>>
      BY <1>5, <2>4 DEF SaveFails
    <3>2. FieldTypeOK'
      BY <1>0, <2>1, <3>1 DEF FieldTypeOK
    <3> QED BY <3>1, <3>2 DEF FieldIsWhatIsSent
  <2> QED BY <2>2, <2>3, <2>4
<1>6. CASE RevertKey
  <2>1. /\ Rebuild(inflight, serverValue) /\ pending' = NoOperation
        /\ wanted' = Meant(inflight, Meaning(serverValue))
        /\ UNCHANGED <<inflight, operations, fieldSaves, dropped>>
        /\ strayed' \in BOOLEAN
        /\ ~strayed' => ~strayed /\ ~Strays(inflight, serverValue)
    BY <1>6 DEF RevertKey
  <2>2. FieldTypeOK'
    BY <1>0, <2>1, RebuildMeans, MeaningType, MeantType DEF FieldTypeOK
  <2>3. /\ Meant(inflight, Meaning(serverValue')) = wanted'
        /\ ~strayed' /\ ~torn' => Meaning(shown') = wanted'
    BY <1>0, <2>1, RebuildMeans
  <2> QED BY <2>1, <2>2, <2>3, NothingMeansNothing DEF FieldIsWhatIsSent
<1>7. CASE UNCHANGED fieldVars
  BY <1>7 DEF fieldVars, FieldTypeOK, FieldIsWhatIsSent
<1> QED BY <1>1, <1>2, <1>3, <1>4, <1>5, <1>6, <1>7 DEF FieldNext

\* The types of a field, for every number of operations and saves.
THEOREM FieldTypeCorrect == FieldSpec => []FieldTypeOK
<1>1. FieldInv => FieldTypeOK
  BY DEF FieldInv
<1> QED BY <1>1, FieldInitially, FieldStep, PTL DEF FieldSpec

\* Whatever operations, saves, failures and reverts follow each other, what is
\* on its way to the server makes of the server's value what the application
\* asked for, and so does what the object shows, but for sums that are not
\* exact, removals from nothing, and merges that raise.
THEOREM FieldCorrect == FieldSpec => []FieldIsWhatIsSent
<1>1. FieldInv => FieldIsWhatIsSent
  BY DEF FieldInv
<1> QED BY <1>1, FieldInitially, FieldStep, PTL DEF FieldSpec

-----------------------------------------------------------------------------
\* The local datastore: the inductive invariant, of a copy s of its tables and
\* maps.

\* The types of the tables and maps.
StoreTypes(s) ==
  /\ s = [rows |-> s.rows, deps |-> s.deps, held |-> s.held, fetched |-> s.fetched,
          uuidOf |-> s.uuidOf, pins |-> s.pins]
  /\ s.rows \in [Uuids -> Rows \union {NoRow}]
  /\ s.deps \subseteq Uuids \X Uuids
  /\ s.held \in [Objects -> {"absent", "pointer", "data"}]
  /\ s.fetched \subseteq Objects
  /\ s.uuidOf \in [Objects -> Uuids \union {NoUuid}]
  /\ s.pins \in [Calls -> Pins \union {NoPin}]

\* The row of an object, and of a pin.
IsObject(s, u) == s.rows[u].of \in Objects
IsPin(s, u) == s.rows[u].of \in PinNames

\* The process has looked for the row of the object, or has met the object.
Known(s, o) == IF o \in Saved THEN o \in s.fetched ELSE s.held[o] # "absent"

\* Every object has one row at most, and the maps have it once it is known.
MapsRight(s) ==
  /\ \A u, v \in Uuids : IsObject(s, u) /\ s.rows[v].of = s.rows[u].of => u = v
  /\ \A u \in Uuids, o \in Objects : s.rows[u].of = o /\ Known(s, o) => s.uuidOf[o] = u
  /\ \A o \in Objects : s.uuidOf[o] # NoUuid => s.rows[s.uuidOf[o]].of = o
  /\ \A i \in Calls : s.pins[i].uuid # NoUuid => s.rows[s.pins[i].uuid].of = s.pins[i].name

\* What the instances in memory point to is in memory too, and Root points to
\* Child on disk too, if its data is there.
HeldRight(s) ==
  /\ s.held[Root] = "data" => s.held[Child] # "absent"
  /\ \A i \in Calls : \A o \in s.pins[i].objects : s.held[o] # "absent"
  /\ \A u \in RowsOf(s, Root) : s.rows[u].data =>
       \/ Child \in s.rows[u].points
       \/ \E r \in s.rows[u].points \intersect Uuids : s.rows[r] = NoRow \/ s.rows[r].of = Child

\* Everything is kept by pins, and so is all data.
DepsRight(s) ==
  /\ \A d \in s.deps : IsPin(s, d[1]) /\ (IsObject(s, d[2]) \/ d[2] = d[1])
  /\ \A u \in Uuids : s.rows[u].data => \E d \in s.deps : d[2] = u

\* The row of a pin keeps itself and what it points to.
PinRow(s, u) ==
  /\ s.rows[u].data /\ <<u, u>> \in s.deps
  /\ \A r \in s.rows[u].points \intersect Uuids : <<u, r>> \in s.deps /\ IsObject(s, r)

\* All of it, but for the row k of the pin that is being written.
Closed(s, k) ==
  /\ StoreTypes(s) /\ MapsRight(s) /\ HeldRight(s) /\ DepsRight(s)
  /\ \A u \in Uuids : IsPin(s, u) /\ u # k => PinRow(s, u)

\* What saving objects under a key does to tables and maps: rows and
\* dependencies are added, and no data is lost.
Saves(s, t, key) ==
  /\ t.held = s.held /\ t.pins = s.pins /\ s.fetched \subseteq t.fetched /\ s.deps \subseteq t.deps
  /\ \A d \in t.deps : d \in s.deps \/ (d[1] = key /\ IsObject(t, d[2]))
  /\ \A o \in Objects : s.uuidOf[o] # NoUuid => t.uuidOf[o] = s.uuidOf[o]
  /\ \A o \in t.fetched \ s.fetched : RowsOf(s, o) = {}
  /\ \A u \in Uuids :
       /\ s.rows[u] # NoRow => t.rows[u].of = s.rows[u].of
       /\ IsPin(t, u) \/ IsPin(s, u) => t.rows[u] = s.rows[u]
       /\ t.rows[u].data => s.rows[u].data \/ s.held[t.rows[u].of] = "data"
       /\ s.rows[u].data /\ s.held[s.rows[u].of] = "data" => t.rows[u].data

\* There is a uuid for every object that has none.
Enough(s) == Cardinality({o \in Objects : s.uuidOf[o] = NoUuid}) <= Cardinality(Unnamed(s))

\* What the steps of the calls rely on.
CallsRight ==
  \A i \in Calls :
    /\ InFlight(i) => call[i].op # "none" /\ call[i].name \in PinNames
    /\ call[i].step \in {"waiting", "find", "found"} /\ call[i].op # "unpinAll" =>
         call[i].obj \in Objects /\ held[call[i].obj] # "absent"
    /\ call[i].step \in {"found", "drop", "save"} =>
         /\ call[i].pin \in Calls
         /\ pins[call[i].pin] \in Pins
         /\ pins[call[i].pin].name = call[i].name
    /\ call[i].step = "unpin" => call[i].key \in Uuids
    /\ call[i].step \in {"none", "waiting", "find"} => pins[i] = NoPin

\* The inductive invariant of the local datastore.
ClosedInv == StoreTypeOK /\ Closed(Now, NoUuid) /\ CallsRight

\* What is assumed, for the provers.
LEMMA Sorts ==
  /\ NoUuid \notin Uuids /\ IsFiniteSet(Uuids) /\ IsFiniteSet(Objects)
  /\ NoRow.of = "nothing" /\ NoRow.points = {} /\ NoRow.data = FALSE
  /\ NoPin.name = "none" /\ NoPin.objects = {} /\ NoPin.uuid = NoUuid
  /\ NoRow.of \notin Objects \union PinNames
<1>1. IsFiniteSet(Uuids)
  BY FS_Interval, StoreAssumption DEF Uuids, StoreAssumption
<1>2. IsFiniteSet({}) /\ IsFiniteSet({Root}) /\ IsFiniteSet({Root} \union {Child})
      /\ IsFiniteSet(({Root} \union {Child}) \union {Other})
  BY FS_EmptySet, FS_AddElement, FS_Singleton, FS_Union
<1>3. Objects = ({Root} \union {Child}) \union {Other}
  BY DEF Objects
<1>4. NoUuid \notin Uuids
  BY StoreAssumption DEF NoUuid, Uuids, StoreAssumption
<1>5. /\ NoRow.of = "nothing" /\ NoRow.points = {} /\ NoRow.data = FALSE
      /\ NoPin.name = "none" /\ NoPin.objects = {} /\ NoPin.uuid = NoUuid
  BY DEF NoRow, NoPin
<1>6. NoRow.of \notin Objects \union PinNames
  BY <1>5, StoreAssumption DEF StoreAssumption
<1>7. IsFiniteSet(Objects)
  BY <1>2, <1>3
<1>8. QED
  BY <1>1, <1>4, <1>5, <1>6, <1>7

\* A new uuid is one that nothing names.
LEMMA NewUuidIsUnnamed ==
  ASSUME NEW s, Enough(s), NEW o \in Objects, s.uuidOf[o] = NoUuid
  PROVE  NewUuid(s) \in Unnamed(s)
<1> DEFINE M == {x \in Objects : s.uuidOf[x] = NoUuid}
<1>1. IsFiniteSet(M) /\ o \in M
  BY Sorts, FS_Subset
<1>2. Cardinality(M) \in Nat /\ Cardinality(M) # 0
  <2>1. IsFiniteSet(M \ {o}) /\ Cardinality(M \ {o}) = Cardinality(M) - 1
    BY <1>1, FS_RemoveElement
  <2>2. Cardinality(M \ {o}) \in Nat /\ Cardinality(M) \in Nat
    BY <1>1, <2>1, FS_CardinalityType
  <2>3. QED
    BY <2>1, <2>2
<1>3. Unnamed(s) # {}
  <2>1. SUFFICES ASSUME Unnamed(s) = {} PROVE FALSE
    OBVIOUS
  <2>2. Cardinality({}) = 0
    BY FS_EmptySet
  <2>3. Cardinality(Unnamed(s)) = 0
    BY <2>1, <2>2
  <2>4. Cardinality(M) <= Cardinality(Unnamed(s))
    BY DEF Enough
  <2>5. QED
    BY <1>1, <1>2, <2>3, <2>4
<1>4. QED
  BY <1>3 DEF NewUuid

\* What it means for u to have no name.
LEMMA UnnamedMeans ==
  ASSUME NEW s, StoreTypes(s), NEW u \in Unnamed(s)
  PROVE  /\ u \in Uuids /\ s.rows[u] = NoRow
         /\ \A v \in Uuids : u \notin s.rows[v].points /\ s.rows[v] \in Rows \union {NoRow}
         /\ \A o \in Objects : s.uuidOf[o] # u
         /\ \A i \in Calls : s.pins[i].uuid # u
BY DEF Unnamed, StoreTypes

\* getOrCreateUUIDAsyncForObject:.
LEMMA WithUuidSaves ==
  ASSUME NEW s, NEW k, NEW key, NEW o \in Objects, Closed(s, k), Enough(s), Known(s, o)
  PROVE  LET t == WithUuid(s, o)
         IN Closed(t, k) /\ Enough(t) /\ Saves(s, t, key) /\ t.deps = s.deps
            /\ t.uuidOf[o] # NoUuid
<1> DEFINE t == WithUuid(s, o)
           u == NewUuid(s)
<1>1. CASE s.uuidOf[o] # NoUuid
  BY <1>1 DEF WithUuid, Saves, RowsOf
<1>2. CASE s.uuidOf[o] = NoUuid
  <2>1. u \in Unnamed(s)
    BY <1>2, NewUuidIsUnnamed
  <2> HIDE DEF u
  <2>t. StoreTypes(s)
    BY DEF Closed
  <2>2. /\ t.rows = [s.rows EXCEPT ![u] = [of |-> o, points |-> {}, data |-> FALSE]]
        /\ t.uuidOf = [s.uuidOf EXCEPT ![o] = u]
        /\ t.fetched = s.fetched \union {o}
        /\ t.deps = s.deps /\ t.held = s.held /\ t.pins = s.pins
        /\ t = [rows |-> t.rows, deps |-> t.deps, held |-> t.held, fetched |-> t.fetched,
                uuidOf |-> t.uuidOf, pins |-> t.pins]
    BY <1>2, <2>t DEF WithUuid, u, StoreTypes
  <2> HIDE DEF t
  <2>3. /\ u \in Uuids /\ s.rows[u] = NoRow /\ \A v \in Uuids : u \notin s.rows[v].points
        /\ \A x \in Objects : s.uuidOf[x] # u
        /\ \A i \in Calls : s.pins[i].uuid # u
    BY <2>1, <2>t, UnnamedMeans
  <2>4. /\ t.rows[u] = [of |-> o, points |-> {}, data |-> FALSE]
        /\ \A v \in Uuids : v # u => t.rows[v] = s.rows[v]
        /\ t.uuidOf[o] = u /\ \A x \in Objects : x # o => t.uuidOf[x] = s.uuidOf[x]
    BY <2>2, <2>3, <2>t DEF StoreTypes
  <2>5. StoreTypes(t)
    BY <2>2, <2>3, <2>t DEF StoreTypes, Rows
  <2>6. RowsOf(s, o) = {}
    BY <1>2, Sorts DEF Closed, MapsRight, RowsOf
  <2>7. MapsRight(t)
    <3>1. ASSUME NEW v \in Uuids, NEW w \in Uuids, IsObject(t, v), t.rows[w].of = t.rows[v].of
          PROVE  v = w
      BY <3>1, <2>4, <2>6 DEF Closed, MapsRight, RowsOf, IsObject
    <3>2. ASSUME NEW v \in Uuids, NEW x \in Objects, t.rows[v].of = x, Known(t, x)
          PROVE  t.uuidOf[x] = v
      <4>1. CASE x = o
        BY <4>1, <3>2, <2>4, <2>6 DEF RowsOf
      <4>2. CASE x # o
        BY <4>2, <3>2, <2>2, <2>4 DEF Closed, MapsRight, Known
      <4>3. QED
        BY <4>1, <4>2
    <3>3. ASSUME NEW x \in Objects, t.uuidOf[x] # NoUuid
          PROVE  t.rows[t.uuidOf[x]].of = x
      BY <3>3, <2>3, <2>4, <2>t, Sorts DEF Closed, MapsRight, StoreTypes
    <3>4. ASSUME NEW i \in Calls, t.pins[i].uuid # NoUuid
          PROVE  t.rows[t.pins[i].uuid].of = t.pins[i].name
      <4>1. s.pins[i].uuid \in Uuids
        BY <3>4, <2>2, <2>t, Sorts DEF StoreTypes, Pins
      <4>2. QED
        BY <4>1, <3>4, <2>2, <2>3, <2>4 DEF Closed, MapsRight
    <3>5. QED
      BY <3>1, <3>2, <3>3, <3>4 DEF MapsRight
  <2>8. HeldRight(t)
    <3>1. ASSUME NEW v \in RowsOf(t, Root), t.rows[v].data
          PROVE  \/ Child \in t.rows[v].points
                 \/ \E r \in t.rows[v].points \intersect Uuids :
                      t.rows[r] = NoRow \/ t.rows[r].of = Child
      <4>1. v # u /\ v \in RowsOf(s, Root) /\ t.rows[v] = s.rows[v]
        BY <3>1, <2>4 DEF RowsOf
      <4>2. \A r \in s.rows[v].points \intersect Uuids : t.rows[r] = s.rows[r]
        BY <4>1, <2>3, <2>4 DEF RowsOf
      <4>3. QED
        BY <4>1, <4>2, <3>1 DEF Closed, HeldRight
    <3>2. QED
      BY <3>1, <2>2 DEF Closed, HeldRight
  <2>9. DepsRight(t)
    <3>1. ASSUME NEW d \in s.deps PROVE d[1] \in Uuids /\ d[2] \in Uuids /\ d[1] # u /\ d[2] # u
      BY <3>1, <2>t, <2>3, Sorts DEF StoreTypes, Closed, DepsRight, IsPin, IsObject
    <3>2. QED
      BY <3>1, <2>2, <2>4 DEF Closed, DepsRight, IsPin, IsObject
  <2>10. ASSUME NEW v \in Uuids, IsPin(t, v), v # k PROVE PinRow(t, v)
    <3>1. v # u /\ t.rows[v] = s.rows[v] /\ IsPin(s, v)
      BY <2>10, <2>4, StoreAssumption DEF IsPin, StoreAssumption
    <3>2. QED
      BY <3>1, <2>2, <2>3, <2>4, <2>10 DEF Closed, PinRow, IsObject
  <2>11. Saves(s, t, key)
    <3>1. \A x \in t.fetched \ s.fetched : x = o
      BY <2>2
    <3>2. \A v \in Uuids : v # u => t.rows[v] = s.rows[v]
      BY <2>4
    <3>3. ~IsPin(t, u) /\ ~IsPin(s, u) /\ ~t.rows[u].data /\ ~s.rows[u].data
      BY <2>3, <2>4, Sorts, StoreAssumption DEF IsPin, StoreAssumption
    <3>4. QED
      BY <1>2, <2>2, <2>3, <2>4, <2>6, <3>1, <3>2, <3>3 DEF Saves
  <2>12. Enough(t)
    <3> DEFINE M(r) == {x \in Objects : r.uuidOf[x] = NoUuid}
    <3>1. M(t) = M(s) \ {o} /\ o \in M(s)
      BY <1>2, <2>3, <2>4, Sorts
    <3>2. Unnamed(s) \ {u} \subseteq Unnamed(t)
      BY <2>2, <2>4 DEF Unnamed
    <3>3. IsFiniteSet(M(s)) /\ IsFiniteSet(Unnamed(s)) /\ IsFiniteSet(Unnamed(t))
      BY Sorts, FS_Subset DEF Unnamed
    <3>4. Cardinality(M(t)) = Cardinality(M(s)) - 1
      BY <3>1, <3>3, FS_RemoveElement
    <3>5. Cardinality(Unnamed(s) \ {u}) = Cardinality(Unnamed(s)) - 1
      BY <2>1, <3>3, FS_RemoveElement
    <3>6. Cardinality(Unnamed(s) \ {u}) <= Cardinality(Unnamed(t))
      BY <3>2, <3>3, FS_Subset
    <3>7. Cardinality(M(s)) \in Nat /\ Cardinality(Unnamed(s)) \in Nat /\ Cardinality(Unnamed(t)) \in Nat
      BY <3>3, FS_CardinalityType
    <3>8. Cardinality(M(s)) <= Cardinality(Unnamed(s))
      BY DEF Enough
    <3>9. QED
      BY <3>4, <3>5, <3>6, <3>7, <3>8 DEF Enough
  <2>13. Closed(t, k)
    BY <2>5, <2>7, <2>8, <2>9, <2>10 DEF Closed
  <2>14. t.uuidOf[o] # NoUuid
    BY <2>3, <2>4, Sorts
  <2>15. QED
    BY <2>2, <2>11, <2>12, <2>13, <2>14 DEF t
<1>3. QED
  BY <1>1, <1>2

\* Saving nothing, and one after the other.
LEMMA SavesNothing ==
  ASSUME NEW s, NEW key
  PROVE  Saves(s, s, key)
BY DEF Saves

LEMMA SavesTwice ==
  ASSUME NEW s, NEW t, NEW w, NEW key, NEW k, Closed(s, k), Closed(t, k), Closed(w, k),
         Saves(s, t, key), Saves(t, w, key)
  PROVE  Saves(s, w, key)
<1>1. /\ w.held = s.held /\ w.pins = s.pins /\ s.fetched \subseteq w.fetched
      /\ s.deps \subseteq w.deps
  BY DEF Saves
<1>2. \A o \in Objects : s.uuidOf[o] # NoUuid => w.uuidOf[o] = s.uuidOf[o]
  BY DEF Saves
<1>3. ASSUME NEW u \in Uuids
      PROVE  /\ s.rows[u] # NoRow => w.rows[u].of = s.rows[u].of
             /\ IsPin(w, u) \/ IsPin(s, u) => w.rows[u] = s.rows[u]
             /\ w.rows[u].data => s.rows[u].data \/ s.held[w.rows[u].of] = "data"
             /\ s.rows[u].data /\ s.held[s.rows[u].of] = "data" => w.rows[u].data
  <2>1. /\ s.rows[u] \in Rows \union {NoRow} /\ t.rows[u] \in Rows \union {NoRow}
        /\ w.rows[u] \in Rows \union {NoRow}
    BY DEF Closed, StoreTypes
  <2>2. /\ s.rows[u] # NoRow => s.rows[u].of # "nothing"
        /\ t.rows[u] # NoRow => t.rows[u].of # "nothing"
        /\ NoRow.of = "nothing" /\ ~NoRow.data
    BY <2>1, Sorts, StoreAssumption DEF Rows, StoreAssumption
  <2>3. /\ s.rows[u] # NoRow => t.rows[u].of = s.rows[u].of /\ t.rows[u] # NoRow
        /\ t.rows[u] # NoRow => w.rows[u].of = t.rows[u].of
    BY <2>2 DEF Saves
  <2>4. IsPin(w, u) \/ IsPin(s, u) => w.rows[u] = s.rows[u]
    BY DEF Saves, IsPin
  <2>5. /\ w.rows[u].data => t.rows[u].data \/ s.held[w.rows[u].of] = "data"
        /\ t.rows[u].data => s.rows[u].data \/ s.held[t.rows[u].of] = "data"
        /\ t.rows[u].data => t.rows[u] # NoRow
    BY <2>2 DEF Saves
  <2>6. s.rows[u].data /\ s.held[s.rows[u].of] = "data" =>
          t.rows[u].data /\ t.held[t.rows[u].of] = "data"
    BY <2>2, <2>3 DEF Saves
  <2>7. QED
    BY <2>3, <2>4, <2>5, <2>6 DEF Saves
<1>4. ASSUME NEW d \in w.deps
      PROVE  d \in s.deps \/ (d[1] = key /\ IsObject(w, d[2]))
  <2>1. CASE d \notin t.deps
    BY <2>1 DEF Saves
  <2>2. CASE d \in t.deps /\ d \notin s.deps
    <3>1. d[1] = key /\ IsObject(t, d[2]) /\ d[2] \in Uuids
      BY <2>2 DEF Saves, Closed, StoreTypes
    <3>2. t.rows[d[2]] # NoRow
      BY <3>1, Sorts DEF IsObject
    <3>3. QED
      BY <3>1, <3>2 DEF Saves, IsObject
  <2>3. QED
    BY <2>1, <2>2
<1>5. ASSUME NEW o \in w.fetched \ s.fetched
      PROVE  RowsOf(s, o) = {}
  <2>1. CASE o \in t.fetched
    BY <2>1 DEF Saves
  <2>2. CASE o \notin t.fetched
    <3>1. RowsOf(t, o) = {} /\ o \in Objects
      BY <2>2 DEF Saves, Closed, StoreTypes
    <3>2. ASSUME NEW u \in RowsOf(s, o) PROVE FALSE
      <4>1. s.rows[u] # NoRow
        BY <3>1, <3>2, Sorts DEF RowsOf
      <4>2. QED
        BY <3>1, <3>2, <4>1 DEF RowsOf, Saves
    <3>3. QED
      BY <3>2
  <2>3. QED
    BY <2>1, <2>2
<1>6. QED
  BY <1>1, <1>2, <1>3, <1>4, <1>5 DEF Saves

LEMMA KnownStays ==
  ASSUME NEW s, NEW t, NEW key, Saves(s, t, key), NEW o, Known(s, o)
  PROVE  Known(t, o)
BY DEF Saves, Known

\* One after the other.
LEMMA WithUuidThen ==
  ASSUME NEW s, NEW t, NEW key, NEW k, NEW o \in Objects, Closed(s, k), Closed(t, k), Enough(t),
         Saves(s, t, key), t.deps = s.deps, Known(s, o)
  PROVE  LET w == WithUuid(t, o)
         IN Closed(w, k) /\ Enough(w) /\ Saves(s, w, key) /\ w.deps = s.deps
            /\ w.uuidOf[o] # NoUuid
<1>1. Known(t, o)
  BY KnownStays
<1> DEFINE w == WithUuid(t, o)
<1>2. Closed(w, k) /\ Enough(w) /\ Saves(t, w, key) /\ w.deps = t.deps /\ w.uuidOf[o] # NoUuid
  BY <1>1, WithUuidSaves
<1> HIDE DEF w
<1>3. Saves(s, w, key)
  BY <1>2, SavesTwice
<1>4. QED
  BY <1>2, <1>3 DEF w

\* What can be pointed to afterwards.
LEMMA PointableSaves ==
  ASSUME NEW s, NEW key, NEW k, NEW objects \in SUBSET Objects, Closed(s, k), Enough(s),
         \A o \in objects \ Saved : s.held[o] # "absent"
  PROVE  LET t == Pointable(s, objects)
         IN Closed(t, k) /\ Enough(t) /\ Saves(s, t, key) /\ t.deps = s.deps
            /\ \A o \in objects \ Saved : t.uuidOf[o] # NoUuid
<1> DEFINE todo == objects \ Saved
           c == IF Child \in todo THEN WithUuid(s, Child) ELSE s
           r == IF Root \in todo THEN WithUuid(c, Root) ELSE c
           t == IF Other \in todo THEN WithUuid(r, Other) ELSE r
           Fine(w) == Closed(w, k) /\ Enough(w) /\ Saves(s, w, key) /\ w.deps = s.deps
<1>1. \A o \in todo : o \in Objects /\ Known(s, o)
  BY DEF Known
<1>2. Fine(s)
  BY SavesNothing
<1>3. ASSUME NEW w, Fine(w), NEW o \in todo
      PROVE  Fine(WithUuid(w, o)) /\ WithUuid(w, o).uuidOf[o] # NoUuid
  BY <1>1, <1>3, WithUuidThen
<1>4. ASSUME NEW w, Fine(w), NEW o \in todo, NEW x \in Objects, w.uuidOf[x] # NoUuid
      PROVE  WithUuid(w, o).uuidOf[x] # NoUuid
  <2>1. Known(w, o) /\ o \in Objects
    BY <1>1, <1>4, KnownStays
  <2>2. Saves(w, WithUuid(w, o), key)
    BY <1>4, <2>1, WithUuidSaves
  <2>3. QED
    BY <1>4, <2>2 DEF Saves
<1> HIDE DEF Fine
<1>5. Fine(c) /\ (Child \in todo => c.uuidOf[Child] # NoUuid)
  BY <1>2, <1>3
<1> HIDE DEF c
<1>6. Fine(r) /\ \A o \in todo \cap {Child, Root} : r.uuidOf[o] # NoUuid
  BY <1>1, <1>3, <1>4, <1>5
<1> HIDE DEF r
<1>7. Fine(t) /\ \A o \in todo \cap {Child, Root, Other} : t.uuidOf[o] # NoUuid
  BY <1>1, <1>3, <1>4, <1>6
<1>8. t = Pointable(s, objects)
  BY DEF Pointable, Each, c, r
<1> HIDE DEF t
<1>9. todo \cap {Child, Root, Other} = objects \ Saved
  BY DEF Objects
<1>10. QED
  BY <1>7, <1>8, <1>9 DEF Fine

\* Uuids that are let go do no harm.
LEMMA EnoughStays ==
  ASSUME NEW s, NEW t, Enough(s), s.uuidOf = t.uuidOf, Unnamed(s) \subseteq Unnamed(t)
  PROVE  Enough(t)
<1>1. {o \in Objects : s.uuidOf[o] = NoUuid} = {o \in Objects : t.uuidOf[o] = NoUuid}
  OBVIOUS
<1>2. Cardinality({o \in Objects : s.uuidOf[o] = NoUuid})
      = Cardinality({o \in Objects : t.uuidOf[o] = NoUuid})
  BY <1>1
<1>3. IsFiniteSet(Unnamed(t)) /\ IsFiniteSet({o \in Objects : s.uuidOf[o] = NoUuid})
  BY Sorts, FS_Subset DEF Unnamed
<1>4. Cardinality(Unnamed(s)) <= Cardinality(Unnamed(t)) /\ Cardinality(Unnamed(s)) \in Nat
      /\ Cardinality(Unnamed(t)) \in Nat
      /\ Cardinality({o \in Objects : s.uuidOf[o] = NoUuid}) \in Nat
  BY <1>3, FS_Subset, FS_CardinalityType
<1>5. QED
  BY <1>2, <1>4 DEF Enough

\* The row that an update writes.
LEMMA RowUpdated ==
  ASSUME NEW row \in Rows, NEW points, NEW data
  PROVE  [row EXCEPT !.points = points, !.data = data]
           = [of |-> row.of, points |-> points, data |-> data]
<1>1. PICK a, b, c : row = [of |-> a, points |-> b, data |-> c]
  BY DEF Rows
<1> DEFINE part == [row EXCEPT !.points = points]
<1>2. part = [of |-> a, points |-> points, data |-> c]
  BY <1>1
<1>3. row.of = a
  BY <1>1
<1> HIDE DEF part
<1>4. [part EXCEPT !.data = data] = [of |-> a, points |-> points, data |-> data]
  BY <1>2
<1>5. QED
  BY <1>3, <1>4 DEF part

\* What an update of a row of object o changes.
UpdateOf(s, t, o, points, data, key) ==
  /\ s.uuidOf[o] \in Uuids /\ s.rows[s.uuidOf[o]].of = o /\ s.rows[s.uuidOf[o]] \in Rows
  /\ t.rows = [s.rows EXCEPT ![s.uuidOf[o]] = [of |-> o, points |-> points, data |-> data]]
  /\ t.deps = s.deps \union {<<key, s.uuidOf[o]>>}
  /\ t.held = s.held /\ t.fetched = s.fetched /\ t.uuidOf = s.uuidOf /\ t.pins = s.pins
  /\ t = [rows |-> t.rows, deps |-> t.deps, held |-> t.held, fetched |-> t.fetched,
          uuidOf |-> t.uuidOf, pins |-> t.pins]

LEMMA UpdatedFields ==
  ASSUME NEW s, NEW k, NEW key, NEW o \in Objects, Closed(s, k), s.uuidOf[o] # NoUuid,
         NEW points, NEW data,
         NEW t, t = Updated(s, s.uuidOf[o], points, data, key)
  PROVE  UpdateOf(s, t, o, points, data, key)
<1> DEFINE u == s.uuidOf[o]
           row == [of |-> o, points |-> points, data |-> data]
<1>t. StoreTypes(s)
  BY DEF Closed
<1>1. u \in Uuids /\ s.rows[u].of = o /\ s.rows[u] \in Rows
  <2>1. u \in Uuids
    BY <1>t DEF StoreTypes
  <2>2. s.rows[u].of = o
    BY DEF Closed, MapsRight
  <2>3. s.rows[u] # NoRow
    BY <2>2, Sorts
  <2>4. QED
    BY <2>1, <2>2, <2>3, <1>t DEF StoreTypes
<1>2. s.rows[u] # NoRow
  BY <1>1, Sorts
<1> HIDE DEF u, row
<1>3. [s.rows[u] EXCEPT !.points = points, !.data = data] = row
  <2>1. [s.rows[u] EXCEPT !.points = points, !.data = data]
          = [of |-> s.rows[u].of, points |-> points, data |-> data]
    <3>1. s.rows[u] \in Rows
      BY <1>1
    <3>2. QED
      BY <3>1, RowUpdated, Zenon
  <2>2. QED
    BY <1>1, <2>1, Zenon DEF row
<1>4. t = [s EXCEPT !.rows = [s.rows EXCEPT ![u] = row], !.deps = s.deps \union {<<key, u>>}]
  <2>1. t = [s EXCEPT !.rows = [s.rows EXCEPT ![u] = IF s.rows[u] = NoRow THEN s.rows[u]
                      ELSE [s.rows[u] EXCEPT !.points = points, !.data = data]],
                    !.deps = s.deps \union {<<key, u>>}]
    BY DEF Updated, u
  <2>2. QED
    BY <2>1, <1>2, <1>3, Zenon
<1>5. QED
  BY <1>1, <1>4, <1>t DEF StoreTypes, u, row, UpdateOf

LEMMA UpdatedObject ==
  ASSUME NEW s, NEW k, NEW key \in Uuids, NEW o \in Objects, Closed(s, k), Enough(s), IsPin(s, key),
         s.uuidOf[o] # NoUuid,
         NEW points \in SUBSET (Saved \union Uuids),
         \A r \in points \intersect Uuids : \E x \in Objects : s.uuidOf[x] = r,
         o = Root /\ s.held[o] = "data" =>
           \/ Child \in points
           \/ \E r \in points \intersect Uuids : s.rows[r].of = Child,
         NEW data \in BOOLEAN, data = TRUE <=> s.held[o] = "data",
         NEW t, t = Updated(s, s.uuidOf[o], points, data, key)
  PROVE  Closed(t, k) /\ Enough(t) /\ Saves(s, t, key)
<1> DEFINE u == s.uuidOf[o]
           row == [of |-> o, points |-> points, data |-> data]
<1>t. StoreTypes(s)
  BY DEF Closed
<1>d. data \in BOOLEAN /\ (data <=> s.held[o] = "data")
  OBVIOUS
<1>u. UpdateOf(s, t, o, points, data, key)
  BY UpdatedFields
<1>1. u \in Uuids /\ s.rows[u].of = o /\ s.rows[u] \in Rows
  BY <1>u DEF UpdateOf
<1>2. s.rows[u] # NoRow
  BY <1>1, Sorts
<1> HIDE DEF u, row
<1>4. /\ t.rows = [s.rows EXCEPT ![u] = row]
      /\ t.deps = s.deps \union {<<key, u>>}
      /\ t.held = s.held /\ t.fetched = s.fetched /\ t.uuidOf = s.uuidOf /\ t.pins = s.pins
      /\ t = [rows |-> t.rows, deps |-> t.deps, held |-> t.held, fetched |-> t.fetched,
              uuidOf |-> t.uuidOf, pins |-> t.pins]
  BY <1>u DEF u, row, UpdateOf
<1>5. t.rows[u] = row /\ \A v \in Uuids : v # u => t.rows[v] = s.rows[v]
  BY <1>1, <1>4, <1>t DEF StoreTypes
<1>6. row \in Rows /\ row.of = o /\ row.points = points /\ row.data = data /\ row # NoRow
  BY <1>d, Sorts DEF Rows, row
<1>7. StoreTypes(t)
  BY <1>1, <1>4, <1>6, <1>t DEF StoreTypes
<1>8. \A v \in Uuids : t.rows[v].of = s.rows[v].of /\ (t.rows[v] = NoRow <=> s.rows[v] = NoRow)
  BY <1>1, <1>2, <1>5, <1>6
<1>9. MapsRight(t)
  <2>1. /\ \A v, w \in Uuids : IsObject(t, v) /\ t.rows[w].of = t.rows[v].of => v = w
        /\ \A v \in Uuids, x \in Objects : t.rows[v].of = x /\ Known(t, x) => t.uuidOf[x] = v
    BY <1>4, <1>8 DEF Closed, MapsRight, IsObject, Known
  <2>2. \A x \in Objects : t.uuidOf[x] # NoUuid => t.rows[t.uuidOf[x]].of = x
    BY <1>4, <1>8, <1>t DEF Closed, MapsRight, StoreTypes
  <2>3. ASSUME NEW i \in Calls, t.pins[i].uuid # NoUuid
        PROVE  t.rows[t.pins[i].uuid].of = t.pins[i].name
    <3>1. s.pins[i].uuid \in Uuids
      BY <2>3, <1>4, <1>t, Sorts DEF StoreTypes, Pins
    <3>2. QED
      BY <3>1, <2>3, <1>4, <1>8 DEF Closed, MapsRight
  <2>4. QED
    BY <2>1, <2>2, <2>3 DEF MapsRight
<1>10. HeldRight(t)
  <2>1. ASSUME NEW v \in RowsOf(t, Root), t.rows[v].data
        PROVE  \/ Child \in t.rows[v].points
               \/ \E r \in t.rows[v].points \intersect Uuids :
                    t.rows[r] = NoRow \/ t.rows[r].of = Child
    <3>1. CASE v = u
      <4>1. o = Root /\ s.held[o] = "data"
        BY <3>1, <2>1, <1>5, <1>6, <1>d DEF RowsOf
      <4>2. \/ Child \in points
            \/ \E r \in points \intersect Uuids : s.rows[r].of = Child
        BY <4>1
      <4>3. QED
        BY <4>2, <3>1, <1>5, <1>6, <1>8
    <3>2. CASE v # u
      <4>1. v \in RowsOf(s, Root) /\ t.rows[v] = s.rows[v]
        BY <3>2, <2>1, <1>5 DEF RowsOf
      <4>2. \A r \in s.rows[v].points \intersect Uuids :
              t.rows[r].of = s.rows[r].of /\ (t.rows[r] = NoRow <=> s.rows[r] = NoRow)
        BY <1>8
      <4>3. QED
        BY <4>1, <4>2, <2>1 DEF Closed, HeldRight
    <3>3. QED
      BY <3>1, <3>2
  <2>2. QED
    BY <2>1, <1>4 DEF Closed, HeldRight
<1>11. DepsRight(t)
  <2>1. ASSUME NEW d \in t.deps PROVE IsPin(t, d[1]) /\ (IsObject(t, d[2]) \/ d[2] = d[1])
    <3>1. CASE d \in s.deps
      <4>1. d[1] \in Uuids /\ d[2] \in Uuids
        BY <3>1, <1>t DEF StoreTypes
      <4>2. QED
        BY <4>1, <3>1, <1>8 DEF Closed, DepsRight, IsPin, IsObject
    <3>2. CASE d = <<key, u>>
      BY <3>2, <1>1, <1>8 DEF IsPin, IsObject
    <3>3. QED
      BY <3>1, <3>2, <1>4
  <2>2. ASSUME NEW v \in Uuids, t.rows[v].data PROVE \E d \in t.deps : d[2] = v
    <3>1. CASE v = u
      <4>1. <<key, u>> \in t.deps /\ <<key, u>>[2] = u
        BY <1>4
      <4>2. QED
        BY <3>1, <4>1
    <3>2. CASE v # u
      BY <3>2, <2>2, <1>4, <1>5 DEF Closed, DepsRight
    <3>3. QED
      BY <3>1, <3>2
  <2>3. QED
    BY <2>1, <2>2 DEF DepsRight
<1>12. ASSUME NEW v \in Uuids, IsPin(t, v), v # k PROVE PinRow(t, v)
  <2>1. IsPin(s, v) /\ v # u
    BY <1>12, <1>1, <1>8, StoreAssumption DEF IsPin, StoreAssumption
  <2>2. PinRow(s, v) /\ t.rows[v] = s.rows[v]
    BY <2>1, <1>12, <1>5 DEF Closed
  <2>3. QED
    BY <2>2, <1>4, <1>8 DEF PinRow, IsObject
<1>13. Closed(t, k)
  BY <1>7, <1>9, <1>10, <1>11, <1>12 DEF Closed
<1>14. Saves(s, t, key)
  <2>1. \A d \in t.deps : d \in s.deps \/ (d[1] = key /\ IsObject(t, d[2]))
    BY <1>4, <1>5, <1>6 DEF IsObject
  <2>2. ASSUME NEW v \in Uuids
        PROVE  /\ s.rows[v] # NoRow => t.rows[v].of = s.rows[v].of
               /\ IsPin(t, v) \/ IsPin(s, v) => t.rows[v] = s.rows[v]
               /\ t.rows[v].data => s.rows[v].data \/ s.held[t.rows[v].of] = "data"
               /\ s.rows[v].data /\ s.held[s.rows[v].of] = "data" => t.rows[v].data
    <3>1. CASE v = u
      <4>1. ~IsPin(t, u) /\ ~IsPin(s, u)
        BY <1>1, <1>5, <1>6, StoreAssumption DEF IsPin, StoreAssumption
      <4>2. t.rows[u].of = o /\ t.rows[u].data = data
        BY <1>5, <1>6
      <4>3. QED
        BY <3>1, <4>1, <4>2, <1>1, <1>d
    <3>2. CASE v # u
      BY <3>2, <1>5 DEF IsPin
    <3>3. QED
      BY <3>1, <3>2
  <2>3. QED
    BY <2>1, <2>2, <1>4 DEF Saves
<1>15. Enough(t)
  <2>1. ASSUME NEW w \in Unnamed(s) PROVE w \in Unnamed(t)
    <3>1. /\ w \in Uuids /\ s.rows[w] = NoRow
          /\ \A v \in Uuids : w \notin s.rows[v].points
          /\ \A x \in Objects : s.uuidOf[x] # w
          /\ \A i \in Calls : s.pins[i].uuid # w /\ call[i].key # w
      BY <2>1 DEF Unnamed
    <3>2. w \notin points
      BY <3>1
    <3>3. \A v \in Uuids : w \notin t.rows[v].points
      BY <3>1, <3>2, <1>5, <1>6
    <3>4. QED
      BY <3>1, <3>3, <1>4, <1>8 DEF Unnamed
  <2>2. QED
    BY <2>1, <1>4, EnoughStays
<1>16. QED
  BY <1>13, <1>14, <1>15

\* What the pointers to some objects are.
PointsNamed(s, objects) ==
  /\ Points(s, objects) \subseteq Saved \union Uuids
  /\ \A r \in Points(s, objects) \intersect Uuids :
       \E x \in objects \ Saved : r = s.uuidOf[x] /\ s.rows[r].of = x
  /\ \A x \in objects :
       \/ x \in Saved /\ x \in Points(s, objects)
       \/ x \notin Saved /\ \E r \in Points(s, objects) \intersect Uuids : s.rows[r].of = x

\* Pointers are objectIds and uuids of the objects.
LEMMA PointsAreNamed ==
  ASSUME NEW s, NEW k, Closed(s, k), NEW objects \in SUBSET Objects,
         \A o \in objects \ Saved : s.uuidOf[o] # NoUuid
  PROVE  PointsNamed(s, objects)
<1>1. \A x \in objects \ Saved : s.uuidOf[x] \in Uuids /\ s.rows[s.uuidOf[x]].of = x
  BY DEF Closed, StoreTypes, MapsRight
<1>2. \A r \in Points(s, objects) : \E x \in objects : r = IF x \in Saved THEN x ELSE s.uuidOf[x]
  BY DEF Points
<1>3. \A x \in objects : (IF x \in Saved THEN x ELSE s.uuidOf[x]) \in Points(s, objects)
  BY DEF Points
<1>4. \A x \in Objects : x \notin Uuids
  BY StoreAssumption DEF StoreAssumption
<1>5. QED
  BY <1>1, <1>2, <1>3, <1>4 DEF PointsNamed

\* saveObjectLocallyAsync:key: of one object, in its two steps.
LEMMA SavedUnderUpdates ==
  ASSUME NEW s, NEW key, NEW o, ~(o \in Saved /\ s.held[o] # "data")
  PROVE  SavedUnder(s, o, key) =
           LET known == IF s.held[o] = "data" THEN PointsTo(o) ELSE {}
               v == Pointable(WithUuid(s, o), known)
           IN Updated(v, v.uuidOf[o], Points(v, known), s.held[o] = "data", key)
BY DEF SavedUnder

\* It adds, keeps the types and maps right, and the object is saved.
LEMMA SavedUnderSaves ==
  ASSUME NEW s, NEW k, NEW key \in Uuids, NEW o \in Objects, Closed(s, k), Enough(s),
         IsPin(s, key), Known(s, o)
  PROVE  LET t == SavedUnder(s, o, key)
         IN /\ Closed(t, k) /\ Enough(t) /\ Saves(s, t, key)
            /\ o \notin Saved \/ s.held[o] = "data" =>
                 /\ t.uuidOf[o] # NoUuid /\ <<key, t.uuidOf[o]>> \in t.deps
                 /\ t.rows[t.uuidOf[o]].data = (s.held[o] = "data")
<1>1. CASE o \in Saved /\ s.held[o] # "data"
  BY <1>1, SavesNothing DEF SavedUnder
<1>2. CASE ~(o \in Saved /\ s.held[o] # "data")
  <2> DEFINE known == IF s.held[o] = "data" THEN PointsTo(o) ELSE {}
             w == WithUuid(s, o)
             v == Pointable(w, known)
             t == Updated(v, v.uuidOf[o], Points(v, known), v.held[o] = "data", key)
  <2>1. Closed(w, k) /\ Enough(w) /\ Saves(s, w, key) /\ w.uuidOf[o] # NoUuid
    BY WithUuidSaves
  <2>2. known \in SUBSET Objects
        /\ (known # {} => s.held[o] = "data" /\ o = Root /\ known = {Child})
        /\ (o = Root /\ s.held[o] = "data" => known = {Child})
    BY DEF PointsTo, Objects
  <2>3. s.held = w.held
    BY <2>1 DEF Saves
  <2> HIDE DEF w, known
  <2>4. \A x \in known \ Saved : w.held[x] # "absent"
    BY <2>2, <2>3 DEF Closed, HeldRight
  <2>5. Closed(v, k) /\ Enough(v) /\ Saves(w, v, key)
        /\ \A x \in known \ Saved : v.uuidOf[x] # NoUuid
    BY ZenonT(30), <2>1, <2>2, <2>4, PointableSaves
  <2> HIDE DEF v
  <2>6. Saves(s, v, key)
    BY <2>1, <2>5, SavesTwice
  <2>7. v.held = s.held /\ v.uuidOf[o] # NoUuid /\ IsPin(v, key)
    BY <2>1, <2>5, <2>6 DEF Saves, IsPin
  <2>p. PointsNamed(v, known)
    BY <2>2, <2>5, PointsAreNamed
  <2>8. /\ Points(v, known) \in SUBSET (Saved \union Uuids)
        /\ \A r \in Points(v, known) \intersect Uuids : \E x \in Objects : v.uuidOf[x] = r
        /\ \A x \in known : \/ x \in Points(v, known)
                            \/ \E r \in Points(v, known) \intersect Uuids : v.rows[r].of = x
    BY <2>2, <2>p DEF PointsNamed
  <2>9. o = Root /\ v.held[o] = "data" =>
          \/ Child \in Points(v, known)
          \/ \E r \in Points(v, known) \intersect Uuids : v.rows[r].of = Child
    BY <2>2, <2>7, <2>8
  <2>10. /\ Closed(t, k) /\ Enough(t) /\ Saves(v, t, key) /\ t.uuidOf = v.uuidOf
         /\ <<key, t.uuidOf[o]>> \in t.deps
         /\ t.rows[t.uuidOf[o]].data = (v.held[o] = "data")
    <3> HIDE DEF t
    <3> DEFINE pts == Points(v, known)
    <3>2. pts \in SUBSET (Saved \union Uuids)
          /\ (\A r \in pts \intersect Uuids : \E x \in Objects : v.uuidOf[x] = r)
          /\ (o = Root /\ v.held[o] = "data" =>
               \/ Child \in pts
               \/ \E r \in pts \intersect Uuids : v.rows[r].of = Child)
      BY <2>8, <2>9
    <3> HIDE DEF pts
    <3> DEFINE data == v.held[o] = "data"
    <3>3. data \in BOOLEAN /\ (data = TRUE <=> v.held[o] = "data")
      OBVIOUS
    <3> HIDE DEF data
    <3>4. t = Updated(v, v.uuidOf[o], pts, data, key)
      BY DEF t, pts, data
    <3> HIDE DEF t
    <3>5. Closed(t, k) /\ Enough(t) /\ Saves(v, t, key)
      BY <2>5, <2>7, <3>2, <3>3, <3>4, UpdatedObject
    <3>6. UpdateOf(v, t, o, pts, data, key)
      BY <2>5, <2>7, <3>4, UpdatedFields
    <3>7. t.uuidOf = v.uuidOf /\ <<key, t.uuidOf[o]>> \in t.deps
      BY <3>6 DEF UpdateOf
    <3>8. t.rows[t.uuidOf[o]].data = (v.held[o] = "data")
      BY <3>3, <3>6, <2>5 DEF UpdateOf, Closed, StoreTypes
    <3>9. QED
      BY <3>5, <3>7, <3>8
  <2>11. t = SavedUnder(s, o, key)
    <3>1. SavedUnder(s, o, key)
            = Updated(v, v.uuidOf[o], Points(v, known), s.held[o] = "data", key)
      BY <1>2 DEF SavedUnder, v, w, known
    <3>2. QED
      BY <3>1, <2>7
  <2> HIDE DEF t
  <2>12. Saves(s, t, key)
    BY <2>5, <2>6, <2>10, SavesTwice
  <2>13. QED
    BY <2>7, <2>10, <2>11, <2>12
<1>3. QED
  BY <1>1, <1>2

\* What is said of an object that is saved stays true.
SavedFor(s, o, key) ==
  o \notin Saved \/ s.held[o] = "data" =>
    /\ s.uuidOf[o] # NoUuid /\ <<key, s.uuidOf[o]>> \in s.deps
    /\ s.held[o] = "data" => s.rows[s.uuidOf[o]].data

LEMMA SavedForStays ==
  ASSUME NEW s, NEW t, NEW k, NEW key, NEW o \in Objects, Closed(s, k), Saves(s, t, key),
         SavedFor(s, o, key)
  PROVE  SavedFor(t, o, key)
<1>1. CASE o \notin Saved \/ s.held[o] = "data"
  <2>1. s.uuidOf[o] \in Uuids /\ t.uuidOf[o] = s.uuidOf[o] /\ s.rows[s.uuidOf[o]].of = o
    BY <1>1, Sorts DEF SavedFor, Closed, StoreTypes, MapsRight, Saves
  <2>2. s.held[o] = "data" => t.rows[s.uuidOf[o]].data
    BY <1>1, <2>1 DEF SavedFor, Saves
  <2>3. QED
    BY <1>1, <2>1, <2>2 DEF SavedFor, Saves
<1>2. CASE ~(o \notin Saved \/ s.held[o] = "data")
  BY <1>2 DEF SavedFor, Saves
<1>3. QED
  BY <1>1, <1>2

TreeSaved(s, tree, key) == Each(LAMBDA t, o : SavedUnder(t, o, key), s, tree)

\* Every object of a tree is saved.
LEMMA TreeSaves ==
  ASSUME NEW s, NEW k, NEW key \in Uuids, NEW tree \in SUBSET Objects, Closed(s, k), Enough(s),
         IsPin(s, key), \A o \in tree : Known(s, o)
  PROVE  LET t == TreeSaved(s, tree, key)
         IN /\ Closed(t, k) /\ Enough(t) /\ Saves(s, t, key)
            /\ \A o \in tree : SavedFor(t, o, key)
<1> DEFINE c == IF Child \in tree THEN SavedUnder(s, Child, key) ELSE s
           r == IF Root \in tree THEN SavedUnder(c, Root, key) ELSE c
           t == IF Other \in tree THEN SavedUnder(r, Other, key) ELSE r
           Fine(w) == Closed(w, k) /\ Enough(w) /\ Saves(s, w, key)
<1>1. Fine(s)
  BY SavesNothing
<1>2. ASSUME NEW w, Fine(w), NEW o \in tree
      PROVE  /\ Fine(SavedUnder(w, o, key)) /\ SavedFor(SavedUnder(w, o, key), o, key)
             /\ \A x \in Objects : SavedFor(w, x, key) => SavedFor(SavedUnder(w, o, key), x, key)
  <2> DEFINE z == SavedUnder(w, o, key)
  <2>1. Known(w, o) /\ IsPin(w, key) /\ o \in Objects
    BY <1>2, KnownStays DEF Saves, IsPin
  <2>2. /\ Closed(z, k) /\ Enough(z) /\ Saves(w, z, key)
        /\ o \notin Saved \/ w.held[o] = "data" =>
             /\ z.uuidOf[o] # NoUuid /\ <<key, z.uuidOf[o]>> \in z.deps
             /\ z.rows[z.uuidOf[o]].data = (w.held[o] = "data")
    BY <1>2, <2>1, SavedUnderSaves
  <2> HIDE DEF z
  <2>3. Saves(s, z, key)
    BY <1>2, <2>2, SavesTwice
  <2>4. SavedFor(z, o, key)
    BY <2>2 DEF SavedFor, Saves
  <2>5. \A x \in Objects : SavedFor(w, x, key) => SavedFor(z, x, key)
    BY <1>2, <2>2, SavedForStays
  <2>6. QED
    BY <2>2, <2>3, <2>4, <2>5 DEF z
<1> HIDE DEF Fine
<1>3. Fine(c) /\ \A o \in tree \cap {Child} : SavedFor(c, o, key)
  BY <1>1, <1>2
<1> HIDE DEF c
<1>4. Fine(r) /\ \A o \in tree \cap {Child, Root} : SavedFor(r, o, key)
  BY <1>2, <1>3
<1> HIDE DEF r
<1>5. Fine(t) /\ \A o \in tree \cap {Child, Root, Other} : SavedFor(t, o, key)
  BY <1>2, <1>4
<1>6. t = TreeSaved(s, tree, key)
  BY DEF TreeSaved, Each, c, r
<1> HIDE DEF t
<1>7. tree \cap {Child, Root, Other} = tree
  BY DEF Objects
<1>8. QED
  BY <1>5, <1>6, <1>7 DEF Fine

RecordOf(s) ==
  s = [rows |-> s.rows, deps |-> s.deps, held |-> s.held, fetched |-> s.fetched,
       uuidOf |-> s.uuidOf, pins |-> s.pins]

\* What _unpinKeyAsync: changes.
Doomed(s, key) == {u \in Uuids : KeysOf(s, u) = {key}}

Unpinned(s, t, key) ==
  /\ RecordOf(t)
  /\ t.rows = [u \in Uuids |-> IF u \in Doomed(s, key) THEN NoRow ELSE s.rows[u]]
  /\ t.deps = {d \in s.deps : d[1] # key}
  /\ t.held = s.held /\ t.fetched = s.fetched
  /\ t.uuidOf = [o \in Objects |-> IF s.uuidOf[o] \in Doomed(s, key) THEN NoUuid ELSE s.uuidOf[o]]
  /\ t.pins = [i \in Calls |-> IF s.pins[i].uuid \in Doomed(s, key)
                               THEN [s.pins[i] EXCEPT !.uuid = NoUuid] ELSE s.pins[i]]

\* What it leaves of each table and map.
LEMMA UnpinFields ==
  ASSUME NEW s, StoreTypes(s), NEW key
  PROVE  Unpinned(s, UnpinKey(s, key), key)
<1> DEFINE t == UnpinKey(s, key)
           D == Doomed(s, key)
<1>1. t = [Without(s, D) EXCEPT !.deps = {d \in @ : d[1] # key}]
  BY DEF UnpinKey, Doomed
<1> HIDE DEF t, D
<1>2. /\ t.rows = [u \in Uuids |-> IF u \in D THEN NoRow ELSE s.rows[u]]
      /\ t.deps = {d \in s.deps : d[1] # key}
      /\ t.held = s.held /\ t.fetched = s.fetched
      /\ t.uuidOf = [o \in Objects |-> IF s.uuidOf[o] \in D THEN NoUuid ELSE s.uuidOf[o]]
      /\ t.pins = [i \in Calls |-> IF s.pins[i].uuid \in D
                                   THEN [s.pins[i] EXCEPT !.uuid = NoUuid] ELSE s.pins[i]]
      /\ RecordOf(t)
  BY <1>1 DEF Without, StoreTypes, RecordOf
<1>3. QED
  BY <1>2 DEF Unpinned, t, D

\* A row that some other key keeps is not doomed; the row of a pin is doomed
\* with the pin only.
LEMMA KeptRows ==
  ASSUME NEW s, Closed(s, NoUuid), NEW key, NEW u \in Uuids
  PROVE  /\ \A d \in s.deps : d[2] = u /\ d[1] # key => u \notin Doomed(s, key)
         /\ IsPin(s, u) /\ u # key => u \notin Doomed(s, key)
         /\ IsPin(s, u) /\ u = key => u \in Doomed(s, key)
<1>1. \A d \in s.deps : d[2] = u => d[1] \in KeysOf(s, u)
  BY DEF KeysOf
<1>2. \A x \in KeysOf(s, u) : \E d \in s.deps : d[1] = x /\ d[2] = u
  BY DEF KeysOf
<1>3. \A d \in s.deps : d[2] = u /\ d[1] # key => u \notin Doomed(s, key)
  BY <1>1 DEF Doomed
<1>4. ASSUME IsPin(s, u) PROVE KeysOf(s, u) = {u}
  <2>1. <<u, u>> \in s.deps
    BY <1>4, Sorts DEF Closed, PinRow
  <2>2. u \in KeysOf(s, u)
    BY <2>1, <1>1
  <2>3. ASSUME NEW x \in KeysOf(s, u) PROVE x = u
    <3>1. PICK d \in s.deps : d[1] = x /\ d[2] = u
      BY <2>3, <1>2
    <3>2. ~IsObject(s, u)
      BY <1>4, StoreAssumption DEF IsPin, IsObject, StoreAssumption
    <3>3. QED
      BY <3>1, <3>2 DEF Closed, DepsRight
  <2>4. QED
    BY <2>2, <2>3
<1>5. QED
  BY <1>3, <1>4 DEF Doomed

\* It leaves everything closed.
LEMMA UnpinCloses ==
  ASSUME NEW s, Closed(s, NoUuid), NEW key, NEW t, Unpinned(s, t, key)
  PROVE  Closed(t, NoUuid) /\ Unnamed(s) \subseteq Unnamed(t)
<1> DEFINE D == Doomed(s, key)
<1>t. StoreTypes(s)
  BY DEF Closed
<1>1. D \subseteq Uuids /\ NoUuid \notin D
  BY Sorts DEF Doomed
<1>2. /\ \A u \in Uuids : t.rows[u] = IF u \in D THEN NoRow ELSE s.rows[u]
      /\ \A o \in Objects : t.uuidOf[o] = IF s.uuidOf[o] \in D THEN NoUuid ELSE s.uuidOf[o]
      /\ \A i \in Calls : t.pins[i] = IF s.pins[i].uuid \in D
                                      THEN [s.pins[i] EXCEPT !.uuid = NoUuid] ELSE s.pins[i]
      /\ t.held = s.held /\ t.fetched = s.fetched
      /\ \A d \in t.deps : d \in s.deps /\ d[1] # key
      /\ \A d \in s.deps : d[1] # key => d \in t.deps
  BY DEF Unpinned
<1>k. ASSUME NEW u \in Uuids
      PROVE  /\ \A d \in t.deps : d[2] = u => u \notin D
             /\ IsPin(s, u) /\ u # key => u \notin D
             /\ IsPin(s, u) /\ u = key => u \in D
  BY <1>2, KeptRows
<1>3. StoreTypes(t)
  <2>1. t.rows \in [Uuids -> Rows \union {NoRow}] /\ t.uuidOf \in [Objects -> Uuids \union {NoUuid}]
        /\ t.deps \subseteq Uuids \X Uuids
    BY <1>t DEF Unpinned, StoreTypes
  <2>2. ASSUME NEW i \in Calls PROVE t.pins[i] \in Pins \union {NoPin}
    <3>1. CASE s.pins[i].uuid \in D
      <4>1. s.pins[i] \in Pins
        BY <3>1, <1>1, <1>t, Sorts DEF StoreTypes
      <4>2. QED
        BY ZenonT(30), <3>1, <4>1, <1>2 DEF Pins
    <3>2. CASE s.pins[i].uuid \notin D
      BY <3>2, <1>2, <1>t DEF StoreTypes
    <3>3. QED
      BY <3>1, <3>2
  <2>3. t.pins \in [Calls -> Pins \union {NoPin}]
    BY <2>2 DEF Unpinned
  <2>4. QED
    BY <2>1, <2>3, <1>t DEF Unpinned, StoreTypes, RecordOf
<1>p. ASSUME NEW i \in Calls
      PROVE  /\ t.pins[i].objects = s.pins[i].objects /\ t.pins[i].name = s.pins[i].name
             /\ t.pins[i].uuid = IF s.pins[i].uuid \in D THEN NoUuid ELSE s.pins[i].uuid
  <2>1. CASE s.pins[i].uuid \in D
    <3>1. s.pins[i] \in Pins
      BY <2>1, <1>1, <1>t, Sorts DEF StoreTypes
    <3>2. QED
      BY <2>1, <3>1, <1>2 DEF Pins
  <2>2. CASE s.pins[i].uuid \notin D
    BY <2>2, <1>2
  <2>3. QED
    BY <2>1, <2>2
<1>n. ASSUME NEW u \in Uuids
      PROVE  /\ t.rows[u].of = s.rows[u].of \/ t.rows[u] = NoRow
             /\ t.rows[u].of \in Objects \union PinNames =>
                  u \notin D /\ t.rows[u] = s.rows[u]
             /\ t.rows[u].data => u \notin D /\ t.rows[u] = s.rows[u]
  BY <1>2, Sorts
<1>4. MapsRight(t)
  <2>1. /\ \A v, w \in Uuids : IsObject(t, v) /\ t.rows[w].of = t.rows[v].of => v = w
    BY <1>n DEF Closed, MapsRight, IsObject
  <2>2. ASSUME NEW v \in Uuids, NEW x \in Objects, t.rows[v].of = x, Known(t, x)
        PROVE  t.uuidOf[x] = v
    <3>1. v \notin D /\ t.rows[v] = s.rows[v] /\ Known(s, x)
      BY <2>2, <1>n, <1>2 DEF Known
    <3>2. s.uuidOf[x] = v
      BY <3>1, <2>2 DEF Closed, MapsRight
    <3>3. QED
      BY <3>1, <3>2, <1>2
  <2>3. ASSUME NEW x \in Objects, t.uuidOf[x] # NoUuid PROVE t.rows[t.uuidOf[x]].of = x
    <3>1. s.uuidOf[x] \notin D /\ t.uuidOf[x] = s.uuidOf[x] /\ s.uuidOf[x] \in Uuids
      BY <2>3, <1>2, <1>t DEF StoreTypes
    <3>2. QED
      BY <2>3, <3>1, <1>2 DEF Closed, MapsRight
  <2>4. ASSUME NEW i \in Calls, t.pins[i].uuid # NoUuid
        PROVE  t.rows[t.pins[i].uuid].of = t.pins[i].name
    <3>1. s.pins[i].uuid \notin D /\ t.pins[i].uuid = s.pins[i].uuid
      BY <2>4, <1>p
    <3>2. s.pins[i].uuid \in Uuids
      BY <2>4, <3>1, <1>t, Sorts DEF StoreTypes, Pins
    <3>3. QED
      BY <2>4, <3>1, <3>2, <1>2, <1>p DEF Closed, MapsRight
  <2>5. QED
    BY <2>1, <2>2, <2>3, <2>4 DEF MapsRight
<1>5. HeldRight(t)
  <2>1. ASSUME NEW v \in RowsOf(t, Root), t.rows[v].data
        PROVE  \/ Child \in t.rows[v].points
               \/ \E r \in t.rows[v].points \intersect Uuids :
                    t.rows[r] = NoRow \/ t.rows[r].of = Child
    <3>1. v \in RowsOf(s, Root) /\ t.rows[v] = s.rows[v]
      BY <2>1, <1>n DEF RowsOf
    <3>2. CASE Child \in s.rows[v].points
      BY <3>1, <3>2
    <3>3. CASE Child \notin s.rows[v].points
      <4>1. PICK r \in s.rows[v].points \intersect Uuids : s.rows[r] = NoRow \/ s.rows[r].of = Child
        BY <3>1, <3>3, <2>1 DEF Closed, HeldRight
      <4>2. t.rows[r] = NoRow \/ t.rows[r] = s.rows[r]
        BY <1>2
      <4>3. QED
        BY <4>1, <4>2, <3>1
    <3>4. QED
      BY <3>2, <3>3
  <2>2. QED
    BY <2>1, <1>2, <1>p DEF Closed, HeldRight
<1>6. DepsRight(t)
  <2>1. ASSUME NEW d \in t.deps PROVE IsPin(t, d[1]) /\ (IsObject(t, d[2]) \/ d[2] = d[1])
    <3>1. d \in s.deps /\ d[1] # key /\ d[1] \in Uuids /\ d[2] \in Uuids
      BY <2>1, <1>2, <1>t DEF StoreTypes
    <3>2. IsPin(s, d[1]) /\ (IsObject(s, d[2]) \/ d[2] = d[1])
      BY <3>1 DEF Closed, DepsRight
    <3>3. d[1] \notin D /\ d[2] \notin D
      BY <2>1, <3>1, <3>2, <1>k
    <3>4. QED
      BY <3>1, <3>2, <3>3, <1>2 DEF IsPin, IsObject
  <2>2. ASSUME NEW u \in Uuids, t.rows[u].data PROVE \E d \in t.deps : d[2] = u
    <3>1. u \notin D /\ s.rows[u].data
      BY <2>2, <1>n
    <3>2. PICK d \in s.deps : d[2] = u
      BY <3>1 DEF Closed, DepsRight
    <3>3. CASE \E e \in s.deps : e[2] = u /\ e[1] # key
      BY <3>3, <1>2
    <3>4. CASE \A e \in s.deps : e[2] = u => e[1] = key
      <4>1. KeysOf(s, u) = {key}
        BY <3>2, <3>4 DEF KeysOf
      <4>2. QED
        BY <3>1, <4>1 DEF Doomed
    <3>5. QED
      BY <3>3, <3>4
  <2>3. QED
    BY <2>1, <2>2 DEF DepsRight
<1>7. ASSUME NEW u \in Uuids, IsPin(t, u) PROVE PinRow(t, u)
  <2>1. u \notin D /\ t.rows[u] = s.rows[u] /\ IsPin(s, u)
    BY <1>7, <1>n DEF IsPin
  <2>2. u # key /\ PinRow(s, u)
    BY <2>1, <1>k, Sorts DEF Closed
  <2>3. <<u, u>> \in t.deps
    BY <2>2, <1>2 DEF PinRow
  <2>4. ASSUME NEW r \in t.rows[u].points \intersect Uuids PROVE <<u, r>> \in t.deps /\ IsObject(t, r)
    <3>1. <<u, r>> \in s.deps /\ IsObject(s, r)
      BY <2>1, <2>2, <2>4 DEF PinRow
    <3>2. <<u, r>> \in t.deps
      BY <3>1, <2>2, <1>2
    <3>3. r \notin D
      BY <3>2, <1>k
    <3>4. QED
      BY <3>1, <3>2, <3>3, <1>2 DEF IsObject
  <2>5. QED
    BY <2>1, <2>2, <2>3, <2>4 DEF PinRow
<1>8. ASSUME NEW u \in Unnamed(s) PROVE u \in Unnamed(t)
  <2>1. /\ u \in Uuids /\ s.rows[u] = NoRow
        /\ \A v \in Uuids : u \notin s.rows[v].points
        /\ \A o \in Objects : s.uuidOf[o] # u
        /\ \A i \in Calls : s.pins[i].uuid # u /\ call[i].key # u
    BY <1>8 DEF Unnamed
  <2>2. t.rows[u] = NoRow /\ \A v \in Uuids : u \notin t.rows[v].points
    BY <2>1, <1>2, Sorts
  <2>3. \A o \in Objects : t.uuidOf[o] # u
    BY <2>1, <1>2, Sorts
  <2>4. \A i \in Calls : t.pins[i].uuid # u
    BY <2>1, <1>p, Sorts
  <2>5. QED
    BY <2>1, <2>2, <2>3, <2>4 DEF Unnamed
<1>9. QED
  BY <1>3, <1>4, <1>5, <1>6, <1>7, <1>8 DEF Closed

Spare(s) == Cardinality(Unnamed(s)) > Cardinality(Objects)

\* Uuids to spare.
LEMMA SpareStays ==
  ASSUME NEW s, NEW t, Spare(s), Unnamed(s) \subseteq Unnamed(t)
  PROVE  Spare(t)
<1>1. IsFiniteSet(Unnamed(t)) /\ IsFiniteSet(Unnamed(s))
  BY Sorts, FS_Subset DEF Unnamed
<1>2. Cardinality(Unnamed(s)) <= Cardinality(Unnamed(t)) /\ Cardinality(Unnamed(s)) \in Nat
      /\ Cardinality(Unnamed(t)) \in Nat /\ Cardinality(Objects) \in Nat
  BY <1>1, Sorts, FS_Subset, FS_CardinalityType
<1>3. QED
  BY <1>2 DEF Spare

\* A new uuid of a pin.
PinNamed(s, t, p, u) ==
  /\ RecordOf(t) /\ u \in Unnamed(s)
  /\ t.rows = [s.rows EXCEPT ![u] = [of |-> s.pins[p].name, points |-> {}, data |-> FALSE]]
  /\ t.pins = [s.pins EXCEPT ![p] = [s.pins[p] EXCEPT !.uuid = u]]
  /\ t.deps = s.deps /\ t.held = s.held /\ t.fetched = s.fetched /\ t.uuidOf = s.uuidOf

LEMMA WithPinUuidFields ==
  ASSUME NEW s, StoreTypes(s), Spare(s), NEW p \in Calls, s.pins[p] \in Pins,
         s.pins[p].uuid = NoUuid
  PROVE  PinNamed(s, WithPinUuid(s, p), p, NewUuid(s))
<1>1. Unnamed(s) # {}
  <2>1. SUFFICES ASSUME Unnamed(s) = {} PROVE FALSE
    OBVIOUS
  <2>2. Cardinality({}) = 0 /\ Cardinality(Objects) \in Nat
    BY Sorts, FS_EmptySet, FS_CardinalityType
  <2>3. Cardinality(Unnamed(s)) = 0
    BY <2>1, <2>2
  <2>4. QED
    BY <2>2, <2>3 DEF Spare
<1>2. NewUuid(s) \in Unnamed(s)
  BY <1>1 DEF NewUuid
<1> DEFINE u == NewUuid(s)
<1>3. WithPinUuid(s, p) =
        [s EXCEPT !.pins = [s.pins EXCEPT ![p] = [s.pins[p] EXCEPT !.uuid = u]],
                  !.rows = [s.rows EXCEPT ![u] = [of |-> s.pins[p].name, points |-> {},
                                                 data |-> FALSE]]]
  BY DEF WithPinUuid
<1> HIDE DEF u
<1>4. QED
  BY <1>2, <1>3 DEF PinNamed, StoreTypes, RecordOf, u

\* A pin with a new uuid leaves the rest closed.
LEMMA PinNamedCloses ==
  ASSUME NEW s, Closed(s, NoUuid), Spare(s), NEW p \in Calls, s.pins[p] \in Pins, NEW u, NEW t,
         PinNamed(s, t, p, u)
  PROVE  Closed(t, u) /\ Enough(t) /\ IsPin(t, u) /\ t.pins[p].uuid = u /\ u \in Uuids
<1>t. StoreTypes(s)
  BY DEF Closed
<1> DEFINE row == [of |-> s.pins[p].name, points |-> {}, data |-> FALSE]
           pin == [s.pins[p] EXCEPT !.uuid = u]
<1>1. /\ u \in Uuids /\ s.rows[u] = NoRow /\ \A v \in Uuids : u \notin s.rows[v].points
      /\ \A x \in Objects : s.uuidOf[x] # u
      /\ \A i \in Calls : s.pins[i].uuid # u
  BY <1>t, UnnamedMeans DEF PinNamed
<1>2. /\ pin \in Pins /\ pin.uuid = u /\ pin.name = s.pins[p].name /\ pin.objects = s.pins[p].objects
      /\ row \in Rows /\ row.of = s.pins[p].name /\ row.points = {} /\ row.data = FALSE
      /\ s.pins[p].name \in PinNames
  BY <1>1 DEF Pins, Rows
<1> HIDE DEF row, pin
<1>3. /\ t.rows[u] = row /\ \A v \in Uuids : v # u => t.rows[v] = s.rows[v]
      /\ t.pins[p] = pin /\ \A i \in Calls : i # p => t.pins[i] = s.pins[i]
      /\ t.deps = s.deps /\ t.held = s.held /\ t.fetched = s.fetched /\ t.uuidOf = s.uuidOf
  BY <1>1, <1>t DEF PinNamed, StoreTypes, row, pin
<1>4. StoreTypes(t)
  BY <1>1, <1>2, <1>t DEF PinNamed, StoreTypes, RecordOf, row, pin
<1>5. row.of \notin Objects
  BY <1>2, StoreAssumption DEF StoreAssumption
<1>6. MapsRight(t)
  <2>1. \A v, w \in Uuids : IsObject(t, v) /\ t.rows[w].of = t.rows[v].of => v = w
    BY <1>3, <1>5 DEF Closed, MapsRight, IsObject
  <2>2. \A v \in Uuids, x \in Objects : t.rows[v].of = x /\ Known(t, x) => t.uuidOf[x] = v
    BY <1>3, <1>5 DEF Closed, MapsRight, Known
  <2>3. \A x \in Objects : t.uuidOf[x] # NoUuid => t.rows[t.uuidOf[x]].of = x
    BY <1>1, <1>3, <1>t DEF Closed, MapsRight, StoreTypes
  <2>4. ASSUME NEW i \in Calls, t.pins[i].uuid # NoUuid
        PROVE  t.rows[t.pins[i].uuid].of = t.pins[i].name
    <3>1. CASE i = p
      BY <3>1, <1>2, <1>3
    <3>2. CASE i # p
      <4>1. s.pins[i].uuid \in Uuids
        BY <3>2, <2>4, <1>3, <1>t, Sorts DEF StoreTypes, Pins
      <4>2. QED
        BY <3>2, <4>1, <2>4, <1>1, <1>3 DEF Closed, MapsRight
    <3>3. QED
      BY <3>1, <3>2
  <2>5. QED
    BY <2>1, <2>2, <2>3, <2>4 DEF MapsRight
<1>7. HeldRight(t)
  <2>1. ASSUME NEW v \in RowsOf(t, Root), t.rows[v].data
        PROVE  \/ Child \in t.rows[v].points
               \/ \E r \in t.rows[v].points \intersect Uuids :
                    t.rows[r] = NoRow \/ t.rows[r].of = Child
    <3>1. v # u /\ v \in RowsOf(s, Root) /\ t.rows[v] = s.rows[v]
      BY <2>1, <1>2, <1>3 DEF RowsOf
    <3>2. \A r \in s.rows[v].points \intersect Uuids : t.rows[r] = s.rows[r]
      BY <3>1, <1>1, <1>3 DEF RowsOf
    <3>3. QED
      BY <3>1, <3>2, <2>1 DEF Closed, HeldRight
  <2>2. \A i \in Calls : t.pins[i].objects = s.pins[i].objects
    BY <1>2, <1>3
  <2>3. QED
    BY <2>1, <2>2, <1>3 DEF Closed, HeldRight
<1>8. DepsRight(t)
  <2>1. ASSUME NEW d \in s.deps PROVE d[1] \in Uuids /\ d[2] \in Uuids /\ d[1] # u /\ d[2] # u
    BY <2>1, <1>t, <1>1, Sorts DEF StoreTypes, Closed, DepsRight, IsPin, IsObject
  <2>2. QED
    BY <2>1, <1>2, <1>3 DEF Closed, DepsRight, IsPin, IsObject
<1>9. ASSUME NEW v \in Uuids, IsPin(t, v), v # u PROVE PinRow(t, v)
  <2>1. t.rows[v] = s.rows[v] /\ IsPin(s, v) /\ v # NoUuid
    BY <1>9, <1>3, Sorts DEF IsPin
  <2>2. QED
    BY <2>1, <1>1, <1>3 DEF Closed, PinRow, IsObject
<1>10. Closed(t, u)
  BY <1>4, <1>6, <1>7, <1>8, <1>9 DEF Closed
<1>11. Enough(t)
  <2> DEFINE M == {x \in Objects : t.uuidOf[x] = NoUuid}
  <2>1. Unnamed(s) \ {u} \subseteq Unnamed(t)
    BY <1>1, <1>2, <1>3 DEF Unnamed
  <2>2. u \in Unnamed(s)
    BY DEF PinNamed
  <2>3. IsFiniteSet(M) /\ IsFiniteSet(Unnamed(s)) /\ IsFiniteSet(Unnamed(t))
    BY Sorts, FS_Subset DEF Unnamed
  <2>4. Cardinality(M) <= Cardinality(Objects)
    BY Sorts, FS_Subset
  <2>5. Cardinality(Unnamed(s) \ {u}) = Cardinality(Unnamed(s)) - 1
    BY <2>2, <2>3, FS_RemoveElement
  <2>6. Cardinality(Unnamed(s) \ {u}) <= Cardinality(Unnamed(t))
    BY <2>1, <2>3, FS_Subset
  <2>7. Cardinality(M) \in Nat /\ Cardinality(Unnamed(s)) \in Nat /\ Cardinality(Unnamed(t)) \in Nat
        /\ Cardinality(Objects) \in Nat
    BY <2>3, Sorts, FS_CardinalityType
  <2>8. QED
    BY <2>4, <2>5, <2>6, <2>7 DEF Spare, Enough
<1>12. QED
  BY <1>1, <1>2, <1>3, <1>10, <1>11 DEF IsPin

\* The pin itself is saved.
PinWritten(s, t, p, key) ==
  /\ RecordOf(t)
  /\ t.rows = [s.rows EXCEPT ![key] = [of |-> s.rows[key].of,
                                       points |-> Points(s, s.pins[p].objects), data |-> TRUE]]
  /\ t.deps = s.deps \union {<<key, key>>}
  /\ t.held = s.held /\ t.fetched = s.fetched /\ t.uuidOf = s.uuidOf /\ t.pins = s.pins

LEMMA PinSavedFields ==
  ASSUME NEW s, StoreTypes(s), NEW p \in Calls, NEW key \in Uuids, s.rows[key].of # "nothing",
         s.pins[p].uuid = key, \A o \in s.pins[p].objects \ Saved : s.uuidOf[o] # NoUuid
  PROVE  PinWritten(s, PinSavedUnder(s, p, key), p, key)
<1> DEFINE pts == Points(s, s.pins[p].objects)
           t == PinSavedUnder(s, p, key)
<1>1. \A o \in s.pins[p].objects \ Saved : WithUuid(s, o) = s
  BY DEF WithUuid
<1>2. Pointable(s, s.pins[p].objects) = s
  BY <1>1 DEF Pointable, Each
<1>3. t = Updated(s, key, pts, TRUE, key)
  BY <1>2 DEF PinSavedUnder
<1>4. s.rows[key] # NoRow
  BY DEF NoRow
<1>5. s.rows[key] \in Rows
  BY <1>4 DEF StoreTypes
<1> HIDE DEF pts, t
<1> DEFINE row == [of |-> s.rows[key].of, points |-> pts, data |-> TRUE]
<1>6. [s.rows[key] EXCEPT !.points = pts, !.data = TRUE] = row
  BY <1>5, RowUpdated
<1> HIDE DEF row
<1>7. t = [s EXCEPT !.rows = [s.rows EXCEPT ![key] = row], !.deps = s.deps \union {<<key, key>>}]
  <2>1. t = [s EXCEPT !.rows = [s.rows EXCEPT ![key] = IF s.rows[key] = NoRow THEN s.rows[key]
                      ELSE [s.rows[key] EXCEPT !.points = pts, !.data = TRUE]],
                    !.deps = s.deps \union {<<key, key>>}]
    BY <1>3 DEF Updated
  <2>2. QED
    BY <2>1, <1>4, <1>6, Zenon
<1>8. QED
  BY <1>7 DEF PinWritten, StoreTypes, RecordOf, row, pts, t

\* Once the pin is written everything is closed.
LEMMA PinWrittenCloses ==
  ASSUME NEW s, NEW p \in Calls, NEW key \in Uuids, Closed(s, key), IsPin(s, key),
         s.pins[p].uuid = key, \A o \in s.pins[p].objects : SavedFor(s, o, key),
         NEW t, PinWritten(s, t, p, key)
  PROVE  Closed(t, NoUuid)
<1>t. StoreTypes(s)
  BY DEF Closed
<1> DEFINE objs == s.pins[p].objects
           pts == Points(s, objs)
           row == [of |-> s.rows[key].of, points |-> pts, data |-> TRUE]
<1>1. objs \in SUBSET Objects
  BY <1>t, Sorts DEF StoreTypes, Pins
<1>2. \A o \in objs \ Saved : s.uuidOf[o] # NoUuid /\ <<key, s.uuidOf[o]>> \in s.deps
  BY DEF SavedFor
<1> HIDE DEF objs
<1>3. /\ pts \subseteq Saved \union Uuids
      /\ \A r \in pts \intersect Uuids :
           \E x \in objs \ Saved : r = s.uuidOf[x] /\ s.rows[r].of = x
  <2>1. PointsNamed(s, objs)
    BY <1>1, <1>2, PointsAreNamed
  <2>2. QED
    BY <2>1 DEF PointsNamed
<1> HIDE DEF pts
<1>4. row \in Rows /\ row.of = s.rows[key].of /\ row.points = pts /\ row.data = TRUE
      /\ s.rows[key].of \notin Objects /\ row # NoRow /\ s.rows[key] # NoRow
  BY <1>3, StoreAssumption, Sorts DEF Rows, IsPin, StoreAssumption
<1> HIDE DEF row
<1>5. /\ t.rows[key] = row /\ \A v \in Uuids : v # key => t.rows[v] = s.rows[v]
      /\ t.deps = s.deps \union {<<key, key>>}
      /\ t.held = s.held /\ t.fetched = s.fetched /\ t.uuidOf = s.uuidOf /\ t.pins = s.pins
  BY <1>t DEF PinWritten, StoreTypes, row, pts, objs
<1>6. StoreTypes(t)
  BY <1>4, <1>t DEF PinWritten, StoreTypes, RecordOf, row, pts, objs
<1>7. \A v \in Uuids : t.rows[v].of = s.rows[v].of /\ (t.rows[v] = NoRow <=> s.rows[v] = NoRow)
  BY <1>4, <1>5
<1>8. MapsRight(t)
  <2>1. /\ \A v, w \in Uuids : IsObject(t, v) /\ t.rows[w].of = t.rows[v].of => v = w
        /\ \A v \in Uuids, x \in Objects : t.rows[v].of = x /\ Known(t, x) => t.uuidOf[x] = v
    BY <1>5, <1>7 DEF Closed, MapsRight, IsObject, Known
  <2>2. \A x \in Objects : t.uuidOf[x] # NoUuid => t.rows[t.uuidOf[x]].of = x
    BY <1>5, <1>7, <1>t DEF Closed, MapsRight, StoreTypes
  <2>3. ASSUME NEW i \in Calls, t.pins[i].uuid # NoUuid
        PROVE  t.rows[t.pins[i].uuid].of = t.pins[i].name
    <3>1. s.pins[i].uuid \in Uuids
      BY <2>3, <1>5, <1>t, Sorts DEF StoreTypes, Pins
    <3>2. QED
      BY <3>1, <2>3, <1>5, <1>7 DEF Closed, MapsRight
  <2>4. QED
    BY <2>1, <2>2, <2>3 DEF MapsRight
<1>9. HeldRight(t)
  <2>1. ASSUME NEW v \in RowsOf(t, Root), t.rows[v].data
        PROVE  \/ Child \in t.rows[v].points
               \/ \E r \in t.rows[v].points \intersect Uuids :
                    t.rows[r] = NoRow \/ t.rows[r].of = Child
    <3>1. v # key /\ v \in RowsOf(s, Root) /\ t.rows[v] = s.rows[v]
      BY <2>1, <1>4, <1>5, <1>7 DEF RowsOf, Objects
    <3>2. \A r \in s.rows[v].points \intersect Uuids :
            t.rows[r].of = s.rows[r].of /\ (t.rows[r] = NoRow <=> s.rows[r] = NoRow)
      BY <1>7
    <3>3. QED
      BY <3>1, <3>2, <2>1 DEF Closed, HeldRight
  <2>2. QED
    BY <2>1, <1>5 DEF Closed, HeldRight
<1>10. DepsRight(t)
  <2>1. ASSUME NEW d \in t.deps PROVE IsPin(t, d[1]) /\ (IsObject(t, d[2]) \/ d[2] = d[1])
    <3>1. CASE d \in s.deps
      <4>1. d[1] \in Uuids /\ d[2] \in Uuids
        BY <3>1, <1>t DEF StoreTypes
      <4>2. QED
        BY <4>1, <3>1, <1>7 DEF Closed, DepsRight, IsPin, IsObject
    <3>2. CASE d = <<key, key>>
      BY <3>2, <1>7 DEF IsPin
    <3>3. QED
      BY <3>1, <3>2, <1>5
  <2>2. ASSUME NEW v \in Uuids, t.rows[v].data PROVE \E d \in t.deps : d[2] = v
    <3>1. CASE v = key
      <4>1. <<key, key>> \in t.deps /\ <<key, key>>[2] = key
        BY <1>5
      <4>2. QED
        BY <3>1, <4>1
    <3>2. CASE v # key
      BY <3>2, <2>2, <1>5 DEF Closed, DepsRight
    <3>3. QED
      BY <3>1, <3>2
  <2>3. QED
    BY <2>1, <2>2 DEF DepsRight
<1>11. ASSUME NEW v \in Uuids, IsPin(t, v) PROVE PinRow(t, v)
  <2>1. CASE v = key
    <3>1. t.rows[v].data /\ <<v, v>> \in t.deps
      BY <2>1, <1>4, <1>5
    <3>2. ASSUME NEW r \in pts \intersect Uuids PROVE <<key, r>> \in t.deps /\ IsObject(t, r)
      BY <3>2, <1>1, <1>2, <1>3, <1>5, <1>7 DEF IsObject
    <3>3. QED
      BY <2>1, <3>1, <3>2, <1>4, <1>5 DEF PinRow
  <2>2. CASE v # key
    <3>1. PinRow(s, v) /\ t.rows[v] = s.rows[v]
      BY <2>2, <1>11, <1>5, <1>7 DEF Closed, IsPin
    <3>2. QED
      BY <3>1, <1>5, <1>7 DEF PinRow, IsObject
  <2>3. QED
    BY <2>1, <2>2
<1>12. QED
  BY <1>6, <1>8, <1>9, <1>10, <1>11 DEF Closed

\* From s to t, only more is known in memory of what is stored.
Learns(s, t) ==
  /\ t.rows = s.rows /\ t.deps = s.deps /\ t.pins = s.pins /\ s.fetched \subseteq t.fetched
  /\ Unnamed(s) \subseteq Unnamed(t)
  /\ \A o \in Objects :
       /\ s.held[o] # "absent" => t.held[o] # "absent"
       /\ s.held[o] = "data" => t.held[o] = "data"
       /\ s.uuidOf[o] # NoUuid => t.uuidOf[o] = s.uuidOf[o]
  /\ \A o \in t.fetched \ s.fetched : \A u \in RowsOf(s, o) :
       s.rows[u].data /\ ~Dangles(s.rows, u) => t.held[o] = "data"

\* Learning nothing, and one after the other.
LEMMA LearnsNothing ==
  ASSUME NEW s
  PROVE  Learns(s, s)
BY DEF Learns

LEMMA LearnsTwice ==
  ASSUME NEW s, NEW t, NEW w, StoreTypes(w), Learns(s, t), Learns(t, w)
  PROVE  Learns(s, w)
<1>1. /\ w.rows = s.rows /\ w.deps = s.deps /\ w.pins = s.pins /\ s.fetched \subseteq w.fetched
      /\ Unnamed(s) \subseteq Unnamed(w)
  BY DEF Learns
<1>2. \A o \in Objects :
       /\ s.held[o] # "absent" => w.held[o] # "absent"
       /\ s.held[o] = "data" => w.held[o] = "data"
       /\ s.uuidOf[o] # NoUuid => w.uuidOf[o] = s.uuidOf[o]
  BY DEF Learns
<1>3. ASSUME NEW o \in w.fetched \ s.fetched, NEW u \in RowsOf(s, o), s.rows[u].data,
             ~Dangles(s.rows, u)
      PROVE  w.held[o] = "data"
  <2>1. t.rows = s.rows /\ u \in RowsOf(t, o) /\ o \in Objects
    BY <1>3 DEF Learns, RowsOf, StoreTypes
  <2>2. CASE o \in t.fetched
    <3>1. t.held[o] = "data"
      BY <2>2, <1>3 DEF Learns
    <3>2. QED
      BY <2>1, <3>1 DEF Learns
  <2>3. CASE o \notin t.fetched
    BY <2>1, <2>3, <1>3 DEF Learns
  <2>4. QED
    BY <2>2, <2>3
<1>4. QED
  BY <1>1, <1>2, <1>3 DEF Learns

DecodedFrom(s, t, row) ==
  /\ RecordOf(t)
  /\ t.rows = s.rows /\ t.deps = s.deps /\ t.pins = s.pins /\ t.fetched = s.fetched
  /\ t.held = [o \in Objects |->
                 IF s.held[o] = "absent" /\ o \in {Pointed(s, r) : r \in row.points}
                 THEN "pointer" ELSE s.held[o]]
  /\ t.uuidOf \in [Objects -> Uuids \union {NoUuid}]
  /\ \A o \in Objects : \/ t.uuidOf[o] = s.uuidOf[o]
                        \/ t.uuidOf[o] \in row.points \intersect Uuids /\ s.rows[t.uuidOf[o]].of = o
  /\ \A r \in row.points \intersect Uuids : IsObject(s, r) =>
       t.uuidOf[s.rows[r].of] \in row.points \intersect Uuids
       /\ s.rows[t.uuidOf[s.rows[r].of]].of = s.rows[r].of

\* What decoding a row leaves of each table and map.
LEMMA DecodedFields ==
  ASSUME NEW s, StoreTypes(s), NEW row
  PROVE  DecodedFrom(s, Decoded(s, row), row)
<1> DEFINE t == Decoded(s, row)
           R(o) == {r \in row.points \intersect Uuids : s.rows[r].of = o}
           f == [o \in Objects |->
                   IF \E r \in row.points \intersect Uuids : s.rows[r].of = o
                   THEN CHOOSE r \in row.points \intersect Uuids : s.rows[r].of = o
                   ELSE s.uuidOf[o]]
           h == [o \in Objects |->
                 IF s.held[o] = "absent" /\ o \in {Pointed(s, r) : r \in row.points}
                 THEN "pointer" ELSE s.held[o]]
<1>1. t = [s EXCEPT !.held = h, !.uuidOf = f]
  BY DEF Decoded
<1>2. ASSUME NEW o \in Objects
      PROVE  /\ f[o] \in Uuids \union {NoUuid}
             /\ f[o] # s.uuidOf[o] => f[o] \in row.points \intersect Uuids /\ s.rows[f[o]].of = o
             /\ (\E r \in row.points \intersect Uuids : s.rows[r].of = o) =>
                  f[o] \in row.points \intersect Uuids /\ s.rows[f[o]].of = o
  <2>1. CASE \E r \in row.points \intersect Uuids : s.rows[r].of = o
    <3>1. f[o] = CHOOSE r \in row.points \intersect Uuids : s.rows[r].of = o
      BY <2>1
    <3>2. f[o] \in row.points \intersect Uuids /\ s.rows[f[o]].of = o
      BY <2>1, <3>1
    <3>3. QED
      BY <3>2
  <2>2. CASE ~\E r \in row.points \intersect Uuids : s.rows[r].of = o
    BY <2>2 DEF StoreTypes
  <2>3. QED
    BY <2>1, <2>2
<1>3. DOMAIN f = Objects /\ f = [o \in Objects |-> f[o]]
  OBVIOUS
<1> HIDE DEF t, f, h
<1>4. /\ t.held = h /\ t.uuidOf = f /\ t.rows = s.rows /\ t.deps = s.deps /\ t.pins = s.pins
      /\ t.fetched = s.fetched /\ RecordOf(t)
  BY <1>1 DEF StoreTypes, RecordOf
<1>5. f \in [Objects -> Uuids \union {NoUuid}]
  BY <1>2, <1>3
<1>6. \A r \in row.points \intersect Uuids : IsObject(s, r) =>
        f[s.rows[r].of] \in row.points \intersect Uuids
        /\ s.rows[f[s.rows[r].of]].of = s.rows[r].of
  BY <1>2 DEF IsObject
<1>7. QED
  BY <1>2, <1>4, <1>5, <1>6 DEF DecodedFrom, h, t

\* Decoding a row leaves everything closed.
LEMMA DecodedCloses ==
  ASSUME NEW s, NEW k, Closed(s, k), NEW row \in Rows, NEW t, DecodedFrom(s, t, row)
  PROVE  Closed(t, k) /\ Learns(s, t)
         /\ \A r \in row.points : Pointed(s, r) \in Objects => t.held[Pointed(s, r)] # "absent"
<1>t. StoreTypes(s)
  BY DEF Closed
<1>1. /\ t.rows = s.rows /\ t.deps = s.deps /\ t.pins = s.pins /\ t.fetched = s.fetched
      /\ \A o \in Objects : \/ t.uuidOf[o] = s.uuidOf[o]
                            \/ t.uuidOf[o] \in Uuids /\ s.rows[t.uuidOf[o]].of = o
  BY DEF DecodedFrom
<1>2. \A o \in Objects : t.held[o] =
        IF s.held[o] = "absent" /\ \E r \in row.points : o = Pointed(s, r)
        THEN "pointer" ELSE s.held[o]
  BY DEF DecodedFrom
<1>3. StoreTypes(t)
  <2>1. t.held \in [Objects -> {"absent", "pointer", "data"}]
    BY <1>t DEF DecodedFrom, StoreTypes
  <2>2. QED
    BY <2>1, <1>t DEF DecodedFrom, StoreTypes, RecordOf
<1>4. \A o \in Objects : /\ s.held[o] # "absent" => t.held[o] # "absent"
                         /\ s.held[o] = "data" <=> t.held[o] = "data"
  BY <1>2
<1>5. \A o \in Objects : s.uuidOf[o] # NoUuid => t.uuidOf[o] = s.uuidOf[o]
  BY <1>1, <1>t DEF Closed, MapsRight, IsObject, StoreTypes
<1>6. MapsRight(t)
  <2>1. \A v, w \in Uuids : IsObject(t, v) /\ t.rows[w].of = t.rows[v].of => v = w
    BY <1>1 DEF Closed, MapsRight, IsObject
  <2>2. ASSUME NEW v \in Uuids, NEW x \in Objects, t.rows[v].of = x, Known(t, x)
        PROVE  t.uuidOf[x] = v
    <3>1. CASE Known(s, x)
      <4>1. s.uuidOf[x] = v
        BY <2>2, <3>1, <1>1 DEF Closed, MapsRight
      <4>2. QED
        BY <4>1, <1>5, Sorts
    <3>2. CASE ~Known(s, x)
      <4>1. x \notin Saved /\ s.held[x] = "absent" /\ t.held[x] # "absent"
        BY <3>2, <2>2, <1>1 DEF Known
      <4>2. PICK r \in row.points : x = Pointed(s, r)
        BY <4>1, <1>2
      <4>3. CASE r \in Uuids
        <5>1. s.rows[r].of = x
          BY <4>2, <4>3 DEF Pointed
        <5>2. t.uuidOf[x] \in Uuids /\ s.rows[t.uuidOf[x]].of = x
          BY <4>3, <5>1 DEF DecodedFrom, IsObject
        <5>3. QED
          BY <5>2, <2>1, <2>2, <1>1 DEF IsObject
      <4>4. CASE r \notin Uuids
        BY <4>1, <4>2, <4>4 DEF Pointed, Rows
      <4>5. QED
        BY <4>3, <4>4
    <3>3. QED
      BY <3>1, <3>2
  <2>3. \A x \in Objects : t.uuidOf[x] # NoUuid => t.rows[t.uuidOf[x]].of = x
    BY <1>1 DEF Closed, MapsRight
  <2>4. \A i \in Calls : t.pins[i].uuid # NoUuid => t.rows[t.pins[i].uuid].of = t.pins[i].name
    BY <1>1 DEF Closed, MapsRight
  <2>5. QED
    BY <2>1, <2>2, <2>3, <2>4 DEF MapsRight
<1>7. HeldRight(t)
  <2>1. \A i \in Calls : s.pins[i].objects \subseteq Objects
    BY <1>t, Sorts DEF StoreTypes, Pins
  <2>2. Root \in Objects /\ Child \in Objects
    BY DEF Objects
  <2>3. t.held[Root] = "data" => t.held[Child] # "absent"
    BY <1>4, <2>2 DEF Closed, HeldRight
  <2>4. \A i \in Calls : \A o \in t.pins[i].objects : t.held[o] # "absent"
    BY <1>1, <1>4, <2>1 DEF Closed, HeldRight
  <2>5. QED
    BY <1>1, <2>3, <2>4 DEF Closed, HeldRight, RowsOf
<1>8. DepsRight(t)
  BY <1>1 DEF Closed, DepsRight, IsPin, IsObject
<1>9. \A u \in Uuids : IsPin(t, u) /\ u # k => PinRow(t, u)
  BY <1>1 DEF Closed, PinRow, IsPin, IsObject
<1>10. ASSUME NEW u \in Unnamed(s) PROVE u \in Unnamed(t)
  <2>1. /\ u \in Uuids /\ s.rows[u] = NoRow
        /\ \A v \in Uuids : u \notin s.rows[v].points
        /\ \A o \in Objects : s.uuidOf[o] # u
        /\ \A i \in Calls : s.pins[i].uuid # u /\ call[i].key # u
    BY <1>10 DEF Unnamed
  <2>2. \A o \in Objects : t.uuidOf[o] # u
    BY <2>1, <1>1, Sorts
  <2>3. QED
    BY <2>1, <2>2, <1>1 DEF Unnamed
<1>11. Learns(s, t)
  BY <1>1, <1>4, <1>5, <1>10 DEF Learns
<1>12. \A r \in row.points : Pointed(s, r) \in Objects => t.held[Pointed(s, r)] # "absent"
  BY <1>2
<1>13. QED
  BY <1>3, <1>6, <1>7, <1>8, <1>9, <1>11, <1>12 DEF Closed

\* Fetched marks the object and learns where its row is, and then reads it.
Marked(s, t, o) ==
  /\ RecordOf(t)
  /\ t.rows = s.rows /\ t.deps = s.deps /\ t.pins = s.pins /\ t.held = s.held
  /\ t.fetched = s.fetched \union {o}
  /\ \/ t.uuidOf = s.uuidOf /\ RowToFetch(s, o) = {}
     \/ \E u \in RowToFetch(s, o) : t.uuidOf = [s.uuidOf EXCEPT ![o] = u]

\* An object that is marked, with its row if there is one.
LEMMA MarkedCloses ==
  ASSUME NEW s, NEW k, Closed(s, k), NEW o \in Objects, s.held[o] # "absent", NEW t, Marked(s, t, o)
  PROVE  /\ Closed(t, k) /\ Unnamed(s) \subseteq Unnamed(t)
         /\ \A x \in Objects : s.uuidOf[x] # NoUuid => t.uuidOf[x] = s.uuidOf[x]
<1>t. StoreTypes(s)
  BY DEF Closed
<1>1. /\ t.rows = s.rows /\ t.deps = s.deps /\ t.pins = s.pins /\ t.held = s.held
      /\ t.fetched = s.fetched \union {o}
  BY DEF Marked
<1>2. \A u \in RowToFetch(s, o) : u \in Uuids /\ s.rows[u].of = o
  BY <1>t DEF RowToFetch, RowsOf, Closed, MapsRight, StoreTypes
<1>3. \A x \in Objects : \/ t.uuidOf[x] = s.uuidOf[x]
                         \/ t.uuidOf[x] \in Uuids /\ s.rows[t.uuidOf[x]].of = x
  <2>1. CASE t.uuidOf = s.uuidOf
    BY <2>1
  <2>2. CASE \E u \in RowToFetch(s, o) : t.uuidOf = [s.uuidOf EXCEPT ![o] = u]
    BY <2>2, <1>2, <1>t DEF StoreTypes
  <2>3. QED
    BY <2>1, <2>2 DEF Marked
<1>4. StoreTypes(t)
  <2>1. t.uuidOf \in [Objects -> Uuids \union {NoUuid}]
    BY <1>2, <1>t DEF Marked, StoreTypes
  <2>2. QED
    BY <1>1, <2>1, <1>t DEF Marked, RecordOf, StoreTypes
<1>5. \A x \in Objects : s.uuidOf[x] # NoUuid => t.uuidOf[x] = s.uuidOf[x]
  BY <1>3, <1>t DEF Closed, MapsRight, IsObject, StoreTypes
<1>6. MapsRight(t)
  <2>1. \A v, w \in Uuids : IsObject(t, v) /\ t.rows[w].of = t.rows[v].of => v = w
    BY <1>1 DEF Closed, MapsRight, IsObject
  <2>2. ASSUME NEW v \in Uuids, NEW x \in Objects, t.rows[v].of = x, Known(t, x)
        PROVE  t.uuidOf[x] = v
    <3>1. CASE Known(s, x)
      <4>1. s.uuidOf[x] = v
        BY <2>2, <3>1, <1>1 DEF Closed, MapsRight
      <4>2. QED
        BY <4>1, <1>5, Sorts
    <3>2. CASE ~Known(s, x)
      <4>1. x = o /\ x \in Saved
        BY <3>2, <2>2, <1>1 DEF Known
      <4>2. v \in RowToFetch(s, o)
        BY <4>1, <2>2, <1>1 DEF RowToFetch, RowsOf
      <4>3. t.uuidOf[o] \in Uuids /\ s.rows[t.uuidOf[o]].of = o
        BY <4>2, <1>2, <1>t DEF Marked, StoreTypes
      <4>4. QED
        BY <4>1, <4>3, <2>1, <2>2, <1>1 DEF IsObject
    <3>3. QED
      BY <3>1, <3>2
  <2>3. \A x \in Objects : t.uuidOf[x] # NoUuid => t.rows[t.uuidOf[x]].of = x
    BY <1>1, <1>3 DEF Closed, MapsRight
  <2>4. \A i \in Calls : t.pins[i].uuid # NoUuid => t.rows[t.pins[i].uuid].of = t.pins[i].name
    BY <1>1 DEF Closed, MapsRight
  <2>5. QED
    BY <2>1, <2>2, <2>3, <2>4 DEF MapsRight
<1>7. HeldRight(t) /\ DepsRight(t)
  BY <1>1 DEF Closed, HeldRight, DepsRight, RowsOf, IsPin, IsObject
<1>8. \A u \in Uuids : IsPin(t, u) /\ u # k => PinRow(t, u)
  BY <1>1 DEF Closed, PinRow, IsPin, IsObject
<1>9. ASSUME NEW u \in Unnamed(s) PROVE u \in Unnamed(t)
  <2>1. /\ u \in Uuids /\ s.rows[u] = NoRow
        /\ \A v \in Uuids : u \notin s.rows[v].points
        /\ \A x \in Objects : s.uuidOf[x] # u
        /\ \A i \in Calls : s.pins[i].uuid # u /\ call[i].key # u
    BY <1>9 DEF Unnamed
  <2>2. \A x \in Objects : t.uuidOf[x] # u
    BY <2>1, <1>3, Sorts
  <2>3. QED
    BY <2>1, <2>2, <1>1 DEF Unnamed
<1>10. QED
  BY <1>4, <1>5, <1>6, <1>7, <1>8, <1>9 DEF Closed

LEMMA FetchedCases ==
  ASSUME NEW s, StoreTypes(s), NEW o \in Objects, o \notin s.fetched
  PROVE  \E m : /\ Marked(s, m, o)
               /\ \/ /\ Fetched(s, o) = m
                     /\ \A u \in RowToFetch(s, o) : m.uuidOf[o] = u =>
                          s.rows[u] = NoRow \/ Dangles(s.rows, u) \/ ~s.rows[u].data
                  \/ \E u \in RowToFetch(s, o) :
                       /\ m.uuidOf[o] = u /\ s.rows[u] # NoRow /\ ~Dangles(s.rows, u) /\ s.rows[u].data
                       /\ Fetched(s, o) = Decoded([m EXCEPT !.held[o] = "data"], s.rows[u])
<1> DEFINE found == RowToFetch(s, o)
           u == CHOOSE u \in found : TRUE
           marked == [s EXCEPT !.fetched = s.fetched \union {o}]
           mapped == [marked EXCEPT !.uuidOf[o] = u]
<1>1. CASE found = {}
  <2>1. Fetched(s, o) = marked
    BY <1>1 DEF Fetched
  <2>2. Marked(s, marked, o)
    BY SMTT(30), <1>1 DEF Marked, StoreTypes, RecordOf
  <2>3. QED
    BY <1>1, <2>1, <2>2
<1>2. CASE found # {}
  <2>1. u \in found
    BY <1>2
  <2>2. Fetched(s, o) = IF s.rows[u] = NoRow \/ Dangles(s.rows, u) \/ ~s.rows[u].data
                        THEN mapped
                        ELSE Decoded([mapped EXCEPT !.held[o] = "data"], s.rows[u])
    BY <1>2 DEF Fetched
  <2> HIDE DEF u, found
  <2>a. u \in Uuids \union {NoUuid}
    BY <2>1 DEF found, RowToFetch, RowsOf, StoreTypes
  <2>b. mapped = [s EXCEPT !.fetched = s.fetched \union {o}, !.uuidOf = [s.uuidOf EXCEPT ![o] = u]]
    BY DEF StoreTypes
  <2> HIDE DEF mapped
  <2>c. /\ mapped.rows = s.rows /\ mapped.deps = s.deps /\ mapped.pins = s.pins /\ mapped.held = s.held
        /\ mapped.fetched = s.fetched \union {o} /\ mapped.uuidOf = [s.uuidOf EXCEPT ![o] = u]
        /\ RecordOf(mapped)
    BY <2>b DEF StoreTypes, RecordOf
  <2>3. Marked(s, mapped, o) /\ mapped.uuidOf[o] = u
    BY <2>1, <2>c DEF Marked, StoreTypes, found
  <2>4. QED
    BY <2>1, <2>2, <2>3 DEF found
<1>3. QED
  BY <1>1, <1>2

\* The data of o is read into memory.
DataHeld(s, t, o) ==
  /\ RecordOf(t)
  /\ t.rows = s.rows /\ t.deps = s.deps /\ t.fetched = s.fetched /\ t.uuidOf = s.uuidOf
  /\ t.pins = s.pins /\ t.held = [s.held EXCEPT ![o] = "data"]

\* Data of an object whose pointers are in memory leaves everything closed.
LEMMA DataHeldCloses ==
  ASSUME NEW s, NEW k, Closed(s, k), NEW o \in Objects, s.held[o] # "absent",
         o = Root => s.held[Child] # "absent", NEW t, DataHeld(s, t, o)
  PROVE  Closed(t, k) /\ Unnamed(t) = Unnamed(s)
<1>t. StoreTypes(s)
  BY DEF Closed
<1>1. /\ t.rows = s.rows /\ t.deps = s.deps /\ t.fetched = s.fetched /\ t.uuidOf = s.uuidOf
      /\ t.pins = s.pins
  BY DEF DataHeld
<1>2. \A x \in Objects : t.held[x] = IF x = o THEN "data" ELSE s.held[x]
  BY <1>t DEF DataHeld, StoreTypes
<1>3. StoreTypes(t)
  <2>1. t.held \in [Objects -> {"absent", "pointer", "data"}]
    BY <1>t DEF DataHeld, StoreTypes
  <2>2. QED
    BY <2>1, <1>1, <1>t DEF DataHeld, StoreTypes, RecordOf
<1>4. \A x \in Objects : Known(t, x) = Known(s, x)
  BY <1>1, <1>2 DEF Known
<1>5. MapsRight(t)
  BY <1>1, <1>4 DEF Closed, MapsRight, IsObject
<1>6. HeldRight(t)
  <2>1. \A i \in Calls : s.pins[i].objects \subseteq Objects
    BY <1>t, Sorts DEF StoreTypes, Pins
  <2>2. Root \in Objects /\ Child \in Objects
    BY DEF Objects
  <2>3. \A x \in Objects : s.held[x] # "absent" => t.held[x] # "absent"
    BY <1>2
  <2>4. t.held[Root] = "data" => t.held[Child] # "absent"
    BY <1>2, <2>2, <2>3 DEF Closed, HeldRight
  <2>5. \A i \in Calls : \A x \in t.pins[i].objects : t.held[x] # "absent"
    BY <1>1, <2>3, <2>1 DEF Closed, HeldRight
  <2>6. QED
    BY <1>1, <2>4, <2>5 DEF Closed, HeldRight, RowsOf
<1>7. DepsRight(t)
  BY <1>1 DEF Closed, DepsRight, IsPin, IsObject
<1>8. \A u \in Uuids : IsPin(t, u) /\ u # k => PinRow(t, u)
  BY <1>1 DEF Closed, PinRow, IsPin, IsObject
<1>9. Unnamed(t) = Unnamed(s)
  BY <1>1 DEF Unnamed
<1>10. QED
  BY <1>3, <1>5, <1>6, <1>7, <1>8, <1>9 DEF Closed

\* What a row points to does not depend on what is read.
LEMMA DecodedThenHeld ==
  ASSUME NEW s, StoreTypes(s), NEW o \in Objects, s.held[o] # "absent", NEW row
  PROVE  DataHeld(Decoded(s, row), Decoded([s EXCEPT !.held[o] = "data"], row), o)
<1> DEFINE h == [s EXCEPT !.held[o] = "data"]
           f == [x \in Objects |->
                   IF \E r \in row.points \intersect Uuids : s.rows[r].of = x
                   THEN CHOOSE r \in row.points \intersect Uuids : s.rows[r].of = x
                   ELSE s.uuidOf[x]]
           g(w) == [x \in Objects |->
                 IF w.held[x] = "absent" /\ x \in {Pointed(w, r) : r \in row.points}
                 THEN "pointer" ELSE w.held[x]]
<1>1. /\ h.rows = s.rows /\ h.deps = s.deps /\ h.fetched = s.fetched /\ h.uuidOf = s.uuidOf
      /\ h.pins = s.pins /\ h.held = [s.held EXCEPT ![o] = "data"] /\ RecordOf(h)
  BY DEF StoreTypes, RecordOf
<1> HIDE DEF h
<1>2. Decoded(s, row) = [s EXCEPT !.held = g(s), !.uuidOf = f]
  BY DEF Decoded
<1>3. Decoded(h, row) = [h EXCEPT !.held = g(h), !.uuidOf = f]
  BY <1>1 DEF Decoded
<1>4. g(h) = [g(s) EXCEPT ![o] = "data"]
  <2>1. \A r \in row.points : Pointed(h, r) = Pointed(s, r)
    BY <1>1 DEF Pointed
  <2>2. \A x \in Objects : h.held[x] = IF x = o THEN "data" ELSE s.held[x]
    BY <1>1 DEF StoreTypes
  <2>3. ASSUME NEW x \in Objects PROVE g(h)[x] = [g(s) EXCEPT ![o] = "data"][x]
    BY <2>1, <2>2
  <2>4. QED
    BY <2>3
<1> HIDE DEF f, g
<1>5. QED
  BY <1>1, <1>2, <1>3, <1>4 DEF DataHeld, RecordOf, StoreTypes, h

\* fetchObjectLocallyAsync: leaves everything closed.
LEMMA FetchedCloses ==
  ASSUME NEW s, NEW k, Closed(s, k), NEW o \in Objects, s.held[o] # "absent"
  PROVE  Closed(Fetched(s, o), k) /\ Learns(s, Fetched(s, o)) /\ o \in Fetched(s, o).fetched
<1>t. StoreTypes(s)
  BY DEF Closed
<1>1. CASE o \in s.fetched
  BY <1>1, LearnsNothing DEF Fetched
<1>2. CASE o \notin s.fetched
  <2>1. PICK m : /\ Marked(s, m, o)
                 /\ \/ /\ Fetched(s, o) = m
                       /\ \A u \in RowToFetch(s, o) : m.uuidOf[o] = u =>
                            s.rows[u] = NoRow \/ Dangles(s.rows, u) \/ ~s.rows[u].data
                    \/ \E u \in RowToFetch(s, o) :
                         /\ m.uuidOf[o] = u /\ s.rows[u] # NoRow /\ ~Dangles(s.rows, u) /\ s.rows[u].data
                         /\ Fetched(s, o) = Decoded([m EXCEPT !.held[o] = "data"], s.rows[u])
    BY <1>2, <1>t, FetchedCases
  <2>2. /\ m.rows = s.rows /\ m.deps = s.deps /\ m.pins = s.pins /\ m.held = s.held
        /\ m.fetched = s.fetched \union {o}
    BY <2>1 DEF Marked
  <2>3. Closed(m, k) /\ Unnamed(s) \subseteq Unnamed(m)
        /\ \A x \in Objects : s.uuidOf[x] # NoUuid => m.uuidOf[x] = s.uuidOf[x]
    BY <2>1, MarkedCloses
  <2>4. ASSUME NEW u \in RowsOf(s, o) PROVE u \in RowToFetch(s, o) /\ m.uuidOf[o] = u
    <3>1. Known(m, o) /\ (o \notin Saved => Known(s, o))
      BY <2>2 DEF Known
    <3>2. m.uuidOf[o] = u /\ (o \notin Saved => s.uuidOf[o] = u) /\ u \in Uuids
      BY <3>1, <2>2, <2>3 DEF Closed, MapsRight, RowsOf
    <3>3. QED
      BY <3>2, Sorts DEF RowToFetch
  <2>5. CASE /\ Fetched(s, o) = m
             /\ \A u \in RowToFetch(s, o) : m.uuidOf[o] = u =>
                  s.rows[u] = NoRow \/ Dangles(s.rows, u) \/ ~s.rows[u].data
    <3>1. \A u \in RowsOf(s, o) : s.rows[u].data /\ ~Dangles(s.rows, u) => m.held[o] = "data"
      BY <2>4, <2>5, Sorts DEF RowsOf
    <3>2. Learns(s, m)
      BY <2>2, <2>3, <3>1 DEF Learns
    <3>3. QED
      BY <2>2, <2>3, <2>5, <3>2
  <2>6. CASE \E u \in RowToFetch(s, o) :
               /\ m.uuidOf[o] = u /\ s.rows[u] # NoRow /\ ~Dangles(s.rows, u) /\ s.rows[u].data
               /\ Fetched(s, o) = Decoded([m EXCEPT !.held[o] = "data"], s.rows[u])
    <3>1. PICK u \in RowToFetch(s, o) :
               /\ m.uuidOf[o] = u /\ s.rows[u] # NoRow /\ ~Dangles(s.rows, u) /\ s.rows[u].data
               /\ Fetched(s, o) = Decoded([m EXCEPT !.held[o] = "data"], s.rows[u])
      BY <2>6
    <3> DEFINE row == s.rows[u]
               d == Decoded(m, row)
               t == Fetched(s, o)
    <3>2. u \in Uuids /\ row.of = o /\ row \in Rows
      BY <3>1, <1>t, Sorts DEF RowToFetch, RowsOf, Closed, MapsRight, StoreTypes
    <3>3. StoreTypes(m)
      BY <2>3 DEF Closed
    <3> HIDE DEF row
    <3>4. DecodedFrom(m, d, row)
      BY <3>3, DecodedFields
    <3>5. DataHeld(d, t, o)
      BY <3>1, <3>3, <2>2, DecodedThenHeld DEF row
    <3> HIDE DEF d, t
    <3>6. Closed(d, k) /\ Learns(m, d)
          /\ \A r \in row.points : Pointed(m, r) \in Objects => d.held[Pointed(m, r)] # "absent"
      BY <2>3, <3>2, <3>4, DecodedCloses
    <3>7. o = Root => d.held[Child] # "absent"
      <4> SUFFICES ASSUME o = Root PROVE d.held[Child] # "absent"
        OBVIOUS
      <4>1. \/ Child \in row.points
            \/ \E r \in row.points \intersect Uuids : s.rows[r] = NoRow \/ s.rows[r].of = Child
        BY <3>1, <3>2 DEF Closed, HeldRight, RowsOf, row
      <4>2. \A r \in row.points \intersect Uuids : s.rows[r] # NoRow
        BY <3>1 DEF Dangles, row
      <4>3. Child \in Objects /\ Child \notin Uuids
        BY StoreAssumption DEF Objects
      <4>4. \E r \in row.points : Pointed(m, r) = Child
        BY <4>1, <4>2, <4>3, <2>2 DEF Pointed
      <4>5. QED
        BY <4>3, <4>4, <3>6
    <3>8. d.held[o] # "absent"
      BY <3>6, <2>2 DEF Learns
    <3>9. Closed(t, k) /\ Unnamed(t) = Unnamed(d)
      BY <3>5, <3>6, <3>7, <3>8, DataHeldCloses
    <3>10. /\ t.rows = s.rows /\ t.deps = s.deps /\ t.pins = s.pins
           /\ t.fetched = s.fetched \union {o}
      BY <3>4, <3>5, <2>2 DEF DecodedFrom, DataHeld
    <3>11. \A x \in Objects : t.held[x] = IF x = o THEN "data" ELSE d.held[x]
      BY <3>5, <3>6 DEF DataHeld, Closed, StoreTypes
    <3>12. \A x \in Objects : /\ s.held[x] # "absent" => t.held[x] # "absent"
                              /\ s.held[x] = "data" => t.held[x] = "data"
      BY <3>11, <3>6, <2>2 DEF Learns
    <3>13. \A x \in Objects : s.uuidOf[x] # NoUuid => t.uuidOf[x] = s.uuidOf[x]
      BY <3>5, <3>6, <2>3 DEF Learns, DataHeld
    <3>14. Unnamed(s) \subseteq Unnamed(t)
      BY <3>6, <3>9, <2>3 DEF Learns
    <3>15. Learns(s, t)
      BY <3>10, <3>11, <3>12, <3>13, <3>14 DEF Learns
    <3>16. QED
      BY <3>9, <3>10, <3>15 DEF t
  <2>7. QED
    BY <2>1, <2>5, <2>6
<1>3. QED
  BY <1>1, <1>2

LEMMA TreeFetched ==
  ASSUME NEW s, NEW k, NEW tree \in SUBSET Objects, Closed(s, k), \A o \in tree : s.held[o] # "absent"
  PROVE  LET t == Each(Fetched, s, tree)
         IN Closed(t, k) /\ Learns(s, t) /\ tree \subseteq t.fetched
<1> DEFINE c == IF Child \in tree THEN Fetched(s, Child) ELSE s
           r == IF Root \in tree THEN Fetched(c, Root) ELSE c
           t == IF Other \in tree THEN Fetched(r, Other) ELSE r
<1>0. Root \in Objects /\ Child \in Objects /\ Other \in Objects
  BY DEF Objects
<1>1. Closed(c, k) /\ Learns(s, c) /\ (Child \in tree => Child \in c.fetched)
  BY <1>0, FetchedCloses, LearnsNothing
<1> HIDE DEF c
<1>2. Closed(r, k) /\ Learns(c, r) /\ (Root \in tree => Root \in r.fetched)
  <2>1. Root \in tree => c.held[Root] # "absent"
    BY <1>0, <1>1 DEF Learns
  <2>2. QED
    BY <1>0, <1>1, <2>1, FetchedCloses, LearnsNothing
<1> HIDE DEF r
<1>3. Learns(s, r)
  BY <1>1, <1>2, LearnsTwice DEF Closed
<1>4. Closed(t, k) /\ Learns(r, t) /\ (Other \in tree => Other \in t.fetched)
  <2>1. Other \in tree => r.held[Other] # "absent"
    BY <1>0, <1>3 DEF Learns
  <2>2. QED
    BY <1>0, <1>2, <2>1, FetchedCloses, LearnsNothing
<1> HIDE DEF t
<1>5. Learns(s, t)
  BY <1>3, <1>4, LearnsTwice DEF Closed
<1>6. tree \subseteq t.fetched
  BY <1>1, <1>2, <1>4 DEF Learns, Objects
<1>7. Each(Fetched, s, tree) = t
  BY DEF Each, c, r, t
<1>8. QED
  BY <1>4, <1>5, <1>6, <1>7

\* From s to t instances keep their names and objects, and no object is let go.
Holds(s, t) ==
  /\ \A i \in Calls : t.pins[i].name = s.pins[i].name /\ t.pins[i].objects = s.pins[i].objects
  /\ \A o \in Objects : s.held[o] # "absent" => t.held[o] # "absent"

\* The states in between when a pin is written again: the old rows are deleted
\* (v), the pin has a new uuid (n), what is in the tree is saved (c).
Rewriting(s, t, p, tree, v, n, c, key) ==
  /\ \/ s.pins[p].uuid = NoUuid /\ v = s
     \/ s.pins[p].uuid # NoUuid /\ Unpinned(s, v, s.pins[p].uuid)
  /\ Closed(v, NoUuid) /\ v.held = s.held /\ v.fetched = s.fetched /\ v.pins[p].uuid = NoUuid
  /\ \A i \in Calls : v.pins[i].name = s.pins[i].name /\ v.pins[i].objects = s.pins[i].objects
  /\ Spare(v) /\ PinNamed(v, n, p, key) /\ Closed(n, key) /\ IsPin(n, key) /\ key \in Uuids
  /\ Closed(c, key) /\ Saves(n, c, key) /\ (\A o \in tree : SavedFor(c, o, key))
  /\ PinWritten(c, t, p, key) /\ Closed(t, NoUuid)

\* The fields of an instance.
LEMMA PinFields ==
  ASSUME NEW x \in Pins \union {NoPin}, NEW u
  PROVE  [x EXCEPT !.uuid = u] = [name |-> x.name, objects |-> x.objects, uuid |-> u]
<1>1. CASE x \in Pins
  BY <1>1 DEF Pins
<1>2. CASE x = NoPin
  BY <1>2 DEF NoPin
<1>3. QED
  BY <1>1, <1>2

\* Writing a pin goes through these states.
LEMMA RewrittenSteps ==
  ASSUME NEW s, Closed(s, NoUuid), Spare(s), NEW p \in Calls, s.pins[p] \in Pins,
         NEW tree \in SUBSET Objects, s.pins[p].objects \subseteq tree,
         \A o \in tree : Known(s, o)
  PROVE  \E v, n, c, key : Rewriting(s, Rewritten(s, p, tree), p, tree, v, n, c, key)
<1> DEFINE old == s.pins[p].uuid
           v == IF old = NoUuid THEN s ELSE UnpinKey(s, old)
           key == NewUuid(v)
           n == WithPinUuid(v, p)
           c == TreeSaved(n, tree, key)
           t == PinSavedUnder(c, p, key)
<1>t. StoreTypes(s)
  BY DEF Closed
<1>1. /\ \/ old = NoUuid /\ v = s
         \/ old # NoUuid /\ Unpinned(s, v, old)
      /\ Closed(v, NoUuid) /\ Unnamed(s) \subseteq Unnamed(v)
  <2>1. old # NoUuid => Unpinned(s, UnpinKey(s, old), old)
    BY <1>t, UnpinFields
  <2>2. CASE old = NoUuid
    BY <2>2
  <2>3. CASE old # NoUuid
    <3>1. v = UnpinKey(s, old)
      BY <2>3
    <3> HIDE DEF v
    <3>2. Unpinned(s, v, old)
      BY <2>1, <2>3, <3>1
    <3>3. QED
      BY <3>2, <2>3, UnpinCloses
  <2>4. QED
    BY <2>2, <2>3
<1> HIDE DEF v
<1>2. v.held = s.held /\ v.fetched = s.fetched
  BY <1>1 DEF Unpinned
<1>3. v.pins[p].uuid = NoUuid
      /\ \A i \in Calls : v.pins[i].name = s.pins[i].name /\ v.pins[i].objects = s.pins[i].objects
  <2>1. CASE old = NoUuid
    BY <2>1, <1>1
  <2>2. CASE old # NoUuid
    <3>1. s.pins[p].name \in PinNames /\ old \in Uuids
      BY <2>2 DEF Pins
    <3>2. IsPin(s, old)
      BY <2>2, <3>1 DEF Closed, MapsRight, IsPin
    <3>3. old \in Doomed(s, old)
      BY <3>1, <3>2, KeptRows
    <3>4. \A i \in Calls : v.pins[i] = IF s.pins[i].uuid \in Doomed(s, old)
                                      THEN [s.pins[i] EXCEPT !.uuid = NoUuid] ELSE s.pins[i]
      BY <1>1, <2>2 DEF Unpinned
    <3>5. \A i \in Calls : s.pins[i] \in Pins \union {NoPin}
      BY <1>t DEF StoreTypes
    <3>6. \A i \in Calls : [s.pins[i] EXCEPT !.uuid = NoUuid]
                             = [name |-> s.pins[i].name, objects |-> s.pins[i].objects, uuid |-> NoUuid]
      BY <3>5, PinFields
    <3> HIDE DEF old
    <3>7. v.pins[p].uuid = NoUuid
      BY <3>3, <3>4, <3>6 DEF old
    <3>8. \A i \in Calls : v.pins[i].name = s.pins[i].name /\ v.pins[i].objects = s.pins[i].objects
      BY <3>4, <3>6
    <3>9. QED
      BY <3>7, <3>8
  <2>3. QED
    BY <2>1, <2>2
<1>4. v.pins[p] \in Pins
  <2>1. v.pins[p].name \in PinNames
    BY <1>3 DEF Pins
  <2>2. v.pins[p] \in Pins \union {NoPin}
    BY <1>1 DEF Closed, StoreTypes
  <2>3. QED
    BY <2>1, <2>2, Sorts, StoreAssumption
<1>5. Spare(v)
  BY <1>1, SpareStays
<1>6. PinNamed(v, n, p, key)
  BY <1>1, <1>3, <1>4, <1>5, WithPinUuidFields DEF Closed
<1> HIDE DEF n, key
<1>7. Closed(n, key) /\ Enough(n) /\ IsPin(n, key) /\ n.pins[p].uuid = key /\ key \in Uuids
  BY <1>1, <1>4, <1>5, <1>6, PinNamedCloses
<1>8. \A o \in tree : Known(n, o)
  BY <1>2, <1>6 DEF PinNamed, Known
<1>9. Closed(c, key) /\ Enough(c) /\ Saves(n, c, key) /\ \A o \in tree : SavedFor(c, o, key)
  BY <1>7, <1>8, TreeSaves
<1> HIDE DEF c
<1>10. c.pins = n.pins /\ IsPin(c, key)
  BY <1>7, <1>9 DEF Saves, IsPin
<1>11. c.pins[p].objects \subseteq tree
  <2>1. n.pins = [v.pins EXCEPT ![p] = [v.pins[p] EXCEPT !.uuid = key]]
    BY <1>6 DEF PinNamed
  <2>2. [v.pins[p] EXCEPT !.uuid = key].objects = v.pins[p].objects
    BY <1>4 DEF Pins
  <2>3. n.pins[p].objects = v.pins[p].objects
    BY <2>1, <2>2, <1>1 DEF Closed, StoreTypes
  <2>4. QED
    BY <2>3, <1>3, <1>10
<1>12. PinWritten(c, t, p, key)
  <2>1. \A o \in c.pins[p].objects \ Saved : c.uuidOf[o] # NoUuid
    BY <1>9, <1>11 DEF SavedFor
  <2>2. c.rows[key].of # "nothing"
    BY <1>10, StoreAssumption DEF IsPin
  <2>3. QED
    BY <1>7, <1>9, <1>10, <2>1, <2>2, PinSavedFields DEF Closed
<1>13. Closed(t, NoUuid)
  <2> HIDE DEF t
  <2>1. QED
    BY <1>7, <1>9, <1>10, <1>11, <1>12, PinWrittenCloses
<1>14. Rewritten(s, p, tree) = t
  <2>1. n.pins[p].uuid = key
    BY <1>7
  <2>2. Rewritten(s, p, tree)
          = PinSavedUnder(TreeSaved(n, tree, n.pins[p].uuid), p, n.pins[p].uuid)
    BY DEF Rewritten, n, v, TreeSaved, old
  <2>3. QED
    BY <2>1, <2>2 DEF t, c
<1>15. Rewriting(s, t, p, tree, v, n, c, key)
  <2> HIDE DEF t
  <2>1. QED
    BY <1>1, <1>2, <1>3, <1>5, <1>6, <1>7, <1>9, <1>12, <1>13, Zenon DEF Rewriting, old
<1>16. QED
  BY <1>14, <1>15

\* What is in the tree is fetched first.
LEMMA SavedPinSteps ==
  ASSUME NEW s, Closed(s, NoUuid), Spare(s), NEW p \in Calls, s.pins[p] \in Pins,
         NEW tree \in SUBSET Objects, s.pins[p].objects \subseteq tree,
         \A o \in tree : s.held[o] # "absent"
  PROVE  \E f, v, n, c, key :
           /\ f = Each(Fetched, s, tree) /\ Closed(f, NoUuid) /\ Learns(s, f) /\ tree \subseteq f.fetched
           /\ Rewriting(f, SavedPin(s, p, tree), p, tree, v, n, c, key)
<1> DEFINE f == Each(Fetched, s, tree)
<1>1. Closed(f, NoUuid) /\ Learns(s, f) /\ tree \subseteq f.fetched
  BY TreeFetched
<1>2. SavedPin(s, p, tree) = Rewritten(f, p, tree)
  BY DEF SavedPin
<1> HIDE DEF f
<1>3. Spare(f) /\ f.pins = s.pins
  BY <1>1, SpareStays DEF Learns
<1>4. \A o \in tree : Known(f, o)
  BY <1>1 DEF Learns, Known
<1>5. \E v, n, c, key : Rewriting(f, Rewritten(f, p, tree), p, tree, v, n, c, key)
  BY <1>1, <1>3, <1>4, RewrittenSteps
<1>6. QED
  BY <1>1, <1>2, <1>5 DEF f

LEMMA RewritingHolds ==
  ASSUME NEW s, NEW t, NEW p \in Calls, NEW tree, NEW v, NEW n, NEW c, NEW key,
         Rewriting(s, t, p, tree, v, n, c, key)
  PROVE  Holds(s, t)
<1>1. t.pins = n.pins /\ t.held = s.held
  BY DEF Rewriting, PinWritten, Saves, PinNamed
<1>2. \A i \in Calls : v.pins[i] = [name |-> v.pins[i].name, objects |-> v.pins[i].objects,
                                    uuid |-> v.pins[i].uuid]
  BY DEF Rewriting, Closed, StoreTypes, Pins, NoPin
<1>3. n.pins = [v.pins EXCEPT ![p] = [v.pins[p] EXCEPT !.uuid = key]]
  BY DEF Rewriting, PinNamed
<1>4. \A i \in Calls : n.pins[i].name = v.pins[i].name /\ n.pins[i].objects = v.pins[i].objects
  BY <1>2, <1>3 DEF Rewriting, Closed, StoreTypes
<1>5. QED
  BY <1>1, <1>4 DEF Holds, Rewriting

\* saveObjectLocallyAsync:withChildren: leaves everything closed.
LEMMA SavedPinCloses ==
  ASSUME NEW s, Closed(s, NoUuid), Spare(s), NEW p \in Calls, s.pins[p] \in Pins,
         NEW tree \in SUBSET Objects, s.pins[p].objects \subseteq tree,
         \A o \in tree : s.held[o] # "absent"
  PROVE  Closed(SavedPin(s, p, tree), NoUuid) /\ Holds(s, SavedPin(s, p, tree))
<1> DEFINE t == SavedPin(s, p, tree)
<1>1. PICK f, v, n, c, key :
           /\ f = Each(Fetched, s, tree) /\ Closed(f, NoUuid) /\ Learns(s, f) /\ tree \subseteq f.fetched
           /\ Rewriting(f, t, p, tree, v, n, c, key)
  BY SavedPinSteps
<1> HIDE DEF t
<1>2. Closed(t, NoUuid)
  BY <1>1 DEF Rewriting
<1>3. Holds(f, t)
  BY <1>1, RewritingHolds
<1>4. Holds(s, t)
  BY <1>1, <1>3 DEF Holds, Learns
<1>5. QED
  BY <1>2, <1>4 DEF t

\* The fields of a call in its next step.
LEMMA CallStep ==
  ASSUME NEW c \in CallStates, NEW step
  PROVE  [c EXCEPT !.step = step] = [op |-> c.op, name |-> c.name, obj |-> c.obj, step |-> step,
                                     pin |-> c.pin, key |-> c.key]
<1>1. c = [op |-> c.op, name |-> c.name, obj |-> c.obj, step |-> c.step, pin |-> c.pin, key |-> c.key]
  BY DEF CallStates
<1>2. QED
  BY <1>1

LEMMA CallStepPin ==
  ASSUME NEW c \in CallStates, NEW step, NEW pin
  PROVE  [c EXCEPT !.step = step, !.pin = pin]
           = [op |-> c.op, name |-> c.name, obj |-> c.obj, step |-> step, pin |-> pin, key |-> c.key]
<1> DEFINE d == [c EXCEPT !.step = step]
<1>1. d = [op |-> c.op, name |-> c.name, obj |-> c.obj, step |-> step, pin |-> c.pin, key |-> c.key]
  BY CallStep
<1> HIDE DEF d
<1>2. [d EXCEPT !.pin = pin]
        = [op |-> c.op, name |-> c.name, obj |-> c.obj, step |-> step, pin |-> pin, key |-> c.key]
  BY <1>1
<1>3. QED
  BY <1>2 DEF d

LEMMA CallStepKey ==
  ASSUME NEW c \in CallStates, NEW step, NEW key
  PROVE  [c EXCEPT !.step = step, !.key = key]
           = [op |-> c.op, name |-> c.name, obj |-> c.obj, step |-> step, pin |-> c.pin, key |-> key]
<1> DEFINE d == [c EXCEPT !.step = step]
<1>1. d = [op |-> c.op, name |-> c.name, obj |-> c.obj, step |-> step, pin |-> c.pin, key |-> c.key]
  BY CallStep
<1> HIDE DEF d
<1>2. [d EXCEPT !.key = key]
        = [op |-> c.op, name |-> c.name, obj |-> c.obj, step |-> step, pin |-> c.pin, key |-> key]
  BY <1>1
<1>3. QED
  BY <1>2 DEF d

\* What is true of call i when it is c in the state s.
CallIs(i, c, s) ==
  /\ c.step \notin {"none", "done"} => c.op # "none" /\ c.name \in PinNames
  /\ c.step \in {"waiting", "find", "found"} /\ c.op # "unpinAll" =>
       c.obj \in Objects /\ s.held[c.obj] # "absent"
  /\ c.step \in {"found", "drop", "save"} =>
       c.pin \in Calls /\ s.pins[c.pin] \in Pins /\ s.pins[c.pin].name = c.name
  /\ c.step = "unpin" => c.key \in Uuids
  /\ c.step \in {"none", "waiting", "find"} => s.pins[i] = NoPin

LEMMA CallsAreRight ==
  CallsRight <=> \A i \in Calls : CallIs(i, call[i], Now)
BY DEF CallsRight, CallIs, InFlight, Now

\* The fields of the tables and maps as they are.
LEMMA NowIs ==
  /\ Now.rows = rows /\ Now.deps = deps /\ Now.held = held /\ Now.fetched = fetched
  /\ Now.uuidOf = uuidOf /\ Now.pins = pins /\ RecordOf(Now)
BY DEF Now, RecordOf

\* The instances that are let go.
Kept(s, calls, t) ==
  /\ RecordOf(t)
  /\ t.rows = s.rows /\ t.deps = s.deps /\ t.held = s.held /\ t.fetched = s.fetched
  /\ t.uuidOf = s.uuidOf
  /\ t.pins = [i \in Calls |-> IF \E j \in Calls : calls[j].pin = i /\ calls[j].step # "done"
                               THEN s.pins[i] ELSE NoPin]

\* Letting go instances that no call uses leaves everything closed.
LEMMA KeptCloses ==
  ASSUME NEW s, Closed(s, NoUuid), NEW calls, NEW t, Kept(s, calls, t)
  PROVE  Closed(t, NoUuid)
<1>t. StoreTypes(s)
  BY DEF Closed
<1>1. /\ t.rows = s.rows /\ t.deps = s.deps /\ t.held = s.held /\ t.fetched = s.fetched
      /\ t.uuidOf = s.uuidOf
  BY DEF Kept
<1>2. \A i \in Calls : t.pins[i] = s.pins[i] \/ t.pins[i] = NoPin
  BY DEF Kept
<1>3. StoreTypes(t)
  <2>1. t.pins \in [Calls -> Pins \union {NoPin}]
    BY <1>t DEF Kept, StoreTypes
  <2>2. QED
    BY <2>1, <1>1, <1>t DEF Kept, StoreTypes, RecordOf
<1>4. MapsRight(t)
  <2>1. \A i \in Calls : t.pins[i].uuid # NoUuid => t.rows[t.pins[i].uuid].of = t.pins[i].name
    BY <1>1, <1>2, Sorts DEF Closed, MapsRight
  <2>2. QED
    BY <1>1, <2>1 DEF Closed, MapsRight, IsObject, Known
<1>5. HeldRight(t)
  <2>1. \A i \in Calls : \A o \in t.pins[i].objects : t.held[o] # "absent"
    BY <1>1, <1>2, Sorts DEF Closed, HeldRight
  <2>2. QED
    BY <1>1, <2>1 DEF Closed, HeldRight, RowsOf
<1>6. DepsRight(t)
  BY <1>1 DEF Closed, DepsRight, IsPin, IsObject
<1>7. \A u \in Uuids : IsPin(t, u) /\ u # NoUuid => PinRow(t, u)
  BY <1>1 DEF Closed, PinRow, IsPin, IsObject
<1>8. QED
  BY <1>3, <1>4, <1>5, <1>6, <1>7 DEF Closed

\* The bounds and the history.
RestOK ==
  /\ dbQueue \in Seq(Calls) /\ lapses \in 0 .. MaxLapses
  /\ asked \in [PinNames -> [Objects -> {"nothing", "out", "listed", "kept", "deep", "faded"}]]
  /\ overlapped \in [PinNames -> {"no", "pins", "unpins"}]

\* The invariant in parts.
LEMMA TypesAre ==
  StoreTypeOK <=> StoreTypes(Now) /\ call \in [Calls -> CallStates] /\ RestOK /\ dangled \in BOOLEAN
BY DEF StoreTypeOK, StoreTypes, Now, RestOK

\* What there is to show of a step.
LEMMA StateStays ==
  ASSUME NEW t, t = Now', Closed(t, NoUuid), call' \in [Calls -> CallStates],
         \A i \in Calls : CallIs(i, call'[i], t), RestOK', dangled' \in BOOLEAN
  PROVE  ClosedInv'
<1>1. /\ t.rows = rows' /\ t.deps = deps' /\ t.held = held' /\ t.fetched = fetched'
      /\ t.uuidOf = uuidOf' /\ t.pins = pins'
  BY DEF Now
<1>2. Closed(Now, NoUuid)'
  BY DEF Now, Closed, StoreTypes, MapsRight, HeldRight, DepsRight, PinRow, IsObject, IsPin, Known,
         RowsOf
<1>3. StoreTypeOK'
  BY <1>1, <1>2 DEF Closed, StoreTypeOK, StoreTypes, Now, RestOK
<1>4. CallsRight'
  BY <1>1 DEF CallsRight, CallIs, InFlight, Now
<1>5. QED
  BY <1>2, <1>3, <1>4 DEF ClosedInv

\* The step of a call keeps the invariant if tables and maps stay closed and
\* the calls right.
LEMMA BecomesStays ==
  ASSUME dangled \in BOOLEAN, NEW s, Closed(s, NoUuid), NEW calls \in [Calls -> CallStates],
         \A i \in Calls : CallIs(i, calls[i], s), Becomes(s, calls), RestOK'
  PROVE  ClosedInv'
<1> DEFINE t == Now'
<1>1. /\ t.rows = rows' /\ t.deps = deps' /\ t.held = held' /\ t.fetched = fetched'
      /\ t.uuidOf = uuidOf' /\ t.pins = pins' /\ RecordOf(t)
  BY DEF Now, RecordOf
<1>2. Kept(s, calls, t)
  BY <1>1 DEF Kept, Becomes
<1>3. t = Now'
  OBVIOUS
<1> HIDE DEF t
<1>4. Closed(t, NoUuid)
  BY <1>2, KeptCloses
<1>5. call' = calls /\ dangled' \in BOOLEAN
  BY DEF Becomes
<1>6. ASSUME NEW i \in Calls PROVE CallIs(i, calls[i], t)
  <2>1. /\ calls[i].step \in {"found", "drop", "save"} => t.pins[calls[i].pin] = s.pins[calls[i].pin]
        /\ s.pins[i] = NoPin => t.pins[i] = NoPin
    BY <1>2 DEF Kept, CallIs
  <2>2. t.held = s.held
    BY <1>2 DEF Kept
  <2>3. QED
    BY <2>1, <2>2 DEF CallIs
<1>7. QED
  BY <1>3, <1>4, <1>5, <1>6, StateStays

\* What the calls other than i need of a step.
Keeps(s, i) ==
  /\ \A o \in Objects : held[o] # "absent" => s.held[o] # "absent"
  /\ \A p \in Calls : pins[p] \in Pins => s.pins[p].name = pins[p].name
  /\ \A p \in Calls \ {i} : pins[p] = NoPin => s.pins[p] = NoPin

LEMMA OtherCalls ==
  ASSUME ClosedInv, NEW s, Closed(s, NoUuid), NEW i \in Calls, Keeps(s, i)
  PROVE  \A j \in Calls \ {i} : CallIs(j, call[j], s)
<1>1. SUFFICES ASSUME NEW j \in Calls \ {i} PROVE CallIs(j, call[j], s)
  OBVIOUS
<1>2. CallIs(j, call[j], Now)
  BY CallsAreRight DEF ClosedInv
<1>3. Now.held = held /\ Now.pins = pins
  BY NowIs
<1>4. \A p \in Calls : pins[p] \in Pins => s.pins[p] \in Pins
  <2>1. SUFFICES ASSUME NEW p \in Calls, pins[p] \in Pins PROVE s.pins[p] \in Pins
    OBVIOUS
  <2>2. s.pins[p].name \in PinNames
    BY <2>1 DEF Keeps, Pins
  <2>3. s.pins[p] \in Pins \union {NoPin}
    BY DEF Closed, StoreTypes
  <2>4. QED
    BY <2>2, <2>3, Sorts, StoreAssumption
<1>5. QED
  BY <1>2, <1>3, <1>4 DEF CallIs, Keeps

\* A step of call i.
LEMMA StepStays ==
  ASSUME ClosedInv, NEW s, Closed(s, NoUuid), NEW i \in Calls, Keeps(s, i), NEW c \in CallStates,
         CallIs(i, c, s), Becomes(s, [call EXCEPT ![i] = c]), RestOK'
  PROVE  ClosedInv'
<1>1. call \in [Calls -> CallStates] /\ dangled \in BOOLEAN
  BY DEF ClosedInv, StoreTypeOK
<1>2. [call EXCEPT ![i] = c] \in [Calls -> CallStates]
  BY <1>1
<1>3. \A j \in Calls : CallIs(j, [call EXCEPT ![i] = c][j], s)
  BY <1>1, OtherCalls
<1>4. QED
  BY <1>1, <1>2, <1>3, BecomesStays

LEMMA StepTakes ==
  ASSUME ClosedInv, NEW t, t = Now', Closed(t, NoUuid), NEW i \in Calls, Keeps(t, i),
         NEW c \in CallStates, CallIs(i, c, t), call' = [call EXCEPT ![i] = c], RestOK',
         dangled' \in BOOLEAN
  PROVE  ClosedInv'
<1>1. call \in [Calls -> CallStates]
  BY DEF ClosedInv, StoreTypeOK
<1>2. [call EXCEPT ![i] = c] \in [Calls -> CallStates]
  BY <1>1
<1>3. \A j \in Calls : CallIs(j, [call EXCEPT ![i] = c][j], t)
  BY <1>1, OtherCalls
<1>4. QED
  BY <1>2, <1>3, StateStays

\* The step i takes, as a record.
LEMMA AtIs ==
  ASSUME ClosedInv, NEW i \in Calls, NEW step \in {"find", "drop", "save"}
  PROVE  LET c == [op |-> call[i].op, name |-> call[i].name, obj |-> call[i].obj, step |-> step,
                   pin |-> call[i].pin, key |-> call[i].key]
         IN c \in CallStates /\ At(i, step) = [call EXCEPT ![i] = c]
<1>1. call \in [Calls -> CallStates]
  BY DEF ClosedInv, StoreTypeOK
<1>2. call[i] \in CallStates
  BY <1>1
<1>3. [call[i] EXCEPT !.step = step]
        = [op |-> call[i].op, name |-> call[i].name, obj |-> call[i].obj, step |-> step,
           pin |-> call[i].pin, key |-> call[i].key]
  BY <1>2, CallStep
<1>4. At(i, step) = [call EXCEPT ![i] = [call[i] EXCEPT !.step = step]]
  BY <1>1 DEF At
<1>5. [op |-> call[i].op, name |-> call[i].name, obj |-> call[i].obj, step |-> step,
       pin |-> call[i].pin, key |-> call[i].key] \in CallStates
  BY <1>2 DEF CallStates
<1>6. QED
  BY <1>3, <1>4, <1>5

LEMMA FoundIs ==
  ASSUME ClosedInv, NEW i \in Calls, NEW p \in Calls
  PROVE  LET c == [op |-> call[i].op, name |-> call[i].name, obj |-> call[i].obj, step |-> "found",
                   pin |-> p, key |-> call[i].key]
         IN c \in CallStates
            /\ [call EXCEPT ![i].step = "found", ![i].pin = p] = [call EXCEPT ![i] = c]
<1>1. call \in [Calls -> CallStates]
  BY DEF ClosedInv, StoreTypeOK
<1>2. call[i] \in CallStates
  BY <1>1
<1>3. [call[i] EXCEPT !.step = "found", !.pin = p]
        = [op |-> call[i].op, name |-> call[i].name, obj |-> call[i].obj, step |-> "found",
           pin |-> p, key |-> call[i].key]
  BY <1>2, CallStepPin
<1>4. [call EXCEPT ![i].step = "found", ![i].pin = p]
        = [call EXCEPT ![i] = [call[i] EXCEPT !.step = "found", !.pin = p]]
  BY <1>1
<1>5. [op |-> call[i].op, name |-> call[i].name, obj |-> call[i].obj, step |-> "found",
       pin |-> p, key |-> call[i].key] \in CallStates
  BY <1>2 DEF CallStates
<1>6. QED
  BY <1>3, <1>4, <1>5

LEMMA UnpinIs ==
  ASSUME ClosedInv, NEW i \in Calls, NEW u \in Uuids
  PROVE  LET c == [op |-> call[i].op, name |-> call[i].name, obj |-> call[i].obj, step |-> "unpin",
                   pin |-> call[i].pin, key |-> u]
         IN c \in CallStates
            /\ [call EXCEPT ![i].step = "unpin", ![i].key = u] = [call EXCEPT ![i] = c]
<1>1. call \in [Calls -> CallStates]
  BY DEF ClosedInv, StoreTypeOK
<1>2. call[i] \in CallStates
  BY <1>1
<1>3. [call[i] EXCEPT !.step = "unpin", !.key = u]
        = [op |-> call[i].op, name |-> call[i].name, obj |-> call[i].obj, step |-> "unpin",
           pin |-> call[i].pin, key |-> u]
  BY <1>2, CallStepKey
<1>4. [call EXCEPT ![i].step = "unpin", ![i].key = u]
        = [call EXCEPT ![i] = [call[i] EXCEPT !.step = "unpin", !.key = u]]
  BY <1>1
<1>5. [op |-> call[i].op, name |-> call[i].name, obj |-> call[i].obj, step |-> "unpin",
       pin |-> call[i].pin, key |-> u] \in CallStates
  BY <1>2 DEF CallStates
<1>6. QED
  BY <1>3, <1>4, <1>5

LEMMA DoneIs ==
  ASSUME NEW i \in Calls, NEW s, Closed(s, NoUuid)
  PROVE  LET c == [NoCall EXCEPT !.step = "done"]
         IN c \in CallStates /\ CallIs(i, c, s) /\ Done(i) = [call EXCEPT ![i] = c]
<1>1. [NoCall EXCEPT !.step = "done"]
        = [op |-> "none", name |-> "none", obj |-> "none", step |-> "done", pin |-> 0, key |-> NoUuid]
  BY DEF NoCall
<1>2. QED
  BY <1>1 DEF CallIs, CallStates, Done

LEMMA DoneStays ==
  ASSUME ClosedInv, NEW s, Closed(s, NoUuid), NEW i \in Calls, Keeps(s, i),
         Becomes(s, Done(i)), RestOK'
  PROVE  ClosedInv'
<1> DEFINE c == [NoCall EXCEPT !.step = "done"]
<1>1. c \in CallStates /\ CallIs(i, c, s) /\ Done(i) = [call EXCEPT ![i] = c]
  BY DoneIs
<1> HIDE DEF c
<1>2. Becomes(s, [call EXCEPT ![i] = c])
  BY <1>1
<1>3. QED
  BY <1>1, <1>2, StepStays

LEMMA QueueTypes ==
  ASSUME ClosedInv, NEW i \in Calls
  PROVE  /\ Append(dbQueue, i) \in Seq(Calls)
         /\ dbQueue # <<>> => Tail(dbQueue) \in Seq(Calls)
BY DEF ClosedInv, StoreTypeOK

\* The parts of the invariant.
LEMMA InvMeans ==
  ASSUME ClosedInv
  PROVE  /\ Closed(Now, NoUuid) /\ StoreTypes(Now) /\ RestOK /\ dangled \in BOOLEAN
         /\ call \in [Calls -> CallStates] /\ \A i \in Calls : CallIs(i, call[i], Now)
BY TypesAre, CallsAreRight DEF ClosedInv

\* There is an instance of an object that was not in memory.
Reached(s, t, o) ==
  /\ RecordOf(t)
  /\ t.rows = s.rows /\ t.deps = s.deps /\ t.fetched = s.fetched /\ t.pins = s.pins
  /\ s.held[o] = "absent" /\ t.held = [s.held EXCEPT ![o] = "pointer"]
  /\ \/ o \in Saved /\ t.uuidOf = s.uuidOf
     \/ o \notin Saved /\ \E u \in RowsOf(s, o) : t.uuidOf = [s.uuidOf EXCEPT ![o] = u]

\* An instance of one more object leaves everything closed.
LEMMA ReachedCloses ==
  ASSUME NEW s, NEW k, Closed(s, k), NEW o \in Objects, NEW t, Reached(s, t, o)
  PROVE  Closed(t, k)
<1>t. StoreTypes(s)
  BY DEF Closed
<1>1. /\ t.rows = s.rows /\ t.deps = s.deps /\ t.fetched = s.fetched /\ t.pins = s.pins
  BY DEF Reached
<1>2. \A x \in Objects : t.held[x] = IF x = o THEN "pointer" ELSE s.held[x]
  BY <1>t DEF Reached, StoreTypes
<1>3. \A x \in Objects : \/ t.uuidOf[x] = s.uuidOf[x] /\ (x = o => x \in Saved)
                         \/ x = o /\ t.uuidOf[x] \in RowsOf(s, o)
  BY <1>t DEF Reached, StoreTypes
<1>4. StoreTypes(t)
  <2>1. t.uuidOf \in [Objects -> Uuids \union {NoUuid}]
    BY <1>t DEF Reached, StoreTypes, RowsOf
  <2>2. t.held \in [Objects -> {"absent", "pointer", "data"}]
    BY <1>t DEF Reached, StoreTypes
  <2>3. QED
    BY <1>1, <2>1, <2>2, <1>t DEF Reached, RecordOf, StoreTypes
<1>5. MapsRight(t)
  <2>1. \A v, w \in Uuids : IsObject(t, v) /\ t.rows[w].of = t.rows[v].of => v = w
    BY <1>1 DEF Closed, MapsRight, IsObject
  <2>2. ASSUME NEW v \in Uuids, NEW x \in Objects, t.rows[v].of = x, Known(t, x)
        PROVE  t.uuidOf[x] = v
    <3>1. CASE t.uuidOf[x] = s.uuidOf[x] /\ (x = o => x \in Saved)
      <4>1. Known(s, x)
        BY <3>1, <2>2, <1>1, <1>2 DEF Known
      <4>2. QED
        BY <4>1, <3>1, <2>2, <1>1 DEF Closed, MapsRight
    <3>2. CASE x = o /\ t.uuidOf[x] \in RowsOf(s, o)
      BY <3>2, <2>1, <2>2, <1>1 DEF IsObject, RowsOf
    <3>3. QED
      BY <3>1, <3>2, <1>3
  <2>3. \A x \in Objects : t.uuidOf[x] # NoUuid => t.rows[t.uuidOf[x]].of = x
    BY <1>1, <1>3 DEF Closed, MapsRight, RowsOf
  <2>4. \A i \in Calls : t.pins[i].uuid # NoUuid => t.rows[t.pins[i].uuid].of = t.pins[i].name
    BY <1>1 DEF Closed, MapsRight
  <2>5. QED
    BY <2>1, <2>2, <2>3, <2>4 DEF MapsRight
<1>6. HeldRight(t)
  <2>1. \A i \in Calls : s.pins[i].objects \subseteq Objects
    BY <1>t, Sorts DEF StoreTypes, Pins
  <2>2. Root \in Objects /\ Child \in Objects
    BY DEF Objects
  <2>3. t.held[Root] = "data" => t.held[Child] # "absent"
    BY <1>2, <2>2 DEF Closed, HeldRight
  <2>4. \A i \in Calls : \A x \in t.pins[i].objects : t.held[x] # "absent"
    BY <1>1, <1>2, <2>1 DEF Closed, HeldRight
  <2>5. QED
    BY <1>1, <2>3, <2>4 DEF Closed, HeldRight, RowsOf
<1>7. DepsRight(t)
  BY <1>1 DEF Closed, DepsRight, IsPin, IsObject
<1>8. \A u \in Uuids : IsPin(t, u) /\ u # k => PinRow(t, u)
  BY <1>1 DEF Closed, PinRow, IsPin, IsObject
<1>9. QED
  BY <1>4, <1>5, <1>6, <1>7, <1>8 DEF Closed

\* An instance of a pin is made or changed.
PinChanged(s, t, i, x) ==
  /\ RecordOf(t)
  /\ t.rows = s.rows /\ t.deps = s.deps /\ t.fetched = s.fetched /\ t.held = s.held
  /\ t.uuidOf = s.uuidOf /\ t.pins = [s.pins EXCEPT ![i] = x]

\* A changed instance of a pin leaves everything closed.
LEMMA PinChangedCloses ==
  ASSUME NEW s, NEW k, Closed(s, k), NEW i \in Calls, NEW x \in Pins,
         x.uuid # NoUuid => s.rows[x.uuid].of = x.name, \A o \in x.objects : s.held[o] # "absent",
         NEW t, PinChanged(s, t, i, x)
  PROVE  Closed(t, k)
<1>t. StoreTypes(s)
  BY DEF Closed
<1>1. /\ t.rows = s.rows /\ t.deps = s.deps /\ t.fetched = s.fetched /\ t.held = s.held
      /\ t.uuidOf = s.uuidOf
  BY DEF PinChanged
<1>2. \A j \in Calls : t.pins[j] = IF j = i THEN x ELSE s.pins[j]
  BY <1>t DEF PinChanged, StoreTypes
<1>3. StoreTypes(t)
  <2>1. t.pins \in [Calls -> Pins \union {NoPin}]
    BY <1>t DEF PinChanged, StoreTypes
  <2>2. QED
    BY <1>1, <2>1, <1>t DEF PinChanged, RecordOf, StoreTypes
<1>4. MapsRight(t)
  <2>1. \A j \in Calls : t.pins[j].uuid # NoUuid => t.rows[t.pins[j].uuid].of = t.pins[j].name
    BY <1>1, <1>2 DEF Closed, MapsRight
  <2>2. QED
    BY <1>1, <2>1 DEF Closed, MapsRight, IsObject, Known
<1>5. HeldRight(t)
  <2>1. \A j \in Calls : \A o \in t.pins[j].objects : t.held[o] # "absent"
    BY <1>1, <1>2 DEF Closed, HeldRight
  <2>2. QED
    BY <1>1, <2>1 DEF Closed, HeldRight, RowsOf
<1>6. DepsRight(t)
  BY <1>1 DEF Closed, DepsRight, IsPin, IsObject
<1>7. \A u \in Uuids : IsPin(t, u) /\ u # k => PinRow(t, u)
  BY <1>1 DEF Closed, PinRow, IsPin, IsObject
<1>8. QED
  BY <1>3, <1>4, <1>5, <1>6, <1>7 DEF Closed

LEMMA KeepsNow ==
  ASSUME NEW i
  PROVE  Keeps(Now, i)
BY NowIs DEF Keeps

LEMMA HoldsKeeps ==
  ASSUME NEW s, StoreTypes(Now), StoreTypes(s), Holds(Now, s), NEW i
  PROVE  Keeps(s, i)
<1>1. \A p \in Calls : pins[p] = NoPin => s.pins[p] = NoPin
  <2>1. ASSUME NEW p \in Calls, pins[p] = NoPin PROVE s.pins[p] = NoPin
    <3>1. s.pins[p].name = "none"
      BY <2>1, NowIs, Sorts DEF Holds
    <3>2. s.pins[p] \in Pins \union {NoPin}
      BY DEF StoreTypes
    <3>3. QED
      BY <3>1, <3>2, StoreAssumption DEF Pins
  <2>2. QED
    BY <2>1
<1>2. QED
  BY <1>1, NowIs DEF Holds, Keeps

\* The invariant, action by action.
LEMMA CallStays ==
  ASSUME ClosedInv, NEW i \in Calls, NEW n \in PinNames, NEW o \in Objects \union {"none"},
         NEW op \in {"pin", "pinWithoutChildren", "unpin", "unpinAll"},
         op # "unpinAll" => o \in Objects, Call(i, op, n, o)
  PROVE  ClosedInv'
<1> DEFINE t == Now'
           c == [op |-> op, name |-> n, obj |-> o, step |-> "waiting", pin |-> 0, key |-> NoUuid]
<1>1. /\ t.rows = rows /\ t.deps = deps /\ t.held = held' /\ t.fetched = fetched
      /\ t.uuidOf = uuidOf /\ t.pins = pins /\ RecordOf(t) /\ t = Now'
  BY DEF Call, diskVars, Now, RecordOf
<1> HIDE DEF t
<1>2. /\ Closed(Now, NoUuid) /\ RestOK /\ dangled \in BOOLEAN
      /\ \A j \in Calls : CallIs(j, call[j], Now)
      /\ held \in [Objects -> {"absent", "pointer", "data"}]
  BY InvMeans, NowIs DEF StoreTypes
<1>3. Closed(t, NoUuid)
  <2>1. CASE o \in Objects /\ held[o] = "absent"
    <3>1. Reached(Now, t, o)
      <4>1. t.held = [held EXCEPT ![o] = "pointer"]
        BY <2>1, <1>1, <1>2 DEF Call
      <4>2. o \in Saved
        BY <2>1 DEF Call
      <4>3. QED
        BY <2>1, <4>1, <4>2, <1>1, NowIs DEF Reached
    <3>2. QED
      BY <2>1, <3>1, <1>2, ReachedCloses
  <2>2. CASE ~(o \in Objects /\ held[o] = "absent")
    <3>1. held' = held
      BY <2>2, <1>2 DEF Call
    <3>2. t = Now
      BY <3>1, <1>1, NowIs DEF RecordOf
    <3>3. QED
      BY <3>2, <1>2
  <2>3. QED
    BY <2>1, <2>2
<1>4. \A x \in Objects : t.held[x] = IF x = o /\ held[x] = "absent" THEN "pointer" ELSE held[x]
  BY <1>1, <1>2 DEF Call
<1>5. Keeps(t, i)
  BY <1>1, <1>4 DEF Keeps
<1>6. c \in CallStates
  BY DEF CallStates
<1>7. CallIs(i, c, t)
  <2>1. pins[i] = NoPin
    <3>1. call[i].step = "none"
      BY DEF Call, NoCall
    <3>2. QED
      BY <3>1, <1>2, NowIs DEF CallIs
  <2>2. QED
    BY <2>1, <1>1, <1>4 DEF CallIs
<1>8. asked' \in [PinNames -> [Objects -> {"nothing", "out", "listed", "kept", "deep", "faded"}]]
  <2>1. asked \in [PinNames -> [Objects -> {"nothing", "out", "listed", "kept", "deep", "faded"}]]
    BY <1>2 DEF RestOK
  <2> DEFINE f == [x \in Objects |->
        CASE op \in PinOps /\ x = o ->
               IF held[o] # "data"
               THEN (IF asked[n][x] \in {"kept", "deep", "faded"} THEN "kept" ELSE "listed")
               ELSE IF op = "pin" /\ \A d \in PointsTo(o) : held[d] = "data" THEN "deep"
               ELSE "kept"
          [] op = "pinWithoutChildren" /\ x # o /\ asked[n][x] \in {"deep", "faded"} -> "kept"
          [] op = "unpinAll" \/ (op = "unpin" /\ x = o) -> "out"
          [] OTHER -> asked[n][x]]
  <2>2. asked' = [asked EXCEPT ![n] = f]
    BY <2>1 DEF Call, Promised
  <2>3. \A x \in Objects : f[x] \in {"nothing", "out", "listed", "kept", "deep", "faded"}
    BY <2>1
  <2>4. f \in [Objects -> {"nothing", "out", "listed", "kept", "deep", "faded"}]
    BY <2>3
  <2> HIDE DEF f
  <2>5. QED
    BY <2>1, <2>2, <2>4
<1>9. overlapped' \in [PinNames -> {"no", "pins", "unpins"}]
  BY <1>2 DEF RestOK, Call, Overlap
<1>10. RestOK'
  BY <1>2, <1>8, <1>9 DEF RestOK, Call
<1>11. call' = [call EXCEPT ![i] = c] /\ dangled' \in BOOLEAN
  BY <1>2 DEF Call
<1> HIDE DEF c
<1>12. QED
  BY <1>1, <1>3, <1>5, <1>6, <1>7, <1>10, <1>11, StepTakes

LEMMA QueryStays ==
  ASSUME ClosedInv, NEW i \in Calls, Query(i)
  PROVE  ClosedInv'
<1> DEFINE t == Now'
           c == [op |-> call[i].op, name |-> call[i].name, obj |-> call[i].obj, step |-> "find",
                 pin |-> call[i].pin, key |-> call[i].key]
<1>1. t = Now /\ t = Now'
  BY DEF Query, diskVars, memoryVars, Now
<1> HIDE DEF t
<1>2. /\ Closed(Now, NoUuid) /\ RestOK /\ dangled \in BOOLEAN
      /\ \A j \in Calls : CallIs(j, call[j], Now)
  BY InvMeans
<1>3. c \in CallStates /\ At(i, "find") = [call EXCEPT ![i] = c]
  BY AtIs
<1>4. CallIs(i, c, Now)
  BY <1>2 DEF Query, CallIs
<1>5. RestOK'
  BY <1>2, QueueTypes DEF RestOK, Query, askVars
<1>6. call' = [call EXCEPT ![i] = c] /\ dangled' \in BOOLEAN
  BY <1>2, <1>3 DEF Query
<1> HIDE DEF c
<1>7. QED
  BY <1>1, <1>2, <1>3, <1>4, <1>5, <1>6, KeepsNow, StepTakes

\* Queueing and taking from the queue leaves the rest as it is.
LEMMA RestStays ==
  ASSUME ClosedInv, NEW i \in Calls, UNCHANGED <<lapses, askVars>>,
         \/ dbQueue' = dbQueue
         \/ dbQueue' = Append(dbQueue, i)
         \/ dbQueue # <<>> /\ dbQueue' = Tail(dbQueue)
  PROVE  RestOK'
BY InvMeans, QueueTypes DEF RestOK, askVars

LEMMA FindPinStays ==
  ASSUME ClosedInv, NEW i \in Calls, FindPin(i)
  PROVE  ClosedInv'
<1> DEFINE n == call[i].name
           c(p) == [op |-> call[i].op, name |-> call[i].name, obj |-> call[i].obj, step |-> "found",
                    pin |-> p, key |-> call[i].key]
<1>1. /\ Closed(Now, NoUuid) /\ StoreTypes(Now) /\ \A j \in Calls : CallIs(j, call[j], Now)
  BY InvMeans
<1>2. RestOK'
  BY RestStays DEF FindPin, NextInDatabase
<1>3. call[i].step = "find" /\ n \in PinNames /\ pins[i] = NoPin
  BY <1>1, NowIs DEF FindPin, NextInDatabase, CallIs
<1>4. \A p \in Calls : c(p) \in CallStates
                       /\ [call EXCEPT ![i].step = "found", ![i].pin = p] = [call EXCEPT ![i] = c(p)]
  BY FoundIs
<1>5. ASSUME NEW s, NEW p \in Calls, s.held = Now.held \/ Keeps(s, i), s.pins[p] \in Pins,
             s.pins[p].name = n
      PROVE  CallIs(i, c(p), s)
  <2>1. call[i].op # "unpinAll" => s.held[call[i].obj] # "absent" /\ call[i].obj \in Objects
    BY <1>1, <1>3, <1>5, NowIs DEF CallIs, Keeps
  <2>2. QED
    BY <2>1, <1>1, <1>3, <1>5 DEF CallIs
<1>6. CASE /\ RowsOf(Now, n) = {}
           /\ Becomes([Now EXCEPT !.pins[i] = [name |-> n, objects |-> {}, uuid |-> NoUuid]],
                      [call EXCEPT ![i].step = "found", ![i].pin = i])
  <2> DEFINE x == [name |-> n, objects |-> {}, uuid |-> NoUuid]
             s == [Now EXCEPT !.pins[i] = x]
  <2>1. x \in Pins /\ x.name = n /\ x.uuid = NoUuid /\ x.objects = {}
    BY <1>3 DEF Pins
  <2> HIDE DEF x
  <2>2. PinChanged(Now, s, i, x)
    BY NowIs DEF PinChanged, RecordOf
  <2> HIDE DEF s
  <2>3. Closed(s, NoUuid)
    BY <1>1, <2>1, <2>2, PinChangedCloses
  <2>4. /\ s.held = held /\ \A p \in Calls : s.pins[p] = IF p = i THEN x ELSE pins[p]
    BY <2>2, <1>1, NowIs DEF PinChanged, StoreTypes
  <2>5. Keeps(s, i)
    BY <2>4, <1>3, Sorts, StoreAssumption DEF Keeps, Pins
  <2>6. CallIs(i, c(i), s)
    BY <1>5, <2>1, <2>4, <2>5
  <2>7. Becomes(s, [call EXCEPT ![i] = c(i)])
    BY <1>4, <1>6 DEF s, x
  <2> HIDE DEF c
  <2>8. QED
    BY <1>2, <1>4, <2>3, <2>5, <2>6, <2>7, StepStays
<1>7. CASE \E u \in RowsOf(Now, n), j \in Calls :
             /\ pins[j].uuid = u
             /\ Becomes(Now, [call EXCEPT ![i].step = "found", ![i].pin = j])
  <2>1. PICK u \in RowsOf(Now, n), j \in Calls :
             /\ pins[j].uuid = u
             /\ Becomes(Now, [call EXCEPT ![i].step = "found", ![i].pin = j])
    BY <1>7
  <2>2. pins[j] \in Pins /\ pins[j].name = n
    <3>1. u # NoUuid /\ rows[u].of = n
      BY Sorts, NowIs DEF RowsOf
    <3>2. pins[j] # NoPin
      BY <2>1, <3>1, Sorts
    <3>3. QED
      BY <2>1, <3>1, <3>2, <1>1, NowIs DEF Closed, MapsRight, StoreTypes
  <2>3. CallIs(i, c(j), Now)
    BY <1>5, <2>2, NowIs
  <2>4. Becomes(Now, [call EXCEPT ![i] = c(j)])
    BY <1>4, <2>1
  <2> HIDE DEF c
  <2>5. QED
    BY <1>1, <1>2, <1>4, <2>3, <2>4, KeepsNow, StepStays
<1>8. CASE \E u \in RowsOf(Now, n) :
             /\ \A j \in Calls : pins[j].uuid # u
             /\ Becomes([Decoded(Now, rows[u]) EXCEPT !.pins[i] =
                           [name |-> n, objects |-> {Pointed(Now, r) : r \in rows[u].points},
                            uuid |-> u]],
                        [call EXCEPT ![i].step = "found", ![i].pin = i])
  <2>1. PICK u \in RowsOf(Now, n) :
             Becomes([Decoded(Now, rows[u]) EXCEPT !.pins[i] =
                           [name |-> n, objects |-> {Pointed(Now, r) : r \in rows[u].points},
                            uuid |-> u]],
                        [call EXCEPT ![i].step = "found", ![i].pin = i])
    BY <1>8
  <2> DEFINE row == rows[u]
             x == [name |-> n, objects |-> {Pointed(Now, r) : r \in row.points}, uuid |-> u]
             d == Decoded(Now, row)
             s == [d EXCEPT !.pins[i] = x]
  <2>2. u \in Uuids /\ row.of = n /\ row \in Rows /\ PinRow(Now, u) /\ IsPin(Now, u)
    BY <1>1, <1>3, NowIs, Sorts DEF RowsOf, StoreTypes, Closed, IsPin
  <2>3. \A r \in row.points : Pointed(Now, r) \in Objects
    BY <2>2, NowIs, StoreAssumption DEF PinRow, IsObject, Pointed, Rows
  <2>4. x \in Pins /\ x.name = n /\ x.uuid = u /\ x.objects = {Pointed(Now, r) : r \in row.points}
    BY <2>2, <2>3, <1>3 DEF Pins
  <2> HIDE DEF row, x
  <2>5. DecodedFrom(Now, d, row)
    BY <1>1, DecodedFields
  <2> HIDE DEF d
  <2>6. Closed(d, NoUuid) /\ Learns(Now, d)
        /\ \A r \in row.points : Pointed(Now, r) \in Objects => d.held[Pointed(Now, r)] # "absent"
    BY <1>1, <2>2, <2>5, DecodedCloses
  <2>7. d.pins = pins /\ d.rows = rows /\ RecordOf(d)
    BY <2>5, NowIs DEF DecodedFrom
  <2>8. PinChanged(d, s, i, x)
    BY <2>7 DEF PinChanged, RecordOf
  <2> HIDE DEF s
  <2>9. \A o \in x.objects : d.held[o] # "absent"
    BY <2>3, <2>4, <2>6
  <2>10. Closed(s, NoUuid)
    BY <2>2, <2>4, <2>6, <2>7, <2>8, <2>9, PinChangedCloses DEF row
  <2>11. s.held = d.held /\ \A p \in Calls : s.pins[p] = IF p = i THEN x ELSE pins[p]
    BY <2>7, <2>8, <1>1, NowIs DEF PinChanged, StoreTypes
  <2>12. Keeps(s, i)
    BY <2>6, <2>11, <1>3, NowIs, Sorts, StoreAssumption DEF Keeps, Pins, Learns
  <2>13. CallIs(i, c(i), s)
    BY <1>5, <2>4, <2>11, <2>12
  <2>14. Becomes(s, [call EXCEPT ![i] = c(i)])
    BY <1>4, <2>1 DEF s, d, x, row
  <2> HIDE DEF c
  <2>15. QED
    BY <1>2, <1>4, <2>10, <2>12, <2>13, <2>14, StepStays
<1>9. QED
  BY <1>6, <1>7, <1>8 DEF FindPin

\* Call i gives its instance other objects, of those it has and its own.
LEMMA ChangeKeeps ==
  ASSUME ClosedInv, NEW i \in Calls, call[i].step = "found", call[i].op # "unpinAll",
         NEW left \in SUBSET (pins[call[i].pin].objects \union {call[i].obj})
  PROVE  LET s == [Now EXCEPT !.pins[call[i].pin].objects = left]
         IN /\ Closed(s, NoUuid) /\ Keeps(s, i) /\ s.held = held
            /\ call[i].pin \in Calls /\ s.pins[call[i].pin] \in Pins
            /\ s.pins[call[i].pin].name = call[i].name
<1> DEFINE p == call[i].pin
           x == [name |-> pins[p].name, objects |-> left, uuid |-> pins[p].uuid]
           s == [Now EXCEPT !.pins[p].objects = left]
<1>1. /\ Closed(Now, NoUuid) /\ StoreTypes(Now) /\ CallIs(i, call[i], Now)
  BY InvMeans
<1>2. /\ p \in Calls /\ pins[p] \in Pins /\ pins[p].name = call[i].name
      /\ call[i].obj \in Objects /\ held[call[i].obj] # "absent"
  BY <1>1, NowIs DEF CallIs
<1>3. x \in Pins /\ x.name = pins[p].name /\ x.uuid = pins[p].uuid /\ x.objects = left
      /\ \A y : [pins[p] EXCEPT !.objects = y] = [name |-> pins[p].name, objects |-> y,
                                                  uuid |-> pins[p].uuid]
  BY <1>2 DEF Pins
<1>4. x.uuid # NoUuid => Now.rows[x.uuid].of = x.name
  BY <1>1, <1>2, <1>3, NowIs DEF Closed, MapsRight
<1>5. \A o \in x.objects : Now.held[o] # "absent"
  BY <1>1, <1>2, <1>3, NowIs DEF Closed, HeldRight
<1>6. s = [Now EXCEPT !.pins[p] = [pins[p] EXCEPT !.objects = left]]
  BY NowIs DEF RecordOf
<1>7. [pins[p] EXCEPT !.objects = left] = x
  BY <1>3
<1> HIDE DEF x, p, s
<1>8. s = [Now EXCEPT !.pins[p] = x]
  BY <1>6, <1>7
<1>9. PinChanged(Now, s, p, x)
  BY <1>8, NowIs DEF PinChanged, RecordOf
<1>10. Closed(s, NoUuid)
  BY <1>1, <1>2, <1>3, <1>4, <1>5, <1>9, PinChangedCloses
<1>11. s.held = held /\ \A q \in Calls : s.pins[q] = IF q = p THEN x ELSE pins[q]
  BY <1>9, <1>1, NowIs DEF PinChanged, StoreTypes
<1>12. Keeps(s, i)
  BY <1>2, <1>3, <1>11, Sorts, StoreAssumption DEF Keeps, Pins
<1>13. QED
  BY <1>2, <1>3, <1>10, <1>11, <1>12 DEF p, s

LEMMA ChangePinStays ==
  ASSUME ClosedInv, NEW i \in Calls, ChangePin(i)
  PROVE  ClosedInv'
<1> DEFINE s == [Now EXCEPT !.pins[call[i].pin].objects = pins[call[i].pin].objects \union {call[i].obj}]
           c == [op |-> call[i].op, name |-> call[i].name, obj |-> call[i].obj, step |-> "save",
                 pin |-> call[i].pin, key |-> call[i].key]
<1>1. call[i].step = "found" /\ call[i].op # "unpinAll"
  BY DEF ChangePin, PinOps
<1>2. /\ Closed(s, NoUuid) /\ Keeps(s, i) /\ s.held = held
      /\ call[i].pin \in Calls /\ s.pins[call[i].pin] \in Pins
      /\ s.pins[call[i].pin].name = call[i].name
  BY <1>1, ChangeKeeps
<1>3. s = [Now EXCEPT !.pins[call[i].pin].objects = @ \union {call[i].obj}]
  BY NowIs DEF RecordOf
<1> HIDE DEF s
<1>4. c \in CallStates /\ At(i, "save") = [call EXCEPT ![i] = c]
  BY AtIs
<1>5. CallIs(i, c, s)
  BY <1>1, <1>2, InvMeans, NowIs DEF CallIs
<1>6. RestOK'
  BY RestStays DEF ChangePin
<1> HIDE DEF c
<1>7. Becomes(s, [call EXCEPT ![i] = c])
  BY <1>3, <1>4 DEF ChangePin
<1>8. QED
  BY <1>2, <1>4, <1>5, <1>6, <1>7, StepStays

LEMMA ChangeUnpinStays ==
  ASSUME ClosedInv, NEW i \in Calls, ChangeUnpin(i)
  PROVE  ClosedInv'
<1> DEFINE left == pins[call[i].pin].objects \ {call[i].obj}
           s == [Now EXCEPT !.pins[call[i].pin].objects = left]
           c(step) == [op |-> call[i].op, name |-> call[i].name, obj |-> call[i].obj, step |-> step,
                       pin |-> call[i].pin, key |-> call[i].key]
<1>1. call[i].step = "found" /\ call[i].op # "unpinAll"
  BY DEF ChangeUnpin
<1>2. /\ Closed(s, NoUuid) /\ Keeps(s, i) /\ s.held = held
      /\ call[i].pin \in Calls /\ s.pins[call[i].pin] \in Pins
      /\ s.pins[call[i].pin].name = call[i].name
  BY <1>1, ChangeKeeps
<1>3. \/ Becomes(s, Done(i))
      \/ \E step \in {"drop", "save"} : Becomes(s, At(i, step))
  BY DEF ChangeUnpin
<1> HIDE DEF s
<1>4. RestOK'
  BY RestStays DEF ChangeUnpin
<1>5. CASE Becomes(s, Done(i))
  BY <1>2, <1>4, <1>5, DoneStays
<1>6. ASSUME NEW step \in {"drop", "save"}, Becomes(s, At(i, step)) PROVE ClosedInv'
  <2>1. c(step) \in CallStates /\ At(i, step) = [call EXCEPT ![i] = c(step)]
    BY AtIs
  <2>2. CallIs(i, c(step), s)
    BY <1>1, <1>2, InvMeans, NowIs DEF CallIs
  <2> HIDE DEF c
  <2>3. QED
    BY <1>2, <1>4, <1>6, <2>1, <2>2, StepStays
<1>7. QED
  BY <1>3, <1>5, <1>6

LEMMA DropPinStays ==
  ASSUME ClosedInv, NEW i \in Calls, DropPin(i)
  PROVE  ClosedInv'
<1> DEFINE u == pins[call[i].pin].uuid
           c == [op |-> call[i].op, name |-> call[i].name, obj |-> call[i].obj, step |-> "unpin",
                 pin |-> call[i].pin, key |-> u]
<1>1. /\ Closed(Now, NoUuid) /\ CallIs(i, call[i], Now)
  BY InvMeans
<1>2. RestOK'
  BY RestStays DEF DropPin
<1>3. CASE Becomes(Now, Done(i))
  BY <1>1, <1>2, <1>3, KeepsNow, DoneStays
<1>4. CASE u # NoUuid /\ Becomes(Now, [call EXCEPT ![i].step = "unpin", ![i].key = u])
  <2>1. call[i].step \in {"drop", "found"}
    BY DEF DropPin
  <2>2. u \in Uuids
    BY <1>1, <1>4, <2>1, NowIs DEF CallIs, Pins
  <2> HIDE DEF u
  <2>3. c \in CallStates
        /\ [call EXCEPT ![i].step = "unpin", ![i].key = u] = [call EXCEPT ![i] = c]
    BY <2>2, UnpinIs
  <2>4. CallIs(i, c, Now)
    BY <1>1, <2>1, <2>2 DEF CallIs
  <2>5. Becomes(Now, [call EXCEPT ![i] = c])
    BY <1>4, <2>3
  <2> HIDE DEF c
  <2>6. QED
    BY <1>1, <1>2, <2>3, <2>4, <2>5, KeepsNow, StepStays
<1>5. QED
  BY <1>3, <1>4 DEF DropPin

LEMMA SavePinStays ==
  ASSUME ClosedInv, NEW i \in Calls, SavePin(i)
  PROVE  ClosedInv'
<1> DEFINE p == call[i].pin
           tree == IF call[i].op = "pinWithoutChildren" THEN pins[p].objects
                   ELSE Traversed(Now, pins[p].objects)
           s == SavedPin(Now, p, tree)
<1>1. /\ Closed(Now, NoUuid) /\ StoreTypes(Now) /\ CallIs(i, call[i], Now)
  BY InvMeans
<1>2. p \in Calls /\ pins[p] \in Pins
  BY <1>1, NowIs DEF SavePin, NextInDatabase, CallIs
<1>3. \A o \in pins[p].objects : o \in Objects /\ held[o] # "absent"
  BY <1>1, <1>2, NowIs DEF Closed, HeldRight, Pins
<1>4. tree \in SUBSET Objects /\ pins[p].objects \subseteq tree /\ \A o \in tree : held[o] # "absent"
  <2>1. \A o \in Objects : held[o] = "data" => \A c \in PointsTo(o) : c \in Objects /\ held[c] # "absent"
    BY <1>1, NowIs DEF Closed, HeldRight, PointsTo, Objects
  <2>2. QED
    BY <1>3, <2>1, NowIs DEF Traversed
<1>5. Spare(Now)
  BY DEF SavePin, Spare
<1>6. Becomes(s, Done(i))
  BY DEF SavePin
<1> HIDE DEF tree, p
<1>7. Closed(s, NoUuid) /\ Holds(Now, s)
  BY <1>1, <1>2, <1>4, <1>5, NowIs, SavedPinCloses
<1> HIDE DEF s
<1>8. Keeps(s, i)
  BY <1>1, <1>7, HoldsKeeps DEF Closed
<1>9. RestOK'
  BY RestStays DEF SavePin, NextInDatabase
<1>10. QED
  BY <1>6, <1>7, <1>8, <1>9, DoneStays

\* Unpinning leaves the instances in memory.
LEMMA UnpinnedHolds ==
  ASSUME NEW s, StoreTypes(s), NEW t, NEW key, Unpinned(s, t, key)
  PROVE  Holds(s, t)
<1>1. \A i \in Calls : s.pins[i] \in Pins \union {NoPin}
  BY DEF StoreTypes
<1>2. \A i \in Calls : t.pins[i] = IF s.pins[i].uuid \in Doomed(s, key)
                                  THEN [s.pins[i] EXCEPT !.uuid = NoUuid] ELSE s.pins[i]
  BY DEF Unpinned
<1>3. \A i \in Calls : [s.pins[i] EXCEPT !.uuid = NoUuid]
                         = [name |-> s.pins[i].name, objects |-> s.pins[i].objects, uuid |-> NoUuid]
  BY <1>1, PinFields
<1>4. t.held = s.held
  BY DEF Unpinned
<1>5. QED
  BY <1>2, <1>3, <1>4 DEF Holds

LEMMA RunUnpinStays ==
  ASSUME ClosedInv, NEW i \in Calls, RunUnpin(i)
  PROVE  ClosedInv'
<1> DEFINE s == UnpinKey(Now, call[i].key)
<1>1. Closed(Now, NoUuid) /\ StoreTypes(Now)
  BY InvMeans
<1>2. Unpinned(Now, s, call[i].key)
  BY <1>1, UnpinFields
<1>3. Becomes(s, Done(i))
  BY DEF RunUnpin
<1> HIDE DEF s
<1>4. Closed(s, NoUuid) /\ Holds(Now, s)
  BY <1>1, <1>2, UnpinCloses, UnpinnedHolds
<1>5. Keeps(s, i)
  BY <1>1, <1>4, HoldsKeeps DEF Closed
<1>6. RestOK'
  BY RestStays DEF RunUnpin, NextInDatabase
<1>7. QED
  BY <1>3, <1>4, <1>5, <1>6, DoneStays

LEMMA LoadObjectStays ==
  ASSUME ClosedInv, NEW o \in Objects, LoadObject(o)
  PROVE  ClosedInv'
<1>1. /\ Closed(Now, NoUuid) /\ StoreTypes(Now) /\ RestOK /\ dangled \in BOOLEAN
      /\ call \in [Calls -> CallStates] /\ \A i \in Calls : CallIs(i, call[i], Now)
  BY InvMeans
<1>2. PICK u \in RowsOf(Now, o) :
        LET instance == IF held[o] = "absent"
                        THEN [Now EXCEPT !.held[o] = "pointer",
                                         !.uuidOf[o] = IF o \in Saved THEN @ ELSE u]
                        ELSE Now
        IN Becomes(Fetched(instance, o), call)
  BY DEF LoadObject
<1> DEFINE m == IF held[o] = "absent"
                THEN [Now EXCEPT !.held[o] = "pointer", !.uuidOf[o] = IF o \in Saved THEN @ ELSE u]
                ELSE Now
           s == Fetched(m, o)
<1>3. Closed(m, NoUuid) /\ m.held[o] # "absent" /\ m.pins = pins
      /\ \A x \in Objects : held[x] # "absent" => m.held[x] # "absent"
  <2>1. CASE held[o] = "absent"
    <3> DEFINE w == [uuidOf EXCEPT ![o] = IF o \in Saved THEN uuidOf[o] ELSE u]
    <3>1. m = [Now EXCEPT !.held = [held EXCEPT ![o] = "pointer"], !.uuidOf = w]
      BY <2>1, NowIs DEF RecordOf
    <3>2. IF o \in Saved THEN w = uuidOf ELSE w = [uuidOf EXCEPT ![o] = u]
      BY <1>1, NowIs DEF StoreTypes
    <3> HIDE DEF m, w
    <3>3. /\ RecordOf(m) /\ m.rows = rows /\ m.deps = deps /\ m.fetched = fetched /\ m.pins = pins
          /\ m.held = [held EXCEPT ![o] = "pointer"] /\ m.uuidOf = w
      BY <3>1, NowIs DEF RecordOf
    <3>4. Reached(Now, m, o)
      BY <2>1, <3>2, <3>3, NowIs DEF Reached
    <3>5. Closed(m, NoUuid)
      BY <1>1, <3>4, ReachedCloses
    <3>6. \A x \in Objects : m.held[x] = IF x = o THEN "pointer" ELSE held[x]
      BY <3>3, <1>1, NowIs DEF StoreTypes
    <3>7. QED
      BY <3>3, <3>5, <3>6
  <2>2. CASE held[o] # "absent"
    BY <2>2, <1>1, NowIs
  <2>3. QED
    BY <2>1, <2>2
<1>4. Becomes(s, call)
  BY <1>2
<1> HIDE DEF m
<1>5. Closed(s, NoUuid) /\ Learns(m, s)
  BY <1>3, FetchedCloses
<1> HIDE DEF s
<1>6. s.pins = pins /\ \A x \in Objects : held[x] # "absent" => s.held[x] # "absent"
  BY <1>3, <1>5 DEF Learns
<1>7. \A i \in Calls : CallIs(i, call[i], s)
  BY <1>1, <1>6, NowIs DEF CallIs
<1>8. RestOK'
  BY <1>1 DEF RestOK, LoadObject, askVars
<1>9. QED
  BY <1>1, <1>4, <1>5, <1>7, <1>8, BecomesStays

\* A promise that fades is still one.
LEMMA FadedIsAsked ==
  ASSUME NEW objects,
         asked \in [PinNames -> [Objects -> {"nothing", "out", "listed", "kept", "deep", "faded"}]]
  PROVE  Faded(objects)
           \in [PinNames -> [Objects -> {"nothing", "out", "listed", "kept", "deep", "faded"}]]
BY DEF Faded

LEMMA ReleaseStays ==
  ASSUME ClosedInv, NEW objects \in SUBSET Objects, Release(objects)
  PROVE  ClosedInv'
<1> DEFINE t == Now'
<1>1. /\ Closed(Now, NoUuid) /\ StoreTypes(Now) /\ RestOK /\ dangled \in BOOLEAN
      /\ call \in [Calls -> CallStates] /\ \A i \in Calls : CallIs(i, call[i], Now)
  BY InvMeans
<1>2. /\ t.rows = rows /\ t.deps = deps /\ t.fetched = fetched \ objects /\ t.pins = pins
      /\ t.held = [o \in Objects |-> IF o \in objects THEN "absent" ELSE held[o]]
      /\ t.uuidOf = [o \in Objects |-> IF o \in objects THEN NoUuid ELSE uuidOf[o]]
      /\ RecordOf(t) /\ t = Now'
  BY DEF Release, diskVars, Now, RecordOf
<1>3. /\ \A p \in Calls : \A o \in pins[p].objects : o \notin objects
      /\ \A o \in objects : \A r \in Objects \ objects : held[r] = "data" => o \notin PointsTo(r)
      /\ \A i \in Calls : call[i].step \in {"waiting", "find", "found"} => call[i].obj \notin objects
  BY DEF Release, Using
<1> HIDE DEF t
<1>4. Closed(t, NoUuid)
  <2>1. StoreTypes(t)
    BY <1>1, <1>2, NowIs DEF StoreTypes, RecordOf
  <2>2. MapsRight(t)
    BY <1>1, <1>2, NowIs, Sorts DEF Closed, MapsRight, IsObject, Known
  <2>3. HeldRight(t)
    <3>1. t.held[Root] = "data" => t.held[Child] # "absent"
      <4>1. Root \in Objects /\ Child \in Objects /\ Child \in PointsTo(Root)
        BY DEF Objects, PointsTo
      <4>2. held[Root] = "data" => held[Child] # "absent"
        BY <1>1, NowIs DEF Closed, HeldRight
      <4>3. QED
        BY <1>2, <1>3, <4>1, <4>2
    <3>2. \A i \in Calls : \A o \in t.pins[i].objects : t.held[o] # "absent"
      <4>1. \A i \in Calls : \A o \in pins[i].objects : o \in Objects /\ held[o] # "absent"
        BY <1>1, NowIs, Sorts DEF Closed, HeldRight, StoreTypes, Pins, NoPin
      <4>2. QED
        BY <1>2, <1>3, <4>1
    <3>3. \A u \in RowsOf(t, Root) : t.rows[u].data =>
            \/ Child \in t.rows[u].points
            \/ \E r \in t.rows[u].points \intersect Uuids :
                  t.rows[r] = NoRow \/ t.rows[r].of = Child
      BY <1>1, <1>2, NowIs DEF Closed, HeldRight, RowsOf
    <3>4. QED
      BY <3>1, <3>2, <3>3 DEF HeldRight
  <2>4. DepsRight(t)
    BY <1>1, <1>2, NowIs DEF Closed, DepsRight, IsPin, IsObject
  <2>5. \A u \in Uuids : IsPin(t, u) /\ u # NoUuid => PinRow(t, u)
    BY <1>1, <1>2, NowIs DEF Closed, PinRow, IsPin, IsObject
  <2>6. QED
    BY <2>1, <2>2, <2>3, <2>4, <2>5 DEF Closed
<1>5. call' \in [Calls -> CallStates] /\ \A i \in Calls : CallIs(i, call'[i], t)
  <2>1. call' = call
    BY DEF Release
  <2>2. \A i \in Calls : call[i].step \in {"waiting", "find", "found"} /\ call[i].op # "unpinAll" =>
          call[i].obj \in Objects /\ t.held[call[i].obj] # "absent"
    BY <1>1, <1>2, <1>3, NowIs DEF CallIs
  <2>3. QED
    BY <1>1, <1>2, <2>1, <2>2, NowIs DEF CallIs
<1>6. RestOK'
  <2>1. lapses' \in 0 .. MaxLapses
    BY <1>1, StoreAssumption DEF RestOK, Release
  <2>2. asked' = Faded(objects) /\ UNCHANGED <<dbQueue, overlapped>>
    BY DEF Release
  <2>3. QED
    BY <1>1, <2>1, <2>2, FadedIsAsked DEF RestOK
<1>7. dangled' \in BOOLEAN
  BY <1>1 DEF Release
<1>8. QED
  BY <1>2, <1>4, <1>5, <1>6, <1>7, StateStays

LEMMA DieAndReopenStays ==
  ASSUME ClosedInv, DieAndReopen
  PROVE  ClosedInv'
<1> DEFINE t == Now'
<1>1. /\ Closed(Now, NoUuid) /\ StoreTypes(Now) /\ RestOK /\ dangled \in BOOLEAN
      /\ call \in [Calls -> CallStates] /\ \A i \in Calls : CallIs(i, call[i], Now)
  BY InvMeans
<1>2. /\ t.rows = rows /\ t.deps = deps /\ t.held = [o \in Objects |-> "absent"] /\ t.fetched = {}
      /\ t.uuidOf = [o \in Objects |-> NoUuid] /\ t.pins = [i \in Calls |-> NoPin]
      /\ RecordOf(t) /\ t = Now'
  BY DEF DieAndReopen, diskVars, Now, RecordOf
<1> HIDE DEF t
<1>3. Closed(t, NoUuid)
  <2>1. StoreTypes(t)
    BY <1>1, <1>2, NowIs DEF StoreTypes, RecordOf
  <2>2. MapsRight(t)
    <3>1. \A o \in Objects : ~Known(t, o)
      BY <1>2 DEF Known
    <3>2. \A v, w \in Uuids : IsObject(t, v) /\ t.rows[w].of = t.rows[v].of => v = w
      BY <1>1, <1>2, NowIs DEF Closed, MapsRight, IsObject
    <3>3. QED
      BY <1>2, <3>1, <3>2, Sorts DEF MapsRight
  <2>3. HeldRight(t)
    <3>1. Root \in Objects
      BY DEF Objects
    <3>2. QED
      BY <1>1, <1>2, <3>1, NowIs, Sorts DEF Closed, HeldRight, RowsOf
  <2>4. DepsRight(t)
    BY <1>1, <1>2, NowIs DEF Closed, DepsRight, IsPin, IsObject
  <2>5. \A u \in Uuids : IsPin(t, u) /\ u # NoUuid => PinRow(t, u)
    BY <1>1, <1>2, NowIs DEF Closed, PinRow, IsPin, IsObject
  <2>6. QED
    BY <2>1, <2>2, <2>3, <2>4, <2>5 DEF Closed
<1> DEFINE d == [NoCall EXCEPT !.step = "done"]
<1>4. d = [op |-> "none", name |-> "none", obj |-> "none", step |-> "done", pin |-> 0, key |-> NoUuid]
  BY DEF NoCall
<1>5. d \in CallStates /\ \A i \in Calls : CallIs(i, d, t)
  BY <1>4 DEF CallStates, CallIs
<1>6. call' = [i \in Calls |-> IF InFlight(i) THEN d ELSE call[i]]
  BY DEF DieAndReopen
<1> HIDE DEF d
<1>7. call' \in [Calls -> CallStates]
  BY <1>1, <1>5, <1>6
<1>8. \A i \in Calls : CallIs(i, call'[i], t)
  BY <1>1, <1>2, <1>5, <1>6 DEF CallIs, InFlight
<1>9. RestOK'
  <2>1. dbQueue' \in Seq(Calls)
    BY DEF DieAndReopen
  <2>2. lapses' \in 0 .. MaxLapses
    BY <1>1, StoreAssumption DEF RestOK, DieAndReopen
  <2>3. asked' \in [PinNames -> [Objects -> {"nothing", "out", "listed", "kept", "deep", "faded"}]]
    <3> DEFINE g(n) == [o \in Objects |->
                    IF \E i \in Calls : /\ InFlight(i) /\ call[i].name = n
                                        /\ call[i].obj = o \/ call[i].op = "unpinAll"
                    THEN "nothing" ELSE Faded(Objects)[n][o]]
    <3>1. ASSUME NEW n \in PinNames
          PROVE  g(n) \in [Objects -> {"nothing", "out", "listed", "kept", "deep", "faded"}]
      <4>1. Faded(Objects) \in [PinNames -> [Objects -> {"nothing", "out", "listed", "kept", "deep", "faded"}]]
        BY <1>1, FadedIsAsked DEF RestOK
      <4>2. QED
        BY <4>1
    <3>2. asked' = [n \in PinNames |-> g(n)]
      BY DEF DieAndReopen
    <3> HIDE DEF g
    <3>3. QED
      BY <3>1, <3>2
  <2>4. overlapped' \in [PinNames -> {"no", "pins", "unpins"}]
    BY <1>1 DEF RestOK, DieAndReopen
  <2>5. QED
    BY <2>1, <2>2, <2>3, <2>4 DEF RestOK
<1>10. dangled' \in BOOLEAN
  BY <1>1 DEF DieAndReopen
<1>11. QED
  BY <1>2, <1>3, <1>7, <1>8, <1>9, <1>10, StateStays

\* The invariant holds at first.
LEMMA ClosedInvInit ==
  ASSUME StoreInit
  PROVE  ClosedInv
<1>1. StoreTypeOK
  <2>1. NoCall \in CallStates
    BY DEF NoCall, CallStates
  <2>2. 0 \in 0 .. MaxLapses
    BY StoreAssumption
  <2>3. /\ rows \in [Uuids -> Rows \union {NoRow}] /\ deps \subseteq Uuids \X Uuids
        /\ held \in [Objects -> {"absent", "pointer", "data"}] /\ fetched \subseteq Objects
        /\ uuidOf \in [Objects -> Uuids \union {NoUuid}] /\ pins \in [Calls -> Pins \union {NoPin}]
    BY DEF StoreInit
  <2>4. call \in [Calls -> CallStates] /\ dbQueue \in Seq(Calls) /\ lapses \in 0 .. MaxLapses
    BY <2>1, <2>2 DEF StoreInit
  <2>5. /\ asked \in [PinNames -> [Objects -> {"nothing", "out", "listed", "kept", "deep", "faded"}]]
        /\ overlapped \in [PinNames -> {"no", "pins", "unpins"}] /\ dangled \in BOOLEAN
    BY DEF StoreInit
  <2>6. QED
    BY <2>3, <2>4, <2>5 DEF StoreTypeOK
<1>2. StoreTypes(Now)
  BY <1>1, TypesAre
<1>3. /\ Now.rows = [u \in Uuids |-> NoRow] /\ Now.deps = {}
      /\ Now.held = [o \in Objects |-> "data"] /\ Now.fetched = {}
      /\ Now.uuidOf = [o \in Objects |-> NoUuid] /\ Now.pins = [i \in Calls |-> NoPin]
  BY NowIs DEF StoreInit
<1>4. \A u \in Uuids : ~IsObject(Now, u) /\ ~IsPin(Now, u)
  BY <1>3, Sorts DEF IsObject, IsPin
<1>5. MapsRight(Now)
  BY <1>3, <1>4, Sorts DEF MapsRight, IsObject
<1>6. HeldRight(Now)
  <2>1. Now.held[Root] = "data" => Now.held[Child] # "absent"
    BY <1>3 DEF Objects
  <2>2. QED
    BY <2>1, <1>3, Sorts DEF HeldRight, RowsOf
<1>7. DepsRight(Now)
  BY <1>3, Sorts DEF DepsRight
<1>8. CallsRight
  BY DEF StoreInit, CallsRight, InFlight, NoCall
<1>9. QED
  BY <1>1, <1>2, <1>4, <1>5, <1>6, <1>7, <1>8 DEF ClosedInv, Closed

\* No step breaks the invariant.
LEMMA ClosedInvStays ==
  ASSUME ClosedInv, [StoreNext]_storeVars
  PROVE  ClosedInv'
<1>1. ASSUME NEW i \in Calls, NEW n \in PinNames, NEW o \in {Root, Other},
             NEW op \in PinOps \union {"unpin"}, Call(i, op, n, o)
      PROVE  ClosedInv'
  <2>1. o \in Objects /\ op \in {"pin", "pinWithoutChildren", "unpin", "unpinAll"}
    BY DEF Objects, PinOps
  <2>2. QED
    BY <1>1, <2>1, CallStays
<1>2. ASSUME NEW i \in Calls, NEW n \in PinNames, Call(i, "unpinAll", n, "none")
      PROVE  ClosedInv'
  BY <1>2, CallStays
<1>3. CASE UNCHANGED storeVars
  BY <1>3 DEF storeVars, diskVars, memoryVars, askVars, ClosedInv, StoreTypeOK, CallsRight, InFlight, Closed,
              StoreTypes, MapsRight, HeldRight, DepsRight, PinRow, IsObject, IsPin, Known, RowsOf, Now
<1>4. QED
  BY <1>1, <1>2, <1>3, QueryStays, FindPinStays, ChangePinStays, ChangeUnpinStays, DropPinStays,
     SavePinStays, RunUnpinStays, LoadObjectStays, ReleaseStays, DieAndReopenStays DEF StoreNext

\* The invariant implies the property.
LEMMA ClosedInvImplies ==
  ASSUME ClosedInv
  PROVE  StoreIsClosed
<1>1. Closed(Now, NoUuid)
  BY InvMeans
<1>2. \A d \in deps : rows[d[1]] # NoRow /\ rows[d[2]] # NoRow
  BY <1>1, NowIs, Sorts DEF Closed, DepsRight, IsPin, IsObject
<1>3. ASSUME NEW u \in Uuids, rows[u] # NoRow, rows[u].data
      PROVE  /\ \E d \in deps : d[2] = u
             /\ rows[u].of \in PinNames => ~Dangles(rows, u)
             /\ rows[u].of \in Objects => \A v \in RowsOf(Now, rows[u].of) : rows[v].data => v = u
  <2>1. \E d \in deps : d[2] = u
    BY <1>1, <1>3, NowIs DEF Closed, DepsRight
  <2>2. rows[u].of \in PinNames => ~Dangles(rows, u)
    BY <1>1, NowIs, Sorts DEF Closed, PinRow, IsPin, IsObject, Dangles
  <2>3. rows[u].of \in Objects => \A v \in RowsOf(Now, rows[u].of) : v = u
    BY <1>1, NowIs DEF Closed, MapsRight, IsObject, RowsOf
  <2>4. QED
    BY <2>1, <2>2, <2>3
<1>4. \A o \in Objects : uuidOf[o] # NoUuid => rows[uuidOf[o]].of = o
  BY <1>1, NowIs DEF Closed, MapsRight
<1>5. QED
  BY <1>2, <1>3, <1>4 DEF StoreIsClosed

\* However pins, unpins and queries of any objects under any names follow each
\* other, whenever objects are let go of and whenever the process dies, a
\* dependency has both its rows, data is
\* kept by some dependency and is stored once, a pin has its rows, and a uuid in
\* memory is that of a row of the object (PFOfflineStore _unpinKeyAsync:,
\* getOrCreateUUIDAsyncForObject:).
THEOREM StoreStaysClosed == StoreSpec => []StoreIsClosed
<1>1. StoreSpec => []ClosedInv
  BY ClosedInvInit, ClosedInvStays, PTL DEF StoreSpec
<1>2. QED
  BY <1>1, ClosedInvImplies, PTL
=============================================================================
