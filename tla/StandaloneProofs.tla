-------------------------- MODULE StandaloneProofs --------------------------
(***************************************************************************)
(* Proofs about the components of MCStandalone: the locks of several       *)
(* processes, the local id store, the names of command files, reachability *)
(* and the key-value cache, each for every value of its constants.  Every  *)
(* one has an inductive invariant of its own; the last theorem puts their  *)
(* types together.                                                         *)
(***************************************************************************)
EXTENDS MCStandalone, TLAPS, SequenceTheorems

-----------------------------------------------------------------------------
(* The names of command files.  A name is compared with the next one, so the
   invariant says that names are older than the clock and counter are now. *)

\* A name that exists is older than the next one of the same era will be, and
\* eras do not go back.
NamesAreOld ==
  \A i \in DOMAIN files :
    /\ files[i].era <= era
    /\ files[i].era = era => files[i].time < now \/ (files[i].time = now /\ files[i].counter < counter)

ErasInOrder == \A i, j \in DOMAIN files : i < j => files[i].era <= files[j].era

NamesInv == Identifiers!TypeOK /\ NamesAreOld /\ ErasInOrder /\ OldestFirst

\* A sequence from which element i is removed.
Without(s, i) == SubSeq(s, 1, i - 1) \o SubSeq(s, i + 1, Len(s))

LEMMA Removed ==
  ASSUME NEW S, NEW s \in Seq(S), NEW i \in DOMAIN s
  PROVE  /\ Without(s, i) \in Seq(S) /\ Len(Without(s, i)) = Len(s) - 1 /\ Len(s) \in Nat
         /\ DOMAIN s = 1 .. Len(s) /\ DOMAIN Without(s, i) = 1 .. Len(s) - 1
         /\ \A j \in 1 .. Len(s) - 1 : Without(s, i)[j] = IF j < i THEN s[j] ELSE s[j + 1]
<1> DEFINE r == Without(s, i)
<1> DEFINE a == SubSeq(s, 1, i - 1)
           b == SubSeq(s, i + 1, Len(s))
           n == Len(s)
<1>1. n \in Nat /\ i \in 1 .. n /\ DOMAIN s = 1 .. n
  OBVIOUS
<1>2. a \in Seq(S) /\ Len(a) = i - 1 /\ \A j \in 1 .. i - 1 : a[j] = s[j]
  BY <1>1
<1>3. b \in Seq(S) /\ Len(b) = n - i /\ \A j \in 1 .. n - i : b[j] = s[i + j]
  BY <1>1
<1> HIDE DEF a, b, n
<1>4. r = a \o b
  BY DEF a, b, Without
<1> HIDE DEF r
<1>5. r \in Seq(S) /\ Len(r) = Len(a) + Len(b) /\ DOMAIN r = 1 .. Len(r)
  <2>1. a \o b \in Seq(S) /\ Len(a \o b) = Len(a) + Len(b)
    BY <1>2, <1>3, ConcatProperties
  <2>2. r \in Seq(S) /\ Len(r) = Len(a) + Len(b)
    BY <1>4, <2>1, Zenon
  <2>3. QED
    BY <2>2
<1>6. \A j \in 1 .. Len(a) + Len(b) : r[j] = IF j <= Len(a) THEN a[j] ELSE b[j - Len(a)]
  <2>1. \A j \in 1 .. Len(a) + Len(b) : (a \o b)[j] = IF j <= Len(a) THEN a[j] ELSE b[j - Len(a)]
    BY <1>2, <1>3, ConcatProperties
  <2>2. QED
    BY <1>4, <2>1, Zenon
<1>7. Len(r) = n - 1
  BY <1>1, <1>2, <1>3, <1>5
<1>8. ASSUME NEW j \in 1 .. n - 1 PROVE r[j] = IF j < i THEN s[j] ELSE s[j + 1]
  <2>1. CASE j < i
    <3>1. j \in 1 .. i - 1 /\ j \in 1 .. (i - 1) + (n - i) /\ j <= i - 1
      BY <1>1, <2>1
    <3>2. QED
      BY <1>2, <1>3, <1>6, <2>1, <3>1
  <2>2. CASE ~(j < i)
    <3>1. /\ j - (i - 1) \in 1 .. n - i /\ i + (j - (i - 1)) = j + 1
          /\ j \in 1 .. (i - 1) + (n - i) /\ ~(j <= i - 1)
      BY <1>1, <2>2
    <3>2. QED
      BY <1>2, <1>3, <1>6, <2>2, <3>1
  <2>3. QED
    BY <2>1, <2>2
<1>9. QED
  BY <1>1, <1>5, <1>7, <1>8 DEF n, r

LEMMA NamesInvInit == Identifiers!Init => NamesInv
BY NameAssumption DEF Identifiers!Init, NamesInv, Identifiers!TypeOK, NamesAreOld, ErasInOrder,
   OldestFirst,
   Identifiers!OldestFirst

\* The types of names, and what they are compared by.
LEMMA NameTypes ==
  ASSUME Identifiers!TypeOK
  PROVE  /\ now \in Nat /\ counter \in Nat /\ era \in Nat /\ files \in Seq(Identifiers!FileNames)
         /\ \A n \in Identifiers!FileNames : n.time \in Nat /\ n.counter \in Nat /\ n.era \in Nat
         /\ \A i \in DOMAIN files : files[i] \in Identifiers!FileNames
<1>1. now \in Nat /\ counter \in Nat /\ era \in Nat /\ files \in Seq(Identifiers!FileNames)
  BY NameAssumption DEF Identifiers!TypeOK
<1>2. \A n \in Identifiers!FileNames : n.time \in Nat /\ n.counter \in Nat /\ n.era \in Nat
  BY NameAssumption DEF Identifiers!FileNames
<1>3. QED
  BY <1>1, <1>2

LEMMA NewIdentifierKeeps ==
  ASSUME NamesInv, Identifiers!NewIdentifier
  PROVE  NamesInv'
<1> DEFINE n == [time |-> now, counter |-> counter, era |-> era]
<1>1. n \in Identifiers!FileNames /\ n.time = now /\ n.counter = counter /\ n.era = era
  BY DEF NamesInv, Identifiers!TypeOK, Identifiers!FileNames
<1>2. /\ files' = Append(files, n) /\ counter' = counter + 1 /\ now' = now /\ era' = era
      /\ Len(files) < MaxCommands /\ counter < MaxCounter
  BY DEF Identifiers!NewIdentifier
<1> HIDE DEF n
<1>3. /\ files' \in Seq(Identifiers!FileNames) /\ Len(files') = Len(files) + 1 /\ Len(files) \in Nat
      /\ DOMAIN files = 1 .. Len(files) /\ DOMAIN files' = 1 .. Len(files) + 1
      /\ \A i \in DOMAIN files : files'[i] = files[i]
      /\ files'[Len(files) + 1] = n
  BY <1>1, <1>2, NameTypes DEF NamesInv
<1>4. \A i \in DOMAIN files' : i \in DOMAIN files \/ i = Len(files) + 1
  BY <1>3
<1>5. Identifiers!TypeOK'
  BY <1>2, <1>3, NameAssumption DEF NamesInv, Identifiers!TypeOK, Identifiers!FileNames
<1>6. NamesAreOld'
  BY <1>1, <1>2, <1>3, <1>4, NameTypes DEF NamesInv, NamesAreOld
<1>7. \A i, j \in DOMAIN files' : i < j => i \in DOMAIN files
  BY <1>3
<1>8. ErasInOrder'
  BY <1>1, <1>3, <1>4, <1>7, NameTypes DEF NamesInv, NamesAreOld, ErasInOrder
<1>9. OldestFirst'
  <2> SUFFICES ASSUME NEW i \in DOMAIN files', NEW j \in DOMAIN files', i < j, files'[i].era = files'[j].era
               PROVE  Identifiers!SortsBefore(files'[i], files'[j])
    BY DEF OldestFirst, Identifiers!OldestFirst, Identifiers!SortsBefore
  <2>1. i \in DOMAIN files /\ files'[i] = files[i]
    BY <1>3, <1>7
  <2>2. CASE j \in DOMAIN files
    BY <1>3, <2>1, <2>2 DEF NamesInv, OldestFirst, Identifiers!OldestFirst
  <2>3. CASE j = Len(files) + 1
    BY <1>1, <1>3, <2>1, <2>3 DEF NamesInv, NamesAreOld, Identifiers!SortsBefore
  <2>4. QED
    BY <1>4, <2>2, <2>3
<1>10. QED
  BY <1>5, <1>6, <1>8, <1>9 DEF NamesInv

LEMMA RemoveFileKeeps ==
  ASSUME NamesInv, Identifiers!RemoveFile
  PROVE  NamesInv'
<1>1. PICK x \in DOMAIN files : files' = Without(files, x)
  BY DEF Identifiers!RemoveFile, Identifiers!RemoveAt, Without
<1>2. now' = now /\ counter' = counter /\ era' = era /\ files \in Seq(Identifiers!FileNames)
  BY NameTypes DEF Identifiers!RemoveFile, NamesInv
<1>3. /\ files' \in Seq(Identifiers!FileNames) /\ Len(files') = Len(files) - 1 /\ Len(files) \in Nat
      /\ DOMAIN files = 1 .. Len(files) /\ DOMAIN files' = 1 .. Len(files) - 1
      /\ \A j \in 1 .. Len(files) - 1 : files'[j] = IF j < x THEN files[j] ELSE files[j + 1]
  BY <1>1, <1>2, Removed
<1> DEFINE old(j) == IF j < x THEN j ELSE j + 1
<1>4. \A j \in DOMAIN files' : old(j) \in DOMAIN files /\ files'[j] = files[old(j)]
  BY <1>3
<1>5. \A i, j \in DOMAIN files' : i < j => old(i) < old(j)
  BY <1>3
<1> HIDE DEF old
<1>6. Identifiers!TypeOK'
  BY <1>2, <1>3, NameAssumption DEF NamesInv, Identifiers!TypeOK, Identifiers!FileNames
<1>7. NamesAreOld' /\ ErasInOrder'
  BY <1>2, <1>4, <1>5 DEF NamesInv, NamesAreOld, ErasInOrder
<1>8. OldestFirst'
  BY <1>2, <1>4, <1>5 DEF NamesInv, OldestFirst, Identifiers!OldestFirst, Identifiers!SortsBefore
<1>9. QED
  BY <1>6, <1>7, <1>8 DEF NamesInv

\* The clock moves, or the application begins again.
LEMMA ClockKeeps ==
  ASSUME NamesInv, Identifiers!Tick \/ Identifiers!SetClockBack \/ Identifiers!Reopen
  PROVE  NamesInv'
<1>1. files' = files
  BY DEF Identifiers!Tick, Identifiers!SetClockBack, Identifiers!Reopen
<1>2. /\ now' \in 0 .. MaxTime /\ counter' \in 0 .. MaxCounter /\ era' \in 0 .. MaxDisturbances
      /\ era' > era \/ (era' = era /\ now' > now)
  BY SMTT(30), NameAssumption DEF NamesInv, Identifiers!TypeOK, Identifiers!Tick,
     Identifiers!SetClockBack, Identifiers!Reopen
<1>3. Identifiers!TypeOK'
  BY <1>1, <1>2 DEF NamesInv, Identifiers!TypeOK, Identifiers!FileNames
<1>4. NamesAreOld'
  BY <1>1, <1>2, NameTypes DEF NamesInv, NamesAreOld
<1>5. ErasInOrder' /\ OldestFirst'
  BY <1>1 DEF NamesInv, ErasInOrder, OldestFirst, Identifiers!OldestFirst, Identifiers!SortsBefore
<1>6. QED
  BY <1>3, <1>4, <1>5 DEF NamesInv

LEMMA NamesInvStep == NamesInv /\ [Identifiers!Next]_(Identifiers!vars) => NamesInv'
<1> SUFFICES ASSUME NamesInv, [Identifiers!Next]_(Identifiers!vars) PROVE NamesInv'
  OBVIOUS
<1>1. CASE UNCHANGED Identifiers!vars
  BY <1>1 DEF Identifiers!vars, NamesInv, NamesAreOld, ErasInOrder, Identifiers!TypeOK,
     Identifiers!FileNames,
     OldestFirst, Identifiers!OldestFirst, Identifiers!SortsBefore
<1>2. CASE Identifiers!Next
  BY <1>2, NewIdentifierKeeps, RemoveFileKeeps, ClockKeeps DEF Identifiers!Next
<1>3. QED
  BY <1>1, <1>2

LEMMA NamesInvAlways == AllSpec => []NamesInv
<1>1. AllInit => NamesInv
  BY NamesInvInit DEF AllInit
<1>2. [AllNext]_allVars => [Identifiers!Next]_(Identifiers!vars)
  BY DEF AllNext, allVars, nameVars, Identifiers!vars
<1>3. QED
  BY <1>1, <1>2, NamesInvStep, PTL DEF AllSpec

(***************************************************************************)
(* The names of command files sort in the order of storing, for any number *)
(* of commands, clock readings and counter wraps, as long as the           *)
(* disturbances are told apart by eras (PFCommandCache, the file identifiers).*)
(***************************************************************************)
THEOREM NamesSortByAge == AllSpec => []OldestFirst
BY NamesInvAlways, PTL DEF NamesInv

-----------------------------------------------------------------------------
(* Reachability.  That the last state wins is not inductive: a notification
   under way must report the flags there are, the last flags to be stored must
   be those of the network, and a queue that is right may be so only because a
   block is still to come. *)

Calls == {"add", "read", "remove"}

\* A block by which a listener is still to be told of the flags.
PendingIn(q, l) ==
  \E i \in DOMAIN q : \/ q[i].kind = "setFlags"
                      \/ q[i].kind = "notify" /\ (~q[i].started \/ q[i].listener = l \/ l \in q[i].todo)

\* A notification that has started reports the flags, and no barrier is before it.
NotificationsAreRight(q, fl) ==
  \A i \in DOMAIN q :
    /\ q[i].started => /\ q[i].kind = "notify" /\ q[i].state = fl
                       /\ \A j \in DOMAIN q : j < i => q[j].kind \notin Reach!Barriers
    /\ q[i].kind = "notify" /\ (q[i].listener # None \/ q[i].todo # {}) => q[i].started

\* The last flags that are to be stored are those of the network.
LastFlagsAreRight(q, net, fl) ==
  /\ (\A i \in DOMAIN q : q[i].kind # "setFlags") => fl = net
  /\ \A i \in DOMAIN q :
       q[i].kind = "setFlags" /\ (\A j \in DOMAIN q : j > i => q[j].kind # "setFlags") => q[i].state = net

\* The blocks of the calls of a queue go with how far it is.
CallsGo(q, cl) ==
  /\ \A i \in DOMAIN q : q[i].kind \in Calls => q[i].listener \in Listeners /\ cl[q[i].listener] = q[i].kind
  /\ \A i, j \in DOMAIN q : i # j /\ q[i].kind \in Calls /\ q[j].kind \in Calls => q[i].listener # q[j].listener

MonitorsGo ==
  \A l \in Listeners :
    client[l] \in {"add", "read", "apply", "monitoring", "remove", "unlisted"} => l \in monitors

\* A listed queue that nobody is still to tell of the flags knows them.
InformedUnlessPending ==
  \A l \in Listeners :
    l \in alive /\ l \in listeners /\ l \notin overtaken /\ ~PendingIn(blocks, l) =>
      /\ client[l] = "apply" => read[l] = flags
      /\ client[l] = "monitoring" => (l \in connected <=> flags)

ReachInv ==
  /\ Reach!TypeOK /\ NotificationsAreRight(blocks, flags) /\ LastFlagsAreRight(blocks, network, flags)
  /\ CallsGo(blocks, client) /\ MonitorsGo /\ InformedUnlessPending

\* Where the elements of a sequence are once element i is removed, and were.
Old(i, j) == IF j < i THEN j ELSE j + 1
New(i, j) == IF j < i THEN j ELSE j - 1

LEMMA WithoutOrder ==
  ASSUME NEW S, NEW q \in Seq(S), NEW i \in DOMAIN q
  PROVE  /\ Without(q, i) \in Seq(S)
         /\ \A j \in DOMAIN Without(q, i) : Old(i, j) \in DOMAIN q \ {i} /\ Without(q, i)[j] = q[Old(i, j)]
         /\ \A j \in DOMAIN q \ {i} : New(i, j) \in DOMAIN Without(q, i) /\ Without(q, i)[New(i, j)] = q[j]
         /\ \A j, k \in DOMAIN Without(q, i) : j < k => Old(i, j) < Old(i, k)
         /\ \A j, k \in DOMAIN Without(q, i) : j # k => Old(i, j) # Old(i, k)
         /\ \A j \in DOMAIN Without(q, i) : \A k \in DOMAIN q \ {i} : k > Old(i, j) => New(i, k) > j
<1> DEFINE n == Len(q)
           w == Without(q, i)
<1>1. /\ w \in Seq(S) /\ n \in Nat /\ DOMAIN q = 1 .. n /\ DOMAIN w = 1 .. n - 1 /\ i \in 1 .. n
      /\ \A j \in 1 .. n - 1 : w[j] = IF j < i THEN q[j] ELSE q[j + 1]
  BY Removed
<1> HIDE DEF w, n
<1>2. \A j \in DOMAIN w : Old(i, j) \in DOMAIN q \ {i} /\ w[j] = q[Old(i, j)]
  BY <1>1 DEF Old
<1>3. ASSUME NEW j \in DOMAIN q \ {i} PROVE New(i, j) \in DOMAIN w /\ w[New(i, j)] = q[j]
  <2>1. j \in 1 .. n /\ j # i
    BY <1>1
  <2>2. CASE j < i
    <3>1. New(i, j) = j /\ j \in 1 .. n - 1
      BY <1>1, <2>1, <2>2 DEF New
    <3>2. QED
      BY <1>1, <2>2, <3>1
  <2>3. CASE ~(j < i)
    <3>1. New(i, j) = j - 1 /\ j - 1 \in 1 .. n - 1 /\ ~(j - 1 < i) /\ (j - 1) + 1 = j
      BY <1>1, <2>1, <2>3 DEF New
    <3>2. QED
      BY <1>1, <3>1
  <2>4. QED
    BY <2>2, <2>3
<1>4. \A j, k \in DOMAIN w : (j < k => Old(i, j) < Old(i, k)) /\ (j # k => Old(i, j) # Old(i, k))
  BY <1>1 DEF Old
<1>5. \A j \in DOMAIN w : \A k \in DOMAIN q \ {i} : k > Old(i, j) => New(i, k) > j
  BY <1>1 DEF Old, New
<1>6. QED
  BY <1>1, <1>2, <1>3, <1>4, <1>5 DEF w

LEMMA Appended ==
  ASSUME NEW S, NEW q \in Seq(S), NEW b \in S
  PROVE  /\ Append(q, b) \in Seq(S) /\ Len(q) \in Nat /\ Len(Append(q, b)) = Len(q) + 1
         /\ DOMAIN q = 1 .. Len(q) /\ DOMAIN Append(q, b) = 1 .. Len(q) + 1
         /\ Len(q) + 1 \in DOMAIN Append(q, b) /\ Append(q, b)[Len(q) + 1] = b
         /\ \A j \in DOMAIN Append(q, b) : j # Len(q) + 1 => j \in DOMAIN q
         /\ \A j \in DOMAIN q : /\ j \in DOMAIN Append(q, b) /\ Append(q, b)[j] = q[j]
                                /\ j # Len(q) + 1 /\ j < Len(q) + 1
OBVIOUS

\* A block that is appended.
LEMMA AppendKeepsNotifications ==
  ASSUME NEW q \in Seq(Reach!Blocks), NEW b \in Reach!Blocks, NEW fl,
         ~b.started, b.kind = "notify" => b.listener = None /\ b.todo = {},
         NotificationsAreRight(q, fl)
  PROVE  NotificationsAreRight(Append(q, b), fl)
<1> DEFINE w == Append(q, b)
           n == Len(q)
<1>1. /\ n \in Nat /\ DOMAIN q = 1 .. n /\ DOMAIN w = 1 .. n + 1 /\ w[n + 1] = b
      /\ \A j \in DOMAIN w : j # n + 1 => j \in DOMAIN q
      /\ \A j \in DOMAIN q : j \in DOMAIN w /\ w[j] = q[j] /\ j # n + 1 /\ j < n + 1
  BY Appended
<1> HIDE DEF w, n
<1>2. ASSUME NEW i \in DOMAIN w
      PROVE  /\ w[i].started => /\ w[i].kind = "notify" /\ w[i].state = fl
                                /\ \A j \in DOMAIN w : j < i => w[j].kind \notin Reach!Barriers
             /\ w[i].kind = "notify" /\ (w[i].listener # None \/ w[i].todo # {}) => w[i].started
  <2>1. CASE i = n + 1
    BY <1>1, <2>1
  <2>2. CASE i \in DOMAIN q
    <3>1. \A j \in DOMAIN w : j < i => j \in DOMAIN q
      BY <1>1, <2>2
    <3>2. QED
      BY <1>1, <2>2, <3>1 DEF NotificationsAreRight
  <2>3. QED
    BY <1>1, <2>1, <2>2
<1>3. QED
  BY <1>2 DEF NotificationsAreRight, w

LEMMA AppendKeepsFlags ==
  ASSUME NEW q \in Seq(Reach!Blocks), NEW b \in Reach!Blocks, NEW net, NEW fl,
         \/ b.kind # "setFlags" /\ LastFlagsAreRight(q, net, fl)
         \/ b.kind = "setFlags" /\ b.state = net
  PROVE  LastFlagsAreRight(Append(q, b), net, fl)
<1> DEFINE w == Append(q, b)
           n == Len(q)
<1>1. /\ n \in Nat /\ DOMAIN q = 1 .. n /\ DOMAIN w = 1 .. n + 1 /\ w[n + 1] = b /\ n + 1 \in DOMAIN w
      /\ \A j \in DOMAIN w : j # n + 1 => j \in DOMAIN q
      /\ \A j \in DOMAIN q : j \in DOMAIN w /\ w[j] = q[j] /\ j # n + 1 /\ j < n + 1 /\ n + 1 > j
  BY Appended
<1> HIDE DEF w, n
<1>2. CASE b.kind = "setFlags" /\ b.state = net
  BY <1>1, <1>2 DEF LastFlagsAreRight, w
<1>3. CASE b.kind # "setFlags" /\ LastFlagsAreRight(q, net, fl)
  <2>1. (\A i \in DOMAIN w : w[i].kind # "setFlags") => fl = net
    BY <1>1, <1>3 DEF LastFlagsAreRight
  <2>2. ASSUME NEW i \in DOMAIN w, w[i].kind = "setFlags", \A j \in DOMAIN w : j > i => w[j].kind # "setFlags"
        PROVE  w[i].state = net
    <3>1. i \in DOMAIN q
      BY <1>1, <1>3, <2>2
    <3>2. QED
      BY <1>1, <1>3, <2>2, <3>1 DEF LastFlagsAreRight
  <2>3. QED
    BY <2>1, <2>2 DEF LastFlagsAreRight, w
<1>4. QED
  BY <1>2, <1>3

LEMMA AppendKeepsCalls ==
  ASSUME NEW q \in Seq(Reach!Blocks), NEW b \in Reach!Blocks, NEW cl, CallsGo(q, cl),
         b.kind \in Calls => /\ b.listener \in Listeners /\ cl[b.listener] = b.kind
                             /\ \A i \in DOMAIN q : q[i].kind \in Calls => q[i].listener # b.listener
  PROVE  CallsGo(Append(q, b), cl)
<1> DEFINE w == Append(q, b)
           n == Len(q)
<1>1. /\ w[n + 1] = b
      /\ \A j \in DOMAIN w : j # n + 1 => j \in DOMAIN q
      /\ \A j \in DOMAIN q : j \in DOMAIN w /\ w[j] = q[j] /\ j # n + 1
  BY Appended
<1> HIDE DEF w, n
<1>2. \A i \in DOMAIN w : w[i].kind \in Calls => w[i].listener \in Listeners /\ cl[w[i].listener] = w[i].kind
  BY <1>1 DEF CallsGo
<1>3. \A i, j \in DOMAIN w : i # j /\ w[i].kind \in Calls /\ w[j].kind \in Calls => w[i].listener # w[j].listener
  BY <1>1 DEF CallsGo
<1>4. QED
  BY <1>2, <1>3 DEF CallsGo, w

LEMMA AppendKeepsPending ==
  ASSUME NEW q \in Seq(Reach!Blocks), NEW b \in Reach!Blocks, NEW l
  PROVE  /\ PendingIn(q, l) => PendingIn(Append(q, b), l)
         /\ b.kind = "setFlags" \/ (b.kind = "notify" /\ ~b.started) => PendingIn(Append(q, b), l)
<1> DEFINE w == Append(q, b)
           n == Len(q)
<1>1. /\ w[n + 1] = b /\ n + 1 \in DOMAIN w
      /\ \A j \in DOMAIN q : j \in DOMAIN w /\ w[j] = q[j]
  BY Appended
<1> HIDE DEF w, n
<1>2. QED
  BY <1>1 DEF PendingIn, w

\* A block that is removed.
LEMMA WithoutKeeps ==
  ASSUME NEW q \in Seq(Reach!Blocks), NEW i \in DOMAIN q, NEW net, NEW fl, NEW cl
  PROVE  /\ NotificationsAreRight(q, fl) => NotificationsAreRight(Without(q, i), fl)
         /\ q[i].kind # "setFlags" /\ LastFlagsAreRight(q, net, fl) =>
              LastFlagsAreRight(Without(q, i), net, fl)
         /\ CallsGo(q, cl) => CallsGo(Without(q, i), cl)
         /\ \A l : PendingIn(q, l) /\ q[i].kind # "setFlags" /\
                   (q[i].kind = "notify" => q[i].started /\ q[i].listener # l /\ l \notin q[i].todo) =>
                PendingIn(Without(q, i), l)
<1> DEFINE w == Without(q, i)
<1>1. /\ \A j \in DOMAIN w : Old(i, j) \in DOMAIN q \ {i} /\ w[j] = q[Old(i, j)]
      /\ \A j \in DOMAIN q \ {i} : New(i, j) \in DOMAIN w /\ w[New(i, j)] = q[j]
      /\ \A j, k \in DOMAIN w : j < k => Old(i, j) < Old(i, k)
      /\ \A j, k \in DOMAIN w : j # k => Old(i, j) # Old(i, k)
      /\ \A j \in DOMAIN w : \A k \in DOMAIN q \ {i} : k > Old(i, j) => New(i, k) > j
  BY WithoutOrder
<1> HIDE DEF w
<1>2. NotificationsAreRight(q, fl) => NotificationsAreRight(w, fl)
  BY <1>1 DEF NotificationsAreRight
<1>3. ASSUME q[i].kind # "setFlags", LastFlagsAreRight(q, net, fl) PROVE LastFlagsAreRight(w, net, fl)
  <2>1. (\A j \in DOMAIN w : w[j].kind # "setFlags") => fl = net
    BY <1>1, <1>3 DEF LastFlagsAreRight
  <2>2. ASSUME NEW j \in DOMAIN w, w[j].kind = "setFlags", \A k \in DOMAIN w : k > j => w[k].kind # "setFlags"
        PROVE  w[j].state = net
    <3>1. \A k \in DOMAIN q : k > Old(i, j) => q[k].kind # "setFlags"
      BY <1>1, <1>3, <2>2
    <3>2. QED
      BY <1>1, <1>3, <2>2, <3>1 DEF LastFlagsAreRight
  <2>3. QED
    BY <2>1, <2>2 DEF LastFlagsAreRight
<1>4. ASSUME CallsGo(q, cl) PROVE CallsGo(w, cl)
  <2>1. \A j \in DOMAIN w : w[j].kind \in Calls => w[j].listener \in Listeners /\ cl[w[j].listener] = w[j].kind
    BY <1>1, <1>4 DEF CallsGo
  <2>2. ASSUME NEW j \in DOMAIN w, NEW k \in DOMAIN w, j # k, w[j].kind \in Calls, w[k].kind \in Calls
        PROVE  w[j].listener # w[k].listener
    <3>1. /\ Old(i, j) \in DOMAIN q /\ Old(i, k) \in DOMAIN q /\ Old(i, j) # Old(i, k)
          /\ w[j] = q[Old(i, j)] /\ w[k] = q[Old(i, k)]
      BY <1>1, <2>2
    <3>2. QED
      BY <1>4, <2>2, <3>1 DEF CallsGo
  <2>3. QED
    BY <2>1, <2>2 DEF CallsGo
<1>5. \A l : PendingIn(q, l) /\ q[i].kind # "setFlags" /\
             (q[i].kind = "notify" => q[i].started /\ q[i].listener # l /\ l \notin q[i].todo) =>
          PendingIn(w, l)
  BY <1>1 DEF PendingIn
<1>6. QED
  BY <1>2, <1>3, <1>4, <1>5 DEF w

\* A notification that goes on: it has started, or no barrier is before it.
LEMMA NotifyKeeps ==
  ASSUME NEW q \in Seq(Reach!Blocks), NEW i \in DOMAIN q, NEW b \in Reach!Blocks, NEW net, NEW fl, NEW cl,
         q[i].kind = "notify", b.kind = "notify", b.started, b.state = fl,
         q[i].started \/ \A j \in DOMAIN q : j < i => q[j].kind \notin Reach!Barriers,
         NotificationsAreRight(q, fl)
  PROVE  /\ [q EXCEPT ![i] = b] \in Seq(Reach!Blocks)
         /\ NotificationsAreRight([q EXCEPT ![i] = b], fl)
         /\ LastFlagsAreRight(q, net, fl) => LastFlagsAreRight([q EXCEPT ![i] = b], net, fl)
         /\ CallsGo(q, cl) => CallsGo([q EXCEPT ![i] = b], cl)
         /\ \A l : PendingIn(q, l) /\ (q[i].listener = l => b.listener = l) /\
                   (l \in q[i].todo \/ ~q[i].started => b.listener = l \/ l \in b.todo) =>
                PendingIn([q EXCEPT ![i] = b], l)
<1> DEFINE w == [q EXCEPT ![i] = b]
<1>1. /\ w \in Seq(Reach!Blocks) /\ DOMAIN w = DOMAIN q /\ w[i] = b
      /\ \A j \in DOMAIN q : j # i => w[j] = q[j]
  OBVIOUS
<1> HIDE DEF w
<1>2. \A j \in DOMAIN q : w[j].kind = q[j].kind /\ (w[j].kind # "notify" => w[j] = q[j])
  BY <1>1
<1>3. \A j \in DOMAIN q : j < i => q[j].kind \notin Reach!Barriers
  BY DEF NotificationsAreRight
<1>4. NotificationsAreRight(w, fl)
  BY <1>1, <1>2, <1>3 DEF NotificationsAreRight
<1>5. LastFlagsAreRight(q, net, fl) => LastFlagsAreRight(w, net, fl)
  BY <1>1, <1>2 DEF LastFlagsAreRight
<1>6. CallsGo(q, cl) => CallsGo(w, cl)
  BY <1>1, <1>2 DEF CallsGo, Calls
<1>7. \A l : PendingIn(q, l) /\ (q[i].listener = l => b.listener = l) /\
             (l \in q[i].todo \/ ~q[i].started => b.listener = l \/ l \in b.todo) => PendingIn(w, l)
  BY <1>1 DEF PendingIn
<1>8. QED
  BY <1>1, <1>4, <1>5, <1>6, <1>7 DEF w

\* A new block.
LEMMA NewBlock ==
  ASSUME NEW k \in Reach!Barriers \cup {"read", "notify"}, NEW l \in Listeners \cup {None}, NEW s \in BOOLEAN
  PROVE  /\ Reach!Block(k, l, s) \in Reach!Blocks
         /\ Reach!Block(k, l, s).kind = k /\ Reach!Block(k, l, s).listener = l /\ Reach!Block(k, l, s).state = s
         /\ ~Reach!Block(k, l, s).started /\ Reach!Block(k, l, s).todo = {}
<1>1. Reach!Block(k, l, s) =
        [kind |-> k, listener |-> l, state |-> s, started |-> FALSE, todo |-> {}]
  BY DEF Reach!Block
<1>2. /\ Reach!Block(k, l, s).kind = k /\ Reach!Block(k, l, s).listener = l
      /\ ~Reach!Block(k, l, s).started /\ Reach!Block(k, l, s).todo = {}
  BY <1>1
<1>3. Reach!Block(k, l, s).state = s
  BY <1>1
<1>4. FALSE \in BOOLEAN /\ {} \in SUBSET Listeners
  BY Zenon
<1>5. Reach!Block(k, l, s) \in Reach!Blocks
  BY <1>1, <1>4 DEF Reach!Blocks
<1>6. QED
  BY <1>2, <1>3, <1>5, Zenon

\* What is left of a state when a block has been taken off the queue.
LEMMA BlockTaken ==
  ASSUME ReachInv, NEW i \in DOMAIN blocks
  PROVE  /\ blocks[i] \in Reach!Blocks /\ Without(blocks, i) \in Seq(Reach!Blocks)
         /\ NotificationsAreRight(Without(blocks, i), flags) /\ CallsGo(Without(blocks, i), client)
         /\ blocks[i].kind # "setFlags" => LastFlagsAreRight(Without(blocks, i), network, flags)
         /\ \A l : PendingIn(blocks, l) /\ blocks[i].kind # "setFlags" /\
                   (blocks[i].kind = "notify" =>
                      blocks[i].started /\ blocks[i].listener # l /\ l \notin blocks[i].todo) =>
                PendingIn(Without(blocks, i), l)
<1>1. blocks \in Seq(Reach!Blocks)
  BY DEF ReachInv, Reach!TypeOK
<1>2. blocks[i] \in Reach!Blocks /\ Without(blocks, i) \in Seq(Reach!Blocks)
  BY <1>1, Removed
<1>3. QED
  BY <1>1, <1>2, WithoutKeeps DEF ReachInv

\* A call of a queue takes its block off: no other block is about this queue.
LEMMA CallTaken ==
  ASSUME ReachInv, NEW i \in DOMAIN blocks, blocks[i].kind \in Calls, NEW cl,
         \A m \in Listeners : m # blocks[i].listener => cl[m] = client[m]
  PROVE  /\ blocks[i].listener \in Listeners /\ client[blocks[i].listener] = blocks[i].kind
         /\ blocks[i].listener \in monitors
         /\ CallsGo(Without(blocks, i), cl)
         /\ \A j \in DOMAIN Without(blocks, i) : Without(blocks, i)[j].kind \in Calls =>
              Without(blocks, i)[j].listener # blocks[i].listener
<1> DEFINE w == Without(blocks, i)
<1>1. blocks[i].listener \in Listeners /\ client[blocks[i].listener] = blocks[i].kind
  BY DEF ReachInv, CallsGo
<1>2. \A j \in DOMAIN w : Old(i, j) \in DOMAIN blocks \ {i} /\ w[j] = blocks[Old(i, j)]
  BY WithoutOrder DEF ReachInv, Reach!TypeOK
<1>3. CallsGo(w, client)
  BY BlockTaken
<1> HIDE DEF w
<1>4. \A j \in DOMAIN w : w[j].kind \in Calls => w[j].listener # blocks[i].listener
  BY <1>2 DEF ReachInv, CallsGo
<1>5. CallsGo(w, cl)
  BY <1>3, <1>4 DEF CallsGo
<1>6. QED
  BY <1>1, <1>4, <1>5 DEF w, ReachInv, MonitorsGo, Calls

\* The types but for the blocks.
ReachTypes ==
  /\ network \in BOOLEAN /\ flags \in BOOLEAN
  /\ listeners \subseteq Listeners /\ alive \subseteq Listeners
  /\ client \in [Listeners -> Reach!Phases] /\ read \in [Listeners -> BOOLEAN]
  /\ monitors \subseteq Listeners /\ connected \subseteq Listeners
  /\ changes \in 0 .. MaxChanges /\ overtaken \subseteq Listeners

LEMMA ReachTypesAre ==
  /\ Reach!TypeOK <=> ReachTypes /\ blocks \in Seq(Reach!Blocks)
  /\ Reach!Blocks' = Reach!Blocks /\ Reach!Barriers' = Reach!Barriers
BY DEF Reach!TypeOK, ReachTypes

LEMMA PendingThen == \A l : PendingIn(blocks, l)' <=> PendingIn(blocks', l)
BY DEF PendingIn

LEMMA ReachInvThen ==
  ASSUME ReachTypes', blocks' \in Seq(Reach!Blocks), NotificationsAreRight(blocks', flags'),
         LastFlagsAreRight(blocks', network', flags'), CallsGo(blocks', client'), MonitorsGo',
         InformedUnlessPending'
  PROVE  ReachInv'
<1>1. NotificationsAreRight(blocks, flags)'
  BY ReachTypesAre DEF NotificationsAreRight
<1>2. LastFlagsAreRight(blocks, network, flags)'
  BY DEF LastFlagsAreRight
<1>3. CallsGo(blocks, client)'
  BY DEF CallsGo, Calls
<1>4. Reach!TypeOK'
  BY ReachTypesAre DEF ReachTypes, Reach!TypeOK
<1>5. QED
  BY <1>1, <1>2, <1>3, <1>4 DEF ReachInv

LEMMA ReachInvInit == Reach!Init => ReachInv
<1> SUFFICES ASSUME Reach!Init PROVE ReachInv
  OBVIOUS
<1> DEFINE b == Reach!Block("setFlags", None, network)
<1>1. network \in BOOLEAN /\ blocks = <<b>> /\ flags = FALSE /\ client = [l \in Listeners |-> "new"]
  BY DEF Reach!Init
<1>2. /\ b \in Reach!Blocks /\ b.kind = "setFlags" /\ b.listener = None /\ b.state = network
      /\ ~b.started /\ b.todo = {}
  <2>1. "setFlags" \in Reach!Barriers \cup {"read", "notify"} /\ None \in Listeners \cup {None}
    BY DEF Reach!Barriers
  <2>2. network \in BOOLEAN
    BY <1>1, Zenon
  <2>3. QED
    BY <2>1, <2>2, NewBlock
<1> HIDE DEF b
<1>3. blocks \in Seq(Reach!Blocks) /\ DOMAIN blocks = {1} /\ blocks[1] = b
  BY <1>1, <1>2
<1>4. ReachTypes
  <2>1. changes \in 0 .. MaxChanges
    BY ReachAssumption DEF Reach!Init
  <2>2. client \in [Listeners -> Reach!Phases]
    <3>1. client = [l \in Listeners |-> "new"]
      BY DEF Reach!Init
    <3>2. "new" \in Reach!Phases
      BY DEF Reach!Phases
    <3>3. QED
      BY <3>1, <3>2, Zenon
  <2>3. /\ listeners \subseteq Listeners /\ alive \subseteq Listeners
        /\ monitors \subseteq Listeners /\ connected \subseteq Listeners /\ overtaken \subseteq Listeners
    BY DEF Reach!Init
  <2>4. FALSE \in BOOLEAN /\ read = [l \in Listeners |-> FALSE] /\ network \in BOOLEAN /\ flags = FALSE
    BY Zenon DEF Reach!Init
  <2>5. QED
    BY <2>1, <2>2, <2>3, <2>4, Zenon DEF ReachTypes
<1>5. NotificationsAreRight(blocks, flags) /\ CallsGo(blocks, client)
  BY <1>2, <1>3 DEF NotificationsAreRight, CallsGo, Calls
<1>6. LastFlagsAreRight(blocks, network, flags)
  BY <1>2, <1>3 DEF LastFlagsAreRight
<1>7. MonitorsGo /\ InformedUnlessPending
  BY <1>1 DEF MonitorsGo, InformedUnlessPending
<1>8. QED
  BY <1>3, <1>4, <1>5, <1>6, <1>7, ReachTypesAre DEF ReachInv

\* The network and its notifications.
LEMMA NetworkChangesKeeps ==
  ASSUME ReachInv, Reach!NetworkChanges
  PROVE  ReachInv'
<1> DEFINE b == Reach!Block("setFlags", None, network')
<1>1. /\ network' = ~network /\ blocks' = Append(blocks, b) /\ changes' = changes + 1 /\ changes < MaxChanges
      /\ UNCHANGED <<flags, listeners, alive, client, read, monitors, connected, overtaken>>
  BY DEF Reach!NetworkChanges
<1>2. ReachTypes /\ blocks \in Seq(Reach!Blocks)
  BY ReachTypesAre DEF ReachInv
<1>3. network' \in BOOLEAN
  BY <1>1, Zenon
<1>4. b \in Reach!Blocks /\ b.kind = "setFlags" /\ b.state = network' /\ ~b.started
  BY <1>3, NewBlock DEF Reach!Barriers
<1> HIDE DEF b
<1>5. blocks' \in Seq(Reach!Blocks)
  BY <1>1, <1>2, <1>4, Appended
<1>6. ReachTypes'
  <2>1. changes' \in 0 .. MaxChanges
    BY <1>1, <1>2, ReachAssumption DEF ReachTypes
  <2>2. QED
    BY <1>1, <1>2, <1>3, <2>1, Zenon DEF ReachTypes, Reach!Phases
<1>7. NotificationsAreRight(blocks', flags)
  BY <1>1, <1>2, <1>4, AppendKeepsNotifications DEF ReachInv
<1>8. LastFlagsAreRight(blocks', network', flags)
  BY <1>1, <1>2, <1>4, AppendKeepsFlags
<1>9. CallsGo(blocks', client)
  BY <1>1, <1>2, <1>4, AppendKeepsCalls DEF ReachInv, Calls
<1>10. \A l : PendingIn(blocks', l)
  BY <1>1, <1>2, <1>4, AppendKeepsPending
<1>11. MonitorsGo'
  BY <1>1 DEF ReachInv, MonitorsGo
<1>12. InformedUnlessPending'
  BY <1>10, PendingThen DEF InformedUnlessPending
<1>13. QED
  BY <1>1, <1>5, <1>6, <1>7, <1>8, <1>9, <1>11, <1>12, ReachInvThen

LEMMA SetFlagsKeeps ==
  ASSUME ReachInv, NEW i \in DOMAIN blocks, Reach!SetFlags(i)
  PROVE  ReachInv'
<1> DEFINE b == Reach!Block("notify", None, FALSE)
           w == Without(blocks, i)
<1>1. /\ flags' = blocks[i].state /\ blocks' = Append(w, b) /\ blocks[i].kind = "setFlags" /\ i = 1
      /\ UNCHANGED <<network, listeners, alive, client, read, monitors, connected, changes, overtaken>>
  BY DEF Reach!SetFlags, Reach!CanRun, Reach!Barriers, Reach!RemoveAt, Without
<1>2. ReachTypes /\ blocks \in Seq(Reach!Blocks)
  BY ReachTypesAre DEF ReachInv
<1>3. /\ b \in Reach!Blocks /\ b.kind = "notify" /\ ~b.started /\ b.listener = None /\ b.todo = {}
  <2>1. FALSE \in BOOLEAN
    BY Zenon
  <2>2. "notify" \in Reach!Barriers \cup {"read", "notify"} /\ None \in Listeners \cup {None}
    OBVIOUS
  <2>3. QED
    BY <2>1, <2>2, NewBlock, ZenonT(30)
<1>4. /\ w \in Seq(Reach!Blocks) /\ blocks[i] \in Reach!Blocks
      /\ NotificationsAreRight(w, flags) /\ CallsGo(w, client)
  BY BlockTaken
<1>5. /\ \A j \in DOMAIN w : Old(i, j) \in DOMAIN blocks \ {i} /\ w[j] = blocks[Old(i, j)]
      /\ \A j \in DOMAIN blocks \ {i} : New(i, j) \in DOMAIN w /\ w[New(i, j)] = blocks[j]
      /\ \A j \in DOMAIN w : \A k \in DOMAIN blocks \ {i} : k > Old(i, j) => New(i, k) > j
  BY <1>2, WithoutOrder
<1>6. \A j \in DOMAIN blocks \ {i} : i < j /\ j > i
  BY <1>1, <1>2
<1> HIDE DEF b, w
<1>7. \A j \in DOMAIN w : ~w[j].started
  <2>1. \A j \in DOMAIN blocks \ {i} : ~blocks[j].started
    BY <1>1, <1>6 DEF ReachInv, NotificationsAreRight, Reach!Barriers
  <2>2. QED
    BY <1>5, <2>1
<1>8. NotificationsAreRight(w, flags')
  BY <1>4, <1>7 DEF NotificationsAreRight
<1>9. LastFlagsAreRight(w, network, flags')
  <2>1. (\A j \in DOMAIN w : w[j].kind # "setFlags") => flags' = network
    BY <1>1, <1>5 DEF ReachInv, LastFlagsAreRight
  <2>2. ASSUME NEW j \in DOMAIN w, w[j].kind = "setFlags", \A k \in DOMAIN w : k > j => w[k].kind # "setFlags"
        PROVE  w[j].state = network
    <3>1. \A k \in DOMAIN blocks : k > Old(i, j) => k \in DOMAIN blocks \ {i}
      BY <1>2, <1>5, <1>6, <2>2
    <3>2. \A k \in DOMAIN blocks : k > Old(i, j) => blocks[k].kind # "setFlags"
      BY <1>5, <2>2, <3>1
    <3>3. QED
      BY <1>5, <2>2, <3>2 DEF ReachInv, LastFlagsAreRight
  <2>3. QED
    BY <2>1, <2>2 DEF LastFlagsAreRight
<1>10. blocks' \in Seq(Reach!Blocks) /\ NotificationsAreRight(blocks', flags')
  BY <1>1, <1>3, <1>4, <1>8, Appended, AppendKeepsNotifications
<1>11. LastFlagsAreRight(blocks', network, flags') /\ CallsGo(blocks', client)
  BY <1>1, <1>3, <1>4, <1>9, AppendKeepsFlags, AppendKeepsCalls DEF Calls
<1>12. \A l : PendingIn(blocks', l)
  BY <1>1, <1>3, <1>4, AppendKeepsPending
<1>13. ReachTypes'
  <2>1. flags' \in BOOLEAN
    BY <1>1, <1>4, Zenon DEF Reach!Blocks
  <2>2. QED
    BY <1>1, <1>2, <2>1, Zenon DEF ReachTypes, Reach!Phases
<1>14. MonitorsGo' /\ InformedUnlessPending'
  BY <1>1, <1>12, PendingThen DEF ReachInv, MonitorsGo, InformedUnlessPending
<1>15. QED
  BY <1>1, <1>10, <1>11, <1>13, <1>14, ReachInvThen

\* What a step of a notification in block i keeps, when block i becomes b.
LEMMA NotifyStep ==
  ASSUME ReachInv, NEW i \in DOMAIN blocks, NEW b \in Reach!Blocks,
         blocks' = [blocks EXCEPT ![i] = b],
         blocks[i].kind = "notify", b.kind = "notify", b.started, b.state = flags,
         blocks[i].started \/ \A j \in DOMAIN blocks : j < i => blocks[j].kind \notin Reach!Barriers,
         UNCHANGED <<network, flags, listeners, alive, client, read, monitors, changes>>,
         connected' \subseteq Listeners, overtaken' \subseteq Listeners, InformedUnlessPending'
  PROVE  ReachInv'
<1>1. ReachTypes /\ blocks \in Seq(Reach!Blocks) /\ NotificationsAreRight(blocks, flags)
  BY ReachTypesAre DEF ReachInv
<1>2. /\ blocks' \in Seq(Reach!Blocks) /\ NotificationsAreRight(blocks', flags)
      /\ LastFlagsAreRight(blocks', network, flags) /\ CallsGo(blocks', client)
  BY <1>1, NotifyKeeps DEF ReachInv
<1>3. ReachTypes'
  BY <1>1, Zenon DEF ReachTypes, Reach!Phases
<1>4. MonitorsGo'
  BY DEF ReachInv, MonitorsGo
<1>5. QED
  BY <1>2, <1>3, <1>4, ReachInvThen

LEMMA BlockTypes ==
  ASSUME NEW b \in Reach!Blocks
  PROVE  /\ b.listener \in Listeners \cup {None} /\ b.todo \subseteq Listeners
         /\ DOMAIN b = {"kind", "listener", "state", "started", "todo"}
BY DEF Reach!Blocks

LEMMA BeginNotifyKeeps ==
  ASSUME ReachInv, NEW i \in DOMAIN blocks, Reach!BeginNotify(i)
  PROVE  ReachInv'
<1> DEFINE b == [blocks[i] EXCEPT !.started = TRUE, !.state = flags, !.todo = listeners]
<1>1. ReachTypes /\ blocks \in Seq(Reach!Blocks) /\ blocks[i] \in Reach!Blocks
  BY ReachTypesAre DEF ReachInv
<1>2. /\ blocks[i].kind = "notify" /\ ~blocks[i].started
      /\ UNCHANGED <<network, flags, listeners, alive, client, read, monitors, connected, changes, overtaken>>
  BY DEF Reach!BeginNotify
<1>3. blocks' = [blocks EXCEPT ![i] = b]
  BY DEF Reach!BeginNotify
<1>4. /\ b.kind = "notify" /\ b.todo = listeners /\ b.listener = blocks[i].listener
  BY <1>1, <1>2 DEF Reach!Blocks
<1>5. b.started /\ b.state = flags
  BY <1>1, <1>2 DEF Reach!Blocks
<1>6. b \in Reach!Blocks
  <2>1. flags \in BOOLEAN /\ TRUE \in BOOLEAN /\ listeners \in SUBSET Listeners
    BY <1>1, Zenon DEF ReachTypes
  <2>2. QED
    BY <1>1, <2>1 DEF Reach!Blocks
<1> HIDE DEF b
<1>7. \A j \in DOMAIN blocks : j < i => blocks[j].kind \notin Reach!Barriers
  <2>1. DOMAIN blocks = 1 .. Len(blocks) /\ Len(blocks) \in Nat
    BY <1>1
  <2>2. \A j \in DOMAIN blocks : j < i => j \in 1 .. i - 1
    BY <2>1
  <2>3. \A j \in 1 .. i - 1 : blocks[j].kind \notin Reach!Barriers
    BY <1>2 DEF Reach!BeginNotify, Reach!CanRun, Reach!Barriers
  <2>4. QED
    BY <2>2, <2>3
<1>8. \A l : PendingIn(blocks, l) /\ l \in listeners => PendingIn(blocks', l)
  BY <1>1, <1>2, <1>3, <1>4, <1>5, <1>6, <1>7, NotifyKeeps DEF ReachInv
<1>9. InformedUnlessPending'
  BY <1>2, <1>8, PendingThen DEF ReachInv, InformedUnlessPending
<1>10. QED
  BY <1>1, <1>2, <1>3, <1>4, <1>5, <1>6, <1>7, <1>9, NotifyStep DEF ReachTypes

LEMMA CallListenerKeeps ==
  ASSUME ReachInv, NEW i \in DOMAIN blocks, Reach!CallListener(i)
  PROVE  ReachInv'
<1>1. ReachTypes /\ blocks \in Seq(Reach!Blocks) /\ blocks[i] \in Reach!Blocks
  BY ReachTypesAre DEF ReachInv
<1>2. /\ blocks[i].kind = "notify" /\ blocks[i].listener = None
      /\ UNCHANGED <<network, flags, listeners, alive, client, read, monitors, connected, changes, overtaken>>
  BY DEF Reach!CallListener
<1>3. PICK l \in blocks[i].todo :
        blocks' = [blocks EXCEPT ![i].todo = @ \ {l},
                                 ![i].listener = IF l \in alive \intersect monitors THEN l ELSE None]
  BY DEF Reach!CallListener
<1> DEFINE b == [blocks[i] EXCEPT !.todo = @ \ {l},
                                  !.listener = IF l \in alive \intersect monitors THEN l ELSE None]
<1>4. blocks' = [blocks EXCEPT ![i] = b]
  BY <1>3
<1>5. blocks[i].started /\ blocks[i].state = flags
  BY <1>2, <1>3 DEF ReachInv, NotificationsAreRight
<1>6. /\ b.kind = "notify" /\ b.todo = blocks[i].todo \ {l}
      /\ b.listener = IF l \in alive \intersect monitors THEN l ELSE None
      /\ b.started = blocks[i].started /\ b.state = blocks[i].state
  BY <1>1, <1>2 DEF Reach!Blocks
<1>7. b \in Reach!Blocks
  <2>1. l \in Listeners
    BY <1>1, <1>3, BlockTypes
  <2>2. QED
    BY <1>1, <2>1 DEF Reach!Blocks
<1> HIDE DEF b
<1>8. \A m : PendingIn(blocks, m) /\ m # None /\ (m = l => l \in alive \intersect monitors) => PendingIn(blocks', m)
  <2>1. \A m : PendingIn(blocks, m) /\ (blocks[i].listener = m => b.listener = m) /\
               (m \in blocks[i].todo \/ ~blocks[i].started => b.listener = m \/ m \in b.todo) =>
            PendingIn(blocks', m)
    BY <1>1, <1>2, <1>4, <1>5, <1>6, <1>7, NotifyKeeps DEF ReachInv
  <2>2. QED
    BY <1>2, <1>5, <1>6, <2>1
<1>9. InformedUnlessPending'
  <2>1. \A m \in Listeners : client[m] \in {"apply", "monitoring"} => m \in monitors
    BY DEF ReachInv, MonitorsGo
  <2>2. \A m \in Listeners : m # None
    BY ReachAssumption
  <2>3. QED
    BY <1>2, <1>8, <2>1, <2>2, PendingThen DEF ReachInv, InformedUnlessPending
<1>10. QED
  BY <1>1, <1>2, <1>4, <1>5, <1>6, <1>7, <1>9, NotifyStep DEF ReachTypes

LEMMA ApplyNotificationKeeps ==
  ASSUME ReachInv, NEW i \in DOMAIN blocks, Reach!ApplyNotification(i)
  PROVE  ReachInv'
<1> DEFINE l == blocks[i].listener
           b == [blocks[i] EXCEPT !.listener = None]
<1>1. ReachTypes /\ blocks \in Seq(Reach!Blocks) /\ blocks[i] \in Reach!Blocks
  BY ReachTypesAre DEF ReachInv
<1>2. /\ blocks[i].kind = "notify" /\ l # None
      /\ connected' = Reach!Connect(l, blocks[i].state)
      /\ overtaken' = IF client[l] \in {"read", "apply"} THEN overtaken \union {l} ELSE overtaken
      /\ UNCHANGED <<network, flags, listeners, alive, client, read, monitors, changes>>
  BY DEF Reach!ApplyNotification
<1>3. blocks' = [blocks EXCEPT ![i] = b]
  BY DEF Reach!ApplyNotification
<1>4. l \in Listeners /\ blocks[i].started /\ blocks[i].state = flags
  BY <1>1, <1>2, BlockTypes DEF ReachInv, NotificationsAreRight
<1>5. /\ b.kind = "notify" /\ b.todo = blocks[i].todo /\ b.listener = None
      /\ b.started = blocks[i].started /\ b.state = blocks[i].state
  BY <1>1, <1>2 DEF Reach!Blocks
<1>6. b \in Reach!Blocks
  BY <1>1 DEF Reach!Blocks
<1> HIDE DEF b
<1>7. connected' = (IF flags THEN connected \union {l} ELSE connected \ {l})
  BY <1>2, <1>4 DEF Reach!Connect
<1> HIDE DEF l
<1>8. connected' \subseteq Listeners /\ overtaken' \subseteq Listeners
  BY <1>1, <1>2, <1>4, <1>7 DEF ReachTypes
<1>9. \A m : PendingIn(blocks, m) /\ m # l => PendingIn(blocks', m)
  <2>1. \A m : PendingIn(blocks, m) /\ (blocks[i].listener = m => b.listener = m) /\
               (m \in blocks[i].todo \/ ~blocks[i].started => b.listener = m \/ m \in b.todo) =>
            PendingIn(blocks', m)
    BY <1>1, <1>2, <1>3, <1>4, <1>5, <1>6, NotifyKeeps DEF ReachInv
  <2>2. QED
    BY <1>4, <1>5, <2>1 DEF l
<1>10. InformedUnlessPending'
  <2> SUFFICES ASSUME NEW m \in Listeners, m \in alive, m \in listeners, m \notin overtaken',
                      ~PendingIn(blocks', m)
               PROVE  /\ client[m] = "apply" => read[m] = flags
                      /\ client[m] = "monitoring" => (m \in connected' <=> flags)
    BY <1>2, PendingThen DEF InformedUnlessPending
  <2>1. CASE m = l
    BY <1>2, <1>7, <2>1
  <2>2. CASE m # l
    <3>1. ~PendingIn(blocks, m) /\ m \notin overtaken /\ (m \in connected' <=> m \in connected)
      BY <1>2, <1>7, <1>9, <2>2
    <3>2. QED
      BY <3>1 DEF ReachInv, InformedUnlessPending
  <2>3. QED
    BY <2>1, <2>2
<1>11. QED
  BY <1>1, <1>2, <1>3, <1>4, <1>5, <1>6, <1>8, <1>10, NotifyStep

\* Blocks that end.
LEMMA EndNotifyKeeps ==
  ASSUME ReachInv, NEW i \in DOMAIN blocks, Reach!EndNotify(i)
  PROVE  ReachInv'
<1> DEFINE w == Without(blocks, i)
           b == Reach!Block("prune", None, FALSE)
<1>1. /\ blocks[i].kind = "notify" /\ blocks[i].started /\ blocks[i].listener = None /\ blocks[i].todo = {}
      /\ blocks' = Append(w, b)
      /\ UNCHANGED <<network, flags, listeners, alive, client, read, monitors, connected, changes, overtaken>>
  BY DEF Reach!EndNotify, Reach!RemoveAt, Without
<1>2. /\ b \in Reach!Blocks /\ b.kind = "prune" /\ ~b.started
  <2>1. FALSE \in BOOLEAN
    BY Zenon
  <2>2. "prune" \in Reach!Barriers \cup {"read", "notify"} /\ None \in Listeners \cup {None}
    BY DEF Reach!Barriers
  <2>3. QED
    BY <2>1, <2>2, NewBlock, Zenon
<1>3. /\ w \in Seq(Reach!Blocks) /\ NotificationsAreRight(w, flags) /\ CallsGo(w, client)
      /\ LastFlagsAreRight(w, network, flags)
      /\ \A l : PendingIn(blocks, l) /\ l # None => PendingIn(w, l)
  BY <1>1, BlockTaken
<1> HIDE DEF b, w
<1>4. blocks' \in Seq(Reach!Blocks) /\ NotificationsAreRight(blocks', flags)
  BY <1>1, <1>2, <1>3, Appended, AppendKeepsNotifications
<1>5. LastFlagsAreRight(blocks', network, flags) /\ CallsGo(blocks', client)
  BY <1>1, <1>2, <1>3, AppendKeepsFlags, AppendKeepsCalls DEF Calls
<1>6. \A l \in Listeners : PendingIn(blocks, l) => PendingIn(blocks', l)
  BY <1>1, <1>2, <1>3, AppendKeepsPending, ReachAssumption
<1>7. ReachTypes'
  BY <1>1, ReachTypesAre, Zenon DEF ReachInv, ReachTypes, Reach!Phases
<1>8. MonitorsGo' /\ InformedUnlessPending'
  BY <1>1, <1>6, PendingThen DEF ReachInv, MonitorsGo, InformedUnlessPending
<1>9. QED
  BY <1>1, <1>4, <1>5, <1>7, <1>8, ReachInvThen

LEMMA PruneKeeps ==
  ASSUME ReachInv, NEW i \in DOMAIN blocks, Reach!Prune(i)
  PROVE  ReachInv'
<1>1. /\ blocks[i].kind = "prune" /\ blocks' = Without(blocks, i) /\ listeners' = listeners \intersect alive
      /\ UNCHANGED <<network, flags, alive, client, read, monitors, connected, changes, overtaken>>
  BY DEF Reach!Prune, Reach!RemoveAt, Without
<1>2. /\ blocks' \in Seq(Reach!Blocks) /\ NotificationsAreRight(blocks', flags) /\ CallsGo(blocks', client)
      /\ LastFlagsAreRight(blocks', network, flags)
      /\ \A l : PendingIn(blocks, l) => PendingIn(blocks', l)
  BY <1>1, BlockTaken
<1>3. ReachTypes'
  BY <1>1, ReachTypesAre, Zenon DEF ReachInv, ReachTypes, Reach!Phases
<1>4. MonitorsGo' /\ InformedUnlessPending'
  BY <1>1, <1>2, PendingThen DEF ReachInv, MonitorsGo, InformedUnlessPending
<1>5. QED
  BY <1>1, <1>2, <1>3, <1>4, ReachInvThen

\* What a step of a call in block i keeps: the block is taken off, and only the
\* queue of the call goes on.
LEMMA CallStep ==
  ASSUME ReachInv, NEW i \in DOMAIN blocks, blocks[i].kind \in Calls, NEW p,
         p \in Reach!Phases, client' = [client EXCEPT ![blocks[i].listener] = p],
         p # "monitoring",
         UNCHANGED <<network, flags, alive, monitors, connected, changes>>
  PROVE  /\ blocks[i].listener \in Listeners /\ client[blocks[i].listener] = blocks[i].kind /\ blocks[i].listener \in monitors
         /\ client' \in [Listeners -> Reach!Phases] /\ client'[blocks[i].listener] = p
         /\ \A m \in Listeners : m # blocks[i].listener => client'[m] = client[m]
         /\ CallsGo(Without(blocks, i), client')
         /\ \A j \in DOMAIN Without(blocks, i) : Without(blocks, i)[j].kind \in Calls =>
              Without(blocks, i)[j].listener # blocks[i].listener
         /\ Without(blocks, i) \in Seq(Reach!Blocks) /\ NotificationsAreRight(Without(blocks, i), flags)
         /\ LastFlagsAreRight(Without(blocks, i), network, flags)
         /\ \A m : PendingIn(blocks, m) => PendingIn(Without(blocks, i), m)
         /\ MonitorsGo'
<1> DEFINE l == blocks[i].listener
<1>1. ReachTypes
  BY ReachTypesAre DEF ReachInv
<1>2. l \in Listeners /\ client[l] = blocks[i].kind /\ l \in monitors
  BY CallTaken, Zenon DEF ReachInv
<1>3. /\ client' \in [Listeners -> Reach!Phases] /\ client'[l] = p
      /\ \A m \in Listeners : m # l => client'[m] = client[m]
  BY <1>1, <1>2 DEF ReachTypes
<1>4. /\ CallsGo(Without(blocks, i), client')
      /\ \A j \in DOMAIN Without(blocks, i) : Without(blocks, i)[j].kind \in Calls =>
           Without(blocks, i)[j].listener # l
  BY <1>3, CallTaken
<1>5. blocks[i].kind # "setFlags" /\ blocks[i].kind # "notify"
  BY DEF Calls
<1>6. /\ Without(blocks, i) \in Seq(Reach!Blocks) /\ NotificationsAreRight(Without(blocks, i), flags)
      /\ LastFlagsAreRight(Without(blocks, i), network, flags)
      /\ \A m : PendingIn(blocks, m) => PendingIn(Without(blocks, i), m)
  BY <1>5, BlockTaken
<1>7. MonitorsGo'
  BY <1>2, <1>3 DEF ReachInv, MonitorsGo
<1>8. QED
  BY <1>2, <1>3, <1>4, <1>6, <1>7

LEMMA AddListenerKeeps ==
  ASSUME ReachInv, NEW i \in DOMAIN blocks, Reach!AddListener(i)
  PROVE  ReachInv'
<1> DEFINE l == blocks[i].listener
           b == Reach!Block("read", l, FALSE)
           w == Without(blocks, i)
<1>1. /\ blocks[i].kind = "add" /\ listeners' = listeners \union {l}
      /\ client' = [client EXCEPT ![l] = "read"] /\ blocks' = Append(w, b)
      /\ UNCHANGED <<network, flags, alive, read, monitors, connected, changes, overtaken>>
  BY DEF Reach!AddListener, Reach!RemoveAt, Without
<1>2. "read" \in Reach!Phases /\ blocks[i].kind \in Calls
  BY <1>1 DEF Reach!Phases, Calls
<1>3. /\ l \in Listeners /\ client[l] = "add" /\ l \in monitors
      /\ client' \in [Listeners -> Reach!Phases] /\ client'[l] = "read"
      /\ \A m \in Listeners : m # l => client'[m] = client[m]
      /\ CallsGo(w, client') /\ \A j \in DOMAIN w : w[j].kind \in Calls => w[j].listener # l
      /\ w \in Seq(Reach!Blocks) /\ NotificationsAreRight(w, flags)
      /\ LastFlagsAreRight(w, network, flags) /\ \A m : PendingIn(blocks, m) => PendingIn(w, m)
      /\ MonitorsGo'
  BY <1>1, <1>2, CallStep
<1>4. /\ b \in Reach!Blocks /\ b.kind = "read" /\ b.listener = l /\ ~b.started
  <2>1. FALSE \in BOOLEAN
    BY Zenon
  <2>2. "read" \in Reach!Barriers \cup {"read", "notify"} /\ l \in Listeners \cup {None}
    BY <1>3
  <2>3. QED
    BY <2>1, <2>2, NewBlock, Zenon
<1>5. ReachTypes
  BY ReachTypesAre DEF ReachInv
<1> HIDE DEF b, w, l
<1>6. ReachTypes'
  <2>1. listeners' \subseteq Listeners
    BY <1>1, <1>3, <1>5 DEF ReachTypes
  <2>2. QED
    BY <1>1, <1>3, <1>5, <2>1, Zenon DEF ReachTypes, Reach!Phases
<1>7. blocks' \in Seq(Reach!Blocks) /\ NotificationsAreRight(blocks', flags)
  BY <1>1, <1>3, <1>4, Appended, AppendKeepsNotifications
<1>8. LastFlagsAreRight(blocks', network, flags)
  BY <1>1, <1>3, <1>4, AppendKeepsFlags
<1>9. CallsGo(blocks', client')
  BY <1>1, <1>3, <1>4, AppendKeepsCalls
<1>10. \A m : PendingIn(blocks, m) => PendingIn(blocks', m)
  BY <1>1, <1>3, <1>4, AppendKeepsPending
<1>11. InformedUnlessPending'
  BY <1>1, <1>3, <1>10, PendingThen DEF ReachInv, InformedUnlessPending
<1>12. QED
  BY <1>1, <1>3, <1>6, <1>7, <1>8, <1>9, <1>11, ReachInvThen

\* The flags that are read are right, and a later notification makes them so again.
LEMMA ReadStateKeeps ==
  ASSUME ReachInv, NEW i \in DOMAIN blocks, Reach!ReadState(i)
  PROVE  ReachInv'
<1> DEFINE l == blocks[i].listener
           w == Without(blocks, i)
<1>1. /\ blocks[i].kind = "read" /\ read' = [read EXCEPT ![l] = flags]
      /\ client' = [client EXCEPT ![l] = "apply"] /\ overtaken' = overtaken \ {l} /\ blocks' = w
      /\ UNCHANGED <<network, flags, listeners, alive, monitors, connected, changes>>
  BY DEF Reach!ReadState, Reach!RemoveAt, Without
<1>2. "apply" \in Reach!Phases /\ blocks[i].kind \in Calls
  BY <1>1 DEF Reach!Phases, Calls
<1>3. /\ l \in Listeners /\ client[l] = "read" /\ l \in monitors
      /\ client' \in [Listeners -> Reach!Phases] /\ client'[l] = "apply"
      /\ \A m \in Listeners : m # l => client'[m] = client[m]
      /\ CallsGo(w, client') /\ w \in Seq(Reach!Blocks) /\ NotificationsAreRight(w, flags)
      /\ LastFlagsAreRight(w, network, flags) /\ \A m : PendingIn(blocks, m) => PendingIn(w, m)
      /\ MonitorsGo'
  BY <1>1, <1>2, CallStep
<1>4. ReachTypes
  BY ReachTypesAre DEF ReachInv
<1> HIDE DEF w, l
<1>5. /\ read' \in [Listeners -> BOOLEAN] /\ read'[l] = flags
      /\ \A m \in Listeners : m # l => read'[m] = read[m]
  <2>1. flags \in BOOLEAN /\ read \in [Listeners -> BOOLEAN]
    BY <1>4, Zenon DEF ReachTypes
  <2>2. QED
    BY <1>1, <1>3, <2>1, Zenon
<1>6. ReachTypes'
  <2>1. overtaken' \subseteq Listeners
    BY <1>1, <1>4 DEF ReachTypes
  <2>2. QED
    BY <1>1, <1>3, <1>4, <1>5, <2>1, Zenon DEF ReachTypes, Reach!Phases
<1>7. InformedUnlessPending'
  <2> SUFFICES ASSUME NEW m \in Listeners, m \in alive, m \in listeners, m \notin overtaken',
                      ~PendingIn(blocks', m)
               PROVE  /\ client'[m] = "apply" => read'[m] = flags
                      /\ client'[m] = "monitoring" => (m \in connected <=> flags)
    BY <1>1, PendingThen DEF InformedUnlessPending
  <2>1. CASE m = l
    BY <1>3, <1>5, <2>1
  <2>2. CASE m # l
    <3>1. m \notin overtaken /\ ~PendingIn(blocks, m)
      BY <1>1, <1>3, <2>2
    <3>2. QED
      BY <1>3, <1>5, <2>2, <3>1 DEF ReachInv, InformedUnlessPending
  <2>3. QED
    BY <2>1, <2>2
<1>8. QED
  BY <1>1, <1>3, <1>6, <1>7, ReachInvThen

LEMMA RemoveListenerKeeps ==
  ASSUME ReachInv, NEW i \in DOMAIN blocks, Reach!RemoveListener(i)
  PROVE  ReachInv'
<1> DEFINE l == blocks[i].listener
           w == Without(blocks, i)
<1>1. /\ blocks[i].kind = "remove" /\ listeners' = {m \in listeners : m \notin alive \/ m = l}
      /\ client' = [client EXCEPT ![l] = "unlisted"] /\ blocks' = w
      /\ UNCHANGED <<network, flags, alive, read, monitors, connected, changes, overtaken>>
  BY DEF Reach!RemoveListener, Reach!RemoveAt, Without
<1>2. "unlisted" \in Reach!Phases /\ blocks[i].kind \in Calls
  BY <1>1 DEF Reach!Phases, Calls
<1>3. /\ l \in Listeners
      /\ client' \in [Listeners -> Reach!Phases] /\ client'[l] = "unlisted"
      /\ \A m \in Listeners : m # l => client'[m] = client[m]
      /\ CallsGo(w, client') /\ w \in Seq(Reach!Blocks) /\ NotificationsAreRight(w, flags)
      /\ LastFlagsAreRight(w, network, flags) /\ \A m : PendingIn(blocks, m) => PendingIn(w, m)
      /\ MonitorsGo'
  BY <1>1, <1>2, CallStep
<1>4. ReachTypes
  BY ReachTypesAre DEF ReachInv
<1> HIDE DEF w, l
<1>5. listeners' \subseteq listeners
  BY <1>1
<1>6. ReachTypes'
  <2>1. listeners' \subseteq Listeners
    BY <1>4, <1>5 DEF ReachTypes
  <2>2. QED
    BY <1>1, <1>3, <1>4, <2>1, Zenon DEF ReachTypes, Reach!Phases
<1>7. InformedUnlessPending'
  BY <1>1, <1>3, <1>5, PendingThen DEF ReachInv, InformedUnlessPending
<1>8. QED
  BY <1>1, <1>3, <1>6, <1>7, ReachInvThen

LEMMA MonitoringBlocks ==
  ASSUME NEW l \in Listeners
  PROVE  /\ Reach!Block("add", l, FALSE) \in Reach!Blocks /\ Reach!Block("add", l, FALSE).kind = "add"
         /\ Reach!Block("add", l, FALSE).listener = l /\ ~Reach!Block("add", l, FALSE).started
         /\ Reach!Block("remove", l, FALSE) \in Reach!Blocks /\ Reach!Block("remove", l, FALSE).kind = "remove"
         /\ Reach!Block("remove", l, FALSE).listener = l /\ ~Reach!Block("remove", l, FALSE).started
<1>1. FALSE \in BOOLEAN
  BY Zenon
<1>2. "add" \in Reach!Barriers \cup {"read", "notify"} /\ l \in Listeners \cup {None}
  BY DEF Reach!Barriers
<1>3. "remove" \in Reach!Barriers \cup {"read", "notify"}
  BY DEF Reach!Barriers
<1>4. /\ Reach!Block("add", l, FALSE) \in Reach!Blocks /\ Reach!Block("add", l, FALSE).kind = "add"
      /\ Reach!Block("add", l, FALSE).listener = l /\ ~Reach!Block("add", l, FALSE).started
  BY ZenonT(30), <1>1, <1>2, NewBlock
<1>5. /\ Reach!Block("remove", l, FALSE) \in Reach!Blocks /\ Reach!Block("remove", l, FALSE).kind = "remove"
      /\ Reach!Block("remove", l, FALSE).listener = l /\ ~Reach!Block("remove", l, FALSE).started
  BY ZenonT(30), <1>1, <1>2, <1>3, NewBlock
<1>6. QED
  BY <1>4, <1>5

\* A queue submits a block: it has none of its own submitted yet.
LEMMA SubmitKeeps ==
  ASSUME ReachInv, NEW l \in Listeners, NEW from, NEW to, to = "add" \/ to = "remove",
         from \notin Calls, to # "monitoring", Reach!Submit(l, from, to, to),
         monitors \subseteq monitors', monitors' \subseteq Listeners, l \in monitors',
         UNCHANGED <<network, flags, listeners, alive, read, connected, changes, overtaken>>
  PROVE  ReachInv'
<1> DEFINE b == Reach!Block(to, l, FALSE)
<1>1. client[l] = from /\ client' = [client EXCEPT ![l] = to] /\ blocks' = Append(blocks, b)
  BY DEF Reach!Submit
<1>2. ReachTypes /\ blocks \in Seq(Reach!Blocks)
  BY ReachTypesAre DEF ReachInv
<1>3. /\ client' \in [Listeners -> Reach!Phases] /\ client'[l] = to
      /\ \A m \in Listeners : m # l => client'[m] = client[m]
  BY <1>1, <1>2 DEF ReachTypes, Reach!Phases
<1>4. b \in Reach!Blocks /\ b.kind = to /\ b.listener = l /\ ~b.started
  BY MonitoringBlocks, Zenon
<1> HIDE DEF b
<1>5. \A j \in DOMAIN blocks : blocks[j].kind \in Calls => blocks[j].listener # l
  BY <1>1 DEF ReachInv, CallsGo
<1>6. CallsGo(blocks, client')
  BY <1>3, <1>5 DEF ReachInv, CallsGo
<1>7. CallsGo(blocks', client')
  BY <1>1, <1>2, <1>3, <1>4, <1>5, <1>6, AppendKeepsCalls
<1>8. blocks' \in Seq(Reach!Blocks) /\ NotificationsAreRight(blocks', flags)
  BY <1>1, <1>2, <1>4, Appended, AppendKeepsNotifications DEF ReachInv
<1>9. LastFlagsAreRight(blocks', network, flags)
  BY <1>1, <1>2, <1>4, AppendKeepsFlags DEF ReachInv
<1>10. \A m : PendingIn(blocks, m) => PendingIn(blocks', m)
  BY <1>1, <1>2, <1>4, AppendKeepsPending
<1>11. ReachTypes'
  BY <1>2, <1>3, Zenon DEF ReachTypes, Reach!Phases
<1>12. MonitorsGo'
  BY <1>1, <1>3 DEF ReachInv, MonitorsGo
<1>13. InformedUnlessPending'
  BY <1>3, <1>10, PendingThen DEF ReachInv, InformedUnlessPending
<1>14. QED
  BY <1>8, <1>9, <1>7, <1>11, <1>12, <1>13, ReachInvThen

LEMMA MonitoringKeeps ==
  ASSUME ReachInv, NEW l \in Listeners, Reach!StartMonitoring(l) \/ Reach!StopMonitoring(l)
  PROVE  ReachInv'
<1>1. monitors \subseteq Listeners
  BY ReachTypesAre DEF ReachInv, ReachTypes
<1>2. CASE Reach!StartMonitoring(l)
  <2>1. /\ Reach!Submit(l, "new", "add", "add") /\ monitors' = monitors \union {l}
        /\ UNCHANGED <<network, flags, listeners, alive, read, connected, changes, overtaken>>
    BY <1>2 DEF Reach!StartMonitoring
  <2>2. "new" \notin Calls
    BY DEF Calls
  <2>3. QED
    BY <1>1, <2>1, <2>2, SubmitKeeps
<1>3. CASE Reach!StopMonitoring(l)
  <2>1. /\ Reach!Submit(l, "monitoring", "remove", "remove") /\ monitors' = monitors
        /\ UNCHANGED <<network, flags, listeners, alive, read, connected, changes, overtaken>>
    BY <1>3 DEF Reach!StopMonitoring
  <2>2. "monitoring" \notin Calls /\ client[l] = "monitoring"
    BY <2>1 DEF Calls, Reach!Submit
  <2>3. l \in monitors
    BY <2>2 DEF ReachInv, MonitorsGo
  <2>4. QED
    BY <1>1, <2>1, <2>2, <2>3, SubmitKeeps
<1>4. QED
  BY <1>2, <1>3

\* A queue goes on by itself, with no block.
LEMMA ClientStep ==
  ASSUME ReachInv, NEW l \in Listeners, NEW p \in Reach!Phases,
         client[l] \notin Calls, client' = [client EXCEPT ![l] = p],
         p \in {"remove", "unlisted", "add", "read"} => FALSE,
         UNCHANGED <<network, flags, listeners, blocks, alive, read, changes, overtaken>>,
         monitors' = monitors \/ (monitors' = monitors \ {l} /\ p \in {"quiet", "stopped"}),
         p \in {"apply", "monitoring"} => l \in monitors',
         connected' \subseteq Listeners, InformedUnlessPending'
  PROVE  ReachInv'
<1>1. ReachTypes
  BY ReachTypesAre DEF ReachInv
<1>2. /\ client' \in [Listeners -> Reach!Phases] /\ client'[l] = p
      /\ \A m \in Listeners : m # l => client'[m] = client[m]
  BY <1>1 DEF ReachTypes
<1>3. ReachTypes'
  <2>1. monitors' \subseteq Listeners
    BY <1>1 DEF ReachTypes
  <2>2. QED
    BY <1>1, <1>2, <2>1, Zenon DEF ReachTypes, Reach!Phases
<1>4. CallsGo(blocks, client')
  BY <1>2 DEF ReachInv, CallsGo
<1>5. MonitorsGo'
  BY <1>2 DEF ReachInv, MonitorsGo
<1>6. blocks' \in Seq(Reach!Blocks)
  BY ReachTypesAre DEF ReachInv
<1>7. NotificationsAreRight(blocks', flags') /\ LastFlagsAreRight(blocks', network', flags')
  BY DEF ReachInv
<1>8. QED
  BY <1>3, <1>4, <1>5, <1>6, <1>7, ReachInvThen

LEMMA QueueKeeps ==
  ASSUME ReachInv, NEW l \in Listeners,
         Reach!ApplyInitialState(l) \/ Reach!StopListening(l) \/ Reach!AssumeConnected(l)
  PROVE  ReachInv'
<1>1. ReachTypes
  BY ReachTypesAre DEF ReachInv
<1>2. CASE Reach!ApplyInitialState(l)
  <2>1. /\ client[l] = "apply" /\ client' = [client EXCEPT ![l] = "monitoring"]
        /\ connected' = (IF read[l] THEN connected \union {l} ELSE connected \ {l})
        /\ UNCHANGED <<network, flags, listeners, blocks, alive, read, monitors, changes, overtaken>>
    BY <1>2 DEF Reach!ApplyInitialState, Reach!Connect
  <2>2. l \in monitors /\ "monitoring" \in Reach!Phases /\ client[l] \notin Calls
    BY <2>1 DEF ReachInv, MonitorsGo, Reach!Phases, Calls
  <2>3. connected' \subseteq Listeners
    BY <1>1, <2>1 DEF ReachTypes
  <2>4. client'[l] = "monitoring" /\ \A m \in Listeners : m # l => client'[m] = client[m]
    BY <1>1, <2>1 DEF ReachTypes
  <2>5. InformedUnlessPending'
    <3> SUFFICES ASSUME NEW m \in Listeners, m \in alive, m \in listeners, m \notin overtaken,
                        ~PendingIn(blocks, m)
                 PROVE  /\ client'[m] = "apply" => read[m] = flags
                        /\ client'[m] = "monitoring" => (m \in connected' <=> flags)
      BY <2>1, PendingThen DEF InformedUnlessPending
    <3>1. CASE m = l
      <4>1. read[l] = flags
        BY <2>1, <3>1 DEF ReachInv, InformedUnlessPending
      <4>2. QED
        BY <2>1, <2>4, <3>1, <4>1
    <3>2. CASE m # l
      BY <2>1, <2>4, <3>2 DEF ReachInv, InformedUnlessPending
    <3>3. QED
      BY <3>1, <3>2
  <2>6. QED
    BY <2>1, <2>2, <2>3, <2>5, ClientStep
<1>3. CASE Reach!StopListening(l)
  <2>1. /\ client[l] = "unlisted" /\ client' = [client EXCEPT ![l] = "quiet"]
        /\ monitors' = monitors \ {l}
        /\ UNCHANGED <<network, flags, listeners, blocks, alive, read, connected, changes, overtaken>>
    BY <1>3 DEF Reach!StopListening
  <2>2. "quiet" \in Reach!Phases /\ client[l] \notin Calls
    BY <2>1 DEF Reach!Phases, Calls
  <2>3. connected' \subseteq Listeners
    BY <1>1, <2>1 DEF ReachTypes
  <2>4. client'[l] = "quiet" /\ \A m \in Listeners : m # l => client'[m] = client[m]
    BY <1>1, <2>1 DEF ReachTypes
  <2>5. InformedUnlessPending'
    BY <2>1, <2>4, PendingThen DEF ReachInv, InformedUnlessPending
  <2>6. QED
    BY <2>1, <2>2, <2>3, <2>5, ClientStep
<1>4. CASE Reach!AssumeConnected(l)
  <2>1. /\ client[l] = "quiet" /\ client' = [client EXCEPT ![l] = "stopped"]
        /\ connected' = connected \union {l}
        /\ UNCHANGED <<network, flags, listeners, blocks, alive, read, monitors, changes, overtaken>>
    BY <1>4 DEF Reach!AssumeConnected
  <2>2. "stopped" \in Reach!Phases /\ client[l] \notin Calls
    BY <2>1 DEF Reach!Phases, Calls
  <2>3. connected' \subseteq Listeners
    BY <1>1, <2>1 DEF ReachTypes
  <2>4. client'[l] = "stopped" /\ \A m \in Listeners : m # l => client'[m] = client[m]
    BY <1>1, <2>1 DEF ReachTypes
  <2>5. InformedUnlessPending'
    BY <2>1, <2>4, PendingThen DEF ReachInv, InformedUnlessPending
  <2>6. QED
    BY <2>1, <2>2, <2>3, <2>5, ClientStep
<1>5. QED
  BY <1>2, <1>3, <1>4

LEMMA DeallocKeeps ==
  ASSUME ReachInv, NEW l \in Listeners, Reach!Dealloc(l)
  PROVE  ReachInv'
<1>1. /\ alive' = alive \ {l}
      /\ UNCHANGED <<network, flags, listeners, blocks, client, read, monitors, connected, changes, overtaken>>
  BY DEF Reach!Dealloc
<1>2. ReachTypes'
  <2>1. ReachTypes
    BY ReachTypesAre DEF ReachInv
  <2>2. alive' \subseteq Listeners
    BY <1>1, <2>1 DEF ReachTypes
  <2>3. QED
    BY <1>1, <2>1, <2>2, Zenon DEF ReachTypes, Reach!Phases
<1>3. blocks' \in Seq(Reach!Blocks)
  BY <1>1, ReachTypesAre DEF ReachInv
<1>4. /\ NotificationsAreRight(blocks', flags') /\ LastFlagsAreRight(blocks', network', flags')
      /\ CallsGo(blocks', client')
  BY <1>1 DEF ReachInv
<1>5. MonitorsGo' /\ InformedUnlessPending'
  BY <1>1, PendingThen DEF ReachInv, MonitorsGo, InformedUnlessPending
<1>6. QED
  BY <1>2, <1>3, <1>4, <1>5, ReachInvThen

LEMMA ReachInvStep == ReachInv /\ [Reach!Next]_(Reach!vars) => ReachInv'
<1> SUFFICES ASSUME ReachInv, [Reach!Next]_(Reach!vars) PROVE ReachInv'
  OBVIOUS
<1>1. CASE Reach!NetworkChanges
  BY <1>1, NetworkChangesKeeps
<1>2. ASSUME NEW i \in DOMAIN blocks,
             \/ Reach!SetFlags(i) \/ Reach!BeginNotify(i) \/ Reach!CallListener(i)
             \/ Reach!ApplyNotification(i) \/ Reach!EndNotify(i) \/ Reach!Prune(i)
             \/ Reach!AddListener(i) \/ Reach!ReadState(i) \/ Reach!RemoveListener(i)
      PROVE  ReachInv'
  BY <1>2, SetFlagsKeeps, BeginNotifyKeeps, CallListenerKeeps, ApplyNotificationKeeps, EndNotifyKeeps,
     PruneKeeps, AddListenerKeeps, ReadStateKeeps, RemoveListenerKeeps
<1>3. ASSUME NEW l \in Listeners,
             \/ Reach!StartMonitoring(l) \/ Reach!ApplyInitialState(l) \/ Reach!StopMonitoring(l)
             \/ Reach!StopListening(l) \/ Reach!AssumeConnected(l) \/ Reach!Dealloc(l)
      PROVE  ReachInv'
  BY <1>3, MonitoringKeeps, QueueKeeps, DeallocKeeps
<1>4. CASE UNCHANGED Reach!vars
  <2>1. UNCHANGED <<network, flags, listeners, blocks, alive, client, read, monitors, connected, changes,
                    overtaken>>
    BY <1>4 DEF Reach!vars
  <2>2. ReachTypes' /\ blocks' \in Seq(Reach!Blocks)
    BY <2>1, ReachTypesAre, Zenon DEF ReachInv, ReachTypes, Reach!Phases
  <2>3. /\ NotificationsAreRight(blocks', flags') /\ LastFlagsAreRight(blocks', network', flags')
        /\ CallsGo(blocks', client')
    BY <2>1 DEF ReachInv
  <2>4. MonitorsGo' /\ InformedUnlessPending'
    BY <2>1, PendingThen DEF ReachInv, MonitorsGo, InformedUnlessPending
  <2>5. QED
    BY <2>2, <2>3, <2>4, ReachInvThen
<1>5. QED
  BY <1>1, <1>2, <1>3, <1>4 DEF Reach!Next

LEMMA ReachInvAlways == AllSpec => []ReachInv
<1>1. AllInit => ReachInv
  BY ReachInvInit DEF AllInit
<1>2. [AllNext]_allVars => [Reach!Next]_(Reach!vars)
  BY DEF AllNext, allVars, reachVars, Reach!vars
<1>3. ReachInv /\ [AllNext]_allVars => ReachInv'
  BY <1>2, ReachInvStep
<1>4. QED
  BY <1>1, <1>3, PTL DEF AllSpec

(***************************************************************************)
(* Once no block is left, a queue that monitors and is listed is connected *)
(* exactly when the network is reachable, for any number of queues and of  *)
(* network changes (PFReachability, startMonitoring of PFEventuallyQueue). *)
(***************************************************************************)
THEOREM LastStateWins == AllSpec => []AgreesWhenQuiet
<1>1. ReachInv => AgreesWhenQuiet
  <2> SUFFICES ASSUME ReachInv, NEW l \in Listeners, blocks = <<>>, client[l] = "monitoring",
                      l \in alive, l \in listeners, l \notin overtaken
               PROVE  l \in connected <=> network
    BY DEF AgreesWhenQuiet, Reach!AgreesWhenQuiet
  <2>1. DOMAIN blocks = {}
    OBVIOUS
  <2>2. ~PendingIn(blocks, l) /\ flags = network
    BY <2>1 DEF PendingIn, ReachInv, LastFlagsAreRight
  <2>3. QED
    BY <2>2 DEF ReachInv, InformedUnlessPending
<1>2. QED
  BY <1>1, ReachInvAlways, PTL

-----------------------------------------------------------------------------
(* The local id store. *)

(***************************************************************************)
(* The inductive invariant.  That memory and disk agree is not inductive   *)
(* alone: an id retained for the first time must find no stale id on disk, *)
(* which is what the removal of the files of released ids is for.          *)
(***************************************************************************)
StoreInv == Ids!TypeOK /\ Ids!MemoryAgreesWithDisk /\ Ids!UnretainedLeavesNoFile

LEMMA MapEntryType ==
  ASSUME Ids!TypeOK, NEW l \in LocalIds
  PROVE  /\ Ids!MapEntry(l) \in Ids!Entries
         /\ Ids!MapEntry(l).referenceCount = file[l].referenceCount
BY IdAssumption DEF Ids!TypeOK, Ids!MapEntry, Ids!Entries

\* What the entry read says of an id agrees with memory: from disk because the
\* invariant says so, from memory because that is where it came from.
LEMMA MapEntryAgrees ==
  ASSUME StoreInv, NEW l \in LocalIds
  PROVE  /\ cache[l] # NoId => Ids!MapEntry(l).objectId = cache[l]
         /\ Ids!ObjectIdForLocalId(l) = Ids!MapEntry(l).objectId
<1>1. CASE file[l].objectId = NoId
  BY <1>1 DEF StoreInv, Ids!TypeOK, Ids!MapEntry, Ids!ObjectIdForLocalId, Ids!Entries
<1>2. CASE file[l].objectId # NoId
  BY <1>2 DEF StoreInv, Ids!TypeOK, Ids!MemoryAgreesWithDisk, Ids!UnretainedLeavesNoFile, Ids!MapEntry,
              Ids!ObjectIdForLocalId, Ids!Entries
<1>3. QED
  BY <1>1, <1>2

\* The write-back of a read changes no entry but to complete it.
LEMMA WriteBackKeeps ==
  ASSUME StoreInv, NEW l \in LocalIds, file' = Ids!WrittenBack(l), UNCHANGED cache
  PROVE  StoreInv'
<1>1. CASE file[l].referenceCount > 0
  <2>1. file' = [file EXCEPT ![l] = Ids!MapEntry(l)]
    BY <1>1 DEF Ids!WrittenBack
  <2>2. Ids!TypeOK' /\ Ids!UnretainedLeavesNoFile'
    BY <1>1, <2>1, MapEntryType DEF StoreInv, Ids!TypeOK, Ids!UnretainedLeavesNoFile, Ids!Entries
  <2>3. Ids!MemoryAgreesWithDisk'
    BY <2>1, MapEntryAgrees DEF StoreInv, Ids!TypeOK, Ids!MemoryAgreesWithDisk
  <2>4. QED
    BY <2>2, <2>3 DEF StoreInv
<1>2. CASE ~(file[l].referenceCount > 0)
  BY <1>2 DEF Ids!WrittenBack, StoreInv, Ids!TypeOK, Ids!MemoryAgreesWithDisk, Ids!UnretainedLeavesNoFile
<1>3. QED
  BY <1>1, <1>2

LEMMA RetainKeeps ==
  ASSUME StoreInv, NEW l \in LocalIds, Ids!RetainLocalIdOnDisk(l)
  PROVE  StoreInv'
<1> DEFINE e == [Ids!MapEntry(l) EXCEPT !.referenceCount = @ + 1]
<1>1. /\ file' = [file EXCEPT ![l] = e] /\ cache' = cache
      /\ file[l].referenceCount < MaxRetains
  BY DEF Ids!RetainLocalIdOnDisk
<1>2. /\ e \in Ids!Entries /\ e.referenceCount > 0
      /\ e.objectId = Ids!MapEntry(l).objectId
  BY <1>1, MapEntryType, IdAssumption DEF StoreInv, Ids!TypeOK, Ids!Entries
<1> HIDE DEF e
<1>3. Ids!TypeOK' /\ Ids!UnretainedLeavesNoFile'
  BY <1>1, <1>2 DEF StoreInv, Ids!TypeOK, Ids!UnretainedLeavesNoFile, Ids!Entries
<1>4. Ids!MemoryAgreesWithDisk'
  BY <1>1, <1>2, MapEntryAgrees DEF StoreInv, Ids!TypeOK, Ids!MemoryAgreesWithDisk
<1>5. QED
  BY <1>3, <1>4 DEF StoreInv

LEMMA ReleaseKeeps ==
  ASSUME StoreInv, NEW l \in LocalIds, Ids!ReleaseLocalIdOnDisk(l)
  PROVE  StoreInv'
<1> DEFINE e == IF Ids!MapEntry(l).referenceCount > 1
                  THEN [Ids!MapEntry(l) EXCEPT !.referenceCount = @ - 1]
                  ELSE Ids!NoEntry
<1>1. file' = [file EXCEPT ![l] = e] /\ cache' = cache
  BY DEF Ids!ReleaseLocalIdOnDisk
<1>2. /\ e \in Ids!Entries
      /\ e = Ids!NoEntry \/ (e.referenceCount > 0 /\ e.objectId = Ids!MapEntry(l).objectId)
  <2>1. Ids!MapEntry(l) \in Ids!Entries
    BY MapEntryType DEF StoreInv
  <2>2. CASE Ids!MapEntry(l).referenceCount > 1
    BY <2>1, <2>2, IdAssumption DEF Ids!Entries
  <2>3. CASE ~(Ids!MapEntry(l).referenceCount > 1)
    BY <2>3, IdAssumption DEF Ids!Entries, Ids!NoEntry
  <2>4. QED
    BY <2>2, <2>3
<1>3. Ids!NoEntry.referenceCount = 0 /\ Ids!NoEntry.objectId = NoId
  BY DEF Ids!NoEntry
<1> HIDE DEF e
<1>4. Ids!TypeOK' /\ Ids!UnretainedLeavesNoFile'
  BY <1>1, <1>2, <1>3 DEF StoreInv, Ids!TypeOK, Ids!UnretainedLeavesNoFile, Ids!Entries
<1>5. Ids!MemoryAgreesWithDisk'
  BY <1>1, <1>2, <1>3, MapEntryAgrees DEF StoreInv, Ids!TypeOK, Ids!MemoryAgreesWithDisk
<1>6. QED
  BY <1>4, <1>5 DEF StoreInv

LEMMA SetObjectIdKeeps ==
  ASSUME StoreInv, NEW l \in LocalIds, NEW o \in ObjectIds, Ids!SetObjectId(o, l)
  PROVE  StoreInv'
<1>1. cache' = [cache EXCEPT ![l] = o]
  BY DEF Ids!SetObjectId
<1>2. CASE file[l].referenceCount > 0
  <2>1. file' = [file EXCEPT ![l].objectId = o]
    BY <1>2 DEF Ids!SetObjectId
  <2>2. file'[l].objectId = o /\ file'[l].referenceCount = file[l].referenceCount
    BY <2>1 DEF StoreInv, Ids!TypeOK, Ids!Entries
  <2>3. Ids!TypeOK'
    BY <1>1, <2>1 DEF StoreInv, Ids!TypeOK, Ids!Entries
  <2>4. Ids!MemoryAgreesWithDisk'
    BY <1>1, <2>1, <2>2 DEF StoreInv, Ids!TypeOK, Ids!MemoryAgreesWithDisk
  <2>5. Ids!UnretainedLeavesNoFile'
    BY <1>2, <2>1, <2>2 DEF StoreInv, Ids!TypeOK, Ids!UnretainedLeavesNoFile
  <2>6. QED
    BY <2>3, <2>4, <2>5 DEF StoreInv
<1>3. CASE ~(file[l].referenceCount > 0)
  <2>1. file' = file
    BY <1>3 DEF Ids!SetObjectId
  <2>2. QED
    BY <1>1, <1>3, <2>1
       DEF StoreInv, Ids!TypeOK, Ids!MemoryAgreesWithDisk, Ids!UnretainedLeavesNoFile
<1>4. QED
  BY <1>2, <1>3

LEMMA LookUpKeeps ==
  ASSUME StoreInv, NEW l \in LocalIds, Ids!LookUp(l)
  PROVE  StoreInv'
<1>1. file' = Ids!WrittenBack(l) \/ file' = file
  BY DEF Ids!LookUp
<1>2. UNCHANGED cache
  BY DEF Ids!LookUp
<1>3. QED
  BY <1>1, <1>2, WriteBackKeeps
     DEF StoreInv, Ids!TypeOK, Ids!MemoryAgreesWithDisk, Ids!UnretainedLeavesNoFile

LEMMA StoreInvInit == Ids!Init => StoreInv
BY IdAssumption
   DEF Ids!Init, StoreInv, Ids!TypeOK, Ids!MemoryAgreesWithDisk, Ids!UnretainedLeavesNoFile,
      Ids!Entries, Ids!NoEntry

LEMMA StoreInvStep == StoreInv /\ [Ids!Next]_(Ids!vars) => StoreInv'
<1> SUFFICES ASSUME StoreInv, [Ids!Next]_(Ids!vars) PROVE StoreInv'
  OBVIOUS
<1>1. CASE UNCHANGED Ids!vars
  BY <1>1 DEF Ids!vars, StoreInv, Ids!TypeOK, Ids!MemoryAgreesWithDisk, Ids!UnretainedLeavesNoFile
<1>2. CASE \E l \in LocalIds :
             \/ Ids!RetainLocalIdOnDisk(l)
             \/ Ids!ReleaseLocalIdOnDisk(l)
             \/ Ids!LookUp(l)
             \/ \E o \in ObjectIds : Ids!SetObjectId(o, l)
  BY <1>2, RetainKeeps, ReleaseKeeps, LookUpKeeps, SetObjectIdKeeps
<1>3. CASE Ids!Clear
  BY <1>3, IdAssumption
     DEF Ids!Clear, StoreInv, Ids!TypeOK, Ids!MemoryAgreesWithDisk, Ids!UnretainedLeavesNoFile,
        Ids!Entries,
         Ids!NoEntry
<1>4. CASE Ids!ForgetMemory
  BY <1>4
     DEF Ids!ForgetMemory, StoreInv, Ids!TypeOK, Ids!MemoryAgreesWithDisk, Ids!UnretainedLeavesNoFile
<1>5. QED
  BY <1>1, <1>2, <1>3, <1>4 DEF Ids!Next

LEMMA StoreInvAlways == AllSpec => []StoreInv
<1>1. AllInit => StoreInv
  BY StoreInvInit DEF AllInit
<1>2. [AllNext]_allVars => [Ids!Next]_(Ids!vars)
  BY DEF AllNext, allVars, idVars, Ids!vars
<1>3. StoreInv /\ [AllNext]_allVars => StoreInv'
  BY <1>2, StoreInvStep
<1>4. QED
  BY <1>1, <1>3, PTL DEF AllSpec

-----------------------------------------------------------------------------
(***************************************************************************)
(* Memory and disk agree about every retained id that memory has resolved. *)
(***************************************************************************)
THEOREM StoreAgrees == AllSpec => []MemoryAgreesWithDisk
<1>1. StoreInv => MemoryAgreesWithDisk
  BY DEF StoreInv, MemoryAgreesWithDisk
<1>2. QED
  BY <1>1, StoreInvAlways, PTL

(***************************************************************************)
(* An id that nobody retains leaves nothing on disk (getMapEntry,          *)
(* releaseLocalIdOnDisk:).                                                 *)
(***************************************************************************)
THEOREM ReleasedLeavesNothing == AllSpec => []Ids!UnretainedLeavesNoFile
BY StoreInvAlways, PTL DEF StoreInv

(***************************************************************************)
(* The death of the process, or a loss of the memory cache, does not       *)
(* change the answer for an id retained on disk.                           *)
(***************************************************************************)
THEOREM RebootKeepsAnswers == AllSpec => Ids!RetainedSurvivesReboot
<1> DEFINE Survives == Ids!ForgetMemory =>
             \A l \in LocalIds : file[l].referenceCount > 0 =>
               Ids!ObjectIdForLocalId(l)' = Ids!ObjectIdForLocalId(l)
<1>1. StoreInv => [Survives]_(Ids!vars)
  <2> SUFFICES ASSUME StoreInv, Ids!ForgetMemory, NEW l \in LocalIds,
                      file[l].referenceCount > 0
               PROVE  Ids!ObjectIdForLocalId(l)' = Ids!ObjectIdForLocalId(l)
    OBVIOUS
  <2>1. cache'[l] = NoId /\ file' = file
    BY DEF Ids!ForgetMemory
  <2>2. Ids!ObjectIdForLocalId(l)' = file[l].objectId
    BY <2>1 DEF Ids!ObjectIdForLocalId, Ids!MapEntry, StoreInv, Ids!TypeOK, Ids!Entries
  <2>3. Ids!ObjectIdForLocalId(l) = file[l].objectId
    BY DEF Ids!ObjectIdForLocalId, Ids!MapEntry, StoreInv, Ids!TypeOK, Ids!MemoryAgreesWithDisk,
       Ids!Entries
  <2>4. QED
    BY <2>2, <2>3
<1>2. [AllNext]_allVars => [Ids!Next]_(Ids!vars)
  BY DEF AllNext, allVars, idVars, Ids!vars
<1>3. QED
  BY <1>1, <1>2, StoreInvAlways, PTL DEF Ids!RetainedSurvivesReboot, AllSpec

-----------------------------------------------------------------------------
(* The locks of several processes. *)

(***************************************************************************)
(* The inductive invariant.  An open lock file is open in one process; and *)
(* as long as the accesses of a process to a file do not overlap there is  *)
(* at most one, and the process has the lock.  The end of one of two that  *)
(* overlap gives the lock away, which is why they are excepted.            *)
(***************************************************************************)
OneHolder ==
  \A p, q \in Processes, f \in Files : p # q /\ fd[p][f] # 0 => fd[p][f] # fd[q][f]

HeldWhileAccessing ==
  \A p \in Processes, f \in Files, w \in Workers :
    <<p, f>> \notin overlapped /\ depth[p][w][f] > 0 =>
      /\ fd[p][f] # 0
      /\ depth[p][w][f] = 1
      /\ \A v \in Workers : depth[p][v][f] > 0 => v = w

InodesInUse ==
  /\ \A f \in Files : inode[f] <= accidents + 1
  /\ \A p \in Processes, f \in Files : fd[p][f] <= inode[f]
  /\ \A p \in Processes :
       waiting[p] # NoWait => waiting[p].inode <= inode[waiting[p].file]

\* A begin that waits has passed the guards, and nothing else of its process
\* begins or ends meanwhile.
WaitsWithin ==
  \A p \in Processes : waiting[p] # NoWait =>
    LET w == waiting[p] IN
      depth[p][w.worker][w.file] < MaxDepth /\ count[p][w.file] < MaxAccesses

LockInv == TypeOK /\ OneHolder /\ HeldWhileAccessing /\ InodesInUse /\ WaitsWithin

LEMMA LockInvInit == Init => LockInv
BY LockAssumption
   DEF Init, LockInv, TypeOK, OneHolder, HeldWhileAccessing, InodesInUse, WaitsWithin,
       Inodes, LockAssumption

LEMMA BeginHeldKeeps ==
  ASSUME LockInv, NEW p \in Processes, NEW w \in Workers, NEW f \in Files, BeginHeld(p, w, f)
  PROVE  LockInv'
<1> USE LockAssumption DEF LockInv, TypeOK, Inodes, LockAssumption
<1>1. TypeOK'
  BY DEF BeginHeld, Granted, Accessing
<1>2. OneHolder' /\ InodesInUse'
  BY DEF BeginHeld, OneHolder, InodesInUse
<1>3. HeldWhileAccessing'
  BY DEF BeginHeld, Granted, Accessing, HeldWhileAccessing
<1>4. WaitsWithin'
  BY DEF BeginHeld, Granted, WaitsWithin, Waits
<1>5. QED
  BY <1>1, <1>2, <1>3, <1>4

LEMMA BeginOpenKeeps ==
  ASSUME LockInv, NEW p \in Processes, NEW w \in Workers, NEW f \in Files, BeginOpen(p, w, f)
  PROVE  LockInv'
<1> USE LockAssumption DEF LockInv, TypeOK, Inodes, LockAssumption
<1>1. TypeOK'
  BY DEF BeginOpen, Waits
<1>2. OneHolder' /\ HeldWhileAccessing'
  BY DEF BeginOpen, OneHolder, HeldWhileAccessing
<1>3. InodesInUse' /\ WaitsWithin'
  BY DEF BeginOpen, InodesInUse, WaitsWithin, Waits
<1>4. QED
  BY <1>1, <1>2, <1>3

LEMMA AcquireKeeps ==
  ASSUME LockInv, NEW p \in Processes, Acquire(p)
  PROVE  LockInv'
<1> USE LockAssumption DEF LockInv, TypeOK, Inodes, LockAssumption
<1> DEFINE w == waiting[p]
<1>1. /\ w \in Waits /\ w.worker \in Workers /\ w.file \in Files /\ w.inode \in Inodes
      /\ depth[p][w.worker][w.file] < MaxDepth /\ count[p][w.file] < MaxAccesses
  BY DEF Acquire, Waits, WaitsWithin
<1>2. TypeOK'
  BY <1>1 DEF Acquire, Granted, Accessing
<1>3. OneHolder'
  BY <1>1 DEF Acquire, OneHolder
<1>4. HeldWhileAccessing'
  BY SMTT(30), <1>1 DEF Acquire, Granted, Accessing, HeldWhileAccessing
<1>5. InodesInUse' /\ WaitsWithin'
  BY <1>1 DEF Acquire, Granted, InodesInUse, WaitsWithin, Waits
<1>6. QED
  BY <1>2, <1>3, <1>4, <1>5

LEMMA EndKeeps ==
  ASSUME LockInv, NEW p \in Processes, NEW w \in Workers, NEW f \in Files, End(p, w, f)
  PROVE  LockInv'
<1> USE LockAssumption DEF LockInv, TypeOK, Inodes, LockAssumption
<1>1. TypeOK'
  BY DEF End
<1>2. OneHolder' /\ InodesInUse'
  BY DEF End, OneHolder, InodesInUse
<1>3. HeldWhileAccessing'
  BY DEF End, HeldWhileAccessing
<1>4. WaitsWithin'
  BY DEF End, WaitsWithin, Waits
<1>5. QED
  BY <1>1, <1>2, <1>3, <1>4

LEMMA RemoveLockFileKeeps ==
  ASSUME LockInv, NEW p \in Processes, NEW f \in Files, RemoveLockFile(p, f)
  PROVE  LockInv'
<1> USE LockAssumption DEF LockInv, TypeOK, Inodes, LockAssumption
<1>1. TypeOK' /\ InodesInUse'
  BY DEF RemoveLockFile, InodesInUse, Waits
<1>2. OneHolder' /\ HeldWhileAccessing' /\ WaitsWithin'
  BY DEF RemoveLockFile, OneHolder, HeldWhileAccessing, WaitsWithin
<1>3. QED
  BY <1>1, <1>2

LEMMA DieKeeps ==
  ASSUME LockInv, NEW p \in Processes, Die(p)
  PROVE  LockInv'
<1> USE LockAssumption DEF LockInv, TypeOK, Inodes, LockAssumption
<1>1. TypeOK'
  BY DEF Die
<1>2. OneHolder' /\ InodesInUse'
  BY DEF Die, OneHolder, InodesInUse
<1>3. HeldWhileAccessing'
  BY DEF Die, HeldWhileAccessing
<1>4. WaitsWithin'
  BY DEF Die, WaitsWithin, Waits
<1>5. QED
  BY <1>1, <1>2, <1>3, <1>4

LEMMA LockInvStep == LockInv /\ [Next]_vars => LockInv'
<1> SUFFICES ASSUME LockInv, [Next]_vars PROVE LockInv'
  OBVIOUS
<1>1. CASE UNCHANGED vars
  BY <1>1
     DEF vars, LockInv, TypeOK, OneHolder, HeldWhileAccessing, InodesInUse, WaitsWithin
<1>2. CASE Next
  BY <1>2, BeginHeldKeeps, BeginOpenKeeps, AcquireKeeps, EndKeeps, RemoveLockFileKeeps,
     DieKeeps
     DEF Next
<1>3. QED
  BY <1>1, <1>2

LEMMA LockInvAlways == AllSpec => []LockInv
<1>1. AllInit => LockInv
  BY LockInvInit DEF AllInit
<1>2. [AllNext]_allVars => [Next]_vars
  BY DEF AllNext, allVars, vars
<1>3. LockInv /\ [AllNext]_allVars => LockInv'
  BY <1>2, LockInvStep
<1>4. QED
  BY <1>1, <1>3, PTL DEF AllSpec

\* Two processes that both have the lock of a file whose lock file was never
\* removed have the same file open.
LEMMA LockInvExcludes == LockInv => ExclusiveUnlessOverlapped
<1> SUFFICES ASSUME LockInv,
                    NEW p \in Processes, NEW q \in Processes, NEW f \in Files,
                    p # q, Accessing(p, f), Accessing(q, f),
                    <<p, f>> \notin overlapped, <<q, f>> \notin overlapped
             PROVE  inode[f] > 1
  BY DEF ExclusiveUnlessOverlapped
<1>1. fd[p][f] # 0 /\ fd[q][f] # 0
  BY DEF Accessing, LockInv, HeldWhileAccessing
<1>2. fd[p][f] # fd[q][f]
  BY <1>1 DEF LockInv, OneHolder
<1>3. /\ fd[p][f] \in 0 .. MaxAccidents + 1 /\ fd[q][f] \in 0 .. MaxAccidents + 1
      /\ inode[f] \in 1 .. MaxAccidents + 1
  BY DEF LockInv, TypeOK, Inodes
<1>4. fd[p][f] <= inode[f] /\ fd[q][f] <= inode[f]
  BY DEF LockInv, InodesInUse
<1>5. QED
  BY <1>1, <1>2, <1>3, <1>4, LockAssumption DEF LockAssumption

(***************************************************************************)
(* The lock excludes the other processes, but for accesses of one process  *)
(* that overlap and for lock files that are removed                        *)
(* (PFMultiProcessFileLockController).                                     *)
(***************************************************************************)
THEOREM LocksExclude == AllSpec => []ExclusiveUnlessOverlapped
BY LockInvAlways, LockInvExcludes, PTL

-----------------------------------------------------------------------------
(* The key-value cache.  What a quiet key holds is not inductive: the invariant
   says what its file will hold once the blocks submitted so far have run, and
   what a load among them will find. *)

\* What an operation of the cache is about.
WellFormed(b) ==
  /\ b.op = "clear" => b.keys = Keys
  /\ b.op \in {"write", "load", "touch", "remove"} => \E k \in Keys : b.keys = {k}
  /\ b.op = "write" => b.value \in Values

DiskBlocks ==
  {b \in [op : Cache!Ops, keys : SUBSET Keys, value : Values \cup {0}, maxAge : 0 .. MaxAges, from : Threads] :
     WellFormed(b)}

\* What a thread does; only calls that set or remove change anything.
Doings ==
  {d \in [at : {"idle", "drop", "post", "wait"}, op : Cache!Ops \cup {"none"}, keys : SUBSET Keys,
          value : Values \cup {0}, maxAge : 0 .. MaxAges, changes : BOOLEAN] :
     /\ WellFormed(d)
     /\ d.at = "idle" <=> d.op = "none"
     /\ d.at = "idle" => d.keys = {}
     /\ d.at = "drop" => d.op = "remove"
     /\ d.op \in {"write", "clear"} => d.changes
     /\ d.op \in {"load", "touch"} => ~d.changes}

CacheTypes ==
  /\ clock \in 0 .. MaxAges /\ calls \in 0 .. MaxCalls
  /\ memory \in [Keys -> [present : BOOLEAN, value : Values \cup {0}, date : Cache!Dates]]
  /\ disk \in [Keys -> [value : Values \cup {0}, date : Cache!Dates]]
  /\ dirDate \in Cache!Dates /\ index.date \in Cache!Dates
  /\ thread \in [Threads -> Doings]
  /\ latest \in [Keys -> Values \cup {0}]
  /\ raced \subseteq Keys

\* The file of k is written or removed by a block after the i-th and up to the n-th.
Overwritten(q, k, i, n) ==
  \E j \in DOMAIN q : i < j /\ j <= n /\ q[j].op \in {"write", "remove", "clear"} /\ k \in q[j].keys

\* Once the first n blocks have run, the file of k holds v or there is none;
\* d is what it holds now.
RightAfter(q, n, k, v, d) ==
  /\ ~Overwritten(q, k, 0, n) => d \in {v, 0}
  /\ \A i \in DOMAIN q : i <= n /\ q[i].op = "write" /\ k \in q[i].keys /\ ~Overwritten(q, k, i, n) => q[i].value = v

\* Calls on a key that do not race: a change is alone.
ChangesAreAlone(th, rc) ==
  \A k \in Keys \ rc : \A t, u \in Threads :
    t # u /\ k \in th[t].keys /\ k \in th[u].keys => ~th[t].changes

\* A block that is waited for has its thread.
WaitsGo(q, th) ==
  /\ \A i \in DOMAIN q : q[i].op \in {"load", "clear"} => th[q[i].from].at = "wait" /\ th[q[i].from].keys = q[i].keys
  /\ \A i, j \in DOMAIN q : i # j /\ q[i].op \in {"load", "clear"} /\ q[j].op \in {"load", "clear"} =>
       q[i].from # q[j].from

\* Thread t is about to submit the block of a change of k.
ToChange(th, k) == \E t \in Threads : th[t].at = "post" /\ th[t].changes /\ k \in th[t].keys

\* The value of a key: what memory has, what is to be written, what the file
\* will hold in the end and what a load will find.
KeyIsRight(q, th, k, m, v, d) ==
  /\ m \in {v, 0}
  /\ \A t \in Threads : th[t].at = "post" /\ th[t].op = "write" /\ k \in th[t].keys => th[t].value = v
  /\ ~ToChange(th, k) => RightAfter(q, Len(q), k, v, d)
  /\ \A i \in DOMAIN q : q[i].op = "load" /\ k \in q[i].keys => RightAfter(q, i - 1, k, v, d)

CacheInv ==
  /\ CacheTypes /\ excess \in BOOLEAN /\ diskQueue \in Seq(DiskBlocks)
  /\ ChangesAreAlone(thread, raced) /\ WaitsGo(diskQueue, thread)
  /\ \A k \in Keys \ raced : KeyIsRight(diskQueue, thread, k, memory[k].value, latest[k], disk[k].value)

LEMMA TailOf ==
  ASSUME NEW S, NEW q \in Seq(S), q # <<>>
  PROVE  /\ Tail(q) \in Seq(S) /\ Len(q) \in Nat /\ Len(q) >= 1 /\ Len(Tail(q)) = Len(q) - 1
         /\ DOMAIN q = 1 .. Len(q) /\ DOMAIN Tail(q) = 1 .. Len(q) - 1
         /\ 1 \in DOMAIN q /\ Head(q) = q[1] /\ q[1] \in S
         /\ \A i \in DOMAIN Tail(q) : i + 1 \in DOMAIN q /\ Tail(q)[i] = q[i + 1]
OBVIOUS

\* Blocks that are appended change nothing about the first n.
LEMMA AppendKeepsAfter ==
  ASSUME NEW q \in Seq(DiskBlocks), NEW b \in DiskBlocks, NEW n \in 0 .. Len(q), NEW k, NEW v, NEW d,
         RightAfter(q, n, k, v, d)
  PROVE  RightAfter(Append(q, b), n, k, v, d)
<1> DEFINE w == Append(q, b)
           l == Len(q)
<1>1. /\ l \in Nat /\ n \in 0 .. l /\ DOMAIN q = 1 .. l
      /\ \A j \in DOMAIN w : j # l + 1 => j \in DOMAIN q
      /\ \A j \in DOMAIN q : j \in DOMAIN w /\ w[j] = q[j]
  BY Appended
<1> HIDE DEF w, l
<1>2. ASSUME NEW i, Overwritten(q, k, i, n) PROVE Overwritten(w, k, i, n)
  BY <1>1, <1>2 DEF Overwritten
<1>3. \A j \in DOMAIN w : j <= n => j \in DOMAIN q
  BY <1>1
<1>4. QED
  BY <1>1, <1>2, <1>3 DEF RightAfter, w

\* A block that is appended and what the file holds after it.
LEMMA AppendedAfter ==
  ASSUME NEW q \in Seq(DiskBlocks), NEW b \in DiskBlocks, NEW k, NEW v, NEW d,
         \/ b.op = "write" /\ k \in b.keys /\ b.value = v
         \/ b.op \in {"remove", "clear"} /\ k \in b.keys
         \/ ~(b.op \in {"write", "remove", "clear"} /\ k \in b.keys) /\ RightAfter(q, Len(q), k, v, d)
  PROVE  RightAfter(Append(q, b), Len(Append(q, b)), k, v, d)
<1> DEFINE w == Append(q, b)
           l == Len(q)
<1>1. /\ l \in Nat /\ DOMAIN q = 1 .. l /\ DOMAIN w = 1 .. l + 1 /\ Len(w) = l + 1
      /\ l + 1 \in DOMAIN w /\ w[l + 1] = b
      /\ \A j \in DOMAIN w : j # l + 1 => j \in DOMAIN q
      /\ \A j \in DOMAIN q : j \in DOMAIN w /\ w[j] = q[j] /\ j # l + 1 /\ j < l + 1
  BY Appended
<1> HIDE DEF w, l
<1>2. CASE b.op \in {"write", "remove", "clear"} /\ k \in b.keys
  <2>1. \A i \in DOMAIN q : Overwritten(w, k, i, l + 1)
    BY <1>1, <1>2 DEF Overwritten
  <2>2. Overwritten(w, k, 0, l + 1)
    BY <1>1, <1>2 DEF Overwritten
  <2>3. QED
    BY <1>1, <1>2, <2>1, <2>2 DEF RightAfter, w
<1>3. CASE ~(b.op \in {"write", "remove", "clear"} /\ k \in b.keys)
  <2>1. RightAfter(q, l, k, v, d)
    BY <1>3 DEF l
  <2>2. \A i : Overwritten(q, k, i, l) => Overwritten(w, k, i, l + 1)
    BY <1>1 DEF Overwritten
  <2>3. \A i \in DOMAIN w : i <= l + 1 /\ w[i].op = "write" /\ k \in w[i].keys => i \in DOMAIN q /\ i <= l
    BY <1>1, <1>3
  <2>4. QED
    BY <1>1, <2>1, <2>2, <2>3 DEF RightAfter, w
<1>4. QED
  BY <1>2, <1>3

\* The first block runs; the file then holds e.
LEMMA TailAfter ==
  ASSUME NEW q \in Seq(DiskBlocks), q # <<>>, NEW n \in 1 .. Len(q), NEW k, NEW v, NEW d, NEW e,
         RightAfter(q, n, k, v, d),
         ~(q[1].op \in {"write", "remove", "clear"} /\ k \in q[1].keys) => e \in {d, 0},
         q[1].op = "write" /\ k \in q[1].keys => e \in {q[1].value, 0},
         q[1].op \in {"remove", "clear"} /\ k \in q[1].keys => e = 0
  PROVE  RightAfter(Tail(q), n - 1, k, v, e)
<1> DEFINE w == Tail(q)
           l == Len(q)
<1>1. /\ l \in Nat /\ l >= 1 /\ n \in 1 .. l /\ DOMAIN q = 1 .. l /\ DOMAIN w = 1 .. l - 1 /\ 1 \in DOMAIN q
      /\ \A i \in DOMAIN w : i + 1 \in DOMAIN q /\ w[i] = q[i + 1]
  BY TailOf
<1> HIDE DEF w, l
<1>2. ASSUME NEW i \in Nat, Overwritten(q, k, i + 1, n) PROVE Overwritten(w, k, i, n - 1)
  <2>1. PICK j \in DOMAIN q : i + 1 < j /\ j <= n /\ q[j].op \in {"write", "remove", "clear"} /\ k \in q[j].keys
    BY <1>2 DEF Overwritten
  <2>2. j - 1 \in DOMAIN w /\ (j - 1) + 1 = j /\ i < j - 1 /\ j - 1 <= n - 1
    BY <1>1, <2>1
  <2>3. w[j - 1] = q[j]
    BY <1>1, <2>2
  <2>4. QED
    BY <2>1, <2>2, <2>3 DEF Overwritten
<1>3. ASSUME ~Overwritten(w, k, 0, n - 1) PROVE e \in {v, 0}
  <2>1. 0 + 1 = 1 /\ 0 \in Nat
    OBVIOUS
  <2>2. ~Overwritten(q, k, 1, n)
    BY <1>2, <1>3, <2>1
  <2>3. CASE q[1].op = "write" /\ k \in q[1].keys
    BY <1>1, <2>2, <2>3 DEF RightAfter
  <2>4. CASE ~(q[1].op \in {"write", "remove", "clear"} /\ k \in q[1].keys)
    <3>1. ~Overwritten(q, k, 0, n)
      BY <1>1, <2>2, <2>4 DEF Overwritten
    <3>2. QED
      BY <2>4, <3>1 DEF RightAfter
  <2>5. QED
    BY <2>3, <2>4
<1>4. ASSUME NEW i \in DOMAIN w, i <= n - 1, w[i].op = "write", k \in w[i].keys, ~Overwritten(w, k, i, n - 1)
      PROVE  w[i].value = v
  <2>1. i \in Nat /\ i + 1 \in DOMAIN q /\ i + 1 <= n /\ w[i] = q[i + 1]
    BY <1>1, <1>4
  <2>2. ~Overwritten(q, k, i + 1, n)
    BY <1>2, <1>4, <2>1
  <2>3. QED
    BY <1>4, <2>1, <2>2 DEF RightAfter
<1>5. QED
  BY <1>3, <1>4 DEF RightAfter, w

LEMMA CacheInvThen ==
  ASSUME CacheTypes', excess' \in BOOLEAN, diskQueue' \in Seq(DiskBlocks),
         ChangesAreAlone(thread', raced'), WaitsGo(diskQueue', thread'),
         \A k \in Keys \ raced' :
           KeyIsRight(diskQueue', thread', k, memory'[k].value, latest'[k], disk'[k].value)
  PROVE  CacheInv'
<1>1. DiskBlocks' = DiskBlocks
  BY DEF DiskBlocks, WellFormed, Cache!Ops
<1>2. ChangesAreAlone(thread, raced)' /\ WaitsGo(diskQueue, thread)'
  BY DEF ChangesAreAlone, WaitsGo
<1>3. \A k \in Keys \ raced' : KeyIsRight(diskQueue, thread, k, memory[k].value, latest[k], disk[k].value)'
  BY DEF KeyIsRight, RightAfter, Overwritten, ToChange
<1>4. QED
  BY <1>1, <1>2, <1>3 DEF CacheInv

LEMMA CacheInvInit == Cache!Init => CacheInv
<1> SUFFICES ASSUME Cache!Init PROVE CacheInv
  OBVIOUS
<1>1. CacheTypes
  <2>1. Cache!Idle \in Doings
    BY CacheAssumption DEF Cache!Idle, Cache!Doing, Doings, WellFormed, Cache!NoValue, Cache!Ops
  <2>2. /\ Cache!Absent \in [present : BOOLEAN, value : Values \cup {0}, date : Cache!Dates]
        /\ Cache!NoFile \in [value : Values \cup {0}, date : Cache!Dates] /\ Cache!NoIndex.date \in Cache!Dates
        /\ Cache!NoDate \in Cache!Dates
    BY CacheAssumption DEF Cache!Absent, Cache!NoFile, Cache!NoIndex, Cache!NoDate, Cache!NoValue,
       Cache!Dates
  <2>3. QED
    BY <2>1, <2>2, CacheAssumption DEF Cache!Init, CacheTypes, Cache!NoValue
<1>2. /\ diskQueue = <<>> /\ \A t \in Threads : thread[t].keys = {} /\ thread[t].at = "idle"
      /\ \A k \in Keys : memory[k].value = 0 /\ disk[k].value = 0 /\ latest[k] = 0
  BY DEF Cache!Init, Cache!Idle, Cache!Doing, Cache!Absent, Cache!NoFile, Cache!NoValue
<1>3. diskQueue \in Seq(DiskBlocks) /\ DOMAIN diskQueue = {}
  BY <1>2
<1>4. ChangesAreAlone(thread, raced) /\ WaitsGo(diskQueue, thread)
  BY <1>2, <1>3 DEF ChangesAreAlone, WaitsGo
<1>5. \A k \in Keys : KeyIsRight(diskQueue, thread, k, memory[k].value, latest[k], disk[k].value)
  BY <1>2, <1>3 DEF KeyIsRight, RightAfter
<1>6. excess \in BOOLEAN
  BY Zenon DEF Cache!Init
<1>7. QED
  BY <1>1, <1>3, <1>4, <1>5, <1>6 DEF CacheInv

\* The first block has run and the thread that waited for it is idle.
LEMMA RanKeepsKey ==
  ASSUME diskQueue \in Seq(DiskBlocks), diskQueue # <<>>,
         \A t \in Threads : thread'[t] = thread[t] \/ (thread[t].at = "wait" /\ thread'[t].at = "idle"),
         NEW k \in Keys, KeyIsRight(diskQueue, thread, k, memory[k].value, latest[k], disk[k].value),
         memory'[k].value \in {latest[k], 0},
         ~(diskQueue[1].op \in {"write", "remove", "clear"} /\ k \in diskQueue[1].keys) =>
           disk'[k].value \in {disk[k].value, 0},
         diskQueue[1].op = "write" /\ k \in diskQueue[1].keys => disk'[k].value \in {diskQueue[1].value, 0},
         diskQueue[1].op \in {"remove", "clear"} /\ k \in diskQueue[1].keys => disk'[k].value = 0
  PROVE  KeyIsRight(Tail(diskQueue), thread', k, memory'[k].value, latest[k], disk'[k].value)
<1> DEFINE q == diskQueue
           th == thread
           ti == thread'
           v == latest[k]
           d == disk[k].value
           e == disk'[k].value
           w == Tail(q)
<1>1. /\ Len(q) \in Nat /\ Len(q) \in 1 .. Len(q) /\ Len(w) = Len(q) - 1
      /\ DOMAIN q = 1 .. Len(q) /\ DOMAIN w = 1 .. Len(q) - 1
      /\ \A i \in DOMAIN w : i + 1 \in DOMAIN q /\ w[i] = q[i + 1]
  BY TailOf
<1>2. ASSUME NEW n \in 1 .. Len(q), RightAfter(q, n, k, v, d) PROVE RightAfter(w, n - 1, k, v, e)
  BY <1>2, TailAfter
<1> HIDE DEF w
<1>3. ToChange(th, k) => ToChange(ti, k)
  BY DEF ToChange
<1>4. ~ToChange(ti, k) => RightAfter(w, Len(w), k, v, e)
  BY <1>1, <1>2, <1>3 DEF KeyIsRight
<1>5. ASSUME NEW i \in DOMAIN w, w[i].op = "load", k \in w[i].keys PROVE RightAfter(w, i - 1, k, v, e)
  <2>1. i + 1 \in DOMAIN q /\ w[i] = q[i + 1] /\ i \in 1 .. Len(q) /\ (i + 1) - 1 = i
    BY <1>1, <1>5
  <2>2. RightAfter(q, i, k, v, d)
    BY <1>5, <2>1 DEF KeyIsRight
  <2>3. QED
    BY <1>2, <2>1, <2>2
<1>6. \A t \in Threads : ti[t].at = "post" /\ ti[t].op = "write" /\ k \in ti[t].keys => ti[t].value = v
  BY DEF KeyIsRight
<1>7. QED
  BY <1>4, <1>5, <1>6 DEF KeyIsRight, w

\* A block is appended; the threads about to submit were so before.
LEMMA PostKeepsKey ==
  ASSUME NEW q \in Seq(DiskBlocks), NEW b \in DiskBlocks, NEW th, NEW ti,
         \A t \in Threads : ti[t].at = "post" => ti[t] = th[t],
         NEW k, NEW m, NEW v, NEW d, KeyIsRight(q, th, k, m, v, d),
         \/ k \notin b.keys /\ (ToChange(th, k) => ToChange(ti, k))
         \/ k \in b.keys /\ b.op = "write" /\ b.value = v
         \/ k \in b.keys /\ b.op \in {"remove", "clear"}
         \/ k \in b.keys /\ b.op \in {"load", "touch"} /\ ~ToChange(th, k)
  PROVE  KeyIsRight(Append(q, b), ti, k, m, v, d)
<1> DEFINE w == Append(q, b)
<1>1. /\ Len(q) \in Nat /\ Len(w) = Len(q) + 1 /\ DOMAIN q = 1 .. Len(q) /\ w[Len(q) + 1] = b
      /\ \A j \in DOMAIN w : j # Len(q) + 1 => j \in DOMAIN q
      /\ \A j \in DOMAIN q : w[j] = q[j]
  BY Appended
<1>2. \A n \in 0 .. Len(q) : RightAfter(q, n, k, v, d) => RightAfter(w, n, k, v, d)
  BY AppendKeepsAfter
<1>3. ASSUME ~ToChange(ti, k) PROVE RightAfter(w, Len(w), k, v, d)
  <2>1. CASE k \in b.keys /\ (b.op \in {"remove", "clear"} \/ (b.op = "write" /\ b.value = v))
    BY <2>1, AppendedAfter
  <2>2. CASE /\ k \notin b.keys \/ b.op \in {"load", "touch"}
             /\ ~ToChange(th, k)
    <3>1. RightAfter(q, Len(q), k, v, d)
      BY <2>2 DEF KeyIsRight
    <3>2. ~(b.op \in {"write", "remove", "clear"} /\ k \in b.keys)
      BY <2>2
    <3>3. QED
      BY <3>1, <3>2, AppendedAfter
  <2>3. QED
    BY <1>3, <2>1, <2>2
<1> HIDE DEF w
<1>4. ASSUME NEW i \in DOMAIN w, w[i].op = "load", k \in w[i].keys PROVE RightAfter(w, i - 1, k, v, d)
  <2>1. CASE i = Len(q) + 1
    <3>1. i - 1 = Len(q) /\ Len(q) \in 0 .. Len(q) /\ b.op = "load" /\ k \in b.keys
      BY <1>1, <1>4, <2>1
    <3>2. RightAfter(q, Len(q), k, v, d)
      BY <3>1 DEF KeyIsRight
    <3>3. QED
      BY <1>2, <3>1, <3>2
  <2>2. CASE i # Len(q) + 1
    <3>1. i \in DOMAIN q /\ w[i] = q[i] /\ i - 1 \in 0 .. Len(q)
      BY <1>1, <1>4, <2>2
    <3>2. RightAfter(q, i - 1, k, v, d)
      BY <1>4, <3>1 DEF KeyIsRight
    <3>3. QED
      BY <1>2, <3>1, <3>2
  <2>3. QED
    BY <2>1, <2>2
<1>5. \A t \in Threads : ti[t].at = "post" /\ ti[t].op = "write" /\ k \in ti[t].keys => ti[t].value = v
  BY DEF KeyIsRight
<1>6. m \in {v, 0}
  BY DEF KeyIsRight
<1>7. QED
  BY <1>3, <1>4, <1>5, <1>6 DEF KeyIsRight, w

\* The threads once the first block has run.
LEMMA RanKeepsThreads ==
  ASSUME diskQueue \in Seq(DiskBlocks), diskQueue # <<>>, thread \in [Threads -> Doings],
         WaitsGo(diskQueue, thread), ChangesAreAlone(thread, raced),
         \/ diskQueue[1].op \notin {"load", "clear"} /\ thread' = thread
         \/ diskQueue[1].op \in {"load", "clear"} /\ thread' = [thread EXCEPT ![diskQueue[1].from] = Cache!Idle]
  PROVE  /\ thread' \in [Threads -> Doings] /\ WaitsGo(Tail(diskQueue), thread')
         /\ ChangesAreAlone(thread', raced)
         /\ \A t \in Threads : thread'[t] = thread[t] \/ (thread[t].at = "wait" /\ thread'[t].at = "idle")
<1>1. /\ Cache!Idle \in Doings /\ Cache!Idle.at = "idle" /\ Cache!Idle.keys = {}
  BY CacheAssumption DEF Cache!Idle, Cache!Doing, Doings, WellFormed, Cache!NoValue, Cache!Ops
<1>2. /\ 1 \in DOMAIN diskQueue /\ diskQueue[1].from \in Threads /\ Len(diskQueue) \in Nat
      /\ DOMAIN diskQueue = 1 .. Len(diskQueue) /\ DOMAIN Tail(diskQueue) = 1 .. Len(diskQueue) - 1
      /\ \A i \in DOMAIN Tail(diskQueue) : i + 1 \in DOMAIN diskQueue /\ Tail(diskQueue)[i] = diskQueue[i + 1]
  BY TailOf DEF DiskBlocks
<1>3. CASE diskQueue[1].op \notin {"load", "clear"} /\ thread' = thread
  <2>1. \A i, j \in DOMAIN Tail(diskQueue) : i # j => i + 1 # j + 1
    BY <1>2
  <2>2. WaitsGo(Tail(diskQueue), thread)
    BY <1>2, <2>1 DEF WaitsGo
  <2>3. QED
    BY <1>3, <2>2
<1>4. CASE diskQueue[1].op \in {"load", "clear"} /\ thread' = [thread EXCEPT ![diskQueue[1].from] = Cache!Idle]
  <2>1. thread' \in [Threads -> Doings] /\ thread'[diskQueue[1].from] = Cache!Idle /\ \A t \in Threads : t # diskQueue[1].from => thread'[t] = thread[t]
    BY <1>1, <1>2, <1>4
  <2>2. thread[diskQueue[1].from].at = "wait"
    BY <1>2, <1>4 DEF WaitsGo
  <2>3. ChangesAreAlone(thread', raced)
    BY <1>1, <2>1 DEF ChangesAreAlone
  <2>4. \A i \in DOMAIN Tail(diskQueue) : i + 1 # 1 /\ \A j \in DOMAIN Tail(diskQueue) : i # j => i + 1 # j + 1
    BY <1>2
  <2>5. \A i \in DOMAIN Tail(diskQueue) : Tail(diskQueue)[i].op \in {"load", "clear"} => Tail(diskQueue)[i].from # diskQueue[1].from
    BY <1>2, <1>4, <2>4 DEF WaitsGo
  <2>6. \A i \in DOMAIN diskQueue : diskQueue[i].from \in Threads
    BY DEF DiskBlocks
  <2>7. WaitsGo(Tail(diskQueue), thread')
    BY <1>2, <2>1, <2>4, <2>5, <2>6 DEF WaitsGo
  <2>8. QED
    BY <1>1, <2>1, <2>2, <2>3, <2>7
<1>5. QED
  BY <1>3, <1>4

\* The first block runs.
LEMMA RunKeeps ==
  ASSUME CacheInv, diskQueue # <<>>, diskQueue' = Tail(diskQueue),
         \/ diskQueue[1].op \notin {"load", "clear"} /\ thread' = thread
         \/ diskQueue[1].op \in {"load", "clear"} /\ thread' = [thread EXCEPT ![diskQueue[1].from] = Cache!Idle],
         thread' \in [Threads -> Doings] => CacheTypes', excess' \in BOOLEAN, UNCHANGED <<latest, raced>>,
         \A k \in Keys : ~(diskQueue[1].op \in {"write", "remove", "clear"} /\ k \in diskQueue[1].keys) =>
           disk'[k].value \in {disk[k].value, 0},
         \A k \in Keys : diskQueue[1].op = "write" /\ k \in diskQueue[1].keys =>
           disk'[k].value \in {diskQueue[1].value, 0},
         \A k \in Keys : diskQueue[1].op \in {"remove", "clear"} /\ k \in diskQueue[1].keys =>
           disk'[k].value = 0,
         \A k \in Keys \ raced : memory'[k].value \in {latest[k], 0}
  PROVE  CacheInv'
<1>1. /\ diskQueue \in Seq(DiskBlocks) /\ thread \in [Threads -> Doings]
      /\ WaitsGo(diskQueue, thread) /\ ChangesAreAlone(thread, raced)
  BY DEF CacheInv, CacheTypes
<1>2. /\ thread' \in [Threads -> Doings] /\ WaitsGo(diskQueue', thread') /\ ChangesAreAlone(thread', raced)
      /\ \A t \in Threads : thread'[t] = thread[t] \/ (thread[t].at = "wait" /\ thread'[t].at = "idle")
  BY <1>1, RanKeepsThreads
<1>3. diskQueue' \in Seq(DiskBlocks)
  BY <1>1, TailOf
<1>4. ASSUME NEW k \in Keys \ raced
      PROVE  KeyIsRight(diskQueue', thread', k, memory'[k].value, latest[k], disk'[k].value)
  <2>1. KeyIsRight(diskQueue, thread, k, memory[k].value, latest[k], disk[k].value)
    BY DEF CacheInv
  <2>2. /\ ~(diskQueue[1].op \in {"write", "remove", "clear"} /\ k \in diskQueue[1].keys) =>
             disk'[k].value \in {disk[k].value, 0}
        /\ diskQueue[1].op = "write" /\ k \in diskQueue[1].keys => disk'[k].value \in {diskQueue[1].value, 0}
        /\ diskQueue[1].op \in {"remove", "clear"} /\ k \in diskQueue[1].keys => disk'[k].value = 0
        /\ memory'[k].value \in {latest[k], 0}
    OBVIOUS
  <2>3. KeyIsRight(Tail(diskQueue), thread', k, memory'[k].value, latest[k], disk'[k].value)
    BY <1>1, <1>2, <2>1, <2>2, RanKeepsKey
  <2>4. QED
    BY <2>3
<1>5. QED
  BY <1>2, <1>3, <1>4, CacheInvThen

\* A thread starts a call.  Only a change changes what the key holds, and no
\* other call on the key is under way unless they race.
LEMMA BeginKeeps ==
  ASSUME CacheInv, NEW t \in Threads, NEW next \in Doings, next.at \in {"post", "drop"}, Cache!Begin(t, next),
         UNCHANGED <<clock, disk, dirDate, index, diskQueue, excess>>,
         memory' \in [Keys -> [present : BOOLEAN, value : Values \cup {0}, date : Cache!Dates]],
         latest' \in [Keys -> Values \cup {0}],
         \A k \in Keys : next.changes /\ k \in next.keys =>
           /\ next.at = "post" /\ memory'[k].value \in {latest'[k], 0}
           /\ next.op = "write" => next.value = latest'[k],
         \A k \in Keys : ~(next.changes /\ k \in next.keys) => memory'[k] = memory[k] /\ latest'[k] = latest[k]
  PROVE  CacheInv'
<1>1. /\ thread[t].at = "idle" /\ calls < MaxCalls /\ calls' = calls + 1
      /\ thread' = [thread EXCEPT ![t] = next]
      /\ raced' = raced \cup
           UNION {next.keys \cap thread[u].keys :
                    u \in {w \in Threads \ {t} : next.changes \/ thread[w].changes}}
  BY DEF Cache!Begin
<1>2. CacheTypes /\ diskQueue \in Seq(DiskBlocks) /\ excess \in BOOLEAN
  BY DEF CacheInv
<1>3. thread' \in [Threads -> Doings] /\ thread'[t] = next /\ \A u \in Threads : u # t => thread'[u] = thread[u]
  BY <1>1, <1>2 DEF CacheTypes
<1>4. /\ raced \subseteq raced'
      /\ \A u \in Threads : u # t /\ (next.changes \/ thread[u].changes) => next.keys \cap thread[u].keys \subseteq raced'
  BY <1>1
<1>5. next.keys \subseteq Keys /\ thread[t].keys = {}
  BY <1>1, <1>2 DEF Doings, CacheTypes
<1>6. CacheTypes'
  <2>1. raced' \subseteq Keys
    BY <1>1, <1>2, <1>5 DEF CacheTypes
  <2>2. calls' \in 0 .. MaxCalls
    BY <1>1, <1>2, CacheAssumption DEF CacheTypes
  <2>3. QED
    BY <1>2, <1>3, <2>1, <2>2, Zenon DEF CacheTypes, Cache!Dates, Doings, WellFormed, Cache!Ops,
       Cache!NoDate
<1>7. ChangesAreAlone(thread', raced')
  <2> SUFFICES ASSUME NEW k \in Keys \ raced', NEW u \in Threads, NEW w \in Threads,
                      u # w, k \in thread'[u].keys, k \in thread'[w].keys
               PROVE  ~thread'[u].changes
    BY DEF ChangesAreAlone
  <2>1. CASE u = t
    BY <1>3, <1>4, <2>1
  <2>2. CASE w = t
    BY <1>3, <1>4, <2>2
  <2>3. CASE u # t /\ w # t
    BY <1>3, <1>4, <2>3 DEF CacheInv, ChangesAreAlone
  <2>4. QED
    BY <2>1, <2>2, <2>3
<1>8. \A i \in DOMAIN diskQueue : diskQueue[i].from \in Threads
  BY <1>2 DEF DiskBlocks
<1>9. WaitsGo(diskQueue, thread')
  BY <1>1, <1>3, <1>8 DEF CacheInv, WaitsGo
<1>10. ASSUME NEW k \in Keys \ raced'
       PROVE  KeyIsRight(diskQueue, thread', k, memory'[k].value, latest'[k], disk[k].value)
  <2>1. KeyIsRight(diskQueue, thread, k, memory[k].value, latest[k], disk[k].value) /\ k \in Keys
    BY <1>4 DEF CacheInv
  <2>2. CASE next.changes /\ k \in next.keys
    <3>1. \A u \in Threads : u # t => k \notin thread[u].keys
      BY <1>4, <2>2
    <3>2. ToChange(thread', k)
      BY <1>3, <2>2 DEF ToChange
    <3>3. \A i \in DOMAIN diskQueue : ~(diskQueue[i].op = "load" /\ k \in diskQueue[i].keys)
      BY <1>1, <1>8, <3>1 DEF CacheInv, WaitsGo
    <3>4. memory'[k].value \in {latest'[k], 0} /\ (next.op = "write" => next.value = latest'[k])
      BY <2>1, <2>2
    <3>5. QED
      BY <1>3, <3>1, <3>2, <3>3, <3>4 DEF KeyIsRight
  <2>3. CASE ~(next.changes /\ k \in next.keys)
    <3>1. memory'[k] = memory[k] /\ latest'[k] = latest[k]
      BY <2>1, <2>3
    <3>2. ToChange(thread, k) => ToChange(thread', k)
      BY <1>1, <1>3 DEF ToChange
    <3>3. next.op = "write" => k \notin next.keys
      BY <2>3 DEF Doings
    <3>4. \A u \in Threads : thread'[u].at = "post" /\ thread'[u].op = "write" /\ k \in thread'[u].keys =>
            thread'[u].value = latest[k]
      BY <1>3, <2>1, <3>3 DEF KeyIsRight
    <3>5. QED
      BY <2>1, <3>1, <3>2, <3>4 DEF KeyIsRight
  <2>4. QED
    BY <2>2, <2>3
<1>11. QED
  BY <1>2, <1>6, <1>7, <1>9, <1>10, CacheInvThen

\* An entry of the memory cache.
LEMMA EntryTypes ==
  ASSUME CacheTypes
  PROVE  /\ Cache!Absent \in [present : BOOLEAN, value : Values \cup {0}, date : Cache!Dates]
         /\ Cache!Absent.value = 0
         /\ \A v \in Values \cup {0}, d \in Cache!Dates :
              /\ Cache!Entry(v, d) \in [present : BOOLEAN, value : Values \cup {0}, date : Cache!Dates]
              /\ Cache!Entry(v, d).value = v
         /\ clock \in Cache!Dates /\ Cache!NoDate \in Cache!Dates
BY CacheAssumption DEF CacheTypes, Cache!Absent, Cache!Entry, Cache!Dates, Cache!NoDate, Cache!NoValue

LEMMA SetObjectKeeps ==
  ASSUME CacheInv, NEW t \in Threads, NEW k \in Keys, NEW v \in Values, Cache!SetObject(t, k, v)
  PROVE  CacheInv'
<1> DEFINE next == Cache!Doing("post", "write", {k}, v, 0, TRUE)
<1>1. /\ Cache!Begin(t, next)
      /\ memory' = [memory EXCEPT ![k] = IF v < MaxInMemory THEN Cache!Entry(v, clock) ELSE Cache!Absent]
      /\ latest' = [latest EXCEPT ![k] = v]
      /\ UNCHANGED <<clock, disk, dirDate, index, diskQueue, excess>>
  BY DEF Cache!SetObject
<1>2. /\ next \in Doings /\ next.at = "post" /\ next.op = "write" /\ next.keys = {k} /\ next.value = v
  BY CacheAssumption DEF Cache!Doing, Doings, WellFormed, Cache!Ops
<1> HIDE DEF next
<1>3. CacheTypes
  BY DEF CacheInv
<1>4. /\ memory' \in [Keys -> [present : BOOLEAN, value : Values \cup {0}, date : Cache!Dates]]
      /\ memory'[k].value \in {v, 0} /\ \A l \in Keys : l # k => memory'[l] = memory[l]
  BY <1>1, <1>3, EntryTypes DEF CacheTypes
<1>5. /\ latest' \in [Keys -> Values \cup {0}] /\ latest'[k] = v /\ \A l \in Keys : l # k => latest'[l] = latest[l]
  BY <1>1, <1>3 DEF CacheTypes
<1>6. next.changes
  BY <1>2 DEF Doings
<1>7. QED
  BY <1>1, <1>2, <1>4, <1>5, <1>6, BeginKeeps

LEMMA RemoveObjectsKeeps ==
  ASSUME CacheInv, NEW t \in Threads, NEW op, NEW keys,
         (op = "remove" /\ \E k \in Keys : keys = {k}) \/ (op = "clear" /\ keys = Keys),
         Cache!RemoveObjects(t, op, keys)
  PROVE  CacheInv'
<1> DEFINE next == Cache!Doing("post", op, keys, Cache!NoValue, 0, TRUE)
<1>1. /\ Cache!Begin(t, next)
      /\ memory' = [k \in Keys |-> IF k \in keys THEN Cache!Absent ELSE memory[k]]
      /\ latest' = [k \in Keys |-> IF k \in keys THEN Cache!NoValue ELSE latest[k]]
      /\ UNCHANGED <<clock, disk, dirDate, index, diskQueue, excess>>
  BY DEF Cache!RemoveObjects
<1>2. next \in Doings /\ next.at = "post" /\ next.op # "write" /\ next.keys = keys
  <2>1. CASE op = "remove" /\ \E k \in Keys : keys = {k}
    BY <2>1, CacheAssumption DEF Cache!Doing, Doings, WellFormed, Cache!Ops, Cache!NoValue
  <2>2. CASE op = "clear" /\ keys = Keys
    BY <2>2, CacheAssumption DEF Cache!Doing, Doings, WellFormed, Cache!Ops, Cache!NoValue
  <2>3. QED
    BY <2>1, <2>2
<1>3. next.changes = TRUE
  BY DEF Cache!Doing
<1> HIDE DEF next
<1>4. CacheTypes
  BY DEF CacheInv
<1>5. /\ memory' \in [Keys -> [present : BOOLEAN, value : Values \cup {0}, date : Cache!Dates]]
      /\ \A l \in Keys : IF l \in keys THEN memory'[l].value = 0 ELSE memory'[l] = memory[l]
  BY <1>1, <1>4, EntryTypes DEF CacheTypes
<1>6. /\ latest' \in [Keys -> Values \cup {0}]
      /\ \A l \in Keys : l \notin keys => latest'[l] = latest[l]
  BY <1>1, <1>4 DEF CacheTypes, Cache!NoValue
<1>7. QED
  BY <1>1, <1>2, <1>3, <1>5, <1>6, BeginKeeps

LEMMA ObjectForKeyKeeps ==
  ASSUME CacheInv, NEW t \in Threads, NEW k \in Keys, NEW maxAge \in 0 .. MaxAges, Cache!ObjectForKey(t, k, maxAge)
  PROVE  CacheInv'
<1>1. PICK next \in {Cache!Doing("post", "load", {k}, Cache!NoValue, maxAge, FALSE),
                     Cache!Doing("drop", "remove", {k}, Cache!NoValue, 0, FALSE),
                     Cache!Doing("post", "touch", {k}, Cache!NoValue, 0, FALSE)} :
        /\ Cache!Begin(t, next)
        /\ UNCHANGED <<clock, memory, disk, dirDate, index, diskQueue, latest, excess>>
  BY DEF Cache!ObjectForKey
<1>2. next \in Doings /\ next.at \in {"post", "drop"}
  <2>1. CASE next = Cache!Doing("post", "load", {k}, Cache!NoValue, maxAge, FALSE)
    BY <2>1 DEF Cache!Doing, Doings, WellFormed, Cache!Ops, Cache!NoValue
  <2>2. CASE next = Cache!Doing("drop", "remove", {k}, Cache!NoValue, 0, FALSE)
    BY <2>2, CacheAssumption DEF Cache!Doing, Doings, WellFormed, Cache!Ops, Cache!NoValue
  <2>3. CASE next = Cache!Doing("post", "touch", {k}, Cache!NoValue, 0, FALSE)
    BY <2>3, CacheAssumption DEF Cache!Doing, Doings, WellFormed, Cache!Ops, Cache!NoValue
  <2>4. QED
    BY <1>1, <2>1, <2>2, <2>3
<1>3. ~next.changes
  BY <1>1 DEF Cache!Doing
<1>4. CacheTypes
  BY DEF CacheInv
<1>5. /\ memory' \in [Keys -> [present : BOOLEAN, value : Values \cup {0}, date : Cache!Dates]]
      /\ latest' \in [Keys -> Values \cup {0}]
  BY <1>1, <1>4 DEF CacheTypes
<1>6. QED
  BY <1>1, <1>2, <1>3, <1>5, BeginKeeps

LEMMA DropOldEntryKeeps ==
  ASSUME CacheInv, NEW t \in Threads, Cache!DropOldEntry(t)
  PROVE  CacheInv'
<1>1. /\ thread[t].at = "drop" /\ thread' = [thread EXCEPT ![t].at = "post"]
      /\ memory' = [k \in Keys |-> IF k \in thread[t].keys THEN Cache!Absent ELSE memory[k]]
      /\ UNCHANGED <<clock, calls, disk, dirDate, index, diskQueue, latest, raced, excess>>
  BY DEF Cache!DropOldEntry
<1>2. CacheTypes /\ diskQueue \in Seq(DiskBlocks) /\ excess \in BOOLEAN
  BY DEF CacheInv
<1>3. thread[t] \in Doings /\ thread \in [Threads -> Doings]
  BY <1>2 DEF CacheTypes
<1> DEFINE d == [thread[t] EXCEPT !.at = "post"]
<1>4. d \in Doings
  BY <1>1, <1>3 DEF Doings, WellFormed
<1>5. d.at = "post" /\ d.op = "remove" /\ d.keys = thread[t].keys
  BY <1>1, <1>3 DEF Doings
<1>6. d.changes = thread[t].changes
  BY <1>3 DEF Doings
<1>7. thread' = [thread EXCEPT ![t] = d]
  BY <1>1
<1> HIDE DEF d
<1>8. thread' \in [Threads -> Doings] /\ thread'[t] = d /\ \A u \in Threads : u # t => thread'[u] = thread[u]
  BY <1>3, <1>4, <1>7
<1>9. \A u \in Threads : thread'[u].keys = thread[u].keys
  BY <1>5, <1>8
<1>10. \A u \in Threads : thread'[u].changes = thread[u].changes
  BY <1>6, <1>8
<1>11. /\ memory' \in [Keys -> [present : BOOLEAN, value : Values \cup {0}, date : Cache!Dates]]
       /\ \A k \in Keys : memory'[k].value = 0 \/ memory'[k] = memory[k]
  BY <1>1, <1>2, EntryTypes DEF CacheTypes
<1>12. CacheTypes'
  BY <1>1, <1>2, <1>8, <1>11, Zenon DEF CacheTypes, Cache!Dates, Doings, WellFormed, Cache!Ops,
     Cache!NoDate
<1>13. ChangesAreAlone(thread', raced')
  BY <1>1, <1>9, <1>10 DEF CacheInv, ChangesAreAlone
<1>14. \A i \in DOMAIN diskQueue : diskQueue[i].from \in Threads
  BY <1>2 DEF DiskBlocks
<1>15. WaitsGo(diskQueue, thread')
  BY <1>1, <1>8, <1>14 DEF CacheInv, WaitsGo
<1>16. ASSUME NEW k \in Keys \ raced
       PROVE  KeyIsRight(diskQueue, thread', k, memory'[k].value, latest[k], disk[k].value)
  <2>1. KeyIsRight(diskQueue, thread, k, memory[k].value, latest[k], disk[k].value)
    BY DEF CacheInv
  <2>2. ToChange(thread, k) => ToChange(thread', k)
    BY <1>1, <1>8 DEF ToChange
  <2>3. \A u \in Threads : thread'[u].at = "post" /\ thread'[u].op = "write" /\ k \in thread'[u].keys =>
          thread'[u].value = latest[k]
    BY <1>5, <1>8, <2>1 DEF KeyIsRight
  <2>4. memory'[k].value \in {latest[k], 0}
    BY <1>11, <2>1 DEF KeyIsRight
  <2>5. QED
    BY <2>1, <2>2, <2>3, <2>4 DEF KeyIsRight
<1>17. QED
  BY <1>1, <1>2, <1>12, <1>13, <1>15, <1>16, CacheInvThen

\* The call appends its block.
LEMMA PostKeeps ==
  ASSUME CacheInv, NEW t \in Threads, Cache!Post(t)
  PROVE  CacheInv'
<1> DEFINE call == thread[t]
           b == [op |-> call.op, keys |-> call.keys, value |-> call.value, maxAge |-> call.maxAge, from |-> t]
<1>1. /\ call.at = "post" /\ diskQueue' = Append(diskQueue, b)
      /\ thread' = [thread EXCEPT ![t] = IF call.op \in {"load", "clear"} THEN [call EXCEPT !.at = "wait"]
                                                                         ELSE Cache!Idle]
      /\ UNCHANGED <<clock, calls, memory, disk, dirDate, index, latest, raced, excess>>
  BY DEF Cache!Post
<1>2. CacheTypes /\ diskQueue \in Seq(DiskBlocks) /\ excess \in BOOLEAN
  BY DEF CacheInv
<1>3. call \in Doings /\ thread \in [Threads -> Doings]
  BY <1>2 DEF CacheTypes
<1>4. /\ b \in DiskBlocks /\ b.op = call.op /\ b.keys = call.keys /\ b.value = call.value /\ b.from = t
  <2>1. b \in [op : Cache!Ops, keys : SUBSET Keys, value : Values \cup {0}, maxAge : 0 .. MaxAges, from : Threads]
    BY <1>1, <1>3 DEF Doings
  <2>2. WellFormed(b)
    BY <1>3 DEF Doings, WellFormed
  <2>3. QED
    BY <2>1, <2>2 DEF DiskBlocks
<1>5. PICK d \in Doings :
        /\ thread' = [thread EXCEPT ![t] = d]
        /\ b.op \in {"load", "clear"} => d.at = "wait" /\ d.keys = call.keys
        /\ d.at # "post" /\ (d.keys = {} \/ d.keys = call.keys)
        /\ d.keys = {} \/ d.changes = call.changes
  <2>1. CASE call.op \in {"load", "clear"}
    <3>1. [call EXCEPT !.at = "wait"] \in Doings
      BY <1>1, <1>3 DEF Doings, WellFormed
    <3>2. [call EXCEPT !.at = "wait"].at = "wait" /\ [call EXCEPT !.at = "wait"].keys = call.keys
      BY <1>3 DEF Doings
    <3>3. [call EXCEPT !.at = "wait"].changes = call.changes
      BY <1>3 DEF Doings
    <3>4. QED
      BY <1>1, <2>1, <3>1, <3>2, <3>3
  <2>2. CASE call.op \notin {"load", "clear"}
    <3>1. /\ Cache!Idle \in Doings /\ Cache!Idle.at = "idle" /\ Cache!Idle.keys = {}
      BY CacheAssumption DEF Cache!Idle, Cache!Doing, Doings, WellFormed, Cache!NoValue, Cache!Ops
    <3>2. QED
      BY <1>1, <1>4, <2>2, <3>1
  <2>3. QED
    BY <2>1, <2>2
<1> HIDE DEF b
<1>7. thread' \in [Threads -> Doings] /\ thread'[t] = d /\ \A u \in Threads : u # t => thread'[u] = thread[u]
  BY <1>3, <1>5
<1>8. CacheTypes'
  BY <1>1, <1>2, <1>7, Zenon DEF CacheTypes, Cache!Dates, Doings, WellFormed, Cache!Ops, Cache!NoDate
<1>9. diskQueue' \in Seq(DiskBlocks)
  BY <1>1, <1>2, <1>4, Appended
<1>10. \A u \in Threads : thread'[u].keys \subseteq thread[u].keys /\
                           (thread'[u].keys = {} \/ thread'[u].changes = thread[u].changes)
  BY <1>5, <1>7
<1>11. ChangesAreAlone(thread', raced')
  BY <1>1, <1>10 DEF CacheInv, ChangesAreAlone
<1>12. WaitsGo(diskQueue', thread')
  <2>1. /\ Len(diskQueue) \in Nat /\ diskQueue'[Len(diskQueue) + 1] = b
        /\ \A j \in DOMAIN diskQueue' : j # Len(diskQueue) + 1 => j \in DOMAIN diskQueue
        /\ \A j \in DOMAIN diskQueue : diskQueue'[j] = diskQueue[j]
    BY <1>1, <1>2, <1>4, Appended
  <2>2. \A i \in DOMAIN diskQueue : diskQueue[i].from \in Threads
    BY <1>2 DEF DiskBlocks
  <2>3. \A i \in DOMAIN diskQueue : diskQueue[i].op \in {"load", "clear"} => diskQueue[i].from # t
    BY <1>1 DEF CacheInv, WaitsGo
  <2>4. \A i \in DOMAIN diskQueue' : diskQueue'[i].op \in {"load", "clear"} =>
          thread'[diskQueue'[i].from].at = "wait" /\ thread'[diskQueue'[i].from].keys = diskQueue'[i].keys
    <3> SUFFICES ASSUME NEW i \in DOMAIN diskQueue', diskQueue'[i].op \in {"load", "clear"}
                 PROVE  /\ thread'[diskQueue'[i].from].at = "wait"
                        /\ thread'[diskQueue'[i].from].keys = diskQueue'[i].keys
      OBVIOUS
    <3>1. CASE i = Len(diskQueue) + 1
      BY <1>4, <1>5, <1>7, <2>1, <3>1
    <3>2. CASE i # Len(diskQueue) + 1
      <4>1. i \in DOMAIN diskQueue /\ diskQueue'[i] = diskQueue[i]
        BY <2>1, <3>2
      <4>2. thread'[diskQueue[i].from] = thread[diskQueue[i].from]
        BY <1>7, <2>2, <2>3, <4>1
      <4>3. QED
        BY <4>1, <4>2 DEF CacheInv, WaitsGo
    <3>3. QED
      BY <3>1, <3>2
  <2>5. \A i, j \in DOMAIN diskQueue' :
          i # j /\ diskQueue'[i].op \in {"load", "clear"} /\ diskQueue'[j].op \in {"load", "clear"} =>
            diskQueue'[i].from # diskQueue'[j].from
    BY <1>4, <2>1, <2>3 DEF CacheInv, WaitsGo
  <2>6. QED
    BY <2>4, <2>5 DEF WaitsGo
<1>13. ASSUME NEW k \in Keys \ raced
       PROVE  KeyIsRight(diskQueue', thread', k, memory[k].value, latest[k], disk[k].value)
  <2>1. KeyIsRight(diskQueue, thread, k, memory[k].value, latest[k], disk[k].value)
    BY DEF CacheInv
  <2>2. \A u \in Threads : thread'[u].at = "post" => thread'[u] = thread[u]
    BY <1>5, <1>7
  <2>3. k \notin b.keys /\ ToChange(thread, k) => ToChange(thread', k)
    BY <1>4, <1>7 DEF ToChange
  <2>4. k \in b.keys /\ b.op = "write" => b.value = latest[k]
    BY <1>1, <1>4, <2>1 DEF KeyIsRight
  <2>5. k \in b.keys /\ b.op \in {"load", "touch"} => ~ToChange(thread, k)
    <3>1. b.op \in {"load", "touch"} => ~thread[t].changes
      BY <1>3, <1>4 DEF Doings
    <3>2. \A u \in Threads : u # t /\ k \in thread[u].keys /\ k \in thread[t].keys => ~thread[u].changes
      BY DEF CacheInv, ChangesAreAlone
    <3>3. QED
      BY <1>4, <3>1, <3>2 DEF ToChange
  <2>6. b.op \in {"write", "remove", "clear", "load", "touch"}
    BY <1>4 DEF DiskBlocks, Cache!Ops
  <2>7. \/ k \notin b.keys /\ (ToChange(thread, k) => ToChange(thread', k))
        \/ k \in b.keys /\ b.op = "write" /\ b.value = latest[k]
        \/ k \in b.keys /\ b.op \in {"remove", "clear"}
        \/ k \in b.keys /\ b.op \in {"load", "touch"} /\ ~ToChange(thread, k)
    BY <2>3, <2>4, <2>5, <2>6
  <2>8. KeyIsRight(Append(diskQueue, b), thread', k, memory[k].value, latest[k], disk[k].value)
    BY <1>2, <1>4, <2>1, <2>2, <2>7, PostKeepsKey
  <2>9. QED
    BY <1>1, <2>8
<1>14. QED
  BY <1>1, <1>2, <1>8, <1>9, <1>11, <1>12, <1>13, CacheInvThen

\* The first block and the keys it is about.
LEMMA FirstBlock ==
  ASSUME CacheInv, diskQueue # <<>>
  PROVE  /\ Head(diskQueue) = diskQueue[1] /\ diskQueue[1] \in DiskBlocks /\ diskQueue[1].from \in Threads
         /\ CacheTypes /\ diskQueue \in Seq(DiskBlocks) /\ excess \in BOOLEAN
         /\ \A k \in Keys : k \in diskQueue[1].keys /\ diskQueue[1].op \in {"write", "load", "touch", "remove"} =>
              diskQueue[1].keys = {k}
         /\ diskQueue[1].op = "clear" => diskQueue[1].keys = Keys
         /\ diskQueue[1].op = "write" => diskQueue[1].value \in Values
<1>1. CacheTypes /\ diskQueue \in Seq(DiskBlocks) /\ excess \in BOOLEAN
  BY DEF CacheInv
<1>2. Head(diskQueue) = diskQueue[1] /\ diskQueue[1] \in DiskBlocks
  BY <1>1, TailOf
<1>3. WellFormed(diskQueue[1]) /\ diskQueue[1].from \in Threads
  BY <1>2 DEF DiskBlocks
<1>4. QED
  BY <1>1, <1>2, <1>3 DEF WellFormed

\* What the files hold of the other keys stays or goes.
LEMMA WriteAndCompactKeeps ==
  ASSUME CacheInv, NEW k \in Keys, Cache!WriteAndCompact(k)
  PROVE  CacheInv'
<1> DEFINE v == Head(diskQueue).value
           written == [disk EXCEPT ![k] = [value |-> v, date |-> clock]]
           noted == IF Cache!IsDirty(index, dirDate) THEN Cache!NoIndex
                    ELSE [date |-> clock, size |-> index.size + v,
                          entries |-> Append(index.entries, Cache!Added(k, v))]
<1>1. diskQueue # <<>> /\ Head(diskQueue).op = "write" /\ k \in Head(diskQueue).keys
  BY DEF Cache!WriteAndCompact, Cache!Block
<1>2. /\ Head(diskQueue) = diskQueue[1] /\ CacheTypes /\ diskQueue \in Seq(DiskBlocks)
      /\ diskQueue[1].op = "write" /\ diskQueue[1].keys = {k} /\ v \in Values /\ v = diskQueue[1].value
  BY <1>1, FirstBlock
<1>3. PICK dir \in IF disk[k] = Cache!NoFile THEN {clock} ELSE {dirDate, clock} :
        \E ix \in IF Cache!IsDirty(noted, dir) THEN Cache!RecreatedIndexes(written, dir) ELSE {noted} :
          LET gone == {f \in Cache!Evicted(ix.entries) : written[f] # Cache!NoFile}
          IN  /\ index' = Cache!Compacted(ix)
              /\ disk' = [f \in Keys |-> IF f \in gone THEN Cache!NoFile ELSE written[f]]
              /\ dirDate' = IF gone = {} THEN dir ELSE clock
  BY Zenon DEF Cache!WriteAndCompact
<1>4. PICK ix \in IF Cache!IsDirty(noted, dir) THEN Cache!RecreatedIndexes(written, dir) ELSE {noted} :
        LET gone == {f \in Cache!Evicted(ix.entries) : written[f] # Cache!NoFile}
        IN  /\ index' = Cache!Compacted(ix)
            /\ disk' = [f \in Keys |-> IF f \in gone THEN Cache!NoFile ELSE written[f]]
            /\ dirDate' = IF gone = {} THEN dir ELSE clock
  BY <1>3, Zenon
<1> DEFINE gone == {f \in Cache!Evicted(ix.entries) : written[f] # Cache!NoFile}
<1>5. /\ index' = Cache!Compacted(ix)
      /\ disk' = [f \in Keys |-> IF f \in gone THEN Cache!NoFile ELSE written[f]]
      /\ dirDate' = IF gone = {} THEN dir ELSE clock
  BY <1>4, Zenon
<1> HIDE DEF gone
<1>6. /\ diskQueue' = Tail(diskQueue)
      /\ UNCHANGED <<clock, calls, memory, thread, latest, raced>>
  BY DEF Cache!WriteAndCompact
<1>7. excess' \in BOOLEAN
  BY <1>1, Zenon DEF Cache!WriteAndCompact
<1>8. /\ clock \in Cache!Dates /\ dirDate \in Cache!Dates /\ Cache!NoDate \in Cache!Dates
      /\ dir \in Cache!Dates
  BY <1>2, <1>3, EntryTypes DEF CacheTypes
<1>9. index'.date \in Cache!Dates
  <2>1. CASE ix = Cache!NoIndex
    BY <1>5, <1>8, <2>1 DEF Cache!Compacted, Cache!NoIndex
  <2>2. CASE ix = [date |-> clock, size |-> index.size + v, entries |-> Append(index.entries, Cache!Added(k, v))]
    BY <1>5, <1>8, <2>2 DEF Cache!Compacted
  <2>3. CASE ix \in Cache!RecreatedIndexes(written, dir)
    <3>1. PICK s : ix = [date |-> dir, size |-> Cache!Total(s), entries |-> s]
      BY <2>3 DEF Cache!RecreatedIndexes
    <3>2. QED
      BY <1>5, <1>8, <3>1 DEF Cache!Compacted
  <2>4. QED
    BY <1>4, <2>1, <2>2, <2>3
<1>10. /\ written \in [Keys -> [value : Values \cup {0}, date : Cache!Dates]]
       /\ written[k].value = v /\ \A f \in Keys : f # k => written[f] = disk[f]
  BY <1>2, <1>8 DEF CacheTypes
<1>11. Cache!NoFile \in [value : Values \cup {0}, date : Cache!Dates] /\ Cache!NoFile.value = 0
  BY <1>8 DEF Cache!NoFile, Cache!NoValue
<1> HIDE DEF written, v
<1>12. /\ disk' \in [Keys -> [value : Values \cup {0}, date : Cache!Dates]]
       /\ disk'[k].value \in {v, 0} /\ \A f \in Keys : f # k => disk'[f].value \in {disk[f].value, 0}
  BY <1>5, <1>10, <1>11
<1>13. thread' \in [Threads -> Doings] => CacheTypes'
  <2>1. dirDate' \in Cache!Dates
    BY <1>5, <1>8
  <2>2. QED
    BY <1>2, <1>6, <1>9, <1>12, <2>1, Zenon DEF CacheTypes, Cache!Dates, Doings, WellFormed, Cache!Ops,
       Cache!NoDate
<1>14. \A l \in Keys \ raced : memory'[l].value \in {latest[l], 0}
  BY <1>6 DEF CacheInv, KeyIsRight
<1>15. \A l \in Keys : l \in diskQueue[1].keys <=> l = k
  BY <1>2
<1>16. QED
  BY <1>1, <1>2, <1>6, <1>7, <1>12, <1>13, <1>14, <1>15, RunKeeps

LEMMA TouchKeeps ==
  ASSUME CacheInv, NEW k \in Keys, Cache!Touch(k)
  PROVE  CacheInv'
<1>1. /\ diskQueue # <<>> /\ Head(diskQueue).op = "touch" /\ k \in Head(diskQueue).keys
      /\ disk' = [disk EXCEPT ![k] = IF @ = Cache!NoFile THEN @ ELSE [@ EXCEPT !.date = clock]]
      /\ diskQueue' = Tail(diskQueue)
      /\ UNCHANGED <<clock, calls, memory, dirDate, index, thread, latest, raced, excess>>
  BY DEF Cache!Touch, Cache!Block
<1>2. /\ CacheTypes /\ diskQueue \in Seq(DiskBlocks) /\ diskQueue[1].op = "touch" /\ excess \in BOOLEAN
  BY <1>1, FirstBlock
<1>3. /\ disk' \in [Keys -> [value : Values \cup {0}, date : Cache!Dates]]
      /\ \A f \in Keys : disk'[f].value = disk[f].value
  BY <1>1, <1>2, EntryTypes DEF CacheTypes
<1>4. CacheTypes'
  BY <1>1, <1>2, <1>3, Zenon DEF CacheTypes, Cache!Dates, Doings, WellFormed, Cache!Ops, Cache!NoDate
<1>5. \A l \in Keys \ raced : memory'[l].value \in {latest[l], 0}
  BY <1>1 DEF CacheInv, KeyIsRight
<1>6. excess' \in BOOLEAN
  BY <1>1, <1>2
<1>7. QED
  BY <1>1, <1>2, <1>3, <1>4, <1>5, <1>6, RunKeeps

LEMMA RemoveCachedFileKeeps ==
  ASSUME CacheInv, NEW k \in Keys, Cache!RemoveFile(k)
  PROVE  CacheInv'
<1>1. /\ diskQueue # <<>> /\ Head(diskQueue).op = "remove" /\ k \in Head(diskQueue).keys
      /\ disk' = [disk EXCEPT ![k] = Cache!NoFile]
      /\ dirDate' = IF disk[k] = Cache!NoFile THEN dirDate ELSE clock
      /\ diskQueue' = Tail(diskQueue)
      /\ UNCHANGED <<clock, calls, memory, index, thread, latest, raced, excess>>
  BY DEF Cache!RemoveFile, Cache!Block
<1>2. /\ CacheTypes /\ diskQueue \in Seq(DiskBlocks) /\ diskQueue[1].op = "remove" /\ diskQueue[1].keys = {k}
      /\ excess \in BOOLEAN
  BY <1>1, FirstBlock
<1>3. Cache!NoFile \in [value : Values \cup {0}, date : Cache!Dates] /\ Cache!NoFile.value = 0
  BY <1>2, EntryTypes DEF Cache!NoFile, Cache!NoValue
<1>4. /\ disk' \in [Keys -> [value : Values \cup {0}, date : Cache!Dates]]
      /\ disk'[k].value = 0 /\ \A f \in Keys : f # k => disk'[f].value = disk[f].value
  BY <1>1, <1>2, <1>3 DEF CacheTypes
<1>5. CacheTypes'
  <2>1. dirDate' \in Cache!Dates
    BY <1>1, <1>2, EntryTypes DEF CacheTypes
  <2>2. QED
    BY <1>1, <1>2, <1>4, <2>1, Zenon DEF CacheTypes, Cache!Dates, Doings, WellFormed, Cache!Ops,
       Cache!NoDate
<1>6. \A l \in Keys \ raced : memory'[l].value \in {latest[l], 0}
  BY <1>1 DEF CacheInv, KeyIsRight
<1>7. \A l \in Keys : l \in diskQueue[1].keys <=> l = k
  BY <1>2
<1>8. excess' \in BOOLEAN
  BY <1>1, <1>2
<1>9. QED
  BY <1>1, <1>2, <1>4, <1>5, <1>6, <1>7, <1>8, RunKeeps

LEMMA RemoveDirectoryKeeps ==
  ASSUME CacheInv, Cache!RemoveDirectory
  PROVE  CacheInv'
<1>1. /\ diskQueue # <<>> /\ Head(diskQueue).op = "clear"
      /\ disk' = [k \in Keys |-> Cache!NoFile] /\ dirDate' = Cache!NoDate
      /\ diskQueue' = Tail(diskQueue)
      /\ UNCHANGED <<clock, calls, memory, index, latest, raced, excess>>
  BY DEF Cache!RemoveDirectory
<1>2. /\ CacheTypes /\ diskQueue \in Seq(DiskBlocks) /\ diskQueue[1].op = "clear" /\ diskQueue[1].keys = Keys
      /\ Head(diskQueue) = diskQueue[1] /\ excess \in BOOLEAN
  BY <1>1, FirstBlock
<1>3. thread' = [thread EXCEPT ![diskQueue[1].from] = Cache!Idle]
  BY <1>2 DEF Cache!RemoveDirectory
<1>4. Cache!NoFile \in [value : Values \cup {0}, date : Cache!Dates] /\ Cache!NoFile.value = 0
  BY <1>2, EntryTypes DEF Cache!NoFile, Cache!NoValue
<1>5. /\ disk' \in [Keys -> [value : Values \cup {0}, date : Cache!Dates]]
      /\ \A f \in Keys : disk'[f].value = 0
  BY <1>1, <1>4
<1>6. thread' \in [Threads -> Doings] => CacheTypes'
  <2>1. dirDate' \in Cache!Dates
    BY <1>1, <1>2, EntryTypes
  <2>2. QED
    BY <1>1, <1>2, <1>5, <2>1, Zenon DEF CacheTypes, Cache!Dates, Doings, WellFormed, Cache!Ops,
       Cache!NoDate
<1>7. \A l \in Keys \ raced : memory'[l].value \in {latest[l], 0}
  BY <1>1 DEF CacheInv, KeyIsRight
<1>8. excess' \in BOOLEAN
  BY <1>1, <1>2
<1>9. QED
  BY <1>1, <1>2, <1>3, <1>5, <1>6, <1>7, <1>8, RunKeeps

\* A load finds the last value or nothing; what is too old is to be removed.
LEMMA LoadKeeps ==
  ASSUME CacheInv, NEW k \in Keys, Cache!Load(k)
  PROVE  CacheInv'
<1> DEFINE r == [Head(diskQueue) EXCEPT !.op = "remove", !.maxAge = 0]
<1>1. /\ diskQueue # <<>> /\ Head(diskQueue).op = "load" /\ k \in Head(diskQueue).keys
      /\ UNCHANGED <<clock, calls, dirDate, index, latest, raced, excess>>
  BY DEF Cache!Load, Cache!Block
<1>2. /\ CacheTypes /\ diskQueue \in Seq(DiskBlocks) /\ diskQueue[1].op = "load" /\ diskQueue[1].keys = {k}
      /\ Head(diskQueue) = diskQueue[1] /\ diskQueue[1] \in DiskBlocks /\ excess \in BOOLEAN
  BY <1>1, FirstBlock
<1>3. thread' = [thread EXCEPT ![diskQueue[1].from] = Cache!Idle]
  BY <1>2 DEF Cache!Load
<1>4. \/ /\ memory' = [memory EXCEPT ![k] = Cache!Absent] /\ disk' = disk
         /\ diskQueue' = Append(Tail(diskQueue), r)
      \/ /\ memory' = [memory EXCEPT ![k] = Cache!Entry(disk[k].value, disk[k].date)]
         /\ disk' = [disk EXCEPT ![k] = IF @ = Cache!NoFile THEN @ ELSE [@ EXCEPT !.date = clock]]
         /\ diskQueue' = Tail(diskQueue)
  BY DEF Cache!Load
<1>5. thread \in [Threads -> Doings] /\ WaitsGo(diskQueue, thread) /\ ChangesAreAlone(thread, raced)
  BY DEF CacheInv, CacheTypes
<1>6. excess' \in BOOLEAN
  BY <1>1, <1>2
<1>7. CASE /\ memory' = [memory EXCEPT ![k] = Cache!Absent] /\ disk' = disk
           /\ diskQueue' = Append(Tail(diskQueue), r)
  <2>1. /\ thread' \in [Threads -> Doings] /\ WaitsGo(Tail(diskQueue), thread') /\ ChangesAreAlone(thread', raced)
        /\ \A t \in Threads : thread'[t] = thread[t] \/ (thread[t].at = "wait" /\ thread'[t].at = "idle")
    BY <1>1, <1>2, <1>3, <1>5, RanKeepsThreads
  <2>2. /\ memory' \in [Keys -> [present : BOOLEAN, value : Values \cup {0}, date : Cache!Dates]]
        /\ memory'[k].value = 0 /\ \A l \in Keys : l # k => memory'[l] = memory[l]
    BY <1>2, <1>7, EntryTypes DEF CacheTypes
  <2>3. CacheTypes'
    BY <1>1, <1>2, <1>7, <2>1, <2>2, Zenon DEF CacheTypes, Cache!Dates, Doings, WellFormed, Cache!Ops,
       Cache!NoDate
  <2>4. r \in DiskBlocks /\ r.op = "remove" /\ r.keys = {k}
    <3>1. diskQueue[1] \in [op : Cache!Ops, keys : SUBSET Keys, value : Values \cup {0}, maxAge : 0 .. MaxAges,
                            from : Threads]
      BY <1>2 DEF DiskBlocks
    <3>2. /\ r \in [op : Cache!Ops, keys : SUBSET Keys, value : Values \cup {0}, maxAge : 0 .. MaxAges, from : Threads]
          /\ r.op = "remove" /\ r.keys = {k}
      <4> DEFINE b == diskQueue[1]
      <4>1. r = [b EXCEPT !.op = "remove", !.maxAge = 0]
        BY <1>2
      <4>2. b \in [op : Cache!Ops, keys : SUBSET Keys, value : Values \cup {0}, maxAge : 0 .. MaxAges, from : Threads]
        BY <3>1
      <4>3. 0 \in 0 .. MaxAges /\ "remove" \in Cache!Ops /\ b.keys = {k}
        BY <1>2, CacheAssumption DEF Cache!Ops
      <4> HIDE DEF b, r
      <4>4. QED
        BY <4>1, <4>2, <4>3
    <3>3. WellFormed(r)
      BY <3>2 DEF WellFormed
    <3>4. QED
      BY <3>2, <3>3 DEF DiskBlocks
  <2> HIDE DEF r
  <2>5. Tail(diskQueue) \in Seq(DiskBlocks)
    BY <1>1, <1>2, TailOf
  <2>6. diskQueue' \in Seq(DiskBlocks)
    BY <1>7, <2>4, <2>5, Appended
  <2>7. WaitsGo(diskQueue', thread')
    <3>1. /\ Len(Tail(diskQueue)) \in Nat /\ diskQueue'[Len(Tail(diskQueue)) + 1] = r
          /\ \A j \in DOMAIN diskQueue' : j # Len(Tail(diskQueue)) + 1 => j \in DOMAIN Tail(diskQueue)
          /\ \A j \in DOMAIN Tail(diskQueue) : diskQueue'[j] = Tail(diskQueue)[j]
      BY <1>7, <2>4, <2>5, Appended
    <3>2. \A j \in DOMAIN diskQueue' : diskQueue'[j].op \in {"load", "clear"} =>
            j \in DOMAIN Tail(diskQueue) /\ diskQueue'[j] = Tail(diskQueue)[j]
      BY <2>4, <3>1
    <3>3. QED
      BY <2>1, <3>2 DEF WaitsGo
  <2>8. ASSUME NEW l \in Keys \ raced
        PROVE  KeyIsRight(diskQueue', thread', l, memory'[l].value, latest[l], disk'[l].value)
    <3>1. KeyIsRight(diskQueue, thread, l, memory[l].value, latest[l], disk[l].value)
      BY DEF CacheInv
    <3>2. memory'[l].value \in {latest[l], 0}
      BY <2>2, <3>1 DEF KeyIsRight
    <3>3. diskQueue[1].op = "load" /\ disk'[l].value = disk[l].value
      BY <1>2, <1>7
    <3>4. KeyIsRight(Tail(diskQueue), thread', l, memory'[l].value, latest[l], disk'[l].value)
      BY <1>1, <1>2, <2>1, <3>1, <3>2, <3>3, RanKeepsKey
    <3>5. \/ l \notin r.keys /\ (ToChange(thread', l) => ToChange(thread', l))
          \/ l \in r.keys /\ r.op \in {"remove", "clear"}
      BY <2>4
    <3>6. KeyIsRight(Append(Tail(diskQueue), r), thread', l, memory'[l].value, latest[l], disk'[l].value)
      BY <2>4, <2>5, <3>4, <3>5, PostKeepsKey
    <3>7. QED
      BY <1>7, <3>6
  <2>9. QED
    BY <1>1, <1>6, <2>1, <2>3, <2>6, <2>7, <2>8, CacheInvThen
<1>8. CASE /\ memory' = [memory EXCEPT ![k] = Cache!Entry(disk[k].value, disk[k].date)]
           /\ disk' = [disk EXCEPT ![k] = IF @ = Cache!NoFile THEN @ ELSE [@ EXCEPT !.date = clock]]
           /\ diskQueue' = Tail(diskQueue)
  <2>1. /\ disk' \in [Keys -> [value : Values \cup {0}, date : Cache!Dates]]
        /\ \A f \in Keys : disk'[f].value = disk[f].value
    BY <1>2, <1>8, EntryTypes DEF CacheTypes
  <2>2. /\ memory' \in [Keys -> [present : BOOLEAN, value : Values \cup {0}, date : Cache!Dates]]
        /\ memory'[k].value = disk[k].value /\ \A l \in Keys : l # k => memory'[l] = memory[l]
    BY <1>2, <1>8, EntryTypes DEF CacheTypes
  <2>3. thread' \in [Threads -> Doings] => CacheTypes'
    BY <1>1, <1>2, <2>1, <2>2, Zenon DEF CacheTypes, Cache!Dates, Doings, WellFormed, Cache!Ops,
       Cache!NoDate
  <2>4. \A l \in Keys \ raced : memory'[l].value \in {latest[l], 0}
    <3> SUFFICES ASSUME NEW l \in Keys \ raced PROVE memory'[l].value \in {latest[l], 0}
      OBVIOUS
    <3>1. KeyIsRight(diskQueue, thread, l, memory[l].value, latest[l], disk[l].value)
      BY DEF CacheInv
    <3>2. CASE l = k
      <4>1. 1 \in DOMAIN diskQueue /\ 1 - 1 = 0
        BY <1>1, <1>2
      <4>2. RightAfter(diskQueue, 0, k, latest[k], disk[k].value)
        BY <1>2, <3>1, <3>2, <4>1 DEF KeyIsRight
      <4>3. ~Overwritten(diskQueue, k, 0, 0)
        BY <1>2 DEF Overwritten
      <4>4. QED
        BY <2>2, <3>2, <4>2, <4>3 DEF RightAfter
    <3>3. CASE l # k
      BY <2>2, <3>1, <3>3 DEF KeyIsRight
    <3>4. QED
      BY <3>2, <3>3
  <2>5. QED
    BY <1>1, <1>2, <1>3, <1>6, <1>8, <2>1, <2>3, <2>4, RunKeeps
<1>9. QED
  BY <1>4, <1>7, <1>8

\* The environment.
LEMMA CacheEnvironmentKeeps ==
  ASSUME CacheInv, Cache!Tick \/ Cache!Restart \/ \E k \in Keys : Cache!MemoryPressure(k)
  PROVE  CacheInv'
<1>1. CacheTypes /\ diskQueue \in Seq(DiskBlocks) /\ excess \in BOOLEAN
  BY DEF CacheInv
<1>2. CASE Cache!Tick
  <2>1. /\ clock' = clock + 1 /\ clock < MaxAges
        /\ UNCHANGED <<calls, memory, disk, dirDate, index, diskQueue, thread, latest, raced, excess>>
    BY <1>2 DEF Cache!Tick
  <2>2. clock' \in 0 .. MaxAges
    BY <1>1, <2>1, CacheAssumption DEF CacheTypes
  <2>3. CacheTypes'
    BY <1>1, <2>1, <2>2, Zenon DEF CacheTypes, Cache!Dates, Doings, WellFormed, Cache!Ops, Cache!NoDate
  <2>4. ChangesAreAlone(thread', raced') /\ WaitsGo(diskQueue', thread')
    BY <2>1 DEF CacheInv
  <2>5. \A k \in Keys \ raced' :
          KeyIsRight(diskQueue', thread', k, memory'[k].value, latest'[k], disk'[k].value)
    BY <2>1 DEF CacheInv
  <2>6. QED
    BY <1>1, <2>1, <2>3, <2>4, <2>5, CacheInvThen
<1>3. CASE Cache!Restart
  <2>1. /\ memory' = [k \in Keys |-> Cache!Absent] /\ index' = Cache!NoIndex /\ diskQueue' = <<>>
        /\ thread' = [t \in Threads |-> Cache!Idle] /\ latest' = [k \in Keys |-> disk[k].value] /\ raced' = {}
        /\ UNCHANGED <<clock, calls, disk, dirDate, excess>>
    BY <1>3 DEF Cache!Restart
  <2>2. /\ Cache!Idle \in Doings /\ Cache!Idle.at = "idle" /\ Cache!Idle.keys = {}
    BY CacheAssumption DEF Cache!Idle, Cache!Doing, Doings, WellFormed, Cache!NoValue, Cache!Ops
  <2>3. /\ thread' \in [Threads -> Doings]
        /\ \A t \in Threads : thread'[t].at = "idle" /\ thread'[t].keys = {}
    BY <2>1, <2>2
  <2>4. /\ memory' \in [Keys -> [present : BOOLEAN, value : Values \cup {0}, date : Cache!Dates]]
        /\ \A k \in Keys : memory'[k].value = 0
    BY <1>1, <2>1, EntryTypes
  <2>5. /\ latest' \in [Keys -> Values \cup {0}] /\ \A k \in Keys : latest'[k] = disk[k].value
    BY <1>1, <2>1 DEF CacheTypes
  <2>6. index'.date \in Cache!Dates
    BY <1>1, <2>1, EntryTypes DEF Cache!NoIndex
  <2>7. CacheTypes'
    BY <1>1, <2>1, <2>3, <2>4, <2>5, <2>6, Zenon DEF CacheTypes, Cache!Dates, Doings, WellFormed,
       Cache!Ops, Cache!NoDate
  <2>8. diskQueue' \in Seq(DiskBlocks) /\ DOMAIN diskQueue' = {}
    BY <2>1
  <2>9. ChangesAreAlone(thread', raced') /\ WaitsGo(diskQueue', thread')
    BY <2>3, <2>8 DEF ChangesAreAlone, WaitsGo
  <2>10. \A k \in Keys : KeyIsRight(diskQueue', thread', k, memory'[k].value, latest'[k], disk'[k].value)
    BY <2>1, <2>3, <2>4, <2>5, <2>8 DEF KeyIsRight, RightAfter
  <2>11. QED
    BY <1>1, <2>1, <2>7, <2>8, <2>9, <2>10, CacheInvThen
<1>4. CASE \E k \in Keys : Cache!MemoryPressure(k)
  <2>1. PICK l \in Keys : memory' = [memory EXCEPT ![l] = Cache!Absent]
    BY <1>4 DEF Cache!MemoryPressure
  <2>2. UNCHANGED <<clock, calls, disk, dirDate, index, diskQueue, thread, latest, raced, excess>>
    BY <1>4 DEF Cache!MemoryPressure
  <2>3. /\ memory' \in [Keys -> [present : BOOLEAN, value : Values \cup {0}, date : Cache!Dates]]
        /\ \A k \in Keys : memory'[k].value \in {memory[k].value, 0}
    BY <1>1, <2>1, EntryTypes DEF CacheTypes
  <2>4. CacheTypes'
    BY <1>1, <2>2, <2>3, Zenon DEF CacheTypes, Cache!Dates, Doings, WellFormed, Cache!Ops, Cache!NoDate
  <2>5. ChangesAreAlone(thread', raced') /\ WaitsGo(diskQueue', thread')
    BY <2>2 DEF CacheInv
  <2>6. \A k \in Keys \ raced' :
          KeyIsRight(diskQueue', thread', k, memory'[k].value, latest'[k], disk'[k].value)
    BY <2>2, <2>3 DEF CacheInv, KeyIsRight
  <2>7. QED
    BY <1>1, <2>2, <2>4, <2>5, <2>6, CacheInvThen
<1>5. QED
  BY <1>2, <1>3, <1>4

LEMMA CacheInvStep == CacheInv /\ [Cache!Next]_(Cache!kvVars) => CacheInv'
<1> SUFFICES ASSUME CacheInv, [Cache!Next]_(Cache!kvVars) PROVE CacheInv'
  OBVIOUS
<1>1. ASSUME NEW t \in Threads, Cache!DropOldEntry(t) \/ Cache!Post(t) PROVE CacheInv'
  BY <1>1, DropOldEntryKeeps, PostKeeps
<1>2. ASSUME NEW t \in Threads, NEW k \in Keys, NEW v \in Values, Cache!SetObject(t, k, v) PROVE CacheInv'
  BY <1>2, SetObjectKeeps
<1>3. ASSUME NEW t \in Threads, NEW k \in Keys, NEW maxAge \in 0 .. MaxAges, Cache!ObjectForKey(t, k, maxAge)
      PROVE  CacheInv'
  BY <1>3, ObjectForKeyKeeps
<1>4. ASSUME NEW t \in Threads, NEW k \in Keys, Cache!RemoveObjects(t, "remove", {k}) PROVE CacheInv'
  BY <1>4, RemoveObjectsKeeps
<1>5. ASSUME NEW t \in Threads, Cache!RemoveObjects(t, "clear", Keys) PROVE CacheInv'
  BY <1>5, RemoveObjectsKeeps
<1>6. ASSUME NEW k \in Keys, Cache!WriteAndCompact(k) \/ Cache!Load(k) \/ Cache!Touch(k) \/ Cache!RemoveFile(k)
      PROVE  CacheInv'
  BY <1>6, WriteAndCompactKeeps, LoadKeeps, TouchKeeps, RemoveCachedFileKeeps
<1>7. CASE Cache!RemoveDirectory
  BY <1>7, RemoveDirectoryKeeps
<1>8. CASE Cache!Tick \/ Cache!Restart \/ \E k \in Keys : Cache!MemoryPressure(k)
  BY <1>8, CacheEnvironmentKeeps
<1>9. CASE UNCHANGED Cache!kvVars
  <2>1. UNCHANGED <<clock, calls, memory, disk, dirDate, index, diskQueue, thread, latest, raced, excess>>
    BY <1>9 DEF Cache!kvVars
  <2>2. CacheTypes'
    BY <2>1, Zenon DEF CacheInv, CacheTypes, Cache!Dates, Doings, WellFormed, Cache!Ops, Cache!NoDate
  <2>3. QED
    BY <2>1, <2>2, CacheInvThen DEF CacheInv
<1>10. QED
  BY <1>1, <1>2, <1>3, <1>4, <1>5, <1>6, <1>7, <1>8, <1>9 DEF Cache!Next

LEMMA CacheInvAlways == AllSpec => []CacheInv
<1>1. AllInit => CacheInv
  BY CacheInvInit DEF AllInit
<1>2. [AllNext]_allVars => [Cache!Next]_(Cache!kvVars)
  BY DEF AllNext, allVars, cacheVars, Cache!kvVars
<1>3. CacheInv /\ [AllNext]_allVars => CacheInv'
  BY <1>2, CacheInvStep
<1>4. QED
  BY <1>1, <1>3, PTL DEF AllSpec

(***************************************************************************)
(* Once the calls on a key are done, memory and directory hold the last    *)
(* value set or nothing, for any number of threads and keys and any limits *)
(* (PFKeyValueCache).                                                      *)
(***************************************************************************)
THEOREM CacheIsCoherent == AllSpec => []CoherentWhenQuiet
<1>1. CacheInv => CoherentWhenQuiet
  <2> SUFFICES ASSUME CacheInv, NEW k \in Keys \ raced, Cache!Quiet(k)
               PROVE  {memory[k].value, disk[k].value} \subseteq {latest[k], 0}
    BY DEF CoherentWhenQuiet, Cache!CoherentWhenQuiet, Cache!NoValue
  <2>1. KeyIsRight(diskQueue, thread, k, memory[k].value, latest[k], disk[k].value)
    BY DEF CacheInv
  <2>2. ~ToChange(thread, k)
    BY DEF ToChange, Cache!Quiet
  <2>3. ~Overwritten(diskQueue, k, 0, Len(diskQueue))
    BY DEF Overwritten, Cache!Quiet
  <2>4. disk[k].value \in {latest[k], 0}
    BY <2>1, <2>2, <2>3 DEF KeyIsRight, RightAfter
  <2>5. memory[k].value \in {latest[k], 0}
    BY <2>1 DEF KeyIsRight
  <2>6. QED
    BY <2>4, <2>5
<1>2. QED
  BY <1>1, CacheInvAlways, PTL

-----------------------------------------------------------------------------
(***************************************************************************)
(* Every reachable state of the five components has its type: no retain    *)
(* count is negative, no descriptor is of a lock file that never was, and every*)
(* block of the disk queue has a thread that submitted it.                 *)
(***************************************************************************)
THEOREM StandaloneTypesCorrect == AllSpec => []AllTypeOK
<1>1. AllSpec => [](component \in Components)
  <2> DEFINE C == component \in Components
  <2>1. AllInit => C
    BY DEF AllInit
  <2>2. C /\ [AllNext]_allVars => C'
    BY DEF AllNext, allVars, Components
  <2> HIDE DEF C
  <2>3. AllSpec => []C
    BY <2>1, <2>2, PTL DEF AllSpec
  <2>4. QED
    BY <2>3 DEF C
<1>2. CacheInv => Cache!TypeOK
  <2> SUFFICES ASSUME CacheInv PROVE Cache!TypeOK
    OBVIOUS
  <2>1. CacheTypes /\ diskQueue \in Seq(DiskBlocks) /\ excess \in BOOLEAN
    BY DEF CacheInv
  <2>2. \A i \in DOMAIN diskQueue : diskQueue[i].op \in Cache!Ops /\ diskQueue[i].from \in Threads
    BY <2>1 DEF DiskBlocks
  <2>3. \A t \in Threads : thread[t].at \in {"idle", "drop", "post", "wait"}
    BY <2>1 DEF CacheTypes, Doings
  <2>4. QED
    BY <2>1, <2>2, <2>3, Zenon DEF CacheTypes, Cache!TypeOK, Cache!Dates, Cache!NoDate, Cache!NoValue
<1>3. NamesInv => Identifiers!TypeOK
  BY DEF NamesInv
<1>4. ReachInv => Reach!TypeOK
  BY DEF ReachInv
<1>5. StoreInv => Ids!TypeOK
  BY DEF StoreInv
<1>6. LockInv => TypeOK
  BY DEF LockInv
<1>7. component \in Components /\ LockInv /\ StoreInv /\ NamesInv /\ ReachInv /\ CacheInv => AllTypeOK
  BY <1>2, <1>3, <1>4, <1>5, <1>6, Zenon DEF AllTypeOK
<1>8. QED
  BY <1>1, <1>7, LockInvAlways, StoreInvAlways, NamesInvAlways, ReachInvAlways, CacheInvAlways, PTL
=============================================================================
