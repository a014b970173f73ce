--------------------------- MODULE ObjectsProofs ---------------------------
(***************************************************************************)
(* Proofs about what lies between the application and the server, of the   *)
(* composition MCObjects.  For each component there is an inductive        *)
(* invariant, a lemma for each of its actions, and the theorems that       *)
(* follow; in a behaviour of AllSpec a component behaves as specified      *)
(* alone, because no other one changes its variables.                      *)
(***************************************************************************)
EXTENDS MCObjects, ObjectDataProofs, WellFoundedInduction

-----------------------------------------------------------------------------
\* The current user: the conjuncts of its inductive invariant.

\* The step of a call goes with its kind, and nothing is under way without one.
UserSteps ==
  /\ queue = <<>> => userStep = "start"
  /\ userStep = "load" => Head(queue).op \in {"get", "logOut"}
  /\ userStep = "lazy" => Head(queue).op = "get"
  /\ userStep \in {"mark", "unpin", "keychain", "persist"} => Head(queue).op = "save"
  /\ userStep \in {"out", "remove both", "remove stored", "remove keychain", "forget"} =>
       Head(queue).op = "logOut"
  /\ userStep \in {"load", "lazy"} => current = Nobody
  /\ userStep = "lazy" /\ failures = 0 => matchesDisk
  /\ userStep \in {"remove both", "remove stored", "remove keychain", "forget"} =>
       current \notin isCurrent

\* The users that wait to be recorded, or are being recorded.
QueuedSaves == {queue[i].user : i \in {j \in DOMAIN queue : queue[j].op = "save"}}

\* A save is of a user the application holds.
SavedUsers == QueuedSaves \subseteq known

\* One user at most is stored, and none once a log out has removed it; with the
\* datastore a save removes the last one before it changes the keychain.
StoredUsers ==
  /\ \A i, j \in stored : i = j
  /\ userStep \in {"remove keychain", "forget"} /\ failures = 0 => stored = {}
  /\ userStep \in {"keychain", "persist"} /\ storage = "datastore" => stored = {}

\* The keychain has the credentials of the user who is stored, but for what a
\* save of the file storage has still to write.
KeychainIsTheUsers ==
  split \/ /\ \A u \in User!Everybody : creds[u] \in {User!Identity(u), Nobody}
           /\ userStep # "persist" => keychain = Nobody \/ stored \subseteq {keychain}
           /\ userStep = "persist" => keychain \in {Nobody, User!Identity(Head(queue).user)}

\* What is left of anybody after a log out is of lazy users.
NobodyLeft ==
  out => /\ current \in Lazy \cup {Nobody}
         /\ isCurrent \subseteq Lazy /\ stored \subseteq Lazy /\ decided = {}
         /\ QueuedSaves \subseteq Lazy

\* Between the calls, and until one changes the disk, memory is right about it.
MemoryIsRight ==
  userStep \in {"start", "load", "lazy", "mark", "unpin", "out"} /\ matchesDisk /\ failures = 0 =>
    \/ stored = {} /\ (current = Nobody \/ (current \in Lazy /\ storage = "file"))
    \/ current # Nobody /\ stored = {User!Identity(current)}

\* With the datastore an account has one instance, and the one that believes to
\* be current is the current user, or the one about to be.
OneIsCurrent ==
  storage = "datastore" =>
    /\ \A u, w \in known : User!Identity(u) = User!Identity(w) => u = w
    /\ userStep \in {"load", "lazy", "out"} => isCurrent \subseteq {current}
    /\ userStep = "start" =>
         \/ isCurrent \subseteq {current}
         \/ /\ queue # <<>> /\ Head(queue).op = "save"
            /\ current = Nobody /\ isCurrent \subseteq {Head(queue).user}
    /\ userStep \in {"mark", "unpin", "keychain", "persist"} =>
         isCurrent \subseteq {Head(queue).user}
    /\ userStep \in {"remove both", "remove stored", "remove keychain", "forget"} =>
         isCurrent = {}

\* The type invariant, in parts.
UserData ==
  /\ storage \in User!Storages /\ queue \in Seq(User!QueuedCalls)
  /\ userStep \in {"start", "load", "lazy", "mark", "unpin", "keychain", "persist", "out",
                   "remove both", "remove stored", "remove keychain", "forget"}
  /\ current \in known \cup {Nobody}
  /\ stored \subseteq User!Identities /\ keychain \in User!Identities \cup {Nobody}
  /\ known \subseteq User!Everybody /\ isCurrent \subseteq known
  /\ creds \in [User!Everybody -> User!Identities \cup {Nobody}]
  /\ userSaving \subseteq known /\ decided \subseteq known

UserCounters ==
  calls \in 0 .. MaxCalls /\ failures \in 0 .. MaxFailures /\ userCrashes \in 0 .. MaxCrashes

UserFlags ==
  automatic \in BOOLEAN /\ matchesDisk \in BOOLEAN /\ out \in BOOLEAN /\ split \in BOOLEAN

UserInv ==
  /\ UserData /\ UserCounters /\ UserFlags /\ UserSteps /\ SavedUsers /\ StoredUsers
  /\ KeychainIsTheUsers /\ NobodyLeft /\ MemoryIsRight /\ OneIsCurrent

LEMMA Enqueued ==
  ASSUME UserData, NEW op \in {"get", "save", "logOut"},
         NEW u \in User!Everybody \cup {Nobody}, User!Enqueue(op, u)
  PROVE  /\ queue' \in Seq(User!QueuedCalls) /\ queue' # <<>>
         /\ queue # <<>> => Head(queue') = Head(queue)
         /\ QueuedSaves' = IF op = "save" THEN QueuedSaves \cup {u} ELSE QueuedSaves
<1> DEFINE c == [op |-> op, user |-> u]
<1>1. c \in User!QueuedCalls /\ queue' = Append(queue, c) /\ queue \in Seq(User!QueuedCalls)
  BY DEF User!QueuedCalls, User!Enqueue, UserData
<1>2. c.op = op /\ c.user = u
  OBVIOUS
<1> HIDE DEF c
<1>3. /\ queue' \in Seq(User!QueuedCalls) /\ queue' # <<>>
      /\ queue # <<>> => Head(queue') = Head(queue)
  BY <1>1
<1>4. /\ DOMAIN queue' = DOMAIN queue \cup {Len(queue) + 1} /\ queue'[Len(queue) + 1] = c
      /\ \A i \in DOMAIN queue : queue'[i] = queue[i]
  BY <1>1
<1>5. QED
  BY <1>2, <1>3, <1>4 DEF QueuedSaves

LEMMA Dequeued ==
  ASSUME UserData, queue # <<>>, queue' = Tail(queue)
  PROVE  queue' \in Seq(User!QueuedCalls) /\ QueuedSaves' \subseteq QueuedSaves
<1>1. queue \in Seq(User!QueuedCalls)
  BY DEF UserData
<1>2. /\ queue' \in Seq(User!QueuedCalls)
      /\ \A i \in DOMAIN queue' : i + 1 \in DOMAIN queue /\ queue'[i] = queue[i + 1]
  BY <1>1
<1>3. QED
  BY <1>2 DEF QueuedSaves

LEMMA HeadOfQueue ==
  ASSUME UserData, queue # <<>>
  PROVE  /\ Head(queue).op \in {"get", "save", "logOut"}
         /\ Head(queue).user \in User!Everybody \cup {Nobody}
         /\ Head(queue).op = "save" => Head(queue).user \in QueuedSaves
<1>1. queue \in Seq(User!QueuedCalls)
  BY DEF UserData
<1>2. 1 \in DOMAIN queue /\ Head(queue) = queue[1] /\ queue[1] \in User!QueuedCalls
  BY <1>1
<1>3. QED
  BY <1>2 DEF QueuedSaves, User!QueuedCalls

LEMMA SaveInserted ==
  ASSUME UserData, queue # <<>>, NEW u \in User!Everybody,
         queue' = <<[op |-> "save", user |-> u]>> \o Tail(queue)
  PROVE  /\ queue' \in Seq(User!QueuedCalls) /\ queue' # <<>>
         /\ Head(queue') = [op |-> "save", user |-> u]
         /\ QueuedSaves' \subseteq QueuedSaves \cup {u}
<1> DEFINE c == [op |-> "save", user |-> u]
<1>1. c \in User!QueuedCalls /\ queue' = <<c>> \o Tail(queue) /\ queue \in Seq(User!QueuedCalls)
  BY DEF User!QueuedCalls, UserData
<1>2. c.user = u
  OBVIOUS
<1> HIDE DEF c
<1>3. queue' \in Seq(User!QueuedCalls) /\ queue' # <<>> /\ Head(queue') = c
  BY <1>1
<1>4. \A i \in DOMAIN queue' : queue'[i] = c \/ (i \in DOMAIN queue /\ queue'[i] = queue[i])
  BY <1>1
<1>5. QED
  BY <1>2, <1>3, <1>4 DEF QueuedSaves, c

LEMMA UserConstants ==
  /\ User!Storages' = User!Storages /\ User!Identities' = User!Identities
  /\ User!QueuedCalls' = User!QueuedCalls
  /\ \A u \in User!Everybody : User!Identity(u)' = User!Identity(u)
BY DEF User!Storages, User!Identities, User!QueuedCalls, User!Everybody, User!Identity

LEMMA SameQueue == queue' = queue => QueuedSaves' = QueuedSaves
BY DEF QueuedSaves

LEMMA Failing ==
  ASSUME UserCounters, User!Fails
  PROVE  failures' \in 0 .. MaxFailures /\ failures' # 0
BY UserAssumption DEF UserCounters, User!Fails

LEMMA UserTypes == UserData /\ UserCounters /\ UserFlags <=> User!TypeOK
BY DEF UserData, UserCounters, UserFlags, User!TypeOK

LEMMA IdentityFacts ==
  ASSUME NEW u \in User!Everybody
  PROVE  /\ User!Identity(u) \in User!Identities /\ u # Nobody
         /\ User!Identity(u) \in Lazy => u \in Lazy
         /\ u \in Lazy => User!Identity(u) = u
BY UserAssumption DEF User!Everybody, User!Identity, User!Identities

LEMMA UserInvInit == User!Init => UserInv
<1> SUFFICES ASSUME User!Init PROVE UserInv
  OBVIOUS
<1>1. QueuedSaves = {} /\ queue \in Seq(User!QueuedCalls)
  BY DEF User!Init, QueuedSaves
<1>2. UserData /\ UserCounters
  BY <1>1, UserAssumption DEF User!Init, UserData, UserCounters, User!Storages
<1>3. UserFlags
  BY Zenon DEF User!Init, UserFlags
<1>4. QED
  BY <1>1, <1>2, <1>3 DEF User!Init, UserInv, UserSteps, SavedUsers, StoredUsers,
     KeychainIsTheUsers,
     NobodyLeft, MemoryIsRight, OneIsCurrent

LEMMA GetCurrentUserKeeps ==
  ASSUME UserInv, User!GetCurrentUser
  PROVE  UserInv'
<1> USE DEF UserInv, User!Everybody, User!GetCurrentUser, User!At, User!GoTo, User!Done, User!Call,
   User!Fails
<1>1. User!Enqueue("get", Nobody)
  OBVIOUS
<1>2. /\ queue' \in Seq(User!QueuedCalls) /\ queue' # <<>>
      /\ queue # <<>> => Head(queue') = Head(queue)
      /\ QueuedSaves' = QueuedSaves
  BY <1>1, Enqueued
<1>3. UserData'
  BY <1>2, UserConstants DEF UserData
<1>4. UserCounters'
  BY <1>2, UserAssumption DEF UserCounters
<1>5. UserFlags'
  BY Zenon DEF UserFlags
<1>6. UserSteps'
  BY <1>2 DEF UserSteps, UserData
<1>7. SavedUsers'
  BY <1>2 DEF SavedUsers, UserData, UserSteps
<1>8. StoredUsers'
  BY <1>2 DEF StoredUsers, UserData, UserSteps, SavedUsers
<1>9. KeychainIsTheUsers'
  BY <1>2 DEF KeychainIsTheUsers, UserData, UserSteps, SavedUsers
<1>10. NobodyLeft'
  BY <1>2 DEF NobodyLeft, UserData, UserSteps, SavedUsers, StoredUsers
<1>11. MemoryIsRight'
  BY <1>2 DEF MemoryIsRight, UserData, UserSteps, SavedUsers, StoredUsers
<1>12. OneIsCurrent'
  BY <1>2 DEF OneIsCurrent, UserData, UserSteps, SavedUsers
<1>13. QED
  BY <1>3, <1>4, <1>5, <1>6, <1>7, <1>8, <1>9, <1>10, <1>11, <1>12

LEMMA LogOutCurrentUserKeeps ==
  ASSUME UserInv, User!LogOutCurrentUser
  PROVE  UserInv'
<1> USE DEF UserInv, User!Everybody, User!LogOutCurrentUser, User!At, User!GoTo, User!Done,
   User!Call, User!Fails
<1>1. User!Enqueue("logOut", Nobody)
  OBVIOUS
<1>2. /\ queue' \in Seq(User!QueuedCalls) /\ queue' # <<>>
      /\ queue # <<>> => Head(queue') = Head(queue)
      /\ QueuedSaves' = QueuedSaves
  BY <1>1, Enqueued
<1>3. UserData'
  BY <1>2, UserConstants DEF UserData
<1>4. UserCounters'
  BY <1>2, UserAssumption DEF UserCounters
<1>5. UserFlags'
  BY Zenon DEF UserFlags
<1>6. UserSteps'
  BY <1>2 DEF UserSteps, UserData
<1>7. SavedUsers'
  BY <1>2 DEF SavedUsers, UserData, UserSteps
<1>8. StoredUsers'
  BY <1>2 DEF StoredUsers, UserData, UserSteps, SavedUsers
<1>9. KeychainIsTheUsers'
  BY <1>2 DEF KeychainIsTheUsers, UserData, UserSteps, SavedUsers
<1>10. NobodyLeft'
  BY <1>2 DEF NobodyLeft, UserData, UserSteps, SavedUsers, StoredUsers
<1>11. MemoryIsRight'
  BY <1>2 DEF MemoryIsRight, UserData, UserSteps, SavedUsers, StoredUsers
<1>12. OneIsCurrent'
  BY <1>2 DEF OneIsCurrent, UserData, UserSteps, SavedUsers
<1>13. QED
  BY <1>3, <1>4, <1>5, <1>6, <1>7, <1>8, <1>9, <1>10, <1>11, <1>12

LEMMA LogInKeeps ==
  ASSUME UserInv, NEW u \in Users, User!LogIn(u)
  PROVE  UserInv'
<1> USE DEF UserInv, User!Everybody, User!LogIn, User!At, User!GoTo, User!Done, User!Call,
   User!Fails, User!InstanceOf
<1>1. User!Enqueue("save", u)
  OBVIOUS
<1>2. /\ queue' \in Seq(User!QueuedCalls) /\ queue' # <<>>
      /\ queue # <<>> => Head(queue') = Head(queue)
      /\ QueuedSaves' = QueuedSaves \cup {u}
  BY <1>1, Enqueued
<1>3. UserData'
  BY <1>2, UserAssumption, IdentityFacts, UserConstants DEF UserData
<1>4. UserCounters'
  BY <1>2, UserAssumption DEF UserCounters
<1>5. UserFlags'
  BY Zenon DEF UserFlags
<1>6. UserSteps'
  BY <1>2 DEF UserSteps, UserData
<1>7. SavedUsers'
  BY <1>2, UserAssumption, IdentityFacts DEF SavedUsers, UserData, UserSteps
<1>8. StoredUsers'
  BY <1>2 DEF StoredUsers, UserData, UserSteps, SavedUsers
<1>9. KeychainIsTheUsers'
  BY <1>2, UserAssumption, IdentityFacts DEF KeychainIsTheUsers, UserData, UserSteps, SavedUsers
<1>10. NobodyLeft'
  BY <1>2, UserAssumption, IdentityFacts DEF NobodyLeft, UserData, UserSteps, SavedUsers,
     StoredUsers
<1>11. MemoryIsRight'
  BY <1>2, UserAssumption, IdentityFacts DEF MemoryIsRight, UserData, UserSteps, SavedUsers,
     StoredUsers
<1>12. OneIsCurrent'
  BY <1>2, UserAssumption, IdentityFacts DEF OneIsCurrent, UserData, UserSteps, SavedUsers
<1>13. QED
  BY <1>3, <1>4, <1>5, <1>6, <1>7, <1>8, <1>9, <1>10, <1>11, <1>12

LEMMA SaveUserKeeps ==
  ASSUME UserInv, NEW u \in Users, User!SaveUser(u)
  PROVE  UserInv'
<1> USE DEF UserInv, User!Everybody, User!SaveUser, User!At, User!GoTo, User!Done, User!Call,
   User!Fails
<1>1. queue' = queue /\ QueuedSaves' = QueuedSaves
  BY SameQueue
<1>2. UserData'
  BY <1>1, UserConstants DEF UserData
<1>3. UserCounters'
  BY <1>1, UserAssumption DEF UserCounters
<1>4. UserFlags'
  BY Zenon DEF UserFlags
<1>5. UserSteps'
  BY <1>1 DEF UserSteps, UserData
<1>6. SavedUsers'
  BY <1>1 DEF SavedUsers, UserData, UserSteps
<1>7. StoredUsers'
  BY <1>1 DEF StoredUsers, UserData, UserSteps, SavedUsers
<1>8. KeychainIsTheUsers'
  BY <1>1 DEF KeychainIsTheUsers, UserData, UserSteps, SavedUsers
<1>9. NobodyLeft'
  BY <1>1 DEF NobodyLeft, UserData, UserSteps, SavedUsers, StoredUsers
<1>10. MemoryIsRight'
  BY <1>1 DEF MemoryIsRight, UserData, UserSteps, SavedUsers, StoredUsers
<1>11. OneIsCurrent'
  BY <1>1 DEF OneIsCurrent, UserData, UserSteps, SavedUsers
<1>12. QED
  BY <1>2, <1>3, <1>4, <1>5, <1>6, <1>7, <1>8, <1>9, <1>10, <1>11

LEMMA HandleSaveResultKeeps ==
  ASSUME UserInv, NEW u \in Users, User!HandleSaveResult(u)
  PROVE  UserInv'
<1> USE DEF UserInv, User!Everybody, User!HandleSaveResult, User!At, User!GoTo, User!Done,
   User!Call, User!Fails
<1>1. queue' = queue /\ QueuedSaves' = QueuedSaves
  BY SameQueue
<1>2. UserData' /\ UserCounters'
  BY <1>1, UserConstants, UserAssumption DEF UserData, UserCounters
<1>4. UserFlags'
  BY Zenon DEF UserFlags
<1>5. UserSteps' /\ SavedUsers' /\ StoredUsers' /\ KeychainIsTheUsers'
  BY <1>1, UserAssumption, IdentityFacts DEF UserSteps, UserData, SavedUsers, StoredUsers,
     KeychainIsTheUsers
<1>9. NobodyLeft' /\ MemoryIsRight' /\ OneIsCurrent'
  BY <1>1, UserAssumption, IdentityFacts DEF NobodyLeft, UserData, UserSteps, SavedUsers,
     StoredUsers, MemoryIsRight, OneIsCurrent
<1>12. QED
  BY <1>2, <1>4, <1>5, <1>9

LEMMA SaveCurrentUserKeeps ==
  ASSUME UserInv, NEW u \in Users, User!SaveCurrentUser(u)
  PROVE  UserInv'
<1> USE DEF UserInv, User!Everybody, User!SaveCurrentUser, User!At, User!GoTo, User!Done,
   User!Call, User!Fails
<1>1. User!Enqueue("save", u)
  OBVIOUS
<1>2. /\ queue' \in Seq(User!QueuedCalls) /\ queue' # <<>>
      /\ queue # <<>> => Head(queue') = Head(queue)
      /\ QueuedSaves' = QueuedSaves \cup {u}
  BY <1>1, Enqueued
<1>3. UserData' /\ UserCounters'
  BY <1>2, UserConstants, UserAssumption DEF UserData, UserCounters
<1>5. UserFlags'
  BY Zenon DEF UserFlags
<1>6. UserSteps' /\ SavedUsers' /\ StoredUsers' /\ KeychainIsTheUsers'
  BY <1>2 DEF UserSteps, UserData, SavedUsers, StoredUsers, KeychainIsTheUsers
<1>10. NobodyLeft' /\ MemoryIsRight' /\ OneIsCurrent'
  BY <1>2 DEF NobodyLeft, UserData, UserSteps, SavedUsers, StoredUsers, MemoryIsRight, OneIsCurrent
<1>13. QED
  BY <1>3, <1>5, <1>6, <1>10

LEMMA ReadKeeps ==
  ASSUME UserInv, User!Read
  PROVE  UserInv'
<1> USE DEF UserInv, User!Everybody, User!Read, User!At, User!GoTo, User!Done, User!Call, User!Fails
<1>1. /\ queue # <<>> /\ Head(queue).op \in {"get", "save", "logOut"}
      /\ Head(queue).user \in User!Everybody \cup {Nobody}
      /\ Head(queue).op = "save" => Head(queue).user \in QueuedSaves
  BY HeadOfQueue
<1>2. queue' \in Seq(User!QueuedCalls) /\ QueuedSaves' \subseteq QueuedSaves
  <2>1. CASE queue' = Tail(queue)
    BY <1>1, <2>1, Dequeued
  <2>2. CASE queue' = queue
    BY <2>2, SameQueue DEF UserData
  <2>3. QED
    BY <1>1, <2>1, <2>2
<1>3. UserData' /\ UserCounters'
  BY <1>1, <1>2, UserConstants, UserAssumption DEF UserData, UserCounters
<1>5. UserFlags'
  BY Zenon DEF UserFlags
<1>6. UserSteps' /\ SavedUsers' /\ StoredUsers' /\ KeychainIsTheUsers'
  BY <1>1, <1>2 DEF UserSteps, UserData, SavedUsers, StoredUsers, KeychainIsTheUsers
<1>10. NobodyLeft' /\ MemoryIsRight' /\ OneIsCurrent'
  BY <1>1, <1>2 DEF NobodyLeft, UserData, UserSteps, SavedUsers, StoredUsers, MemoryIsRight,
     OneIsCurrent
<1>13. QED
  BY <1>3, <1>5, <1>6, <1>10

LEMMA LoadNobodyKeeps ==
  ASSUME UserInv, User!LoadNobody
  PROVE  UserInv'
<1> USE DEF UserInv, User!Everybody, User!LoadNobody, User!At, User!GoTo, User!Done, User!Call,
   User!Fails, User!AfterLoad
<1>1. /\ queue # <<>> /\ Head(queue).op \in {"get", "save", "logOut"}
      /\ Head(queue).user \in User!Everybody \cup {Nobody}
      /\ Head(queue).op = "save" => Head(queue).user \in QueuedSaves
  BY HeadOfQueue
<1>2. queue' \in Seq(User!QueuedCalls) /\ QueuedSaves' \subseteq QueuedSaves
  <2>1. CASE queue' = Tail(queue)
    BY <1>1, <2>1, Dequeued
  <2>2. CASE queue' = queue
    BY <2>2, SameQueue DEF UserData
  <2>3. QED
    BY <1>1, <2>1, <2>2
<1>3. UserData'
  BY <1>1, <1>2, UserConstants DEF UserData
<1>4. UserCounters'
  <2>1. failures' \in 0 .. MaxFailures
    <3>1. CASE User!Fails
      BY <3>1, Failing
    <3>2. CASE failures' = failures
      BY <3>2 DEF UserCounters
    <3>3. QED
      BY <3>1, <3>2
  <2>2. QED
    BY <2>1 DEF UserCounters
<1>5. UserFlags'
  BY Zenon DEF UserFlags
<1>6. UserSteps'
  <2>1. /\ current' = Nobody /\ isCurrent' = isCurrent
        /\ Head(queue).op \in {"get", "logOut"}
    BY DEF UserSteps
  <2>2. failures' = 0 => matchesDisk'
    <3>1. CASE User!Fails
      BY <3>1, Failing
    <3>2. CASE matchesDisk' = TRUE
      BY <3>2
    <3>3. QED
      BY <3>1, <3>2
  <2>3. CASE queue' = queue /\ userStep' = "out" /\ Head(queue).op = "logOut"
    BY <1>1, <2>1, <2>2, <2>3 DEF UserSteps
  <2>4. CASE queue' = queue /\ userStep' = "lazy" /\ Head(queue).op = "get"
    BY <1>1, <2>1, <2>2, <2>4 DEF UserSteps
  <2>5. CASE userStep' = "start"
    BY <2>5 DEF UserSteps
  <2>6. QED
    BY <2>3, <2>4, <2>5
<1>7. SavedUsers' /\ StoredUsers' /\ KeychainIsTheUsers' /\ NobodyLeft'
  BY <1>1, <1>2 DEF SavedUsers, UserData, UserSteps, StoredUsers, KeychainIsTheUsers, NobodyLeft
<1>11. MemoryIsRight'
  <2>1. current' = Nobody /\ stored' = stored
    OBVIOUS
  <2>2. CASE User!Fails
    <3>1. failures' # 0
      BY <2>2, Failing
    <3>2. QED
      BY <3>1 DEF MemoryIsRight
  <2>3. CASE stored = {}
    BY <2>1, <2>3 DEF MemoryIsRight
  <2>4. QED
    BY <2>2, <2>3
<1>12. OneIsCurrent'
  BY <1>1, <1>2 DEF OneIsCurrent, UserData, UserSteps, SavedUsers
<1>13. QED
  BY <1>3, <1>4, <1>5, <1>6, <1>7, <1>11, <1>12

LEMMA LoadKeeps ==
  ASSUME UserInv, NEW u \in User!Everybody, User!Load(u)
  PROVE  UserInv'
<1> USE DEF UserInv, User!Everybody, User!Load, User!At, User!GoTo, User!Done, User!Call,
   User!Fails, User!AfterLoad, User!InstanceOf
<1>1. /\ queue # <<>> /\ Head(queue).op \in {"get", "save", "logOut"}
      /\ Head(queue).user \in User!Everybody \cup {Nobody}
      /\ Head(queue).op = "save" => Head(queue).user \in QueuedSaves
  BY HeadOfQueue
<1>2. queue' \in Seq(User!QueuedCalls) /\ QueuedSaves' \subseteq QueuedSaves
  <2>1. CASE queue' = Tail(queue)
    BY <1>1, <2>1, Dequeued
  <2>2. CASE queue' = queue
    BY <2>2, SameQueue DEF UserData
  <2>3. QED
    BY <1>1, <2>1, <2>2
<1>3. UserData' /\ UserCounters'
  BY <1>1, <1>2, UserAssumption, IdentityFacts, UserConstants DEF UserData, UserCounters
<1>5. UserFlags'
  BY Zenon DEF UserFlags
<1>6. UserSteps' /\ SavedUsers' /\ StoredUsers' /\ KeychainIsTheUsers'
  BY <1>1, <1>2, UserAssumption, IdentityFacts DEF UserSteps, UserData, SavedUsers, StoredUsers,
     KeychainIsTheUsers
<1>10. NobodyLeft'
  BY <1>1, <1>2, UserAssumption, IdentityFacts DEF NobodyLeft, UserData, UserSteps, SavedUsers,
     StoredUsers
<1>11. MemoryIsRight'
  <2>1. current' = u /\ stored' = stored /\ u # Nobody /\ User!Identity(u) \in stored
    BY UserAssumption
  <2>2. stored = {User!Identity(u)}
    BY <2>1 DEF StoredUsers
  <2>3. User!Identity(u)' = User!Identity(u)
    BY UserConstants
  <2>4. QED
    BY <2>1, <2>2, <2>3 DEF MemoryIsRight
<1>12. OneIsCurrent'
  BY <1>1, <1>2, UserAssumption, IdentityFacts DEF OneIsCurrent, UserData, UserSteps, SavedUsers
<1>13. QED
  BY <1>3, <1>5, <1>6, <1>10, <1>11, <1>12

LEMMA LazyLogInKeeps ==
  ASSUME UserInv, NEW u \in Lazy, User!LazyLogIn(u)
  PROVE  UserInv'
<1> USE DEF UserInv, User!Everybody, User!LazyLogIn, User!At, User!GoTo, User!Done, User!Call,
   User!Fails
<1>1. /\ queue # <<>> /\ Head(queue).op \in {"get", "save", "logOut"}
      /\ Head(queue).user \in User!Everybody \cup {Nobody}
      /\ Head(queue).op = "save" => Head(queue).user \in QueuedSaves
  BY HeadOfQueue
<1>2. /\ queue' \in Seq(User!QueuedCalls)
      /\ QueuedSaves' \subseteq QueuedSaves \cup {u}
      /\ storage = "datastore" => queue' # <<>> /\ Head(queue') = [op |-> "save", user |-> u]
  BY <1>1, Dequeued, SaveInserted
<1>3. UserData'
  <2>1. u \in User!Identities
    BY IdentityFacts
  <2>2. current' \in known' \cup {Nobody}
    <3>1. CASE storage = "datastore"
      BY <3>1 DEF UserData
    <3>2. CASE storage # "datastore"
      BY <3>2
    <3>3. QED
      BY <3>1, <3>2
  <2>3. userStep' = "start"
    OBVIOUS
  <2>4. QED
    BY <1>2, <2>1, <2>2, <2>3, UserConstants DEF UserData
<1>4. UserCounters'
  BY <1>1, <1>2, UserAssumption DEF UserCounters
<1>5. UserFlags'
  BY Zenon DEF UserFlags
<1>6. UserSteps' /\ SavedUsers' /\ StoredUsers' /\ KeychainIsTheUsers'
  BY <1>1, <1>2, UserAssumption, IdentityFacts DEF UserSteps, UserData, SavedUsers, StoredUsers,
     KeychainIsTheUsers
<1>10. NobodyLeft'
  BY <1>1, <1>2, UserAssumption, IdentityFacts DEF NobodyLeft, UserData, UserSteps, SavedUsers,
     StoredUsers
<1>11. MemoryIsRight'
  <2>1. current = Nobody /\ stored' = stored /\ failures' = failures /\ u # Nobody
    BY UserAssumption DEF UserSteps
  <2>2. failures = 0 => matchesDisk
    BY DEF UserSteps
  <2>3. failures = 0 => stored = {}
    BY <2>1, <2>2 DEF MemoryIsRight
  <2>4. \/ current' = Nobody
        \/ current' = u /\ storage' = "file"
    <3>1. CASE storage = "datastore"
      BY <2>1, <3>1
    <3>2. CASE storage # "datastore"
      BY <3>2 DEF UserData, User!Storages
    <3>3. QED
      BY <3>1, <3>2
  <2>5. QED
    BY <2>1, <2>3, <2>4 DEF MemoryIsRight
<1>12. OneIsCurrent'
  BY <1>1, <1>2, UserAssumption, IdentityFacts DEF OneIsCurrent, UserData, UserSteps, SavedUsers
<1>13. QED
  BY <1>3, <1>4, <1>5, <1>6, <1>10, <1>11, <1>12

LEMMA SaveStartKeeps ==
  ASSUME UserInv, User!SaveStart
  PROVE  UserInv'
<1> USE DEF UserInv, User!Everybody, User!SaveStart, User!At, User!GoTo, User!Done, User!Call,
   User!Fails, User!LogOutUser, User!SameUser
<1>1. queue' = queue /\ QueuedSaves' = QueuedSaves
  BY SameQueue
<1>2. /\ Head(queue).op \in {"get", "save", "logOut"}
      /\ Head(queue).user \in User!Everybody \cup {Nobody}
      /\ Head(queue).op = "save" => Head(queue).user \in QueuedSaves
  BY HeadOfQueue
<1>3. UserData' /\ UserCounters'
  BY <1>1, <1>2, UserAssumption, IdentityFacts, UserConstants DEF UserData, UserCounters
<1>5. UserFlags'
  BY Zenon DEF UserFlags
<1>6. UserSteps' /\ SavedUsers' /\ StoredUsers' /\ KeychainIsTheUsers'
  BY <1>1, <1>2, UserAssumption, IdentityFacts DEF UserSteps, UserData, SavedUsers, StoredUsers,
     KeychainIsTheUsers
<1>10. NobodyLeft' /\ MemoryIsRight'
  BY <1>1, <1>2, UserAssumption, IdentityFacts DEF NobodyLeft, UserData, UserSteps, SavedUsers,
     StoredUsers, MemoryIsRight
<1>12. OneIsCurrent'
  <2> SUFFICES ASSUME storage = "datastore" PROVE isCurrent' \subseteq {Head(queue).user}
    BY <1>1, UserConstants DEF OneIsCurrent
  <2> DEFINE w == Head(queue).user
  <2>1. w \in known /\ w \in User!Everybody
    BY <1>2 DEF SavedUsers, UserData
  <2>2. \/ isCurrent \subseteq {current}
        \/ current = Nobody /\ isCurrent \subseteq {w}
    BY DEF OneIsCurrent
  <2>3. CASE current = Nobody
    BY <2>2, <2>3, UserAssumption DEF UserData
  <2>4. CASE current # Nobody /\ current = w
    BY <2>2, <2>4
  <2>5. CASE current # Nobody /\ current # w
    <3>1. current \in known /\ current \in User!Everybody
      BY <2>5 DEF UserData
    <3>2. ~User!SameUser(current, w)
      <4>1. \A x \in Users : User!Identity(x) = Account[x]
        BY DEF User!Identity
      <4>2. QED
        BY <2>1, <2>5, <3>1, <4>1 DEF OneIsCurrent
    <3>3. isCurrent' = isCurrent \ {current}
      BY <2>5, <3>2
    <3>4. QED
      BY <2>2, <2>5, <3>3
  <2>6. QED
    BY <2>3, <2>4, <2>5
<1>13. QED
  BY <1>3, <1>5, <1>6, <1>10, <1>12

LEMMA MarkKeeps ==
  ASSUME UserInv, User!Mark
  PROVE  UserInv'
<1> USE DEF UserInv, User!Everybody, User!Mark, User!At, User!GoTo, User!Done, User!Call, User!Fails
<1>1. queue' = queue /\ QueuedSaves' = QueuedSaves
  BY SameQueue
<1>2. /\ Head(queue).op \in {"get", "save", "logOut"}
      /\ Head(queue).user \in User!Everybody \cup {Nobody}
      /\ Head(queue).op = "save" => Head(queue).user \in QueuedSaves
  BY HeadOfQueue
<1>3. UserData' /\ UserCounters'
  BY <1>1, <1>2, UserAssumption, IdentityFacts, UserConstants DEF UserData, UserSteps, SavedUsers,
     UserCounters
<1>5. UserFlags'
  BY Zenon DEF UserFlags
<1>6. UserSteps' /\ SavedUsers' /\ StoredUsers' /\ KeychainIsTheUsers'
  BY <1>1, <1>2, UserAssumption, IdentityFacts DEF UserSteps, UserData, SavedUsers, StoredUsers,
     KeychainIsTheUsers
<1>10. NobodyLeft' /\ MemoryIsRight' /\ OneIsCurrent'
  BY <1>1, <1>2, UserAssumption, IdentityFacts DEF NobodyLeft, UserData, UserSteps, SavedUsers,
     StoredUsers, MemoryIsRight, OneIsCurrent
<1>13. QED
  BY <1>3, <1>5, <1>6, <1>10

LEMMA UnpinKeeps ==
  ASSUME UserInv, User!Unpin
  PROVE  UserInv'
<1> USE DEF UserInv, User!Everybody, User!Unpin, User!At, User!GoTo, User!Done, User!Call,
   User!Fails, User!Install
<1>1. /\ queue # <<>> /\ Head(queue).op \in {"get", "save", "logOut"}
      /\ Head(queue).user \in User!Everybody \cup {Nobody}
      /\ Head(queue).op = "save" => Head(queue).user \in QueuedSaves
  BY HeadOfQueue
<1>2. queue' \in Seq(User!QueuedCalls) /\ QueuedSaves' \subseteq QueuedSaves
  <2>1. CASE queue' = Tail(queue)
    BY <1>1, <2>1, Dequeued
  <2>2. CASE queue' = queue
    BY <2>2, SameQueue DEF UserData
  <2>3. QED
    BY <1>1, <2>1, <2>2
<1>3. UserData'
  BY <1>1, <1>2, UserConstants DEF UserData, UserSteps, SavedUsers
<1>4. UserCounters'
  BY <1>1, <1>2, UserAssumption DEF UserCounters
<1>5. UserFlags'
  BY Zenon DEF UserFlags
<1>6. UserSteps'
  BY <1>1, <1>2 DEF UserSteps, UserData
<1>7. SavedUsers'
  BY <1>1, <1>2 DEF SavedUsers, UserData, UserSteps
<1>8. StoredUsers'
  BY <1>1, <1>2 DEF StoredUsers, UserData, UserSteps, SavedUsers
<1>9. KeychainIsTheUsers'
  BY <1>1, <1>2 DEF KeychainIsTheUsers, UserData, UserSteps, SavedUsers
<1>10. NobodyLeft'
  BY <1>1, <1>2 DEF NobodyLeft, UserData, UserSteps, SavedUsers, StoredUsers
<1>11. MemoryIsRight'
  BY <1>1, <1>2 DEF MemoryIsRight, UserData, UserSteps, SavedUsers, StoredUsers
<1>12. OneIsCurrent'
  BY <1>1, <1>2 DEF OneIsCurrent, UserData, UserSteps, SavedUsers
<1>13. QED
  BY <1>3, <1>4, <1>5, <1>6, <1>7, <1>8, <1>9, <1>10, <1>11, <1>12

LEMMA SaveCredentialsKeeps ==
  ASSUME UserInv, User!SaveCredentials
  PROVE  UserInv'
<1> USE DEF UserInv, User!Everybody, User!SaveCredentials, User!At, User!GoTo, User!Done,
   User!Call, User!Fails
<1>1. queue' = queue /\ QueuedSaves' = QueuedSaves
  BY SameQueue
<1>2. /\ Head(queue).op \in {"get", "save", "logOut"}
      /\ Head(queue).user \in User!Everybody \cup {Nobody}
      /\ Head(queue).op = "save" => Head(queue).user \in QueuedSaves
  BY HeadOfQueue
<1>3. UserData'
  BY <1>1, <1>2, UserAssumption, IdentityFacts, UserConstants DEF UserData, UserSteps, SavedUsers
<1>4. UserCounters'
  <2>1. failures' \in 0 .. MaxFailures
    <3>1. CASE User!Fails
      BY <3>1, Failing
    <3>2. CASE failures' = failures
      BY <3>2 DEF UserCounters
    <3>3. QED
      BY <3>1, <3>2
  <2>2. QED
    BY <2>1 DEF UserCounters
<1>5. UserFlags'
  BY Zenon DEF UserFlags
<1>6. UserSteps' /\ SavedUsers' /\ StoredUsers'
  BY <1>1, <1>2, UserAssumption, IdentityFacts DEF UserSteps, UserData, SavedUsers, StoredUsers
<1>9. KeychainIsTheUsers'
  <2> DEFINE w == Head(queue).user
  <2>1. userStep' = "persist" /\ queue' = queue /\ creds' = creds /\ stored' = stored
    BY <1>1
  <2>2. w \in User!Everybody
    BY <1>2 DEF SavedUsers, UserData
  <2>3. CASE keychain' = creds[w] /\ split' = split
    BY <2>1, <2>2, <2>3, UserConstants DEF KeychainIsTheUsers
  <2>4. CASE /\ keychain' = keychain
             /\ split' = (split \/ keychain \notin {Nobody, User!Identity(w)})
    BY <2>1, <2>4, UserConstants DEF KeychainIsTheUsers
  <2>5. QED
    BY <2>3, <2>4
<1>10. NobodyLeft' /\ MemoryIsRight' /\ OneIsCurrent'
  BY <1>1, <1>2, UserAssumption, IdentityFacts DEF NobodyLeft, UserData, UserSteps, SavedUsers,
     StoredUsers, MemoryIsRight, OneIsCurrent
<1>13. QED
  BY <1>3, <1>4, <1>5, <1>6, <1>9, <1>10

LEMMA PersistKeeps ==
  ASSUME UserInv, User!Persist
  PROVE  UserInv'
<1> USE DEF UserInv, User!Everybody, User!Persist, User!At, User!GoTo, User!Done, User!Call,
   User!Fails, User!Install
<1>1. /\ queue # <<>> /\ Head(queue).op \in {"get", "save", "logOut"}
      /\ Head(queue).user \in User!Everybody \cup {Nobody}
      /\ Head(queue).op = "save" => Head(queue).user \in QueuedSaves
  BY HeadOfQueue
<1>2. queue' \in Seq(User!QueuedCalls) /\ QueuedSaves' \subseteq QueuedSaves
  <2>1. CASE queue' = Tail(queue)
    BY <1>1, <2>1, Dequeued
  <2>2. CASE queue' = queue
    BY <2>2, SameQueue DEF UserData
  <2>3. QED
    BY <1>1, <2>1, <2>2
<1>3. UserData'
  <2> DEFINE w == Head(queue).user
  <2>1. w \in known /\ w \in User!Everybody
    BY <1>1 DEF SavedUsers, UserData
  <2>2. current' = w /\ userStep' = "start"
    OBVIOUS
  <2>3. stored' \subseteq User!Identities
    BY <2>1, IdentityFacts DEF UserData
  <2>4. QED
    BY <1>2, <2>1, <2>2, <2>3, UserConstants DEF UserData
<1>4. UserCounters'
  <2>1. failures' \in 0 .. MaxFailures
    <3>1. CASE User!Fails
      BY <3>1, Failing
    <3>2. CASE failures' = failures
      BY <3>2 DEF UserCounters
    <3>3. QED
      BY <3>1, <3>2
  <2>2. QED
    BY <2>1 DEF UserCounters
<1>5. UserFlags'
  BY Zenon DEF UserFlags
<1>6. UserSteps' /\ SavedUsers' /\ StoredUsers'
  BY <1>1, <1>2, UserAssumption, IdentityFacts DEF UserSteps, UserData, SavedUsers, StoredUsers
<1>9. KeychainIsTheUsers'
  <2> DEFINE w == Head(queue).user
  <2>1. w \in known /\ w \in User!Everybody /\ w # Nobody
    BY <1>1, UserAssumption DEF SavedUsers, UserData
  <2>2. current' = w /\ userStep' = "start" /\ queue' = Tail(queue)
    OBVIOUS
  <2>3. CASE stored' = {User!Identity(w)} /\ split' = split
    BY <2>1, <2>2, <2>3, UserConstants DEF KeychainIsTheUsers
  <2>4. CASE stored' = stored /\ split' = (split \/ storage = "file")
    <3>1. CASE storage = "file"
      BY <2>4, <3>1 DEF KeychainIsTheUsers
    <3>2. CASE storage = "datastore"
      <4>1. stored' = {} /\ (split' <=> split)
        BY <2>4, <3>2 DEF StoredUsers
      <4>2. QED
        BY <2>2, <4>1, UserConstants DEF KeychainIsTheUsers
    <3>3. QED
      BY <3>1, <3>2 DEF UserData, User!Storages
  <2>5. QED
    BY <2>3, <2>4
<1>10. NobodyLeft'
  <2> DEFINE w == Head(queue).user
  <2>1. w \in known /\ w \in User!Everybody /\ w # Nobody
    BY <1>1, UserAssumption DEF SavedUsers, UserData
  <2>2. current' = w /\ userStep' = "start" /\ queue' = Tail(queue)
    OBVIOUS
  <2>3. out' = out /\ isCurrent' = isCurrent /\ decided' = decided
    OBVIOUS
  <2>4. stored' = {User!Identity(w)} \/ stored' = stored
    OBVIOUS
  <2>5. out => w \in Lazy
    BY <1>1 DEF NobodyLeft
  <2>6. w \in Lazy => User!Identity(w) = w
    BY <2>1, IdentityFacts
  <2>7. QED
    BY <1>2, <2>2, <2>3, <2>4, <2>5, <2>6 DEF NobodyLeft
<1>11. MemoryIsRight'
  <2> DEFINE w == Head(queue).user
  <2>1. w \in known /\ w \in User!Everybody /\ w # Nobody
    BY <1>1, UserAssumption DEF SavedUsers, UserData
  <2>2. current' = w /\ userStep' = "start" /\ queue' = Tail(queue)
    OBVIOUS
  <2>3. CASE stored' = {User!Identity(w)}
    BY <2>1, <2>2, <2>3 DEF MemoryIsRight, User!Identity
  <2>4. CASE User!Fails
    <3>1. failures' # 0
      BY <2>4, Failing
    <3>2. QED
      BY <3>1 DEF MemoryIsRight
  <2>5. QED
    BY <2>3, <2>4
<1>12. OneIsCurrent'
  BY <1>1, <1>2, UserAssumption, IdentityFacts DEF OneIsCurrent, UserData, UserSteps, SavedUsers
<1>13. QED
  BY <1>3, <1>4, <1>5, <1>6, <1>9, <1>10, <1>11, <1>12

LEMMA StartLogOutKeeps ==
  ASSUME UserInv, User!StartLogOut
  PROVE  UserInv'
<1> USE DEF UserInv, User!Everybody, User!StartLogOut, User!At, User!GoTo, User!Done, User!Call,
   User!Fails, User!LogOutUser
<1>1. queue' = queue /\ QueuedSaves' = QueuedSaves
  BY SameQueue
<1>2. /\ Head(queue).op \in {"get", "save", "logOut"}
      /\ Head(queue).user \in User!Everybody \cup {Nobody}
      /\ Head(queue).op = "save" => Head(queue).user \in QueuedSaves
  BY HeadOfQueue
<1>3. UserData' /\ UserCounters'
  BY <1>1, <1>2, UserConstants, UserAssumption DEF UserData, UserCounters
<1>5. UserFlags'
  BY Zenon DEF UserFlags
<1>6. UserSteps'
  <2>1. current' = current /\ userStep' = "remove both" /\ Head(queue).op = "logOut"
    OBVIOUS
  <2>2. current \notin isCurrent'
    BY UserAssumption DEF UserData
  <2>3. QED
    BY <1>1, <1>2, <2>1, <2>2 DEF UserSteps
<1>7. SavedUsers' /\ StoredUsers' /\ KeychainIsTheUsers' /\ NobodyLeft'
  BY <1>1, <1>2 DEF SavedUsers, UserData, UserSteps, StoredUsers, KeychainIsTheUsers, NobodyLeft
<1>11. MemoryIsRight'
  BY <1>1, <1>2 DEF MemoryIsRight, UserData, UserSteps, SavedUsers, StoredUsers
<1>12. OneIsCurrent'
  <2> SUFFICES ASSUME storage = "datastore" PROVE isCurrent' = {}
    BY <1>1, UserConstants DEF OneIsCurrent
  <2>1. isCurrent \subseteq {current}
    BY DEF OneIsCurrent
  <2>2. current = Nobody => isCurrent = {}
    BY <2>1, UserAssumption DEF UserData
  <2>3. QED
    BY <2>1, <2>2
<1>13. QED
  BY <1>3, <1>5, <1>6, <1>7, <1>11, <1>12

LEMMA ClearKeychainKeeps ==
  ASSUME UserInv, User!ClearKeychain
  PROVE  UserInv'
<1> USE DEF UserInv, User!Everybody, User!ClearKeychain, User!At, User!GoTo, User!Done, User!Call,
   User!Fails
<1>1. queue' = queue /\ QueuedSaves' = QueuedSaves
  BY SameQueue
<1>2. /\ Head(queue).op \in {"get", "save", "logOut"}
      /\ Head(queue).user \in User!Everybody \cup {Nobody}
      /\ Head(queue).op = "save" => Head(queue).user \in QueuedSaves
  BY HeadOfQueue
<1>3. UserData'
  BY <1>1, <1>2, UserConstants, UserAssumption DEF UserData
<1>4. UserCounters'
  <2>1. failures' \in 0 .. MaxFailures
    <3>1. CASE User!Fails
      BY <3>1, Failing
    <3>2. CASE failures' = failures
      BY <3>2 DEF UserCounters
    <3>3. QED
      BY <3>1, <3>2
  <2>2. QED
    BY <2>1 DEF UserCounters
<1>5. UserFlags'
  BY Zenon DEF UserFlags
<1>6. UserSteps' /\ SavedUsers'
  BY <1>1, <1>2 DEF UserSteps, UserData, SavedUsers
<1>8. StoredUsers'
  <2>1. stored' = stored /\ storage' = storage /\ userStep' \in {"remove stored", "forget"}
    OBVIOUS
  <2>2. userStep' = "forget" => userStep = "remove keychain"
    OBVIOUS
  <2>3. failures' = 0 => failures = 0
    <3>1. CASE User!Fails
      BY <3>1, Failing
    <3>2. CASE failures' = failures
      BY <3>2
    <3>3. QED
      BY <3>1, <3>2
  <2>4. QED
    BY <2>1, <2>2, <2>3 DEF StoredUsers
<1>9. KeychainIsTheUsers'
  <2>1. /\ split' = split /\ creds' = creds /\ stored' = stored
        /\ keychain' \in {keychain, Nobody}
        /\ userStep # "persist" /\ userStep' # "persist"
    OBVIOUS
  <2> HIDE DEF User!ClearKeychain
  <2>2. CASE split
    BY <2>1, <2>2, Zenon DEF KeychainIsTheUsers
  <2>3. CASE ~split
    <3>1. \A u \in User!Everybody : creds[u] \in {User!Identity(u), Nobody}
      BY <2>3 DEF KeychainIsTheUsers
    <3>2. keychain = Nobody \/ stored \subseteq {keychain}
      BY <2>1, <2>3 DEF KeychainIsTheUsers
    <3>3. \A u \in User!Everybody : (creds[u] \in {User!Identity(u), Nobody})'
      BY <2>1, <3>1, UserConstants
    <3>4. (keychain = Nobody \/ stored \subseteq {keychain})'
      BY <2>1, <3>2
    <3>5. QED
      BY <2>1, <3>3, <3>4 DEF KeychainIsTheUsers
  <2>4. QED
    BY <2>2, <2>3
<1>10. NobodyLeft'
  BY <1>1 DEF NobodyLeft
<1>11. MemoryIsRight'
  BY DEF MemoryIsRight
<1>12. OneIsCurrent'
  BY UserConstants DEF OneIsCurrent
<1>13. QED
  BY <1>3, <1>4, <1>5, <1>6, <1>8, <1>9, <1>10, <1>11, <1>12

LEMMA RemoveStoredKeeps ==
  ASSUME UserInv, User!RemoveStored
  PROVE  UserInv'
<1> USE DEF UserInv, User!Everybody, User!RemoveStored, User!At, User!GoTo, User!Done, User!Call,
   User!Fails
<1>1. queue' = queue /\ QueuedSaves' = QueuedSaves
  BY SameQueue
<1>2. /\ Head(queue).op \in {"get", "save", "logOut"}
      /\ Head(queue).user \in User!Everybody \cup {Nobody}
      /\ Head(queue).op = "save" => Head(queue).user \in QueuedSaves
  BY HeadOfQueue
<1>3. UserData'
  BY <1>1, <1>2, UserConstants DEF UserData
<1>4. UserCounters'
  <2>1. failures' \in 0 .. MaxFailures
    <3>1. CASE User!Fails
      BY <3>1, Failing
    <3>2. CASE failures' = failures
      BY <3>2 DEF UserCounters
    <3>3. QED
      BY <3>1, <3>2
  <2>2. QED
    BY <2>1 DEF UserCounters
<1>5. UserFlags'
  BY Zenon DEF UserFlags
<1>6. UserSteps' /\ SavedUsers'
  BY <1>1, <1>2 DEF UserSteps, UserData, SavedUsers
<1>8. StoredUsers'
  <2>1. stored' = {} \/ stored' = stored
    OBVIOUS
  <2>2. stored' = {} \/ failures' # 0
    <3>1. CASE User!Fails
      BY <3>1, Failing
    <3>2. CASE stored' = {}
      BY <3>2
    <3>3. QED
      BY <3>1, <3>2
  <2>3. userStep' \in {"remove keychain", "forget"}
    OBVIOUS
  <2>4. QED
    BY <2>1, <2>2, <2>3 DEF StoredUsers
<1>9. KeychainIsTheUsers' /\ NobodyLeft' /\ MemoryIsRight' /\ OneIsCurrent'
  BY <1>1, <1>2 DEF KeychainIsTheUsers, UserData, UserSteps, SavedUsers, NobodyLeft, StoredUsers,
     MemoryIsRight, OneIsCurrent
<1>13. QED
  BY <1>3, <1>4, <1>5, <1>6, <1>8, <1>9

LEMMA ForgetKeeps ==
  ASSUME UserInv, User!Forget
  PROVE  UserInv'
<1> USE DEF UserInv, User!Everybody, User!Forget, User!At, User!GoTo, User!Done, User!Call,
   User!Fails
<1>1. /\ queue # <<>> /\ Head(queue).op \in {"get", "save", "logOut"}
      /\ Head(queue).user \in User!Everybody \cup {Nobody}
      /\ Head(queue).op = "save" => Head(queue).user \in QueuedSaves
  BY HeadOfQueue
<1>2. queue' \in Seq(User!QueuedCalls) /\ QueuedSaves' \subseteq QueuedSaves
  <2>1. CASE queue' = Tail(queue)
    BY <1>1, <2>1, Dequeued
  <2>2. CASE queue' = queue
    BY <2>2, SameQueue DEF UserData
  <2>3. QED
    BY <1>1, <2>1, <2>2
<1>3. UserData' /\ UserCounters'
  BY <1>1, <1>2, UserConstants, UserAssumption DEF UserData, UserCounters
<1>5. UserFlags'
  BY Zenon DEF UserFlags
<1>6. UserSteps' /\ SavedUsers' /\ StoredUsers' /\ KeychainIsTheUsers'
  BY <1>1, <1>2 DEF UserSteps, UserData, SavedUsers, StoredUsers, KeychainIsTheUsers
<1>10. NobodyLeft'
  <2> SUFFICES ASSUME out'
               PROVE  /\ current' \in Lazy \cup {Nobody}
                      /\ isCurrent' \subseteq Lazy /\ stored' \subseteq Lazy /\ decided' = {}
                      /\ QueuedSaves' \subseteq Lazy
    BY DEF NobodyLeft
  <2>1. /\ failures = 0 /\ decided = {} /\ isCurrent \subseteq {current}
        /\ \A i \in DOMAIN queue : queue[i].op # "save"
    OBVIOUS
  <2>2. QueuedSaves = {}
    BY <2>1 DEF QueuedSaves
  <2>3. isCurrent = {}
    BY <2>1 DEF UserSteps
  <2>4. stored = {}
    BY <2>1 DEF StoredUsers
  <2>5. QED
    BY <1>2, <2>1, <2>2, <2>3, <2>4
<1>11. MemoryIsRight' /\ OneIsCurrent'
  BY <1>1, <1>2 DEF MemoryIsRight, UserData, UserSteps, SavedUsers, StoredUsers, OneIsCurrent
<1>13. QED
  BY <1>3, <1>5, <1>6, <1>10, <1>11

LEMMA CrashKeeps ==
  ASSUME UserInv, User!Crash
  PROVE  UserInv'
<1> USE DEF UserInv, User!Everybody, User!Crash, User!At, User!GoTo, User!Done, User!Call,
   User!Fails
<1>1. queue' \in Seq(User!QueuedCalls) /\ QueuedSaves' = {}
  BY DEF QueuedSaves
<1>2. UserData'
  BY <1>1, UserConstants DEF UserData
<1>3. UserCounters'
  BY <1>1, UserAssumption DEF UserCounters
<1>4. UserFlags'
  BY Zenon DEF UserFlags
<1>5. UserSteps'
  BY <1>1 DEF UserSteps, UserData
<1>6. SavedUsers'
  BY <1>1 DEF SavedUsers, UserData, UserSteps
<1>7. StoredUsers'
  BY <1>1 DEF StoredUsers, UserData, UserSteps, SavedUsers
<1>8. KeychainIsTheUsers'
  <2>1. CASE split'
    BY <2>1 DEF KeychainIsTheUsers
  <2>2. CASE ~split'
    <3>1. ~split /\ stored' = stored /\ keychain' = keychain /\ userStep' = "start"
      BY <2>2
    <3>2. userStep = "persist" => stored = {}
      BY <2>2 DEF UserSteps, StoredUsers, UserData, User!Storages
    <3>3. keychain = Nobody \/ stored \subseteq {keychain}
      BY <3>1, <3>2 DEF KeychainIsTheUsers
    <3>4. QED
      BY <3>1, <3>3 DEF KeychainIsTheUsers
  <2>3. QED
    BY <2>1, <2>2
<1>9. NobodyLeft'
  BY <1>1 DEF NobodyLeft, UserData, UserSteps, SavedUsers, StoredUsers
<1>10. MemoryIsRight'
  BY <1>1 DEF MemoryIsRight, UserData, UserSteps, SavedUsers, StoredUsers
<1>11. OneIsCurrent'
  BY <1>1 DEF OneIsCurrent, UserData, UserSteps, SavedUsers
<1>12. QED
  BY <1>2, <1>3, <1>4, <1>5, <1>6, <1>7, <1>8, <1>9, <1>10, <1>11

LEMMA UserInvStep == UserInv /\ [User!Next]_User!userVars => UserInv'
<1> SUFFICES ASSUME UserInv, [User!Next]_User!userVars PROVE UserInv'
  OBVIOUS
<1>1. CASE UNCHANGED User!userVars
  <2> USE <1>1, SameQueue, UserConstants DEF User!userVars, UserInv, User!Identity
  <2>1. UserData' /\ UserCounters'
    BY DEF UserData, UserCounters
  <2>2. UserFlags'
    BY Zenon DEF UserFlags
  <2>3. UserSteps' /\ SavedUsers' /\ StoredUsers'
    BY DEF UserSteps, SavedUsers, StoredUsers
  <2>4. KeychainIsTheUsers' /\ NobodyLeft'
    BY DEF KeychainIsTheUsers, NobodyLeft
  <2>5. MemoryIsRight' /\ OneIsCurrent'
    BY DEF MemoryIsRight, OneIsCurrent
  <2>6. QED
    BY <2>1, <2>2, <2>3, <2>4, <2>5
<1>2. CASE User!GetCurrentUser \/ User!LogOutCurrentUser
  BY <1>2, GetCurrentUserKeeps, LogOutCurrentUserKeeps
<1>3. CASE \E u \in Users : User!LogIn(u)
  BY <1>3, LogInKeeps
<1>4. CASE \E u \in Users : User!SaveUser(u) \/ User!HandleSaveResult(u) \/ User!SaveCurrentUser(u)
  BY <1>4, SaveUserKeeps, HandleSaveResultKeeps, SaveCurrentUserKeeps
<1>5. CASE \/ User!Read \/ User!LoadNobody \/ \E u \in User!Everybody : User!Load(u)
           \/ \E u \in Lazy : User!LazyLogIn(u)
  BY <1>5, ReadKeeps, LoadNobodyKeeps, LoadKeeps, LazyLogInKeeps
<1>6. CASE \/ User!SaveStart \/ User!Mark \/ User!Unpin \/ User!SaveCredentials
           \/ User!Persist
  BY <1>6, SaveStartKeeps, MarkKeeps, UnpinKeeps, SaveCredentialsKeeps, PersistKeeps
<1>7. CASE User!StartLogOut \/ User!ClearKeychain \/ User!RemoveStored \/ User!Forget
  BY <1>7, StartLogOutKeeps, ClearKeychainKeeps, RemoveStoredKeeps, ForgetKeeps
<1>8. CASE User!Crash
  BY <1>8, CrashKeeps
<1>9. QED
  BY <1>1, <1>2, <1>3, <1>4, <1>5, <1>6, <1>7, <1>8 DEF User!Next

LEMMA UserInvAlways == User!Spec => []UserInv
BY UserInvInit, UserInvStep, PTL DEF User!Spec

LEMMA UserAlone == AllSpec => User!Spec
<1>1. AllInit => User!Init
  BY DEF AllInit
<1>2. [AllNext]_allVars => [User!Next]_User!userVars
  BY DEF AllNext, allVars, userVars, User!userVars
<1>3. QED
  BY <1>1, <1>2, PTL DEF AllSpec, User!Spec

LEMMA UserInvImplies ==
  UserInv => /\ User!TypeOK /\ User!CredentialsAreTheUsers /\ User!LoggedOutStaysOut
             /\ User!MemoryMatchesDisk /\ User!OnlyOneIsCurrent
<1> SUFFICES ASSUME UserInv
             PROVE  /\ User!TypeOK /\ User!CredentialsAreTheUsers /\ User!LoggedOutStaysOut
                    /\ User!MemoryMatchesDisk /\ User!OnlyOneIsCurrent
  OBVIOUS
<1>1. User!TypeOK
  BY UserTypes DEF UserInv
<1>2. User!CredentialsAreTheUsers
  BY DEF UserInv, KeychainIsTheUsers, User!CredentialsAreTheUsers
<1>3. User!LoggedOutStaysOut
  BY DEF UserInv, NobodyLeft, User!LoggedOutStaysOut
<1>4. User!MemoryMatchesDisk
  BY DEF UserInv, UserSteps, MemoryIsRight, User!MemoryMatchesDisk
<1>5. User!OnlyOneIsCurrent
  BY DEF UserInv, UserSteps, OneIsCurrent, User!OnlyOneIsCurrent
<1>6. QED
  BY <1>1, <1>2, <1>3, <1>4, <1>5

\* What the keychain gives a user read from the disk are the user's own
\* credentials, until the keychain refuses those of a user while it holds
\* another's, or a failure or a crash of the file storage leaves the file behind
\* the keychain (PFCurrentUserController, PFKeychainStore).
THEOREM UsersKeepTheirCredentials == AllSpec => []CredentialsAreTheUsers
<1>1. UserInv => CredentialsAreTheUsers
  BY UserInvImplies DEF CredentialsAreTheUsers
<1>2. QED
  BY <1>1, UserAlone, UserInvAlways, PTL

\* After a log out that removed everything nobody is the current user, or
\* believes to be, and nobody is left on the disk to be one after a restart
\* (logOutCurrentUserAsync, saveCurrentObjectAsync, getCurrentUserAsyncWithOptions).
THEOREM NobodyComesBack == AllSpec => []LoggedOutStaysOut
<1>1. UserInv => LoggedOutStaysOut
  BY UserInvImplies DEF LoggedOutStaysOut
<1>2. QED
  BY <1>1, UserAlone, UserInvAlways, PTL

\* While currentUserMatchesDisk is YES, between calls and without a failure, who
\* is current in memory is who the disk has (PFCurrentUserController).
THEOREM MemoryIsRightAboutTheDisk == AllSpec => []MemoryMatchesDisk
<1>1. UserInv => MemoryMatchesDisk
  BY UserInvImplies DEF MemoryMatchesDisk
<1>2. QED
  BY <1>1, UserAlone, UserInvAlways, PTL

\* With the datastore no user but the current one believes to be current, so
\* that no instance goes on saving itself as it (_isCurrentUser of PFUser).
THEOREM OneInstanceIsCurrent == AllSpec => []OnlyOneIsCurrent
<1>1. UserInv => OnlyOneIsCurrent
  BY UserInvImplies DEF OnlyOneIsCurrent
<1>2. QED
  BY <1>1, UserAlone, UserInvAlways, PTL

-----------------------------------------------------------------------------
\* The runs of commands.

\* What a delegate has written of a response that is coming in: every chunk of
\* this attempt, or, once a write has failed, every one but the last.
WrittenSoFar(r) ==
  /\ runFile[r] \subseteq {left[r]} \X (1 .. chunk[r])
  /\ {left[r]} \X (1 .. chunk[r] - 1) \subseteq runFile[r]
  /\ r \notin broken => {left[r]} \X (1 .. chunk[r]) \subseteq runFile[r]

\* How far the task is, and with what result, goes with how far its run is.
TaskOfRun(r) ==
  /\ task[r] \in {"running", "responded"} => at[r] = "waiting"
  /\ task[r] \in {"suspended", "running"} => chunk[r] = 0 /\ r \notin broken
  /\ task[r] = "suspended" => at[r] \in {"made", "delegated", "registered"}
  /\ task[r] = "cancelling" => at[r] \in {"made", "delegated", "registered", "waiting"}
  /\ at[r] \in {"idle", "attempt"} \/ task[r] \notin {"none", "completed"} => result[r] = "none"
  /\ at[r] = "delay" => left[r] > 1
  /\ result[r] = "success" => at[r] \in {"answered", "ended"} /\ task[r] = "completed"

\* An attempt puts one request on the wire.
SentOnce(r) ==
  /\ runSent[r] + left[r] <= RetryAttempts + 1
  /\ at[r] \in {"idle", "attempt", "made", "delegated", "registered"} =>
       runSent[r] + left[r] <= RetryAttempts

WrittenIn(r) ==
  /\ task[r] = "responded" => WrittenSoFar(r)
  /\ result[r] = "success" => /\ {left[r]} \X (1 .. Chunks - 1) \subseteq runFile[r]
                               /\ runFile[r] \subseteq {left[r]} \X (1 .. Chunks)

RunFacts(r) ==
  /\ TaskOfRun(r) /\ SentOnce(r)
  /\ kind[r] = "download" => WrittenIn(r)

RunInv == Runner!TypeOK /\ \A r \in Runs : RunFacts(r)

\* A run is not touched by the steps of another.
LEMMA OtherRuns ==
  ASSUME NEW q \in Runs, RunFacts(q),
         at'[q] = at[q], kind'[q] = kind[q], left'[q] = left[q], task'[q] = task[q],
         chunk'[q] = chunk[q], runFile'[q] = runFile[q], result'[q] = result[q],
         runSent'[q] = runSent[q], q \in broken' <=> q \in broken
  PROVE  RunFacts(q)'
BY DEF RunFacts, TaskOfRun, SentOnce, WrittenIn, WrittenSoFar

LEMMA RunInvInit == Runner!Init => RunInv
<1> SUFFICES ASSUME Runner!Init PROVE RunInv
  OBVIOUS
<1> USE RunnerAssumption
<1>1. Runner!TypeOK
  BY DEF Runner!Init, Runner!TypeOK
<1>2. \A r \in Runs : RunFacts(r)
  BY DEF Runner!Init, RunFacts, TaskOfRun, SentOnce, WrittenIn
<1>3. QED
  BY <1>1, <1>2 DEF RunInv

LEMMA RunKeeps ==
  ASSUME RunInv, NEW r \in Runs, Runner!Run(r)
  PROVE  RunInv'
<1> USE RunnerAssumption DEF Runner!Run, Runner!Move, Runner!Turn
<1>1. Runner!TypeOK'
  BY DEF RunInv, Runner!TypeOK, RunFacts, SentOnce, TaskOfRun
<1>2. TaskOfRun(r)'
  BY DEF RunInv, Runner!TypeOK, RunFacts, TaskOfRun
<1>3. SentOnce(r)'
  BY DEF RunInv, Runner!TypeOK, RunFacts, SentOnce, TaskOfRun
<1>4. (kind[r] = "download" => WrittenIn(r))'
  BY DEF RunInv, Runner!TypeOK, RunFacts, TaskOfRun, WrittenIn, WrittenSoFar
<1>5. ASSUME NEW q \in Runs \ {r} PROVE RunFacts(q)'
  BY OtherRuns DEF RunInv, Runner!TypeOK
<1>6. QED
  BY <1>1, <1>2, <1>3, <1>4, <1>5 DEF RunInv, RunFacts

LEMMA MakeTaskKeeps ==
  ASSUME RunInv, NEW r \in Runs, Runner!MakeTask(r)
  PROVE  RunInv'
<1> USE RunnerAssumption DEF Runner!MakeTask, Runner!Move, Runner!Turn
<1>1. Runner!TypeOK'
  BY DEF RunInv, Runner!TypeOK, RunFacts, SentOnce, TaskOfRun
<1>2. TaskOfRun(r)'
  BY DEF RunInv, Runner!TypeOK, RunFacts, TaskOfRun
<1>3. SentOnce(r)'
  BY DEF RunInv, Runner!TypeOK, RunFacts, SentOnce, TaskOfRun
<1>4. (kind[r] = "download" => WrittenIn(r))'
  BY DEF RunInv, Runner!TypeOK, RunFacts, TaskOfRun, WrittenIn, WrittenSoFar
<1>5. ASSUME NEW q \in Runs \ {r} PROVE RunFacts(q)'
  BY OtherRuns DEF RunInv, Runner!TypeOK
<1>6. QED
  BY <1>1, <1>2, <1>3, <1>4, <1>5 DEF RunInv, RunFacts

LEMMA MakeDelegateKeeps ==
  ASSUME RunInv, NEW r \in Runs, Runner!MakeDelegate(r)
  PROVE  RunInv'
<1> USE RunnerAssumption DEF Runner!MakeDelegate, Runner!Move, Runner!Turn, Runner!CancelTask,
   Runner!Unfinished
<1>1. Runner!TypeOK'
  BY DEF RunInv, Runner!TypeOK, RunFacts, SentOnce, TaskOfRun
<1>2. TaskOfRun(r)'
  BY DEF RunInv, Runner!TypeOK, RunFacts, TaskOfRun
<1>3. SentOnce(r)'
  BY DEF RunInv, Runner!TypeOK, RunFacts, SentOnce, TaskOfRun
<1>4. (kind[r] = "download" => WrittenIn(r))'
  BY DEF RunInv, Runner!TypeOK, RunFacts, TaskOfRun, WrittenIn, WrittenSoFar
<1>5. ASSUME NEW q \in Runs \ {r} PROVE RunFacts(q)'
  BY OtherRuns DEF RunInv, Runner!TypeOK
<1>6. QED
  BY <1>1, <1>2, <1>3, <1>4, <1>5 DEF RunInv, RunFacts

LEMMA RegisterDelegateKeeps ==
  ASSUME RunInv, NEW r \in Runs, Runner!RegisterDelegate(r)
  PROVE  RunInv'
<1> USE RunnerAssumption DEF Runner!RegisterDelegate, Runner!Move, Runner!Turn
<1>1. Runner!TypeOK'
  BY DEF RunInv, Runner!TypeOK, RunFacts, SentOnce, TaskOfRun
<1>2. TaskOfRun(r)'
  BY DEF RunInv, Runner!TypeOK, RunFacts, TaskOfRun
<1>3. SentOnce(r)'
  BY DEF RunInv, Runner!TypeOK, RunFacts, SentOnce, TaskOfRun
<1>4. (kind[r] = "download" => WrittenIn(r))'
  BY DEF RunInv, Runner!TypeOK, RunFacts, TaskOfRun, WrittenIn, WrittenSoFar
<1>5. ASSUME NEW q \in Runs \ {r} PROVE RunFacts(q)'
  BY OtherRuns DEF RunInv, Runner!TypeOK
<1>6. QED
  BY <1>1, <1>2, <1>3, <1>4, <1>5 DEF RunInv, RunFacts

LEMMA ResumeTaskKeeps ==
  ASSUME RunInv, NEW r \in Runs, Runner!ResumeTask(r)
  PROVE  RunInv'
<1> USE RunnerAssumption DEF Runner!ResumeTask, Runner!Move, Runner!Turn
<1>1. Runner!TypeOK'
  BY DEF RunInv, Runner!TypeOK, RunFacts, SentOnce, TaskOfRun
<1>2. TaskOfRun(r)'
  <2>1. TaskOfRun(r) /\ at[r] = "registered"
    BY DEF RunInv, RunFacts
  <2>2. CASE task[r] = "suspended"
    BY <2>1, <2>2 DEF RunInv, Runner!TypeOK, TaskOfRun
  <2>3. CASE task[r] # "suspended"
    BY <2>1, <2>3 DEF RunInv, Runner!TypeOK, TaskOfRun
  <2>4. QED
    BY <2>2, <2>3
<1>3. SentOnce(r)'
  BY DEF RunInv, Runner!TypeOK, RunFacts, SentOnce, TaskOfRun
<1>4. (kind[r] = "download" => WrittenIn(r))'
  BY DEF RunInv, Runner!TypeOK, RunFacts, TaskOfRun, WrittenIn, WrittenSoFar
<1>5. ASSUME NEW q \in Runs \ {r} PROVE RunFacts(q)'
  BY OtherRuns DEF RunInv, Runner!TypeOK
<1>6. QED
  BY <1>1, <1>2, <1>3, <1>4, <1>5 DEF RunInv, RunFacts

LEMMA ConcludeKeeps ==
  ASSUME RunInv, NEW r \in Runs, Runner!Conclude(r)
  PROVE  RunInv'
<1> USE RunnerAssumption DEF Runner!Conclude, Runner!Move, Runner!Turn
<1>1. Runner!TypeOK'
  BY DEF RunInv, Runner!TypeOK, RunFacts, SentOnce, TaskOfRun
<1>2. TaskOfRun(r)'
  BY DEF RunInv, Runner!TypeOK, RunFacts, TaskOfRun
<1>3. SentOnce(r)'
  BY DEF RunInv, Runner!TypeOK, RunFacts, SentOnce, TaskOfRun
<1>4. (kind[r] = "download" => WrittenIn(r))'
  BY DEF RunInv, Runner!TypeOK, RunFacts, TaskOfRun, WrittenIn, WrittenSoFar
<1>5. ASSUME NEW q \in Runs \ {r} PROVE RunFacts(q)'
  BY OtherRuns DEF RunInv, Runner!TypeOK
<1>6. QED
  BY <1>1, <1>2, <1>3, <1>4, <1>5 DEF RunInv, RunFacts

LEMMA RetryAfterDelayKeeps ==
  ASSUME RunInv, NEW r \in Runs, Runner!RetryAfterDelay(r)
  PROVE  RunInv'
<1> USE RunnerAssumption DEF Runner!RetryAfterDelay, Runner!Move, Runner!Turn
<1>1. Runner!TypeOK'
  BY DEF RunInv, Runner!TypeOK, RunFacts, SentOnce, TaskOfRun
<1>2. TaskOfRun(r)'
  BY DEF RunInv, Runner!TypeOK, RunFacts, TaskOfRun
<1>3. SentOnce(r)'
  BY DEF RunInv, Runner!TypeOK, RunFacts, SentOnce, TaskOfRun
<1>4. (kind[r] = "download" => WrittenIn(r))'
  BY DEF RunInv, Runner!TypeOK, RunFacts, TaskOfRun, WrittenIn, WrittenSoFar
<1>5. ASSUME NEW q \in Runs \ {r} PROVE RunFacts(q)'
  BY OtherRuns DEF RunInv, Runner!TypeOK
<1>6. QED
  BY <1>1, <1>2, <1>3, <1>4, <1>5 DEF RunInv, RunFacts

LEMMA CancelKeeps ==
  ASSUME RunInv, NEW r \in Runs, Runner!Cancel(r)
  PROVE  RunInv'
<1> USE RunnerAssumption DEF Runner!Cancel, Runner!Move, Runner!Turn, Runner!CancelTask,
   Runner!Unfinished
<1>1. Runner!TypeOK'
  BY DEF RunInv, Runner!TypeOK, RunFacts, SentOnce, TaskOfRun
<1>2. TaskOfRun(r)'
  BY DEF RunInv, Runner!TypeOK, RunFacts, TaskOfRun
<1>3. SentOnce(r)'
  BY DEF RunInv, Runner!TypeOK, RunFacts, SentOnce, TaskOfRun
<1>4. (kind[r] = "download" => WrittenIn(r))'
  BY DEF RunInv, Runner!TypeOK, RunFacts, TaskOfRun, WrittenIn, WrittenSoFar
<1>5. ASSUME NEW q \in Runs \ {r} PROVE RunFacts(q)'
  BY OtherRuns DEF RunInv, Runner!TypeOK
<1>6. QED
  BY <1>1, <1>2, <1>3, <1>4, <1>5 DEF RunInv, RunFacts

LEMMA RespondKeeps ==
  ASSUME RunInv, NEW r \in Runs, Runner!Respond(r)
  PROVE  RunInv'
<1> USE RunnerAssumption DEF Runner!Respond, Runner!Move, Runner!Turn
<1>1. Runner!TypeOK'
  BY DEF RunInv, Runner!TypeOK, RunFacts, SentOnce, TaskOfRun
<1>2. TaskOfRun(r)'
  BY DEF RunInv, Runner!TypeOK, RunFacts, TaskOfRun
<1>3. SentOnce(r)'
  BY DEF RunInv, Runner!TypeOK, RunFacts, SentOnce, TaskOfRun
<1>4. (kind[r] = "download" => WrittenIn(r))'
  BY DEF RunInv, Runner!TypeOK, RunFacts, TaskOfRun, WrittenIn, WrittenSoFar
<1>5. ASSUME NEW q \in Runs \ {r} PROVE RunFacts(q)'
  BY OtherRuns DEF RunInv, Runner!TypeOK
<1>6. QED
  BY <1>1, <1>2, <1>3, <1>4, <1>5 DEF RunInv, RunFacts

LEMMA ReceiveDataKeeps ==
  ASSUME RunInv, NEW r \in Runs, Runner!ReceiveData(r)
  PROVE  RunInv'
<1> USE RunnerAssumption DEF Runner!ReceiveData, Runner!Move, Runner!Turn, Runner!CancelTask,
   Runner!Unfinished
<1>1. Runner!TypeOK'
  BY DEF RunInv, Runner!TypeOK, RunFacts, SentOnce, TaskOfRun
<1>2. TaskOfRun(r)'
  BY DEF RunInv, Runner!TypeOK, RunFacts, TaskOfRun
<1>3. SentOnce(r)'
  BY DEF RunInv, Runner!TypeOK, RunFacts, SentOnce, TaskOfRun
<1>4. (kind[r] = "download" => WrittenIn(r))'
  BY SMTT(30) DEF RunInv, Runner!TypeOK, RunFacts, TaskOfRun, WrittenIn, WrittenSoFar
<1>5. ASSUME NEW q \in Runs \ {r} PROVE RunFacts(q)'
  BY OtherRuns DEF RunInv, Runner!TypeOK
<1>6. QED
  BY <1>1, <1>2, <1>3, <1>4, <1>5 DEF RunInv, RunFacts

LEMMA DidCompleteKeeps ==
  ASSUME RunInv, NEW r \in Runs, Runner!DidComplete(r)
  PROVE  RunInv'
<1> USE RunnerAssumption DEF Runner!DidComplete, Runner!Move, Runner!Turn, Runner!Complete,
   Runner!FinishData, Runner!FinishDownload
<1>1. Runner!TypeOK'
  BY DEF RunInv, Runner!TypeOK, RunFacts, SentOnce, TaskOfRun
<1>2. TaskOfRun(r)'
  BY DEF RunInv, Runner!TypeOK, RunFacts, TaskOfRun
<1>3. SentOnce(r)'
  BY DEF RunInv, Runner!TypeOK, RunFacts, SentOnce, TaskOfRun
<1>4. (kind[r] = "download" => WrittenIn(r))'
  BY DEF RunInv, Runner!TypeOK, RunFacts, TaskOfRun, WrittenIn, WrittenSoFar
<1>5. ASSUME NEW q \in Runs \ {r} PROVE RunFacts(q)'
  BY OtherRuns DEF RunInv, Runner!TypeOK
<1>6. QED
  BY <1>1, <1>2, <1>3, <1>4, <1>5 DEF RunInv, RunFacts

LEMMA DidCompleteWithErrorKeeps ==
  ASSUME RunInv, NEW r \in Runs, Runner!DidCompleteWithError(r)
  PROVE  RunInv'
<1> USE RunnerAssumption DEF Runner!DidCompleteWithError, Runner!Move, Runner!Turn,
   Runner!Complete, Runner!FinishData, Runner!FinishDownload
<1>1. Runner!TypeOK'
  BY DEF RunInv, Runner!TypeOK, RunFacts, SentOnce, TaskOfRun
<1>2. TaskOfRun(r)'
  BY DEF RunInv, Runner!TypeOK, RunFacts, TaskOfRun
<1>3. SentOnce(r)'
  BY DEF RunInv, Runner!TypeOK, RunFacts, SentOnce, TaskOfRun
<1>4. (kind[r] = "download" => WrittenIn(r))'
  BY DEF RunInv, Runner!TypeOK, RunFacts, TaskOfRun, WrittenIn, WrittenSoFar
<1>5. ASSUME NEW q \in Runs \ {r} PROVE RunFacts(q)'
  BY OtherRuns DEF RunInv, Runner!TypeOK
<1>6. QED
  BY <1>1, <1>2, <1>3, <1>4, <1>5 DEF RunInv, RunFacts

LEMMA RunInvStep == RunInv /\ [Runner!Next]_Runner!runVars => RunInv'
<1> SUFFICES ASSUME RunInv, [Runner!Next]_Runner!runVars PROVE RunInv'
  OBVIOUS
<1>1. CASE UNCHANGED Runner!runVars
  BY <1>1 DEF Runner!runVars, RunInv, RunFacts, Runner!TypeOK, TaskOfRun, SentOnce, WrittenIn,
     WrittenSoFar
<1>2. ASSUME NEW r \in Runs, Runner!Step(r) PROVE RunInv'
  BY <1>2, RunKeeps, MakeTaskKeeps, MakeDelegateKeeps, RegisterDelegateKeeps, ResumeTaskKeeps,
     ConcludeKeeps, RetryAfterDelayKeeps, RespondKeeps, ReceiveDataKeeps, DidCompleteKeeps,
     DidCompleteWithErrorKeeps DEF Runner!Step
<1>3. ASSUME NEW r \in Runs, Runner!Cancel(r) PROVE RunInv'
  BY <1>3, CancelKeeps
<1>4. QED
  BY <1>1, <1>2, <1>3 DEF Runner!Next

LEMMA RunInvAlways == AllSpec => []RunInv
<1>1. AllInit => RunInv
  BY RunInvInit DEF AllInit
<1>2. [AllNext]_allVars => [Runner!Next]_Runner!runVars
  BY DEF AllNext, allVars, runVars, Runner!runVars
<1>3. QED
  BY <1>1, <1>2, RunInvStep, PTL DEF AllSpec

\* A download that succeeds leaves what its last attempt received, whatever the
\* attempts before it wrote and in whatever order the callbacks, the retries and
\* a cancellation come (PFURLSessionFileDownloadTaskDelegate).
THEOREM DownloadsAreWhole == AllSpec => []DownloadedFileIsWhole
<1>1. RunInv => DownloadedFileIsWhole
  BY DEF RunInv, RunFacts, TaskOfRun, WrittenIn, DownloadedFileIsWhole, Runner!DownloadedFileIsWhole
<1>2. QED
  BY <1>1, RunInvAlways, PTL

-----------------------------------------------------------------------------
\* How the end of a task is heard of: once it has a delegate that is registered,
\* the task goes on until the delegate finishes the attempt.
Heard(r) ==
  r \notin runLost =>
    /\ r \in delegates => at[r] \in {"registered", "waiting"} /\ task[r] \notin {"none", "completed"}
    /\ at[r] = "waiting" => r \in delegates /\ task[r] \in {"running", "responded", "cancelling"}
    /\ at[r] \in {"made", "delegated"} => task[r] \in {"suspended", "cancelling"}
    /\ at[r] = "registered" =>
         (r \in delegates /\ task[r] \in {"suspended", "cancelling"}) \/ result[r] # "none"

HeardInv == RunInv /\ \A r \in Runs : Heard(r)

LEMMA OthersHeard ==
  ASSUME NEW q \in Runs, Heard(q), at'[q] = at[q], task'[q] = task[q], result'[q] = result[q],
         q \in delegates' <=> q \in delegates, q \in runLost' <=> q \in runLost
  PROVE  Heard(q)'
BY DEF Heard

LEMMA EndIsHeard ==
  ASSUME HeardInv, NEW r \in Runs, NEW how \in {"success", "permanent", "temporary", "cancelled"},
         task[r] \in {"running", "responded", "cancelling"}, Runner!Complete(r, how)
  PROVE  \A q \in Runs : Heard(q)'
<1> USE DEF Runner!Complete, Runner!Turn
<1>1. ASSUME NEW q \in Runs, q # r PROVE Heard(q)'
  BY <1>1, OthersHeard DEF HeardInv, RunInv, Runner!TypeOK
<1>2. CASE r \in delegates
  BY <1>2 DEF HeardInv, RunInv, Runner!TypeOK, Heard
<1>3. CASE r \notin delegates
  BY <1>3 DEF HeardInv, RunInv, Runner!TypeOK, Heard
<1>4. QED
  BY <1>1, <1>2, <1>3

LEMMA StepIsHeard ==
  ASSUME HeardInv, NEW r \in Runs, Runner!Step(r) \/ Runner!Cancel(r)
  PROVE  \A q \in Runs : Heard(q)'
<1> USE DEF HeardInv, Runner!Move, Runner!Turn
<1>1. CASE Runner!Run(r)
  <2>1. ASSUME NEW q \in Runs, q # r PROVE Heard(q)'
    BY <1>1, <2>1, OthersHeard DEF RunInv, Runner!TypeOK, Runner!Run
  <2>2. Heard(r)'
    BY <1>1 DEF RunInv, RunFacts, TaskOfRun, Runner!TypeOK, Heard, Runner!Run
  <2>3. QED
    BY <2>1, <2>2
<1>2. CASE Runner!MakeTask(r)
  <2>1. ASSUME NEW q \in Runs, q # r PROVE Heard(q)'
    BY <1>2, <2>1, OthersHeard DEF RunInv, Runner!TypeOK, Runner!MakeTask
  <2>2. Heard(r)'
    BY <1>2 DEF RunInv, RunFacts, TaskOfRun, Runner!TypeOK, Heard, Runner!MakeTask
  <2>3. QED
    BY <2>1, <2>2
<1>3. CASE Runner!MakeDelegate(r)
  <2>1. ASSUME NEW q \in Runs, q # r PROVE Heard(q)'
    BY <1>3, <2>1, OthersHeard DEF RunInv, Runner!TypeOK, Runner!MakeDelegate, Runner!CancelTask, Runner!Unfinished
  <2>2. Heard(r)'
    BY <1>3 DEF RunInv, RunFacts, TaskOfRun, Runner!TypeOK, Heard, Runner!MakeDelegate, Runner!CancelTask, Runner!Unfinished
  <2>3. QED
    BY <2>1, <2>2
<1>4. CASE Runner!RegisterDelegate(r)
  <2>1. ASSUME NEW q \in Runs, q # r PROVE Heard(q)'
    BY <1>4, <2>1, OthersHeard DEF RunInv, Runner!TypeOK, Runner!RegisterDelegate
  <2>2. Heard(r)'
    BY <1>4 DEF RunInv, RunFacts, TaskOfRun, Runner!TypeOK, Heard, Runner!RegisterDelegate
  <2>3. QED
    BY <2>1, <2>2
<1>5. CASE Runner!ResumeTask(r)
  <2>1. ASSUME NEW q \in Runs, q # r PROVE Heard(q)'
    BY <1>5, <2>1, OthersHeard DEF RunInv, Runner!TypeOK, Runner!ResumeTask
  <2>2. Heard(r)'
    BY <1>5 DEF RunInv, RunFacts, TaskOfRun, Runner!TypeOK, Heard, Runner!ResumeTask
  <2>3. QED
    BY <2>1, <2>2
<1>6. CASE Runner!Conclude(r)
  <2>1. ASSUME NEW q \in Runs, q # r PROVE Heard(q)'
    BY <1>6, <2>1, OthersHeard DEF RunInv, Runner!TypeOK, Runner!Conclude
  <2>2. Heard(r)'
    BY <1>6 DEF RunInv, RunFacts, TaskOfRun, Runner!TypeOK, Heard, Runner!Conclude
  <2>3. QED
    BY <2>1, <2>2
<1>7. CASE Runner!RetryAfterDelay(r)
  <2>1. ASSUME NEW q \in Runs, q # r PROVE Heard(q)'
    BY <1>7, <2>1, OthersHeard DEF RunInv, Runner!TypeOK, Runner!RetryAfterDelay
  <2>2. Heard(r)'
    BY <1>7 DEF RunInv, RunFacts, TaskOfRun, Runner!TypeOK, Heard, Runner!RetryAfterDelay
  <2>3. QED
    BY <2>1, <2>2
<1>8. CASE Runner!Respond(r)
  <2>1. ASSUME NEW q \in Runs, q # r PROVE Heard(q)'
    BY <1>8, <2>1, OthersHeard DEF RunInv, Runner!TypeOK, Runner!Respond
  <2>2. Heard(r)'
    BY <1>8 DEF RunInv, RunFacts, TaskOfRun, Runner!TypeOK, Heard, Runner!Respond
  <2>3. QED
    BY <2>1, <2>2
<1>9. CASE Runner!ReceiveData(r)
  <2>1. ASSUME NEW q \in Runs, q # r PROVE Heard(q)'
    BY <1>9, <2>1, OthersHeard DEF RunInv, Runner!TypeOK, Runner!ReceiveData, Runner!CancelTask, Runner!Unfinished
  <2>2. Heard(r)'
    BY <1>9 DEF RunInv, RunFacts, TaskOfRun, Runner!TypeOK, Heard, Runner!ReceiveData, Runner!CancelTask, Runner!Unfinished
  <2>3. QED
    BY <2>1, <2>2
<1>10. CASE Runner!DidComplete(r)
  BY <1>10, EndIsHeard DEF Runner!DidComplete, Runner!FinishData, Runner!FinishDownload
<1>11. CASE Runner!DidCompleteWithError(r)
  BY <1>11, EndIsHeard DEF Runner!DidCompleteWithError, Runner!FinishData, Runner!FinishDownload
<1>12. CASE Runner!Cancel(r)
  <2>1. ASSUME NEW q \in Runs, q # r PROVE Heard(q)'
    BY <1>12, <2>1, OthersHeard DEF RunInv, Runner!TypeOK, Runner!Cancel, Runner!CancelTask, Runner!Unfinished
  <2>2. Heard(r)'
    BY <1>12 DEF RunInv, RunFacts, TaskOfRun, Runner!TypeOK, Heard, Runner!Cancel, Runner!CancelTask, Runner!Unfinished
  <2>3. QED
    BY <2>1, <2>2
<1>13. QED
  BY <1>1, <1>2, <1>3, <1>4, <1>5, <1>6, <1>7, <1>8, <1>9, <1>10, <1>11, <1>12 DEF Runner!Step

LEMMA HeardInvAlways == AllSpec => []HeardInv
<1>1. AllInit => HeardInv
  BY RunInvInit DEF AllInit, HeardInv, Heard, Runner!Init
<1>2. [AllNext]_allVars => [Runner!Next]_Runner!runVars
  BY DEF AllNext, allVars, runVars, Runner!runVars
<1>3. ASSUME HeardInv, [Runner!Next]_Runner!runVars PROVE HeardInv'
  <2>1. RunInv'
    BY <1>3, RunInvStep DEF HeardInv
  <2>2. CASE UNCHANGED Runner!runVars
    BY <2>1, <2>2, <1>3 DEF HeardInv, Heard, Runner!runVars
  <2>3. CASE Runner!Next
    BY <2>1, <2>3, <1>3, StepIsHeard DEF HeardInv, Runner!Next
  <2>4. QED
    BY <1>3, <2>2, <2>3
<1>4. QED
  BY <1>1, <1>2, <1>3, PTL DEF AllSpec

\* A run with nothing left to happen has ended and left no delegate, whatever its
\* attempts, callbacks and cancellation, but for a task that ended before its
\* delegate was registered (PFURLSession _performDataTask:, PFURLSessionCommandRunner).
THEOREM RunsComeToAnEnd == AllSpec => []RunsEnd
<1>1. HeardInv => RunsEnd
  BY DEF HeardInv, RunInv, Heard, RunsEnd, Runner!RunsEnd, Runner!UnderWay, Runner!Ended, Runner!TypeOK
<1>2. QED
  BY <1>1, HeardInvAlways, PTL

-----------------------------------------------------------------------------
\* Files and their downloads.

\* The operations of a file, and what the one at the head is.
Operation == [what : {"get", "save"}, token : {"current", "detached", "cancelled"}]
What(f) == Head(ops[f]).what

\* What the operation of a file is and how far it is go together: a download is
\* one for a get, of a file that is not waiting to be saved, and an upload one
\* for a save of a file that was made from data.  Its staged copy stays until
\* the file has its URL, or would have had it.
OperationsGo ==
  \A f \in Files :
    /\ stage[f] # "idle" => ops[f] # <<>>
    /\ stage[f] \in {"lookup", "create", "register", "waiting", "joined"} => What(f) = "get"
    /\ stage[f] \in {"uploading", "caching", "setting"} => What(f) = "save" /\ f \in new
    /\ stage[f] # "idle" /\ What(f) = "get" => f \notin new \ uploaded
    /\ f \in new \ uploaded => f \in staged \cup stranded \/ stage[f] = "setting"

\* A run is under way while its file registers it or waits for it, and those
\* who have joined it have its URL.
RunsGo ==
  \A f \in Files :
    /\ run[f] # "none" => stage[f] \in {"register", "waiting"}
    /\ stage[f] = "waiting" => run[f] # "none"
    /\ stage[f] = "register" => (run[f] = "none" <=> fileAnswer[f] # "none")
    /\ stage[f] = "joined" =>
         run[joined[f]] # "none" /\ Transfer!UrlOf[joined[f]] = Transfer!UrlOf[f]
    /\ stage[f] \notin {"register", "answered"} => fileAnswer[f] = "none"

\* What is registered for a URL is a run of it, or was over at the time.
TasksGo ==
  \A u \in Transfer!Urls :
    /\ downloadTasks[u] \in Files =>
         run[downloadTasks[u]] # "none" /\ Transfer!UrlOf[downloadTasks[u]] = u
    /\ downloadTasks[u] \in Transfer!Outcomes => u \in late

\* Two that write for one URL have crossed; one alone writes to the temporary
\* file what it receives, and leaves it whole.
WritersGo ==
  \A f \in Files :
    /\ fd[f] # "none" => run[f] = "open"
    /\ fd[f] = "temporary" => temporary[Transfer!UrlOf[f]] # Transfer!NoFile
    /\ fd[f] = "cached" => cached[Transfer!UrlOf[f]] # Transfer!NoFile
    /\ Transfer!UrlOf[f] \in crossed \/
         /\ \A g \in Files \ {f} : Transfer!UrlOf[g] = Transfer!UrlOf[f] =>
              ~(Transfer!Writing(f) /\ Transfer!Writing(g))
         /\ run[f] = "open" => /\ fd[f] = "temporary"
                               /\ temporary[Transfer!UrlOf[f]] = 1 .. received[f]
         /\ run[f] = "downloaded" => temporary[Transfer!UrlOf[f]] = Transfer!Content

\* A URL whose downloads have not crossed is cached as a whole or not at all,
\* and after a success it is, or once an upload has moved its staged copy, but
\* for a cache that was cleared.
WholeOrNone(u) == u \in crossed \/ cached[u] \in {Transfer!NoFile, Transfer!Content}
IsFetched(u) == u \in crossed \/ u \in cleared \/ cached[u] = Transfer!Content

CacheGoes ==
  /\ \A u \in Transfer!Urls :
       WholeOrNone(u) /\ (downloadTasks[u] = "success" => IsFetched(u))
  /\ \A f \in Files :
       /\ stage[f] \in {"register", "answered"} /\ What(f) = "get" /\ fileAnswer[f] = "success" =>
            IsFetched(Transfer!UrlOf[f])
       /\ stage[f] = "setting" => IsFetched(Transfer!UrlOf[f])

\* The type invariant, in parts.
CallTypes == ops \in [Files -> Seq(Operation)] /\ transfers \in 0 .. MaxTransfers
WaitTypes ==
  /\ stage \in [Files -> {"idle", "lookup", "create", "register", "waiting", "joined",
                          "uploading", "caching", "setting", "answered"}]
  /\ fileAnswer \in [Files -> Transfer!Outcomes \cup {"none"}]
  /\ joined \in [Files -> Files]
UploadTypes == new \subseteq Files /\ uploaded \subseteq new /\ staged \subseteq new /\ stranded \subseteq new
TaskTypes ==
  /\ downloadTasks \in [Transfer!Urls -> Files \cup Transfer!Outcomes \cup {"none"}]
  /\ clears \in 0 .. MaxClears
  /\ crossed \subseteq Transfer!Urls /\ late \subseteq Transfer!Urls /\ cleared \subseteq Transfer!Urls
RunTypes ==
  /\ run \in [Files -> {"none", "attempt", "open", "downloaded"}]
  /\ tries \in [Files -> 0 .. DownloadAttempts]
  /\ received \in [Files -> 0 .. Chunks]
  /\ fd \in [Files -> {"none", "temporary", "cached", "gone"}]
OnDisk == (SUBSET Transfer!Content) \cup {Transfer!NoFile}
DiskTypes ==
  temporary \in [Transfer!Urls -> OnDisk] /\ cached \in [Transfer!Urls -> OnDisk]

TransferInv ==
  /\ CallTypes /\ WaitTypes /\ UploadTypes /\ TaskTypes /\ RunTypes /\ DiskTypes
  /\ OperationsGo /\ RunsGo /\ TasksGo /\ WritersGo /\ CacheGoes

LEMMA TransferTypes ==
  Transfer!TypeOK <=> /\ CallTypes /\ WaitTypes /\ UploadTypes /\ TaskTypes /\ RunTypes
                      /\ DiskTypes
BY DEF Transfer!TypeOK, CallTypes, WaitTypes, UploadTypes, TaskTypes, RunTypes, DiskTypes,
       OnDisk, Operation

LEMMA TransferConstants ==
  /\ Transfer!Urls' = Transfer!Urls /\ Transfer!Outcomes' = Transfer!Outcomes
  /\ Transfer!Content' = Transfer!Content /\ Transfer!NoFile' = Transfer!NoFile
  /\ OnDisk' = OnDisk
BY DEF OnDisk

LEMMA UrlsStay ==
  /\ UploadTypes => /\ \A f \in Files : Transfer!UrlOf[f] \in Transfer!Urls /\ f \in Transfer!Urls
                    /\ \A f \in new : Transfer!UrlOf[f] = f
                    /\ \A f \in Files : \A g \in new : Transfer!UrlOf[f] = Transfer!UrlOf[g] => f = g
  /\ new' = new => Transfer!UrlOf' = Transfer!UrlOf
BY FileAssumption DEF Transfer!UrlOf, Transfer!Urls, UploadTypes

LEMMA ContentSets ==
  /\ Transfer!Content # Transfer!NoFile /\ {} # Transfer!NoFile
  /\ Transfer!Content = 1 .. Chunks /\ 1 .. 0 = {}
  /\ \A n \in 0 .. Chunks : 1 .. n \subseteq Transfer!Content
  /\ Transfer!NoFile \in OnDisk /\ Transfer!Content \in OnDisk /\ {} \in OnDisk
  /\ \A S \in OnDisk \ {Transfer!NoFile} : \A n \in 0 .. Chunks - 1 : S \cup {n + 1} \in OnDisk
  /\ \A n \in 0 .. Chunks : (1 .. n) \cup {n + 1} = 1 .. n + 1
<1>1. Transfer!Content = 1 .. Chunks /\ Transfer!NoFile = {0} /\ Chunks \in Nat
  BY RunnerAssumption DEF Transfer!Content, Transfer!NoFile
<1>2. 0 \in Transfer!NoFile /\ 0 \notin Transfer!Content /\ 1 .. 0 = {}
  BY <1>1
<1>3. \A n \in 0 .. Chunks : 1 .. n \subseteq Transfer!Content /\ (1 .. n) \cup {n + 1} = 1 .. n + 1
  BY <1>1
<1>4. Transfer!NoFile \in OnDisk /\ Transfer!Content \in OnDisk /\ {} \in OnDisk
  BY DEF OnDisk
<1>5. \A S \in OnDisk \ {Transfer!NoFile} : \A n \in 0 .. Chunks - 1 : S \cup {n + 1} \in OnDisk
  BY <1>1 DEF OnDisk
<1>6. QED
  BY <1>1, <1>2, <1>3, <1>4, <1>5

LEMMA Retoken ==
  ASSUME NEW q \in Seq(Operation), NEW t \in {"current", "detached", "cancelled"}
  PROVE  /\ Transfer!Retokened(q, t) \in Seq(Operation)
         /\ q # <<>> => /\ Transfer!Retokened(q, t) # <<>>
                        /\ Head(Transfer!Retokened(q, t)).what = Head(q).what
<1> DEFINE r == Transfer!Retokened(q, t)
<1>1. DOMAIN r = 1 .. Len(q) /\ \A i \in 1 .. Len(q) : r[i] \in Operation /\ r[i].what = q[i].what
  <2> SUFFICES ASSUME NEW i \in 1 .. Len(q)
               PROVE  r[i] \in Operation /\ r[i].what = q[i].what
    <3>1. DOMAIN q = 1 .. Len(q)
      OBVIOUS
    <3>2. QED
      BY <3>1 DEF Transfer!Retokened
  <2>1. q[i] \in Operation
    OBVIOUS
  <2>2. r[i] = IF q[i].token = "current" THEN [q[i] EXCEPT !.token = t] ELSE q[i]
    BY DEF Transfer!Retokened
  <2>3. QED
    BY <2>1, <2>2 DEF Operation
<1>2. r = [i \in 1 .. Len(q) |-> r[i]]
  BY DEF Transfer!Retokened
<1> HIDE DEF r
<1>3. r \in Seq(Operation) /\ Len(r) = Len(q)
  BY <1>1, <1>2
<1>4. q # <<>> => r # <<>> /\ Head(r) = r[1] /\ Head(q) = q[1] /\ 1 \in 1 .. Len(q)
  BY <1>3
<1>5. QED
  BY <1>1, <1>3, <1>4 DEF r

\* Every call leaves the operations at the heads of the queues.
HeadsStay(F) ==
  /\ ops' \in [Files -> Seq(Operation)]
  /\ \A f \in F : ops[f] # <<>> => ops'[f] # <<>> /\ What(f)' = What(f)

LEMMA CallsKeepHeads ==
  ASSUME CallTypes, NEW f \in Files, NEW what \in {"get", "save"},
         Transfer!Call(f, what) \/ Transfer!Cancel(f)
  PROVE  HeadsStay(Files)
<1>1. CASE Transfer!Call(f, what)
  <2> DEFINE c == [what |-> what, token |-> "current"]
  <2>1. c \in Operation /\ ops[f] \in Seq(Operation)
    BY DEF CallTypes, Operation
  <2>2. ops' = [ops EXCEPT ![f] = Append(ops[f], c)]
    BY <1>1 DEF Transfer!Call
  <2> HIDE DEF c
  <2>3. /\ Append(ops[f], c) \in Seq(Operation)
        /\ ops[f] # <<>> => Append(ops[f], c) # <<>> /\ Head(Append(ops[f], c)) = Head(ops[f])
    BY <2>1
  <2>4. QED
    BY <2>2, <2>3 DEF CallTypes, HeadsStay, What
<1>2. CASE Transfer!Cancel(f)
  BY <1>2, Retoken DEF CallTypes, HeadsStay, What, Transfer!Cancel
<1>3. QED
  BY <1>1, <1>2

LEMMA OperationsEnd ==
  ASSUME CallTypes, NEW f \in Files, ops[f] # <<>>,
         \/ ops' = [ops EXCEPT ![f] = Tail(@)]
         \/ ops' = [ops EXCEPT ![f] = Transfer!Retokened(Tail(@), "detached")]
  PROVE  HeadsStay(Files \ {f})
<1>1. Tail(ops[f]) \in Seq(Operation)
  BY DEF CallTypes
<1>2. QED
  BY <1>1, Retoken DEF CallTypes, HeadsStay, What

LEMMA SameOps == CallTypes /\ ops' = ops => HeadsStay(Files)
BY DEF CallTypes, HeadsStay, What

\* The end of a run answers those who wait for it.
LEMMA RunEnding ==
  ASSUME TransferInv, NEW f \in Files, run[f] # "none", NEW outcome \in Transfer!Outcomes,
         Transfer!RunEnds(f, outcome), UNCHANGED <<ops, joined, new, uploaded, staged, stranded, late>>
  PROVE  WaitTypes' /\ OperationsGo' /\ RunsGo' /\ TasksGo'
<1> DEFINE W == Transfer!Waiting(f)
<1>1. /\ W \subseteq Files /\ f \in W
      /\ \A g \in W : /\ stage[g] \in {"register", "waiting", "joined"}
                     /\ Transfer!UrlOf[g] = Transfer!UrlOf[f]
      /\ \A g \in W : g = f \/ stage[g] = "joined"
      /\ \A g \in Files \ W : stage[g] = "joined" => joined[g] # f
      /\ \A g \in Files : stage[g] = "joined" /\ joined[g] = f => g \in W
  BY DEF Transfer!Waiting, TransferInv, RunsGo
<1>2. /\ stage' = [g \in Files |-> IF g \in W /\ stage[g] # "register" THEN "answered" ELSE stage[g]]
      /\ fileAnswer' = [g \in Files |-> IF g \in W THEN outcome ELSE fileAnswer[g]]
      /\ run' = [run EXCEPT ![f] = "none"]
      /\ downloadTasks' = [downloadTasks EXCEPT ![Transfer!UrlOf[f]] = "none"]
  BY DEF Transfer!RunEnds
<1>3. /\ Transfer!UrlOf' = Transfer!UrlOf /\ Transfer!UrlOf[f] \in Transfer!Urls
      /\ outcome \in {"success", "error", "cancelled"}
  BY UrlsStay DEF TransferInv, Transfer!Outcomes
<1> HIDE DEF W
<1>4. WaitTypes'
  BY <1>1, <1>2, <1>3, TransferConstants DEF TransferInv, WaitTypes
<1>5. OperationsGo'
  <2>1. HeadsStay(Files)
    BY SameOps DEF TransferInv
  <2>2. QED
    BY <1>1, <1>2, <2>1 DEF TransferInv, OperationsGo, HeadsStay
<1>6. RunsGo'
  <2> SUFFICES ASSUME NEW g \in Files
               PROVE  /\ run'[g] # "none" => stage'[g] \in {"register", "waiting"}
                      /\ stage'[g] = "waiting" => run'[g] # "none"
                      /\ stage'[g] = "register" => (run'[g] = "none" <=> fileAnswer'[g] # "none")
                      /\ stage'[g] = "joined" =>
                           /\ run'[joined[g]] # "none"
                           /\ Transfer!UrlOf[joined[g]] = Transfer!UrlOf[g]
                      /\ stage'[g] \notin {"register", "answered"} => fileAnswer'[g] = "none"
    BY <1>3 DEF RunsGo
  <2>1. CASE g = f
    BY <1>1, <1>2, <1>3, <2>1 DEF TransferInv, RunsGo, RunTypes, WaitTypes
  <2>2. CASE g \in W /\ g # f
    BY <1>1, <1>2, <2>2 DEF TransferInv, RunsGo, RunTypes, WaitTypes
  <2>3. CASE g \notin W
    BY <1>1, <1>2, <2>3 DEF TransferInv, RunsGo, RunTypes, WaitTypes
  <2>4. QED
    BY <2>1, <2>2, <2>3
<1>7. TasksGo'
  BY <1>1, <1>2, <1>3, FileAssumption, TransferConstants
     DEF TransferInv, RunsGo, TasksGo, TaskTypes, RunTypes, Transfer!Outcomes
<1>8. QED
  BY <1>4, <1>5, <1>6, <1>7

LEMMA TransferInvInit == Transfer!Init => TransferInv
<1> SUFFICES ASSUME Transfer!Init PROVE TransferInv
  OBVIOUS
<1> USE FileAssumption, RunnerAssumption DEF Transfer!Init
<1>1. CallTypes /\ WaitTypes /\ UploadTypes /\ RunTypes
  BY DEF CallTypes, WaitTypes, UploadTypes, RunTypes
<1>2. TaskTypes /\ DiskTypes
  <2>1. TaskTypes
    BY DEF TaskTypes
  <2>2. DiskTypes
    BY ContentSets DEF DiskTypes
  <2>3. QED
    BY <2>1, <2>2
<1>3. OperationsGo /\ RunsGo
  BY DEF OperationsGo, RunsGo
<1>4. TasksGo /\ WritersGo
  BY DEF TasksGo, WritersGo, Transfer!Outcomes, Transfer!Writing
<1>5. CacheGoes
  BY DEF CacheGoes, WholeOrNone
<1>6. QED
  BY <1>1, <1>2, <1>3, <1>4, <1>5 DEF TransferInv

LEMMA GetDataKeepsTransfers ==
  ASSUME TransferInv, NEW f \in Files, Transfer!GetData(f)
  PROVE  TransferInv'
<1> USE FileAssumption, RunnerAssumption, TransferConstants DEF Transfer!GetData, Transfer!Call,
   Transfer!callVars, Transfer!waitVars, Transfer!uploadVars, Transfer!runVars, Transfer!diskVars,
   Transfer!clearVars
<1>0. HeadsStay(Files) /\ Transfer!UrlOf' = Transfer!UrlOf
  BY CallsKeepHeads DEF TransferInv, Transfer!UrlOf
<1>1. WaitTypes' /\ UploadTypes' /\ TaskTypes' /\ RunTypes' /\ DiskTypes'
  BY DEF TransferInv, WaitTypes, UploadTypes, TaskTypes, RunTypes, DiskTypes
<1>2. CallTypes'
  BY <1>0 DEF TransferInv, CallTypes, HeadsStay
<1>3. OperationsGo'
  BY <1>0 DEF TransferInv, OperationsGo, HeadsStay, WaitTypes, UploadTypes
<1>4. RunsGo'
  BY <1>0, UrlsStay DEF TransferInv, RunsGo, TasksGo, WaitTypes, RunTypes, Transfer!Outcomes
<1>5. TasksGo'
  BY <1>0, UrlsStay DEF TransferInv, RunsGo, TasksGo, TaskTypes, RunTypes, Transfer!Outcomes
<1>6. WritersGo'
  BY <1>0 DEF TransferInv, RunsGo, WritersGo, RunTypes, DiskTypes, Transfer!Writing
<1>7. CacheGoes'
  BY <1>0, UrlsStay DEF TransferInv, OperationsGo, RunsGo, TasksGo, WritersGo, CacheGoes,
     HeadsStay, WholeOrNone, IsFetched, TaskTypes, WaitTypes, DiskTypes
<1>8. QED
  BY <1>1, <1>2, <1>3, <1>4, <1>5, <1>6, <1>7 DEF TransferInv

LEMMA SaveKeepsTransfers ==
  ASSUME TransferInv, NEW f \in Files, Transfer!Save(f)
  PROVE  TransferInv'
<1> USE FileAssumption, RunnerAssumption, TransferConstants DEF Transfer!Save, Transfer!Call,
   Transfer!callVars, Transfer!waitVars, Transfer!uploadVars, Transfer!runVars, Transfer!diskVars,
   Transfer!clearVars
<1>0. HeadsStay(Files) /\ Transfer!UrlOf' = Transfer!UrlOf
  BY CallsKeepHeads DEF TransferInv, Transfer!UrlOf
<1>1. WaitTypes' /\ UploadTypes' /\ TaskTypes' /\ RunTypes' /\ DiskTypes'
  BY DEF TransferInv, WaitTypes, UploadTypes, TaskTypes, RunTypes, DiskTypes
<1>2. CallTypes'
  BY <1>0 DEF TransferInv, CallTypes, HeadsStay
<1>3. OperationsGo'
  BY <1>0 DEF TransferInv, OperationsGo, HeadsStay, WaitTypes, UploadTypes
<1>4. RunsGo'
  BY <1>0, UrlsStay DEF TransferInv, RunsGo, TasksGo, WaitTypes, RunTypes, Transfer!Outcomes
<1>5. TasksGo'
  BY <1>0, UrlsStay DEF TransferInv, RunsGo, TasksGo, TaskTypes, RunTypes, Transfer!Outcomes
<1>6. WritersGo'
  BY <1>0 DEF TransferInv, RunsGo, WritersGo, RunTypes, DiskTypes, Transfer!Writing
<1>7. CacheGoes'
  BY <1>0, UrlsStay DEF TransferInv, OperationsGo, RunsGo, TasksGo, WritersGo, CacheGoes,
     HeadsStay, WholeOrNone, IsFetched, TaskTypes, WaitTypes, DiskTypes
<1>8. QED
  BY <1>1, <1>2, <1>3, <1>4, <1>5, <1>6, <1>7 DEF TransferInv

LEMMA CancelKeepsTransfers ==
  ASSUME TransferInv, NEW f \in Files, Transfer!Cancel(f)
  PROVE  TransferInv'
<1> USE FileAssumption, RunnerAssumption, TransferConstants DEF Transfer!Cancel, Transfer!callVars,
   Transfer!waitVars, Transfer!uploadVars, Transfer!runVars, Transfer!diskVars, Transfer!clearVars
<1>0. HeadsStay(Files) /\ Transfer!UrlOf' = Transfer!UrlOf
  BY CallsKeepHeads DEF TransferInv, Transfer!UrlOf
<1>1. WaitTypes' /\ UploadTypes' /\ TaskTypes' /\ RunTypes' /\ DiskTypes'
  BY DEF TransferInv, WaitTypes, UploadTypes, TaskTypes, RunTypes, DiskTypes
<1>2. CallTypes'
  BY <1>0 DEF TransferInv, CallTypes, HeadsStay
<1>3. OperationsGo'
  BY <1>0 DEF TransferInv, OperationsGo, HeadsStay, WaitTypes, UploadTypes
<1>4. RunsGo'
  BY <1>0, UrlsStay DEF TransferInv, RunsGo, TasksGo, WaitTypes, RunTypes, Transfer!Outcomes
<1>5. TasksGo'
  BY <1>0, UrlsStay DEF TransferInv, RunsGo, TasksGo, TaskTypes, RunTypes, Transfer!Outcomes
<1>6. WritersGo'
  BY <1>0 DEF TransferInv, RunsGo, WritersGo, RunTypes, DiskTypes, Transfer!Writing
<1>7. CacheGoes'
  BY <1>0, UrlsStay DEF TransferInv, OperationsGo, RunsGo, TasksGo, WritersGo, CacheGoes,
     HeadsStay, WholeOrNone, IsFetched, TaskTypes, WaitTypes, DiskTypes
<1>8. QED
  BY <1>1, <1>2, <1>3, <1>4, <1>5, <1>6, <1>7 DEF TransferInv

LEMMA BeginKeepsTransfers ==
  ASSUME TransferInv, NEW f \in Files, Transfer!Begin(f)
  PROVE  TransferInv'
<1>1. /\ stage[f] = "idle" /\ ops[f] # <<>> /\ fileAnswer[f] = "none"
      /\ UNCHANGED <<transfers, joined, new, uploaded, staged, stranded, downloadTasks, run, tries,
                     received, fd, temporary, cached, clears, cleared, crossed, late>>
  BY DEF Transfer!Begin, TransferInv, RunsGo, Transfer!uploadVars, Transfer!runVars,
         Transfer!diskVars, Transfer!clearVars
<1>2. \/ /\ ops' = [ops EXCEPT ![f] = Tail(@)] /\ UNCHANGED <<stage, fileAnswer>>
      \/ /\ UNCHANGED <<ops, fileAnswer>> /\ stage' = [stage EXCEPT ![f] = "uploading"]
         /\ What(f) = "save" /\ f \in new \ uploaded
      \/ /\ UNCHANGED ops /\ What(f) = "get" /\ f \notin new \ uploaded
         /\ \/ UNCHANGED fileAnswer /\ stage' = [stage EXCEPT ![f] = "lookup"]
            \/ /\ fileAnswer' = [fileAnswer EXCEPT ![f] = "cancelled"]
               /\ stage' = [stage EXCEPT ![f] = "answered"]
  <2>1. ops[f] \in Seq(Operation) /\ Head(ops[f]) \in Operation
    BY <1>1 DEF TransferInv, CallTypes
  <2>2. What(f) \in {"get", "save"}
    BY <2>1 DEF What, Operation
  <2>3. QED
    BY <2>2 DEF What, Transfer!Begin, Transfer!Running, Transfer!DataAvailable, Transfer!Dirty,
                Transfer!Cancelled, Transfer!Become, Transfer!Answer
<1>3. HeadsStay(Files \ {f}) /\ (UNCHANGED ops => HeadsStay(Files))
  BY <1>1, <1>2, OperationsEnd, SameOps DEF TransferInv, HeadsStay
<1>4. Transfer!UrlOf' = Transfer!UrlOf
  BY <1>1, UrlsStay
<1>5. /\ CallTypes' /\ UploadTypes' /\ TaskTypes' /\ RunTypes' /\ DiskTypes'
  BY <1>1, <1>3, TransferConstants
     DEF TransferInv, CallTypes, UploadTypes, TaskTypes, RunTypes, DiskTypes, HeadsStay
<1>6. WaitTypes'
  BY <1>1, <1>2, TransferConstants DEF TransferInv, WaitTypes, Transfer!Outcomes
<1>7. OperationsGo'
  BY <1>1, <1>2, <1>3 DEF TransferInv, WaitTypes, OperationsGo, HeadsStay
<1>8. RunsGo'
  BY <1>1, <1>2, <1>4 DEF TransferInv, WaitTypes, RunsGo
<1>9. TasksGo' /\ WritersGo'
  BY <1>1, <1>4, TransferConstants DEF TransferInv, TasksGo, WritersGo, Transfer!Writing
<1>10. CacheGoes'
  <2>1. /\ \A u \in Transfer!Urls : WholeOrNone(u)' <=> WholeOrNone(u)
        /\ \A u \in Transfer!Urls : IsFetched(u)' <=> IsFetched(u)
    BY <1>1, TransferConstants DEF WholeOrNone, IsFetched
  <2>2. ASSUME NEW g \in Files, stage'[g] \in {"register", "answered"}, What(g)' = "get",
               fileAnswer'[g] = "success"
        PROVE  g # f /\ stage[g] = stage'[g] /\ What(g) = "get" /\ fileAnswer[g] = "success"
    BY <1>1, <1>2, <1>3, <2>2 DEF TransferInv, WaitTypes, OperationsGo, HeadsStay
  <2>3. ASSUME NEW g \in Files, stage'[g] = "setting"
        PROVE  stage[g] = "setting"
    BY <1>1, <1>2, <2>3 DEF TransferInv, WaitTypes
  <2>4. QED
    BY <1>1, <1>4, <2>1, <2>2, <2>3, TransferConstants, UrlsStay DEF TransferInv, CacheGoes
<1>11. QED
  BY <1>5, <1>6, <1>7, <1>8, <1>9, <1>10 DEF TransferInv

LEMMA EndKeepsTransfers ==
  ASSUME TransferInv, NEW f \in Files, Transfer!End(f)
  PROVE  TransferInv'
<1> USE FileAssumption, RunnerAssumption, TransferConstants DEF Transfer!End, Transfer!Become,
   Transfer!callVars, Transfer!waitVars, Transfer!uploadVars, Transfer!runVars, Transfer!diskVars,
   Transfer!clearVars
<1>0. HeadsStay(Files \ {f}) /\ Transfer!UrlOf' = Transfer!UrlOf
  BY OperationsEnd DEF TransferInv, OperationsGo, Transfer!UrlOf
<1>1. UploadTypes' /\ TaskTypes' /\ RunTypes' /\ DiskTypes'
  BY DEF TransferInv, UploadTypes, TaskTypes, RunTypes, DiskTypes
<1>2. CallTypes'
  BY <1>0 DEF TransferInv, CallTypes, HeadsStay
<1>3. WaitTypes'
  BY DEF TransferInv, WaitTypes, TaskTypes, Transfer!Outcomes
<1>4. OperationsGo'
  BY <1>0 DEF TransferInv, OperationsGo, HeadsStay, WaitTypes, UploadTypes
<1>5. RunsGo'
  BY <1>0, UrlsStay DEF TransferInv, RunsGo, TasksGo, WaitTypes, RunTypes, Transfer!Outcomes
<1>6. TasksGo'
  BY <1>0, UrlsStay DEF TransferInv, RunsGo, TasksGo, TaskTypes, RunTypes, Transfer!Outcomes
<1>7. WritersGo'
  BY <1>0 DEF TransferInv, RunsGo, WritersGo, RunTypes, DiskTypes, Transfer!Writing
<1>8. CacheGoes'
  BY <1>0, UrlsStay DEF TransferInv, OperationsGo, RunsGo, TasksGo, WritersGo, CacheGoes,
     HeadsStay, WholeOrNone, IsFetched, TaskTypes, WaitTypes, DiskTypes
<1>9. QED
  BY <1>1, <1>2, <1>3, <1>4, <1>5, <1>6, <1>7, <1>8 DEF TransferInv

LEMMA LookUpKeepsTransfers ==
  ASSUME TransferInv, NEW f \in Files, Transfer!LookUp(f)
  PROVE  TransferInv'
<1> USE FileAssumption, RunnerAssumption, TransferConstants DEF Transfer!LookUp, Transfer!Become,
   Transfer!Answer, Transfer!callVars, Transfer!waitVars, Transfer!uploadVars, Transfer!runVars,
   Transfer!diskVars, Transfer!clearVars
<1>0. HeadsStay(Files) /\ Transfer!UrlOf' = Transfer!UrlOf
  BY SameOps DEF TransferInv, Transfer!UrlOf
<1>1. CallTypes' /\ UploadTypes' /\ TaskTypes' /\ RunTypes' /\ DiskTypes'
  BY DEF TransferInv, CallTypes, UploadTypes, TaskTypes, RunTypes, DiskTypes
<1>2. WaitTypes'
  BY DEF TransferInv, WaitTypes, TaskTypes, Transfer!Outcomes
<1>3. OperationsGo'
  BY <1>0 DEF TransferInv, OperationsGo, HeadsStay, WaitTypes, UploadTypes
<1>4. RunsGo'
  BY <1>0, UrlsStay DEF TransferInv, RunsGo, TasksGo, WaitTypes, RunTypes, Transfer!Outcomes
<1>5. TasksGo'
  BY <1>0, UrlsStay DEF TransferInv, RunsGo, TasksGo, TaskTypes, RunTypes, Transfer!Outcomes
<1>6. WritersGo'
  BY <1>0 DEF TransferInv, RunsGo, WritersGo, RunTypes, DiskTypes, Transfer!Writing
<1>7. CacheGoes'
  BY SMTT(30), <1>0, UrlsStay DEF TransferInv, OperationsGo, RunsGo, TasksGo, WritersGo, CacheGoes,
     HeadsStay, WholeOrNone, IsFetched, TaskTypes, WaitTypes, DiskTypes
<1>8. QED
  BY <1>1, <1>2, <1>3, <1>4, <1>5, <1>6, <1>7 DEF TransferInv

LEMMA CreateRunKeepsTransfers ==
  ASSUME TransferInv, NEW f \in Files, Transfer!CreateRun(f)
  PROVE  TransferInv'
<1> USE FileAssumption, RunnerAssumption, TransferConstants DEF Transfer!CreateRun,
   Transfer!Become, Transfer!Cancelled, Transfer!callVars, Transfer!waitVars, Transfer!uploadVars,
   Transfer!runVars, Transfer!diskVars, Transfer!clearVars
<1>0. HeadsStay(Files) /\ Transfer!UrlOf' = Transfer!UrlOf
  BY SameOps DEF TransferInv, Transfer!UrlOf
<1>1. CallTypes' /\ UploadTypes' /\ DiskTypes'
  BY DEF TransferInv, CallTypes, UploadTypes, DiskTypes
<1>2. WaitTypes'
  BY DEF TransferInv, WaitTypes, TaskTypes, Transfer!Outcomes
<1>3. TaskTypes'
  BY UrlsStay DEF TransferInv, TaskTypes, WaitTypes
<1>4. RunTypes'
  BY DEF TransferInv, RunTypes
<1>5. OperationsGo'
  BY <1>0 DEF TransferInv, OperationsGo, HeadsStay, WaitTypes, UploadTypes
<1>6. RunsGo'
  BY <1>0, UrlsStay DEF TransferInv, RunsGo, TasksGo, WaitTypes, RunTypes, Transfer!Outcomes
<1>7. TasksGo'
  BY <1>0, UrlsStay DEF TransferInv, RunsGo, TasksGo, TaskTypes, RunTypes, Transfer!Outcomes
<1>8. WritersGo'
  <2>1. run[f] = "none" /\ run' \in [Files -> {"none", "attempt", "open", "downloaded"}]
    BY <1>3 DEF TransferInv, RunsGo, RunTypes
  <2>2. \A g \in Files : run'[g] = run[g] \/ (g = f /\ run'[g] = "attempt")
    BY DEF TransferInv, RunTypes
  <2>3. QED
    BY <1>0, <2>1, <2>2 DEF TransferInv, WritersGo, Transfer!Writing
<1>9. CacheGoes'
  BY <1>0, UrlsStay DEF TransferInv, OperationsGo, RunsGo, TasksGo, WritersGo, CacheGoes,
     HeadsStay, WholeOrNone, IsFetched, TaskTypes, WaitTypes, DiskTypes
<1>10. QED
  BY <1>1, <1>2, <1>3, <1>4, <1>5, <1>6, <1>7, <1>8, <1>9 DEF TransferInv

LEMMA RegisterKeepsTransfers ==
  ASSUME TransferInv, NEW f \in Files, Transfer!Register(f)
  PROVE  TransferInv'
<1> USE FileAssumption, RunnerAssumption, TransferConstants DEF Transfer!Register, Transfer!Become,
   Transfer!callVars, Transfer!waitVars, Transfer!uploadVars, Transfer!runVars, Transfer!diskVars,
   Transfer!clearVars
<1>0. HeadsStay(Files) /\ Transfer!UrlOf' = Transfer!UrlOf
  BY SameOps DEF TransferInv, Transfer!UrlOf
<1>1. CallTypes' /\ UploadTypes' /\ RunTypes' /\ DiskTypes'
  BY DEF TransferInv, CallTypes, UploadTypes, RunTypes, DiskTypes
<1>2. WaitTypes'
  BY DEF TransferInv, WaitTypes, TaskTypes, Transfer!Outcomes
<1>3. TaskTypes'
  BY UrlsStay DEF TransferInv, TaskTypes, WaitTypes
<1>4. OperationsGo'
  BY <1>0 DEF TransferInv, OperationsGo, HeadsStay, WaitTypes, UploadTypes
<1>5. RunsGo'
  <2>1. CASE run[f] = "none"
    BY <1>0, <2>1 DEF TransferInv, RunsGo, WaitTypes
  <2>2. CASE run[f] # "none"
    BY <1>0, <2>2 DEF TransferInv, RunsGo, WaitTypes
  <2>3. QED
    BY <2>1, <2>2
<1>6. TasksGo'
  <2>1. CASE run[f] = "none"
    BY <1>0, <2>1, UrlsStay DEF TransferInv, RunsGo, TasksGo, TaskTypes, WaitTypes,
       Transfer!Outcomes
  <2>2. CASE run[f] # "none"
    <3>1. /\ Transfer!UrlOf[f] \in Transfer!Urls /\ f \notin Transfer!Outcomes
          /\ downloadTasks' = [downloadTasks EXCEPT ![Transfer!UrlOf[f]] = f]
      BY <2>2, UrlsStay DEF TransferInv, Transfer!Outcomes
    <3>2. QED
      BY <1>0, <2>2, <3>1 DEF TransferInv, TasksGo, TaskTypes
  <2>3. QED
    BY <2>1, <2>2
<1>7. WritersGo'
  BY <1>0 DEF TransferInv, RunsGo, WritersGo, RunTypes, DiskTypes, Transfer!Writing
<1>8. CacheGoes'
  BY <1>0, UrlsStay DEF TransferInv, OperationsGo, RunsGo, TasksGo, WritersGo, CacheGoes,
     HeadsStay, WholeOrNone, IsFetched, TaskTypes, WaitTypes, DiskTypes
<1>9. QED
  BY <1>1, <1>2, <1>3, <1>4, <1>5, <1>6, <1>7, <1>8 DEF TransferInv

LEMMA RespondKeepsTransfers ==
  ASSUME TransferInv, NEW f \in Files, Transfer!Respond(f)
  PROVE  TransferInv'
<1> USE FileAssumption, RunnerAssumption, TransferConstants DEF Transfer!Respond,
   Transfer!callVars, Transfer!waitVars, Transfer!uploadVars, Transfer!runVars, Transfer!diskVars,
   Transfer!clearVars
<1>0. HeadsStay(Files) /\ Transfer!UrlOf' = Transfer!UrlOf
  BY SameOps DEF TransferInv, Transfer!UrlOf
<1>1. CallTypes' /\ WaitTypes' /\ UploadTypes'
  BY DEF TransferInv, CallTypes, WaitTypes, UploadTypes
<1>2. TaskTypes'
  BY UrlsStay DEF TransferInv, TaskTypes, WaitTypes
<1>3. RunTypes'
  BY DEF TransferInv, RunTypes
<1>4. DiskTypes'
  BY UrlsStay, ContentSets DEF TransferInv, DiskTypes
<1>5. OperationsGo'
  BY <1>0 DEF TransferInv, OperationsGo, HeadsStay, WaitTypes, UploadTypes
<1>6. RunsGo'
  BY <1>0, UrlsStay DEF TransferInv, RunsGo, TasksGo, WaitTypes, RunTypes, Transfer!Outcomes
<1>7. TasksGo'
  BY <1>0, UrlsStay DEF TransferInv, RunsGo, TasksGo, TaskTypes, RunTypes, Transfer!Outcomes
<1>8. WritersGo'
  <2>1. Transfer!UrlOf[f] \in Transfer!Urls /\ temporary'[Transfer!UrlOf[f]] = {}
    BY UrlsStay DEF TransferInv, DiskTypes
  <2>2. ASSUME NEW g \in Files, NEW h \in Files \ {g}, Transfer!UrlOf[h] = Transfer!UrlOf[g],
               Transfer!Writing(g)', Transfer!Writing(h)'
        PROVE  Transfer!UrlOf[g] \in crossed'
    BY <2>2 DEF TransferInv, WritersGo, RunTypes, Transfer!Writing
  <2>3. ASSUME NEW g \in Files \ {f}, Transfer!UrlOf[g] = Transfer!UrlOf[f], Transfer!Writing(g)
        PROVE  Transfer!UrlOf[g] \in crossed'
    BY <2>3
  <2>4. \A g \in Files \ {f} : run'[g] = run[g] /\ fd'[g] = fd[g] /\ received'[g] = received[g]
    BY DEF TransferInv, RunTypes
  <2>5. \A g \in Files : Transfer!UrlOf[g] \in Transfer!Urls
    BY UrlsStay DEF TransferInv
  <2>6. \A g \in Files : temporary'[Transfer!UrlOf[g]] = IF Transfer!UrlOf[g] = Transfer!UrlOf[f] THEN {}
                          ELSE temporary[Transfer!UrlOf[g]]
    BY <2>5 DEF TransferInv, DiskTypes
  <2>7. run'[f] = "open" /\ fd'[f] = "temporary" /\ received'[f] = 0 /\ crossed \subseteq crossed'
    BY DEF TransferInv, RunTypes
  <2>8. QED
    <3>1. ASSUME NEW g \in Files
          PROVE  /\ fd'[g] # "none" => run'[g] = "open"
                 /\ fd'[g] = "temporary" => temporary'[Transfer!UrlOf[g]] # Transfer!NoFile
                 /\ fd'[g] = "cached" => cached'[Transfer!UrlOf[g]] # Transfer!NoFile
      <4>1. {} # Transfer!NoFile
        BY ContentSets
      <4>2. CASE g = f
        BY <2>6, <2>7, <4>1, <4>2
      <4>3. CASE g # f
        BY <2>4, <2>6, <4>1, <4>3 DEF TransferInv, WritersGo
      <4>4. QED
        BY <4>2, <4>3
    <3>2. ASSUME NEW g \in Files, Transfer!UrlOf[g] \notin crossed'
          PROVE  /\ run'[g] = "open" => /\ fd'[g] = "temporary"
                                        /\ temporary'[Transfer!UrlOf[g]] = 1 .. received'[g]
                 /\ run'[g] = "downloaded" => temporary'[Transfer!UrlOf[g]] = Transfer!Content
      <4>1. CASE g = f
        BY <2>6, <2>7, <4>1, ContentSets
      <4>2. CASE g # f
        BY <2>3, <2>4, <2>6, <2>7, <3>2, <4>2 DEF TransferInv, WritersGo, Transfer!Writing
      <4>3. QED
        BY <4>1, <4>2
    <3>3. QED
      BY <1>0, <2>2, <3>1, <3>2, TransferConstants DEF WritersGo
<1>9. CacheGoes'
  BY <1>0, UrlsStay DEF TransferInv, OperationsGo, RunsGo, TasksGo, WritersGo, CacheGoes,
     HeadsStay, WholeOrNone, IsFetched, TaskTypes, WaitTypes, DiskTypes
<1>10. QED
  BY <1>1, <1>2, <1>3, <1>4, <1>5, <1>6, <1>7, <1>8, <1>9 DEF TransferInv

LEMMA ReceiveDataKeepsTransfers ==
  ASSUME TransferInv, NEW f \in Files, Transfer!ReceiveData(f)
  PROVE  TransferInv'
<1> USE FileAssumption, RunnerAssumption, TransferConstants DEF Transfer!ReceiveData,
   Transfer!callVars, Transfer!waitVars, Transfer!uploadVars, Transfer!runVars, Transfer!diskVars,
   Transfer!clearVars
<1>0. HeadsStay(Files) /\ Transfer!UrlOf' = Transfer!UrlOf
  BY SameOps DEF TransferInv, Transfer!UrlOf
<1>1. CallTypes' /\ WaitTypes' /\ UploadTypes' /\ TaskTypes'
  BY DEF TransferInv, CallTypes, WaitTypes, UploadTypes, TaskTypes
<1>2. RunTypes'
  BY DEF TransferInv, RunTypes
<1>3. DiskTypes'
  <2>1. /\ received'[f] = received[f] + 1 /\ received[f] \in 0 .. Chunks - 1
        /\ Transfer!UrlOf[f] \in Transfer!Urls
    BY UrlsStay DEF TransferInv, RunTypes
  <2>2. CASE fd[f] = "temporary"
    <3>1. temporary[Transfer!UrlOf[f]] \in OnDisk \ {Transfer!NoFile}
      BY <2>1, <2>2 DEF TransferInv, WritersGo, DiskTypes
    <3>2. temporary[Transfer!UrlOf[f]] \cup {received[f] + 1} \in OnDisk
      BY <2>1, <3>1, ContentSets
    <3>3. QED
      BY <2>1, <2>2, <3>2 DEF TransferInv, DiskTypes
  <2>3. CASE fd[f] = "cached"
    <3>1. cached[Transfer!UrlOf[f]] \in OnDisk \ {Transfer!NoFile}
      BY <2>1, <2>3 DEF TransferInv, WritersGo, DiskTypes
    <3>2. cached[Transfer!UrlOf[f]] \cup {received[f] + 1} \in OnDisk
      BY <2>1, <3>1, ContentSets
    <3>3. QED
      BY <2>1, <2>3, <3>2 DEF TransferInv, DiskTypes
  <2>4. CASE fd[f] \notin {"temporary", "cached"}
    BY <2>4 DEF TransferInv, DiskTypes
  <2>5. QED
    BY <2>2, <2>3, <2>4
<1>4. OperationsGo'
  BY <1>0 DEF TransferInv, OperationsGo, HeadsStay, WaitTypes, UploadTypes
<1>5. RunsGo'
  BY <1>0, UrlsStay DEF TransferInv, RunsGo, TasksGo, WaitTypes, RunTypes, Transfer!Outcomes
<1>6. TasksGo'
  BY <1>0, UrlsStay DEF TransferInv, RunsGo, TasksGo, TaskTypes, RunTypes, Transfer!Outcomes
<1>7. WritersGo'
  <2>1. /\ received'[f] = received[f] + 1 /\ received[f] \in 0 .. Chunks - 1 /\ run[f] = "open"
        /\ Transfer!UrlOf[f] \in Transfer!Urls /\ \A g \in Files \ {f} : received'[g] = received[g]
        /\ (1 .. received[f]) \cup {received[f] + 1} = 1 .. received[f] + 1
    BY UrlsStay, ContentSets DEF TransferInv, RunTypes
  <2>2. /\ \A u \in Transfer!Urls : temporary'[u] = temporary[u] \/
             /\ u = Transfer!UrlOf[f] /\ fd[f] = "temporary"
             /\ temporary'[u] = temporary[u] \cup {received[f] + 1}
        /\ \A u \in Transfer!Urls : cached'[u] = cached[u] \/
             cached'[u] = cached[u] \cup {received[f] + 1}
        /\ fd[f] = "temporary" =>
             temporary'[Transfer!UrlOf[f]] = temporary[Transfer!UrlOf[f]] \cup {received[f] + 1}
    BY <2>1 DEF TransferInv, DiskTypes
  <2>3. received[f] + 1 \notin Transfer!NoFile
    BY <2>1 DEF Transfer!NoFile
  <2> SUFFICES ASSUME NEW g \in Files
               PROVE  /\ fd[g] # "none" => run[g] = "open"
                      /\ fd[g] = "temporary" => temporary'[Transfer!UrlOf[g]] # Transfer!NoFile
                      /\ fd[g] = "cached" => cached'[Transfer!UrlOf[g]] # Transfer!NoFile
                      /\ Transfer!UrlOf[g] \in crossed \/
                           /\ \A h \in Files \ {g} : Transfer!UrlOf[h] = Transfer!UrlOf[g] =>
                                ~(Transfer!Writing(g) /\ Transfer!Writing(h))
                           /\ run[g] = "open" =>
                                /\ fd[g] = "temporary"
                                /\ temporary'[Transfer!UrlOf[g]] = 1 .. received'[g]
                           /\ run[g] = "downloaded" => temporary'[Transfer!UrlOf[g]] = Transfer!Content
    BY <1>0 DEF WritersGo, Transfer!Writing
  <2>4. Transfer!UrlOf[g] \in Transfer!Urls
    BY UrlsStay DEF TransferInv
  <2>5. /\ fd[g] = "temporary" => temporary'[Transfer!UrlOf[g]] # Transfer!NoFile
        /\ fd[g] = "cached" => cached'[Transfer!UrlOf[g]] # Transfer!NoFile
    <3>1. fd[g] = "temporary" => temporary[Transfer!UrlOf[g]] # Transfer!NoFile
      BY DEF TransferInv, WritersGo
    <3>2. fd[g] = "cached" => cached[Transfer!UrlOf[g]] # Transfer!NoFile
      BY DEF TransferInv, WritersGo
    <3>3. \A S : S \cup {received[f] + 1} # Transfer!NoFile
      BY <2>3
    <3>4. /\ \A u \in Transfer!Urls : temporary'[u] \in {temporary[u], temporary[u] \cup {received[f] + 1}}
          /\ \A u \in Transfer!Urls : cached'[u] \in {cached[u], cached[u] \cup {received[f] + 1}}
      BY <2>2
    <3>5. /\ temporary[Transfer!UrlOf[g]] \cup {received[f] + 1} # Transfer!NoFile
          /\ cached[Transfer!UrlOf[g]] \cup {received[f] + 1} # Transfer!NoFile
      BY <3>3
    <3>6. QED
      BY <2>4, <3>1, <3>2, <3>4, <3>5
  <2>6. CASE g = f
    BY <2>1, <2>2, <2>5, <2>6 DEF TransferInv, WritersGo
  <2>7. CASE g # f
    BY <2>1, <2>2, <2>4, <2>5, <2>7 DEF TransferInv, WritersGo, Transfer!Writing
  <2>8. QED
    BY <2>6, <2>7
<1>8. CacheGoes'
  BY <1>0, UrlsStay DEF TransferInv, OperationsGo, RunsGo, TasksGo, WritersGo, CacheGoes,
     HeadsStay, WholeOrNone, IsFetched, TaskTypes, WaitTypes, DiskTypes
<1>9. QED
  BY <1>1, <1>2, <1>3, <1>4, <1>5, <1>6, <1>7, <1>8 DEF TransferInv

LEMMA CompleteKeepsTransfers ==
  ASSUME TransferInv, NEW f \in Files, Transfer!Complete(f)
  PROVE  TransferInv'
<1> USE FileAssumption, RunnerAssumption, TransferConstants DEF Transfer!Complete,
   Transfer!callVars, Transfer!waitVars, Transfer!uploadVars, Transfer!runVars, Transfer!diskVars,
   Transfer!clearVars
<1>0. HeadsStay(Files) /\ Transfer!UrlOf' = Transfer!UrlOf
  BY SameOps DEF TransferInv, Transfer!UrlOf
<1>1. CallTypes' /\ WaitTypes' /\ UploadTypes' /\ TaskTypes' /\ DiskTypes'
  BY DEF TransferInv, CallTypes, WaitTypes, UploadTypes, TaskTypes, DiskTypes
<1>2. RunTypes'
  BY DEF TransferInv, RunTypes
<1>3. OperationsGo'
  BY <1>0 DEF TransferInv, OperationsGo, HeadsStay, WaitTypes, UploadTypes
<1>4. RunsGo'
  BY <1>0, UrlsStay DEF TransferInv, RunsGo, TasksGo, WaitTypes, RunTypes, Transfer!Outcomes
<1>5. TasksGo'
  BY <1>0, UrlsStay DEF TransferInv, RunsGo, TasksGo, TaskTypes, RunTypes, Transfer!Outcomes
<1>6. WritersGo'
  BY <1>0, UrlsStay, ContentSets DEF TransferInv, RunsGo, WritersGo, RunTypes, DiskTypes,
     Transfer!Writing
<1>7. CacheGoes'
  BY <1>0, UrlsStay DEF TransferInv, OperationsGo, RunsGo, TasksGo, WritersGo, CacheGoes,
     HeadsStay, WholeOrNone, IsFetched, TaskTypes, WaitTypes, DiskTypes
<1>8. QED
  BY <1>1, <1>2, <1>3, <1>4, <1>5, <1>6, <1>7 DEF TransferInv

LEMMA RetryKeepsTransfers ==
  ASSUME TransferInv, NEW f \in Files, Transfer!Retry(f)
  PROVE  TransferInv'
<1> USE FileAssumption, RunnerAssumption, TransferConstants DEF Transfer!Retry, Transfer!callVars,
   Transfer!waitVars, Transfer!uploadVars, Transfer!runVars, Transfer!diskVars, Transfer!clearVars
<1>0. HeadsStay(Files) /\ Transfer!UrlOf' = Transfer!UrlOf
  BY SameOps DEF TransferInv, Transfer!UrlOf
<1>1. CallTypes' /\ WaitTypes' /\ UploadTypes' /\ TaskTypes' /\ DiskTypes'
  BY DEF TransferInv, CallTypes, WaitTypes, UploadTypes, TaskTypes, DiskTypes
<1>2. RunTypes'
  BY DEF TransferInv, RunTypes
<1>3. OperationsGo'
  BY <1>0 DEF TransferInv, OperationsGo, HeadsStay, WaitTypes, UploadTypes
<1>4. RunsGo'
  BY <1>0, UrlsStay DEF TransferInv, RunsGo, TasksGo, WaitTypes, RunTypes, Transfer!Outcomes
<1>5. TasksGo'
  BY <1>0, UrlsStay DEF TransferInv, RunsGo, TasksGo, TaskTypes, RunTypes, Transfer!Outcomes
<1>6. WritersGo'
  BY <1>0 DEF TransferInv, RunsGo, WritersGo, RunTypes, DiskTypes, Transfer!Writing
<1>7. CacheGoes'
  BY <1>0, UrlsStay DEF TransferInv, OperationsGo, RunsGo, TasksGo, WritersGo, CacheGoes,
     HeadsStay, WholeOrNone, IsFetched, TaskTypes, WaitTypes, DiskTypes
<1>8. QED
  BY <1>1, <1>2, <1>3, <1>4, <1>5, <1>6, <1>7 DEF TransferInv

LEMMA FailKeepsTransfers ==
  ASSUME TransferInv, NEW f \in Files, Transfer!Fail(f)
  PROVE  TransferInv'
<1>r. WaitTypes' /\ OperationsGo' /\ RunsGo' /\ TasksGo'
  BY RunEnding DEF Transfer!Fail, Transfer!Outcomes,
         Transfer!callVars, Transfer!uploadVars
<1> USE FileAssumption, RunnerAssumption, TransferConstants DEF Transfer!Fail, Transfer!RunEnds,
   Transfer!callVars, Transfer!waitVars, Transfer!uploadVars, Transfer!runVars, Transfer!diskVars,
   Transfer!clearVars
<1>0. HeadsStay(Files) /\ Transfer!UrlOf' = Transfer!UrlOf
  BY SameOps DEF TransferInv, Transfer!UrlOf
<1>1. CallTypes' /\ UploadTypes' /\ DiskTypes'
  BY DEF TransferInv, CallTypes, UploadTypes, DiskTypes
<1>2. WaitTypes'
  BY <1>r
<1>3. TaskTypes'
  BY UrlsStay DEF TransferInv, TaskTypes, WaitTypes
<1>4. RunTypes'
  BY DEF TransferInv, RunTypes
<1>5. OperationsGo'
  BY <1>r
<1>6. RunsGo'
  BY <1>r
<1>7. TasksGo'
  BY <1>r
<1>8. WritersGo'
  BY <1>0 DEF TransferInv, RunsGo, WritersGo, RunTypes, DiskTypes, Transfer!Writing
<1>9. CacheGoes'
  BY <1>0, UrlsStay DEF TransferInv, OperationsGo, RunsGo, TasksGo, WritersGo, CacheGoes,
     HeadsStay, WholeOrNone, IsFetched, TaskTypes, WaitTypes, DiskTypes
<1>10. QED
  BY <1>1, <1>2, <1>3, <1>4, <1>5, <1>6, <1>7, <1>8, <1>9 DEF TransferInv

LEMMA CacheDownloadKeepsTransfers ==
  ASSUME TransferInv, NEW f \in Files, Transfer!CacheDownload(f)
  PROVE  TransferInv'
<1> DEFINE u == Transfer!UrlOf[f]
<1>1. /\ run[f] = "downloaded" /\ u \in Transfer!Urls /\ Transfer!UrlOf' = Transfer!UrlOf
      /\ UNCHANGED <<ops, transfers, joined, new, uploaded, staged, stranded, clears, cleared,
                     crossed, late>>
  BY UrlsStay DEF TransferInv, Transfer!CacheDownload, Transfer!callVars, Transfer!uploadVars,
                  Transfer!clearVars
<1>2. PICK outcome \in {"success", "error"} :
         /\ Transfer!RunEnds(f, outcome)
         /\ \/ /\ cached[u] # Transfer!NoFile \/ outcome = "error"
               /\ UNCHANGED <<temporary, cached, fd>>
            \/ /\ temporary[u] # Transfer!NoFile /\ cached[u] = Transfer!NoFile
               /\ cached' = [cached EXCEPT ![u] = temporary[u]]
               /\ temporary' = [temporary EXCEPT ![u] = Transfer!NoFile]
               /\ fd' = [g \in Files |-> IF Transfer!UrlOf[g] = u /\ fd[g] = "temporary"
                                          THEN "cached" ELSE fd[g]]
  BY DEF Transfer!CacheDownload, Transfer!diskVars
<1>3. /\ run' = [run EXCEPT ![f] = "none"] /\ tries' = [tries EXCEPT ![f] = 0]
      /\ received' = [received EXCEPT ![f] = 0]
      /\ downloadTasks' = [downloadTasks EXCEPT ![u] = "none"]
  BY <1>2 DEF Transfer!RunEnds
<1> HIDE DEF u
<1>4. WaitTypes' /\ OperationsGo' /\ RunsGo' /\ TasksGo'
  BY <1>1, <1>2, RunEnding DEF Transfer!Outcomes
<1>5. CallTypes' /\ UploadTypes' /\ TaskTypes'
  BY <1>1, <1>3, TransferConstants DEF TransferInv, CallTypes, UploadTypes, TaskTypes
<1>6. RunTypes'
  BY <1>2, <1>3, RunnerAssumption, FileAssumption DEF TransferInv, RunTypes
<1>7. DiskTypes'
  BY <1>1, <1>2, TransferConstants, ContentSets DEF TransferInv, DiskTypes
<1>8. \A g \in Files : /\ run'[g] # "none" => g # f /\ run'[g] = run[g] /\ received'[g] = received[g]
                       /\ Transfer!Writing(g)' => Transfer!Writing(g) /\ g # f
  BY <1>3 DEF TransferInv, RunTypes, Transfer!Writing
<1>9. WritersGo'
  <2> SUFFICES ASSUME NEW g \in Files
               PROVE  /\ fd'[g] # "none" => run'[g] = "open"
                      /\ fd'[g] = "temporary" => temporary'[Transfer!UrlOf[g]] # Transfer!NoFile
                      /\ fd'[g] = "cached" => cached'[Transfer!UrlOf[g]] # Transfer!NoFile
                      /\ Transfer!UrlOf[g] \in crossed \/
                           /\ \A h \in Files \ {g} : Transfer!UrlOf[h] = Transfer!UrlOf[g] =>
                                ~(Transfer!Writing(g)' /\ Transfer!Writing(h)')
                           /\ run'[g] = "open" =>
                                /\ fd'[g] = "temporary"
                                /\ temporary'[Transfer!UrlOf[g]] = 1 .. received'[g]
                           /\ run'[g] = "downloaded" => temporary'[Transfer!UrlOf[g]] = Transfer!Content
    BY <1>1, TransferConstants DEF WritersGo
  <2>1. Transfer!UrlOf[g] \in Transfer!Urls
    BY UrlsStay DEF TransferInv
  <2>2. fd[f] = "none" /\ Transfer!Writing(f)
    BY <1>1 DEF TransferInv, WritersGo, Transfer!Writing
  <2>3. fd'[g] # "none" => run'[g] = "open"
    BY <1>2, <1>3, <2>2 DEF TransferInv, WritersGo, RunTypes
  <2>4. /\ fd'[g] = "temporary" => temporary'[Transfer!UrlOf[g]] # Transfer!NoFile
        /\ fd'[g] = "cached" => cached'[Transfer!UrlOf[g]] # Transfer!NoFile
    BY <1>1, <1>2, <2>1 DEF TransferInv, WritersGo, RunTypes, DiskTypes
  <2>5. CASE Transfer!UrlOf[g] = u
    BY <1>8, <2>2, <2>3, <2>4, <2>5 DEF TransferInv, WritersGo, Transfer!Writing, u
  <2>6. CASE Transfer!UrlOf[g] # u
    BY <1>2, <1>8, <2>1, <2>3, <2>4, <2>6 DEF TransferInv, WritersGo, DiskTypes, RunTypes
  <2>7. QED
    BY <2>5, <2>6
<1>10. \A v \in Transfer!Urls :
         WholeOrNone(v)' /\ (IsFetched(v) \/ (v = u /\ outcome = "success") => IsFetched(v)')
  <2>1. u \in crossed \/ temporary[u] = Transfer!Content
    BY <1>1 DEF TransferInv, WritersGo, u
  <2> SUFFICES ASSUME NEW v \in Transfer!Urls
               PROVE  WholeOrNone(v)' /\ (IsFetched(v) \/ (v = u /\ outcome = "success") => IsFetched(v)')
    OBVIOUS
  <2>2. WholeOrNone(v)
    BY DEF TransferInv, CacheGoes
  <2>3. CASE v = u
    BY <1>1, <1>2, <2>1, <2>2, <2>3, ContentSets, TransferConstants DEF TransferInv, WholeOrNone,
       IsFetched, DiskTypes
  <2>4. CASE v # u
    BY <1>1, <1>2, <2>2, <2>4, TransferConstants DEF TransferInv, WholeOrNone, IsFetched, DiskTypes
  <2>5. QED
    BY <2>3, <2>4
<1>11. CacheGoes'
  <2>1. \A v \in Transfer!Urls : downloadTasks'[v] = "success" => downloadTasks[v] = "success"
    BY <1>3 DEF TransferInv, TaskTypes
  <2>2. ASSUME NEW g \in Files, NEW v \in Transfer!Urls, v = Transfer!UrlOf[g],
               stage'[g] \in {"register", "answered"}, What(g) = "get", fileAnswer'[g] = "success"
        PROVE  IsFetched(v)'
    <3>1. CASE g \in Transfer!Waiting(f)
      <4>1. outcome = "success" /\ v = u
        BY <1>2, <2>2, <3>1 DEF Transfer!RunEnds, Transfer!Waiting, TransferInv, RunsGo, u
      <4>2. QED
        BY <1>10, <4>1
    <3>2. CASE g \notin Transfer!Waiting(f)
      <4>1. stage[g] = stage'[g] /\ fileAnswer[g] = fileAnswer'[g]
        BY <1>2, <3>2 DEF Transfer!RunEnds
      <4>2. IsFetched(v)
        BY <2>2, <4>1 DEF TransferInv, CacheGoes
      <4>3. QED
        BY <1>10, <4>2
    <3>3. QED
      BY <3>1, <3>2
  <2>3. \A g \in Files : Transfer!UrlOf[g] \in Transfer!Urls
    BY UrlsStay DEF TransferInv
  <2>4. ASSUME NEW g \in Files, NEW v \in Transfer!Urls, v = Transfer!UrlOf[g],
               stage'[g] = "setting"
        PROVE  IsFetched(v)'
    <3>1. stage[g] = "setting"
      BY <1>2, <2>4 DEF Transfer!RunEnds
    <3>2. IsFetched(v)
      BY <2>4, <3>1 DEF TransferInv, CacheGoes
    <3>3. QED
      BY <1>10, <3>2
  <2> SUFFICES /\ \A v \in Transfer!Urls : WholeOrNone(v)' /\ (downloadTasks'[v] = "success" => IsFetched(v)')
               /\ \A g \in Files : \A v \in Transfer!Urls : v = Transfer!UrlOf[g] =>
                    /\ stage'[g] \in {"register", "answered"} /\ What(g) = "get"
                         /\ fileAnswer'[g] = "success" => IsFetched(v)'
                    /\ stage'[g] = "setting" => IsFetched(v)'
    BY <1>1, <2>3, TransferConstants DEF CacheGoes, What, IsFetched
  <2>5. QED
    BY <1>10, <2>1, <2>2, <2>4 DEF TransferInv, CacheGoes
<1>12. QED
  BY <1>4, <1>5, <1>6, <1>7, <1>9, <1>11 DEF TransferInv

LEMMA UploadKeepsTransfers ==
  ASSUME TransferInv, NEW f \in Files, Transfer!Upload(f)
  PROVE  TransferInv'
<1> USE FileAssumption, RunnerAssumption, TransferConstants DEF Transfer!Upload, Transfer!Become,
   Transfer!Answer, Transfer!Cancelled, Transfer!callVars, Transfer!waitVars, Transfer!uploadVars,
   Transfer!runVars, Transfer!diskVars, Transfer!clearVars
<1>0. HeadsStay(Files) /\ Transfer!UrlOf' = Transfer!UrlOf
  BY SameOps DEF TransferInv, Transfer!UrlOf
<1>1. CallTypes' /\ UploadTypes' /\ TaskTypes' /\ RunTypes' /\ DiskTypes'
  BY DEF TransferInv, CallTypes, UploadTypes, TaskTypes, RunTypes, DiskTypes
<1>2. WaitTypes'
  BY DEF TransferInv, WaitTypes, TaskTypes, Transfer!Outcomes
<1>3. OperationsGo'
  BY <1>0 DEF TransferInv, OperationsGo, HeadsStay, WaitTypes, UploadTypes
<1>4. RunsGo'
  BY <1>0, UrlsStay DEF TransferInv, RunsGo, TasksGo, WaitTypes, RunTypes, Transfer!Outcomes
<1>5. TasksGo'
  BY <1>0, UrlsStay DEF TransferInv, RunsGo, TasksGo, TaskTypes, RunTypes, Transfer!Outcomes
<1>6. WritersGo'
  BY <1>0 DEF TransferInv, RunsGo, WritersGo, RunTypes, DiskTypes, Transfer!Writing
<1>7. CacheGoes'
  BY <1>0, UrlsStay DEF TransferInv, OperationsGo, RunsGo, TasksGo, WritersGo, CacheGoes,
     HeadsStay, WholeOrNone, IsFetched, TaskTypes, WaitTypes, DiskTypes
<1>8. QED
  BY <1>1, <1>2, <1>3, <1>4, <1>5, <1>6, <1>7 DEF TransferInv

LEMMA CacheUploadKeepsTransfers ==
  ASSUME TransferInv, NEW f \in Files, Transfer!CacheUpload(f)
  PROVE  TransferInv'
<1> USE FileAssumption, RunnerAssumption, TransferConstants DEF Transfer!CacheUpload,
   Transfer!Become, Transfer!callVars, Transfer!waitVars, Transfer!uploadVars, Transfer!runVars,
   Transfer!diskVars, Transfer!clearVars
<1>0. HeadsStay(Files) /\ Transfer!UrlOf' = Transfer!UrlOf
  BY SameOps DEF TransferInv, Transfer!UrlOf
<1>1. CallTypes' /\ TaskTypes' /\ RunTypes'
  BY DEF TransferInv, CallTypes, TaskTypes, RunTypes
<1>2. WaitTypes'
  BY DEF TransferInv, WaitTypes, TaskTypes, Transfer!Outcomes
<1>3. UploadTypes'
  BY DEF TransferInv, UploadTypes
<1>4. DiskTypes'
  BY UrlsStay, ContentSets DEF TransferInv, DiskTypes
<1>5. OperationsGo'
  BY <1>0 DEF TransferInv, OperationsGo, HeadsStay, WaitTypes, UploadTypes
<1>6. RunsGo'
  BY <1>0, UrlsStay DEF TransferInv, RunsGo, TasksGo, WaitTypes, RunTypes, Transfer!Outcomes
<1>7. TasksGo'
  BY <1>0, UrlsStay DEF TransferInv, RunsGo, TasksGo, TaskTypes, RunTypes, Transfer!Outcomes
<1>8. WritersGo'
  BY <1>0, ContentSets DEF TransferInv, WritersGo, DiskTypes, Transfer!Writing
<1>9. CacheGoes'
  BY <1>0, UrlsStay DEF TransferInv, OperationsGo, RunsGo, TasksGo, WritersGo, CacheGoes,
     HeadsStay, WholeOrNone, IsFetched, TaskTypes, WaitTypes, DiskTypes
<1>10. QED
  BY <1>1, <1>2, <1>3, <1>4, <1>5, <1>6, <1>7, <1>8, <1>9 DEF TransferInv

LEMMA SetStateKeepsTransfers ==
  ASSUME TransferInv, NEW f \in Files, Transfer!SetState(f)
  PROVE  TransferInv'
<1> USE FileAssumption, RunnerAssumption, TransferConstants DEF Transfer!SetState, Transfer!Become,
   Transfer!Answer, Transfer!Cancelled, Transfer!callVars, Transfer!waitVars, Transfer!uploadVars,
   Transfer!runVars, Transfer!diskVars, Transfer!clearVars
<1>0. HeadsStay(Files) /\ Transfer!UrlOf' = Transfer!UrlOf
  BY SameOps DEF TransferInv, Transfer!UrlOf
<1>1. CallTypes' /\ TaskTypes' /\ RunTypes' /\ DiskTypes'
  BY DEF TransferInv, CallTypes, TaskTypes, RunTypes, DiskTypes
<1>2. WaitTypes'
  BY DEF TransferInv, WaitTypes, TaskTypes, Transfer!Outcomes
<1>3. UploadTypes'
  BY DEF TransferInv, OperationsGo, UploadTypes
<1>4. OperationsGo'
  BY <1>0 DEF TransferInv, OperationsGo, HeadsStay, WaitTypes, UploadTypes
<1>5. RunsGo'
  BY <1>0, UrlsStay DEF TransferInv, RunsGo, TasksGo, WaitTypes, RunTypes, Transfer!Outcomes
<1>6. TasksGo'
  BY <1>0, UrlsStay DEF TransferInv, RunsGo, TasksGo, TaskTypes, RunTypes, Transfer!Outcomes
<1>7. WritersGo'
  BY <1>0 DEF TransferInv, RunsGo, WritersGo, RunTypes, DiskTypes, Transfer!Writing
<1>8. CacheGoes'
  <2>1. What(f)' = "save" /\ \A g \in Files \ {f} : stage'[g] = stage[g] /\ fileAnswer'[g] = fileAnswer[g]
    BY <1>0 DEF TransferInv, OperationsGo, WaitTypes, What
  <2>2. QED
    BY <1>0, <2>1, UrlsStay DEF TransferInv, CacheGoes, What, WholeOrNone, IsFetched
<1>9. QED
  BY <1>1, <1>2, <1>3, <1>4, <1>5, <1>6, <1>7, <1>8 DEF TransferInv

LEMMA ClearFileKeepsTransfers ==
  ASSUME TransferInv, NEW u \in Transfer!Urls, Transfer!ClearFile(u)
  PROVE  TransferInv'
<1> USE FileAssumption, RunnerAssumption, TransferConstants DEF Transfer!ClearFile,
   Transfer!callVars, Transfer!waitVars, Transfer!uploadVars, Transfer!runVars, Transfer!diskVars,
   Transfer!clearVars
<1>0. HeadsStay(Files) /\ Transfer!UrlOf' = Transfer!UrlOf
  BY SameOps DEF TransferInv, Transfer!UrlOf
<1>1. CallTypes' /\ WaitTypes' /\ UploadTypes'
  BY DEF TransferInv, CallTypes, WaitTypes, UploadTypes
<1>2. TaskTypes'
  BY UrlsStay DEF TransferInv, TaskTypes, WaitTypes
<1>3. RunTypes'
  BY DEF TransferInv, RunTypes
<1>4. DiskTypes'
  BY ContentSets DEF TransferInv, DiskTypes
<1>5. OperationsGo'
  BY <1>0 DEF TransferInv, OperationsGo, HeadsStay, WaitTypes, UploadTypes
<1>6. RunsGo'
  BY <1>0, UrlsStay DEF TransferInv, RunsGo, TasksGo, WaitTypes, RunTypes, Transfer!Outcomes
<1>7. TasksGo'
  BY <1>0, UrlsStay DEF TransferInv, RunsGo, TasksGo, TaskTypes, RunTypes, Transfer!Outcomes
<1>8. WritersGo'
  BY <1>0 DEF TransferInv, RunsGo, WritersGo, RunTypes, DiskTypes, Transfer!Writing
<1>9. CacheGoes'
  BY <1>0, UrlsStay DEF TransferInv, OperationsGo, RunsGo, TasksGo, WritersGo, CacheGoes,
     HeadsStay, WholeOrNone, IsFetched, TaskTypes, WaitTypes, DiskTypes
<1>10. QED
  BY <1>1, <1>2, <1>3, <1>4, <1>5, <1>6, <1>7, <1>8, <1>9 DEF TransferInv

LEMMA TransferInvStep == TransferInv /\ [Transfer!Next]_Transfer!transferVars => TransferInv'
<1> SUFFICES ASSUME TransferInv, [Transfer!Next]_Transfer!transferVars PROVE TransferInv'
  OBVIOUS
<1>1. CASE UNCHANGED Transfer!transferVars
  <2>1. /\ UNCHANGED <<ops, transfers, stage, fileAnswer, joined, new, uploaded, staged, stranded,
                      downloadTasks, run, tries, received, fd, temporary, cached, clears, cleared,
                      crossed, late>>
        /\ Transfer!UrlOf' = Transfer!UrlOf
    BY <1>1, UrlsStay DEF Transfer!transferVars, Transfer!callVars, Transfer!waitVars,
       Transfer!uploadVars, Transfer!runVars, Transfer!diskVars, Transfer!clearVars
  <2>2. CallTypes' /\ WaitTypes' /\ UploadTypes' /\ TaskTypes' /\ RunTypes' /\ DiskTypes'
    BY <2>1, TransferConstants
       DEF TransferInv, CallTypes, WaitTypes, UploadTypes, TaskTypes, RunTypes, DiskTypes
  <2>3. OperationsGo' /\ RunsGo' /\ TasksGo'
    BY <2>1, TransferConstants DEF TransferInv, OperationsGo, RunsGo, TasksGo, What
  <2>4. WritersGo' /\ CacheGoes'
    BY <2>1, TransferConstants
       DEF TransferInv, WritersGo, CacheGoes, What, WholeOrNone, IsFetched, Transfer!Writing
  <2>5. QED
    BY <2>2, <2>3, <2>4 DEF TransferInv
<1>2. ASSUME NEW f \in Files,
             \/ Transfer!GetData(f) \/ Transfer!Save(f) \/ Transfer!Cancel(f)
             \/ Transfer!Begin(f) \/ Transfer!End(f)
             \/ Transfer!LookUp(f) \/ Transfer!CreateRun(f) \/ Transfer!Register(f)
      PROVE  TransferInv'
  BY <1>2, GetDataKeepsTransfers, SaveKeepsTransfers, CancelKeepsTransfers, BeginKeepsTransfers,
     EndKeepsTransfers, LookUpKeepsTransfers, CreateRunKeepsTransfers, RegisterKeepsTransfers
<1>3. ASSUME NEW f \in Files,
             \/ Transfer!Respond(f) \/ Transfer!ReceiveData(f) \/ Transfer!Complete(f)
             \/ Transfer!Retry(f) \/ Transfer!Fail(f) \/ Transfer!CacheDownload(f)
             \/ Transfer!Upload(f) \/ Transfer!CacheUpload(f) \/ Transfer!SetState(f)
      PROVE  TransferInv'
  BY <1>3, RespondKeepsTransfers, ReceiveDataKeepsTransfers, CompleteKeepsTransfers,
     RetryKeepsTransfers, FailKeepsTransfers, CacheDownloadKeepsTransfers, UploadKeepsTransfers,
     CacheUploadKeepsTransfers, SetStateKeepsTransfers
<1>4. ASSUME NEW u \in Transfer!Urls, Transfer!ClearFile(u) PROVE TransferInv'
  BY <1>4, ClearFileKeepsTransfers
<1>5. QED
  BY <1>1, <1>2, <1>3, <1>4 DEF Transfer!Next

LEMMA TransferInvAlways == AllSpec => []TransferInv
<1>1. AllInit => TransferInv
  BY TransferInvInit DEF AllInit
<1>2. [AllNext]_allVars => [Transfer!Next]_Transfer!transferVars
  BY DEF AllNext, allVars, fileVars, Transfer!transferVars, Transfer!callVars, Transfer!waitVars,
         Transfer!uploadVars, Transfer!runVars, Transfer!diskVars, Transfer!clearVars
<1>3. QED
  BY <1>1, <1>2, TransferInvStep, PTL DEF AllSpec

\* Nobody waits for a download that has ended, and none that has ended is left to
\* be found, whatever ends while it is being registered (_downloadTasks of
\* PFFileController).
THEOREM NobodyWaitsForAnEndedDownload == AllSpec => []SharedDownloadsAreLive
<1>1. TransferInv => SharedDownloadsAreLive
  BY DEF TransferInv, RunsGo, TasksGo, SharedDownloadsAreLive, Transfer!SharedDownloadsAreLive
<1>2. QED
  BY <1>1, TransferInvAlways, PTL

\* Data that a file says is available is the whole of it, staged or cached, and
\* that of an upload is cached from the move of the staged copy on; the cases
\* that the property lists remain: downloads that crossed, an upload cancelled
\* when it was done, and a cache that was cleared after a get or in an upload
\* (PFFile, PFFileController).
THEOREM AvailableFilesAreWhole == AllSpec => []AvailableDataIsWhole
<1>1. ASSUME TransferInv PROVE Transfer!AvailableDataIsWhole
  <2> SUFFICES ASSUME NEW f \in Files, Transfer!UrlOf[f] \notin crossed, f \notin stranded
               PROVE  /\ Transfer!DataAvailable(f) =>
                           \/ Transfer!HasItsData(f)
                           \/ stage[f] = "setting" /\ Transfer!UrlOf[f] \in cleared
                      /\ stage[f] = "answered" /\ fileAnswer[f] = "success" /\ What(f) = "get" =>
                           Transfer!HasItsData(f) \/ Transfer!UrlOf[f] \in cleared
    BY DEF Transfer!AvailableDataIsWhole, Transfer!Running, What
  <2>1. Transfer!UrlOf[f] \in Transfer!Urls
    BY <1>1, UrlsStay DEF TransferInv
  <2>2. Transfer!DataAvailable(f) =>
          \/ Transfer!HasItsData(f)
          \/ stage[f] = "setting" /\ Transfer!UrlOf[f] \in cleared
    <3>1. CASE stage[f] = "setting"
      BY <1>1, <3>1 DEF TransferInv, CacheGoes, IsFetched, Transfer!HasItsData
    <3>2. CASE stage[f] # "setting"
      BY <1>1, <2>1, <3>2 DEF TransferInv, OperationsGo, CacheGoes, WholeOrNone,
         Transfer!DataAvailable, Transfer!HasItsData, Transfer!Dirty
    <3>3. QED
      BY <3>1, <3>2
  <2>3. stage[f] = "answered" /\ fileAnswer[f] = "success" /\ What(f) = "get" =>
          Transfer!HasItsData(f) \/ Transfer!UrlOf[f] \in cleared
    BY <1>1 DEF TransferInv, OperationsGo, CacheGoes, IsFetched, Transfer!HasItsData, Transfer!Dirty
  <2>4. QED
    BY <2>2, <2>3
<1>2. TransferInv => AvailableDataIsWhole
  BY <1>1 DEF AvailableDataIsWhole
<1>3. QED
  BY <1>2, TransferInvAlways, PTL

-----------------------------------------------------------------------------
\* The operation sets of an object.

\* Set i of q has the last operation on k.
Ends(q, k, i) ==
  /\ i \in DOMAIN q /\ q[i].ops[k] # Save!NoOp
  /\ \A j \in DOMAIN q : j > i => q[j].ops[k] = Save!NoOp

Untouched(q, k) == \A i \in DOMAIN q : q[i].ops[k] = Save!NoOp

\* The sets of the saves that are under way.
OutstandingSets ==
  (IF objSaving = "idle" THEN {} ELSE {objSent}) \cup {commands[i] : i \in DOMAIN commands} \cup answers

\* Every save that is under way has a set in the queue, in front of the last.
SetsAreCounted == IsFiniteSet(answers) /\ Len(opSets) > Save!Outstanding

\* Sets have their numbers in order, and the last one is not yet being saved.
SetsAreNumbered ==
  /\ \A i, j \in DOMAIN opSets : i < j => opSets[i].uuid < opSets[j].uuid
  /\ opSets[Len(opSets)].uuid = objSaves
  /\ \A s \in OutstandingSets : s.uuid < objSaves

\* What the server has, and what it has answered, it has accepted.
ServerAccepts ==
  /\ \A k \in Keys : remote[k] \in accepted
  /\ \A s \in answers : Save!AcceptedValues(s.ops) \subseteq accepted
  /\ objSaving = "saved" => Save!AcceptedValues(objSent.ops) \subseteq accepted

\* While every save has taken its own set off the queue, the sets in front of the
\* last one are those of the saves under way, unchanged, and the last operation
\* on a field is the latest, unless the server has accepted that one.
SetsAreOfTheirSaves ==
  ~leaked /\ ~mixed =>
    /\ \A k \in Keys : serverData[k] \in accepted
    /\ \A i \in 1 .. Len(opSets) - 1 : \E s \in OutstandingSets : s.uuid = opSets[i].uuid
    /\ \A s \in OutstandingSets : \A i \in DOMAIN opSets :
         s.uuid = opSets[i].uuid => s.ops = opSets[i].ops
    /\ \A k \in Keys :
         latest[k] \in accepted \/ \E i \in DOMAIN opSets : Ends(opSets, k, i) /\ opSets[i].ops[k] = latest[k]

EstimatedMeans(est, data, q) ==
  /\ est \in [Keys -> Save!Values]
  /\ \A k \in Keys : /\ Untouched(q, k) => est[k] = data[k]
                     /\ \A i \in DOMAIN q : Ends(q, k, i) => est[k] = q[i].ops[k]

\* The type invariant, in parts.
SetTypes ==
  /\ opSets \in Seq(Save!OpSets) /\ opSets # <<>> /\ objSent \in Save!OpSets
  /\ commands \in Seq(Save!OpSets) /\ answers \subseteq Save!OpSets
DataTypes ==
  /\ serverData \in [Keys -> Save!Values] /\ estimated \in [Keys -> Save!Values]
  /\ remote \in [Keys -> Save!Values] /\ latest \in [Keys -> Save!Values]
CounterTypes ==
  /\ written \in 0 .. MaxChanges /\ objSaves \in 0 .. MaxSaves /\ accepted \subseteq Save!Values
  /\ objSaving \in {"idle", "children", "sent", "saved", "failed"}
FlagTypes == isNew \in BOOLEAN /\ leaked \in BOOLEAN /\ mixed \in BOOLEAN

SaveInv ==
  /\ SetTypes /\ DataTypes /\ CounterTypes /\ FlagTypes
  /\ SetsAreCounted /\ SetsAreNumbered /\ ServerAccepts
  /\ EstimatedMeans(estimated, serverData, opSets) /\ SetsAreOfTheirSaves

LEMMA LeastNatural ==
  ASSUME NEW T \in SUBSET Nat, T # {}
  PROVE  \E m \in T : \A x \in T : m <= x
<1> DEFINE R == {p \in Nat \X Nat : p[1] < p[2]}
<1>1. IsWellFoundedOn(R, Nat)
  BY NatLessThanWellFounded DEF OpToRel
<1> HIDE DEF R
<1>2. PICK m \in T : \A x \in T : ~(<<x, m>> \in R)
  BY <1>1, WFMin
<1>3. ASSUME NEW x \in T PROVE m <= x
  <2>1. m \in Nat /\ x \in Nat /\ <<x, m>> \in Nat \X Nat /\ <<x, m>>[1] = x /\ <<x, m>>[2] = m
    OBVIOUS
  <2>2. ~(x < m)
    BY <1>2, <2>1 DEF R
  <2>3. QED
    BY <2>1, <2>2
<1>4. QED
  BY <1>3

LEMMA GreatestOf ==
  ASSUME NEW n \in Nat, NEW T \in SUBSET (1 .. n), T # {}
  PROVE  \E m \in T : \A x \in T : x <= m
<1> DEFINE D == {n - x : x \in T}
<1>1. \A x \in T : x \in Int /\ 1 <= x /\ x <= n /\ n - x \in Nat
  OBVIOUS
<1>2. D \in SUBSET Nat /\ D # {}
  BY <1>1
<1>3. PICK d \in D : \A x \in D : d <= x
  BY <1>2, LeastNatural
<1>4. PICK m \in T : d = n - m
  OBVIOUS
<1>5. ASSUME NEW x \in T PROVE x <= m
  <2>1. n - x \in D
    OBVIOUS
  <2>2. n - m <= n - x
    BY <1>3, <1>4, <2>1
  <2>3. QED
    BY <1>1, <2>2
<1>6. QED
  BY <1>5
LEMMA EndsExist ==
  ASSUME NEW q \in Seq(Save!OpSets), NEW k \in Keys, ~Untouched(q, k)
  PROVE  \E i \in DOMAIN q : Ends(q, k, i)
<1> DEFINE T == {i \in DOMAIN q : q[i].ops[k] # Save!NoOp}
<1>1. T \in SUBSET (1 .. Len(q)) /\ T # {} /\ Len(q) \in Nat
  BY DEF Untouched
<1>2. PICK m \in T : \A x \in T : x <= m
  BY <1>1, GreatestOf
<1>3. QED
  BY <1>2 DEF Ends

LEMMA SaveConstants ==
  /\ Save!Values = 0 .. MaxChanges /\ Save!NoOp = MaxChanges + 1 /\ MaxChanges \in Nat
  /\ Save!NoOp \notin Save!Values /\ MaxSaves \in Nat
BY SaveAssumption DEF Save!Values, Save!NoOp

LEMMA SaveConstantsStay ==
  /\ Save!Values' = Save!Values /\ Save!NoOp' = Save!NoOp /\ Save!OpSets' = Save!OpSets
OBVIOUS

LEMMA EstimatedAt ==
  ASSUME NEW q \in Seq(Save!OpSets), NEW data, NEW k \in Keys
  PROVE  /\ Untouched(q, k) => Save!Estimated(data, q)[k] = data[k]
         /\ \A i \in DOMAIN q : Ends(q, k, i) => Save!Estimated(data, q)[k] = q[i].ops[k]
<1>1. ASSUME Untouched(q, k) PROVE Save!Estimated(data, q)[k] = data[k]
  BY <1>1 DEF Untouched, Save!Estimated, Save!Touching
<1>2. ASSUME NEW i \in DOMAIN q, Ends(q, k, i) PROVE Save!Estimated(data, q)[k] = q[i].ops[k]
  <2> DEFINE T == Save!Touching(q, k)
  <2>1. i \in T /\ T \subseteq Int /\ \A j \in T : i >= j
    BY <1>2 DEF Ends, Save!Touching
  <2>2. Save!Max(T) = i
    <3> HIDE DEF T
    <3>1. \A x \in T : (\A y \in T : x >= y) => x = i
      BY <2>1
    <3>2. QED
      BY <2>1, <3>1 DEF Save!Max
  <2>3. QED
    BY <2>1, <2>2 DEF Save!Estimated
<1>3. QED
  BY <1>1, <1>2

LEMMA EstimatedIs ==
  ASSUME NEW q \in Seq(Save!OpSets), NEW data \in [Keys -> Save!Values], NEW est
  PROVE  est = Save!Estimated(data, q) <=> EstimatedMeans(est, data, q)
<1> DEFINE E == Save!Estimated(data, q)
<1>1. \A k \in Keys : /\ Untouched(q, k) => E[k] = data[k]
                      /\ \A i \in DOMAIN q : Ends(q, k, i) => E[k] = q[i].ops[k]
  BY EstimatedAt
<1>2. E = [k \in Keys |-> E[k]]
  BY DEF Save!Estimated
<1> HIDE DEF E
<1>3. \A k \in Keys : E[k] \in Save!Values
  <2> SUFFICES ASSUME NEW k \in Keys PROVE E[k] \in Save!Values
    OBVIOUS
  <2>1. CASE Untouched(q, k)
    BY <1>1, <2>1
  <2>2. ASSUME NEW i \in DOMAIN q, Ends(q, k, i) PROVE E[k] \in Save!Values
    <3>1. q[i] \in Save!OpSets /\ E[k] = q[i].ops[k] /\ q[i].ops[k] # Save!NoOp
      BY <1>1, <2>2 DEF Ends
    <3>2. QED
      BY <3>1 DEF Save!OpSets, Save!Ops
  <2>3. QED
    BY <2>1, <2>2, EndsExist
<1>4. EstimatedMeans(E, data, q)
  BY <1>1, <1>2, <1>3 DEF EstimatedMeans
<1>5. ASSUME EstimatedMeans(est, data, q) PROVE est = E
  <2>1. \A k \in Keys : est[k] = E[k]
    BY <1>1, <1>5, EndsExist DEF EstimatedMeans
  <2>2. QED
    BY <1>2, <1>5, <2>1 DEF EstimatedMeans
<1>6. QED
  BY <1>4, <1>5 DEF E

\* How the changes of the queue change its last operations.
LEMMA SetStarted ==
  ASSUME opSets \in Seq(Save!OpSets), objSaves \in 0 .. MaxSaves - 1, Save!StartSave
  PROVE  /\ opSets' \in Seq(Save!OpSets) /\ Len(opSets') = Len(opSets) + 1
         /\ \A i \in 1 .. Len(opSets) : opSets'[i] = opSets[i]
         /\ opSets'[Len(opSets) + 1].uuid = objSaves + 1
         /\ \A k \in Keys : /\ Untouched(opSets', k) <=> Untouched(opSets, k)
                            /\ \A i : Ends(opSets', k, i) <=> Ends(opSets, k, i)
<1> DEFINE c == Save!OpSet(objSaves + 1)
<1>1. c \in Save!OpSets /\ c.uuid = objSaves + 1 /\ \A k \in Keys : c.ops[k] = Save!NoOp
  BY SaveConstants DEF Save!OpSet, Save!OpSets, Save!Ops, Save!NoOps
<1>2. opSets' = Append(opSets, c)
  BY DEF Save!StartSave
<1> HIDE DEF c
<1>3. /\ opSets' \in Seq(Save!OpSets) /\ Len(opSets') = Len(opSets) + 1
      /\ \A i \in 1 .. Len(opSets) : opSets'[i] = opSets[i]
      /\ opSets'[Len(opSets) + 1] = c
      /\ DOMAIN opSets = 1 .. Len(opSets) /\ DOMAIN opSets' = 1 .. Len(opSets) + 1
  BY <1>1, <1>2
<1>4. ASSUME NEW k \in Keys
      PROVE  /\ Untouched(opSets', k) <=> Untouched(opSets, k)
             /\ \A i : Ends(opSets', k, i) <=> Ends(opSets, k, i)
  <2>1. \A i \in DOMAIN opSets' : opSets'[i].ops[k] =
          IF i \in DOMAIN opSets THEN opSets[i].ops[k] ELSE Save!NoOp
    BY <1>1, <1>3
  <2>2. QED
    BY <1>3, <2>1 DEF Untouched, Ends
<1>5. QED
  BY <1>1, <1>3, <1>4

LEMMA LastSetChanged ==
  ASSUME opSets \in Seq(Save!OpSets), opSets # <<>>, NEW v \in Save!Ops,
         opSets' = [opSets EXCEPT ![Len(opSets)].ops = v]
  PROVE  /\ opSets' \in Seq(Save!OpSets) /\ Len(opSets') = Len(opSets)
         /\ DOMAIN opSets = 1 .. Len(opSets) /\ DOMAIN opSets' = 1 .. Len(opSets)
         /\ \A i \in 1 .. Len(opSets) - 1 : opSets'[i] = opSets[i]
         /\ Len(opSets) \in 1 .. Len(opSets) /\ opSets'[Len(opSets)].ops = v
         /\ opSets'[Len(opSets)].uuid = opSets[Len(opSets)].uuid
<1>1. Len(opSets) \in DOMAIN opSets /\ opSets[Len(opSets)] \in Save!OpSets
  OBVIOUS
<1> DEFINE c == [opSets[Len(opSets)] EXCEPT !.ops = v]
<1>2. c \in Save!OpSets /\ c.ops = v /\ c.uuid = opSets[Len(opSets)].uuid
  BY <1>1 DEF Save!OpSets
<1>3. opSets' = [opSets EXCEPT ![Len(opSets)] = c]
  OBVIOUS
<1> HIDE DEF c
<1>4. QED
  BY <1>1, <1>2, <1>3

LEMMA FrontSetTaken ==
  ASSUME opSets \in Seq(Save!OpSets), opSets # <<>>, opSets' = Tail(opSets)
  PROVE  /\ opSets' \in Seq(Save!OpSets) /\ Len(opSets') = Len(opSets) - 1
         /\ \A i \in 1 .. Len(opSets) - 1 : opSets'[i] = opSets[i + 1]
         /\ 1 \in DOMAIN opSets /\ Head(opSets) = opSets[1]
         /\ DOMAIN opSets = 1 .. Len(opSets) /\ DOMAIN opSets' = 1 .. Len(opSets) - 1
         /\ \A k \in Keys :
              /\ Untouched(opSets', k) <=> Untouched(opSets, k) \/ Ends(opSets, k, 1)
              /\ \A i \in DOMAIN opSets' : Ends(opSets', k, i) <=> Ends(opSets, k, i + 1)
<1>1. /\ opSets' \in Seq(Save!OpSets) /\ Len(opSets') = Len(opSets) - 1
      /\ \A i \in 1 .. Len(opSets) - 1 : opSets'[i] = opSets[i + 1]
      /\ 1 \in DOMAIN opSets /\ Head(opSets) = opSets[1] /\ Len(opSets) \in Nat
      /\ DOMAIN opSets = 1 .. Len(opSets) /\ DOMAIN opSets' = 1 .. Len(opSets) - 1
  OBVIOUS
<1>2. ASSUME NEW k \in Keys
      PROVE  Untouched(opSets', k) <=> Untouched(opSets, k) \/ Ends(opSets, k, 1)
  <2>1. \A i \in DOMAIN opSets : i = 1 \/ (i - 1 \in DOMAIN opSets' /\ opSets'[i - 1] = opSets[i] /\ i > 1)
    BY <1>1
  <2>2. \A i \in DOMAIN opSets' : i + 1 \in DOMAIN opSets /\ i + 1 > 1 /\ opSets'[i] = opSets[i + 1]
    BY <1>1
  <2>3. ASSUME Untouched(opSets', k) PROVE Untouched(opSets, k) \/ Ends(opSets, k, 1)
    <3>1. \A i \in DOMAIN opSets : i > 1 => opSets[i].ops[k] = Save!NoOp
      BY <2>1, <2>3 DEF Untouched
    <3>2. QED
      BY <1>1, <2>1, <3>1 DEF Untouched, Ends
  <2>4. ASSUME Untouched(opSets, k) \/ Ends(opSets, k, 1) PROVE Untouched(opSets', k)
    BY <2>2, <2>4 DEF Untouched, Ends
  <2>5. QED
    BY <2>3, <2>4
<1>3. ASSUME NEW k \in Keys, NEW i \in DOMAIN opSets'
      PROVE  Ends(opSets', k, i) <=> Ends(opSets, k, i + 1)
  <2>1. \A j \in DOMAIN opSets : j > i + 1 => j - 1 \in DOMAIN opSets' /\ j - 1 > i /\ opSets'[j - 1] = opSets[j]
    BY <1>1
  <2>2. \A j \in DOMAIN opSets' : j > i => j + 1 \in DOMAIN opSets /\ j + 1 > i + 1 /\ opSets'[j] = opSets[j + 1]
    BY <1>1
  <2>3. QED
    BY <1>1, <2>1, <2>2 DEF Ends
<1>4. QED
  BY <1>1, <1>2, <1>3

\* A failed set that is merged into the next leaves every last operation where it
\* is, but for its own, which is now that of the next.
LEMMA SetMerged ==
  ASSUME opSets \in Seq(Save!OpSets), Len(opSets) > 1,
         opSets' = [Tail(opSets) EXCEPT ![1] = Save!AfterFailure(@, Head(opSets))]
  PROVE  /\ opSets' \in Seq(Save!OpSets) /\ Len(opSets') = Len(opSets) - 1
         /\ DOMAIN opSets = 1 .. Len(opSets) /\ DOMAIN opSets' = 1 .. Len(opSets) - 1
         /\ Head(opSets) = opSets[1] /\ \A i \in DOMAIN opSets' : opSets'[i].uuid = opSets[i + 1].uuid
         /\ \A k \in Keys :
              /\ Untouched(opSets', k) <=> Untouched(opSets, k)
              /\ \A i \in DOMAIN opSets : Ends(opSets, k, i) =>
                   \E j \in DOMAIN opSets' : /\ Ends(opSets', k, j)
                                             /\ opSets'[j].ops[k] = opSets[i].ops[k]
<1> DEFINE m == Save!AfterFailure(opSets[2], opSets[1])
<1>1. opSets[1] \in Save!OpSets /\ opSets[2] \in Save!OpSets
  OBVIOUS
<1>2. /\ m \in Save!OpSets /\ m.uuid = opSets[2].uuid
      /\ \A k \in Keys : m.ops[k] = IF opSets[2].ops[k] = Save!NoOp THEN opSets[1].ops[k]
                                     ELSE opSets[2].ops[k]
  BY <1>1 DEF Save!AfterFailure, Save!Merged, Save!OpSets, Save!Ops
<1>3. opSets' = [Tail(opSets) EXCEPT ![1] = m]
  OBVIOUS
<1> HIDE DEF m
<1>4. /\ opSets' \in Seq(Save!OpSets) /\ Len(opSets') = Len(opSets) - 1 /\ Len(opSets) \in Nat
      /\ Head(opSets) = opSets[1] /\ opSets'[1] = m
      /\ \A i \in 2 .. Len(opSets) - 1 : opSets'[i] = opSets[i + 1]
      /\ DOMAIN opSets = 1 .. Len(opSets) /\ DOMAIN opSets' = 1 .. Len(opSets) - 1
  <2> DEFINE t == Tail(opSets)
  <2>1. /\ t \in Seq(Save!OpSets) /\ Len(t) = Len(opSets) - 1 /\ Len(opSets) \in Nat
        /\ Head(opSets) = opSets[1] /\ \A i \in 1 .. Len(opSets) - 1 : t[i] = opSets[i + 1]
        /\ DOMAIN opSets = 1 .. Len(opSets) /\ 1 \in 1 .. Len(t)
    OBVIOUS
  <2> HIDE DEF t
  <2>2. opSets' = [t EXCEPT ![1] = m]
    BY <1>3 DEF t
  <2>3. opSets' \in Seq(Save!OpSets) /\ Len(opSets') = Len(t) /\ DOMAIN opSets' = 1 .. Len(t)
    BY <1>2, <2>1, <2>2
  <2>4. opSets'[1] = m /\ \A i \in 2 .. Len(t) : opSets'[i] = t[i]
    BY <2>1, <2>2
  <2>5. QED
    BY <2>1, <2>3, <2>4
<1>5. \A i \in DOMAIN opSets' : opSets'[i].uuid = opSets[i + 1].uuid
  BY <1>2, <1>4
<1>6. ASSUME NEW k \in Keys
      PROVE  /\ Untouched(opSets', k) <=> Untouched(opSets, k)
             /\ \A i \in DOMAIN opSets : Ends(opSets, k, i) =>
                   \E j \in DOMAIN opSets' : /\ Ends(opSets', k, j)
                                             /\ opSets'[j].ops[k] = opSets[i].ops[k]
  <2>1. \A i \in DOMAIN opSets : i > 2 => /\ i - 1 \in DOMAIN opSets' /\ i - 1 > 1
                                         /\ opSets'[i - 1] = opSets[i]
    BY <1>4
  <2>2. \A i \in DOMAIN opSets' : i > 1 => i + 1 \in DOMAIN opSets /\ i + 1 > 2 /\ opSets'[i] = opSets[i + 1]
    BY <1>4
  <2>3. 1 \in DOMAIN opSets /\ 2 \in DOMAIN opSets /\ 1 \in DOMAIN opSets'
    BY <1>4
  <2>4. Untouched(opSets', k) <=> Untouched(opSets, k)
    <3>1. \A i \in DOMAIN opSets : i = 1 \/ i = 2 \/ i > 2
      BY <1>4
    <3>2. \A i \in DOMAIN opSets' : i = 1 \/ i > 1
      BY <1>4
    <3>3. opSets'[1].ops[k] = Save!NoOp <=> opSets[1].ops[k] = Save!NoOp /\ opSets[2].ops[k] = Save!NoOp
      BY <1>2, <1>4
    <3>4. Untouched(opSets, k) => Untouched(opSets', k)
      BY <2>2, <2>3, <3>2, <3>3 DEF Untouched
    <3>5. Untouched(opSets', k) => Untouched(opSets, k)
      BY <2>1, <2>3, <3>1, <3>3 DEF Untouched
    <3>6. QED
      BY <3>4, <3>5
  <2>5. ASSUME NEW i \in DOMAIN opSets, Ends(opSets, k, i), i > 2
        PROVE  Ends(opSets', k, i - 1) /\ opSets'[i - 1].ops[k] = opSets[i].ops[k] /\ i - 1 \in DOMAIN opSets'
    <3>1. \A j \in DOMAIN opSets' : j > i - 1 => j + 1 \in DOMAIN opSets /\ j + 1 > i /\ opSets'[j] = opSets[j + 1]
      BY <1>4, <2>5
    <3>2. QED
      BY <2>1, <2>5, <3>1 DEF Ends
  <2>6. ASSUME NEW i \in DOMAIN opSets, Ends(opSets, k, i), i <= 2
        PROVE  Ends(opSets', k, 1) /\ opSets'[1].ops[k] = opSets[i].ops[k]
    <3>1. opSets'[1].ops[k] = opSets[i].ops[k]
      BY <1>2, <1>4, <2>3, <2>6 DEF Ends
    <3>2. \A j \in DOMAIN opSets' : j > 1 => j + 1 \in DOMAIN opSets /\ j + 1 > i /\ opSets'[j] = opSets[j + 1]
      BY <1>4, <2>6
    <3>3. QED
      BY <2>3, <2>6, <3>1, <3>2 DEF Ends
  <2>7. \A i \in DOMAIN opSets : i > 2 \/ i <= 2
    BY <1>4
  <2>8. QED
    BY <2>3, <2>4, <2>5, <2>6, <2>7
<1>7. QED
  BY <1>4, <1>5, <1>6

LEMMA SaveTypes ==
  SetTypes /\ DataTypes /\ CounterTypes /\ FlagTypes => Save!TypeOK
BY DEF SetTypes, DataTypes, CounterTypes, FlagTypes, Save!TypeOK

\* What an operation is applied to.
LEMMA AppliedTypes ==
  ASSUME NEW ops_ \in Save!Ops, NEW data \in [Keys -> Save!Values]
  PROVE  /\ Save!Applied(ops_, data) \in [Keys -> Save!Values]
         /\ \A k \in Keys : Save!Applied(ops_, data)[k] \in Save!AcceptedValues(ops_) \cup {data[k]}
         /\ Save!AcceptedValues(ops_) \subseteq Save!Values
BY DEF Save!Applied, Save!Ops, Save!AcceptedValues

LEMMA SameCardinality == \A S : Save!Cardinality(S) = Cardinality(S)
BY DEF Save!Cardinality, Cardinality

LEMMA OutstandingIsCounted ==
  ASSUME SetTypes, IsFiniteSet(answers)
  PROVE  /\ Len(commands) \in Nat /\ Cardinality(answers) \in Nat /\ Len(opSets) \in Nat
         /\ Save!Outstanding = (IF objSaving = "idle" THEN 0 ELSE 1) + Len(commands) + Cardinality(answers)
         /\ Save!Outstanding \in Nat
<1>1. Len(commands) \in Nat /\ Cardinality(answers) \in Nat /\ Len(opSets) \in Nat
  BY FS_CardinalityType DEF SetTypes
<1>2. QED
  <2>1. Save!Outstanding = (IF objSaving = "idle" THEN 0 ELSE 1) + Len(commands) + Cardinality(answers)
    BY SameCardinality DEF Save!Outstanding
  <2>2. (IF objSaving = "idle" THEN 0 ELSE 1) \in Nat
    OBVIOUS
  <2>3. QED
    BY <1>1, <2>1, <2>2

LEMMA OutstandingSetsAre ==
  ASSUME SetTypes
  PROVE  /\ OutstandingSets \subseteq Save!OpSets
         /\ answers \subseteq OutstandingSets /\ (objSaving # "idle" => objSent \in OutstandingSets)
         /\ commands # <<>> => Head(commands) \in OutstandingSets
BY DEF SetTypes, OutstandingSets

LEMMA SaveInvInit == Save!Init => SaveInv
<1> SUFFICES ASSUME Save!Init PROVE SaveInv
  OBVIOUS
<1> USE SaveConstants
<1> DEFINE c == Save!OpSet(0)
<1>1. c \in Save!OpSets /\ c.uuid = 0 /\ \A k \in Keys : c.ops[k] = Save!NoOp
  BY DEF Save!OpSet, Save!OpSets, Save!Ops, Save!NoOps
<1>2. opSets = <<c>> /\ objSent = c
  BY DEF Save!Init
<1> HIDE DEF c
<1>3. opSets \in Seq(Save!OpSets) /\ Len(opSets) = 1 /\ DOMAIN opSets = {1} /\ opSets[1] = c
  BY <1>1, <1>2
<1>4. SetTypes /\ DataTypes /\ CounterTypes /\ FlagTypes
  <2>1. SetTypes
    BY <1>1, <1>2, <1>3 DEF Save!Init, SetTypes
  <2>2. DataTypes
    BY DEF Save!Init, DataTypes
  <2>3. CounterTypes /\ FlagTypes
    <3>1. CounterTypes
      BY SaveAssumption DEF Save!Init, CounterTypes
    <3>2. FlagTypes
      BY Zenon DEF Save!Init, FlagTypes
    <3>3. QED
      BY <3>1, <3>2
  <2>4. QED
    BY <2>1, <2>2, <2>3
<1>5. OutstandingSets = {}
  BY DEF OutstandingSets, Save!Init
<1>6. SetsAreCounted
  <2>1. IsFiniteSet(answers) /\ Cardinality(answers) = 0
    BY FS_EmptySet DEF Save!Init
  <2>2. Len(commands) = 0 /\ objSaving = "idle"
    BY DEF Save!Init
  <2>3. QED
    BY <1>3, <2>1, <2>2, SameCardinality DEF SetsAreCounted, Save!Outstanding
<1>7. SetsAreNumbered /\ ServerAccepts
  BY <1>1, <1>3, <1>5 DEF SetsAreNumbered, ServerAccepts, Save!Init
<1>8. \A k \in Keys : Untouched(opSets, k)
  BY <1>1, <1>3 DEF Untouched
<1>9. EstimatedMeans(estimated, serverData, opSets)
  BY <1>1, <1>3, <1>4, <1>8 DEF EstimatedMeans, Ends, DataTypes, Save!Init
<1>10. SetsAreOfTheirSaves
  BY <1>3, <1>5 DEF SetsAreOfTheirSaves, Save!Init
<1>11. QED
  BY <1>4, <1>6, <1>7, <1>9, <1>10 DEF SaveInv

\* Changes of the application.
LEMMA SetKeyKeeps ==
  ASSUME SaveInv, NEW k \in Keys, Save!SetKey(k)
  PROVE  SaveInv'
<1> DEFINE n == Len(opSets)
           v == [opSets[n].ops EXCEPT ![k] = written + 1]
<1>1. /\ written + 1 \in Save!Values /\ written + 1 # Save!NoOp /\ written' = written + 1
      /\ opSets \in Seq(Save!OpSets) /\ opSets # <<>> /\ n \in DOMAIN opSets /\ opSets[n] \in Save!OpSets
  BY SaveConstants DEF Save!SetKey, SaveInv, SetTypes, CounterTypes
<1>2. v \in Save!Ops /\ v[k] = written + 1 /\ \A m \in Keys \ {k} : v[m] = opSets[n].ops[m]
  BY <1>1 DEF Save!OpSets, Save!Ops
<1>3. opSets' = [opSets EXCEPT ![Len(opSets)].ops = v]
  BY <1>1 DEF Save!SetKey
<1> HIDE DEF v
<1>4. /\ opSets' \in Seq(Save!OpSets) /\ Len(opSets') = n
      /\ DOMAIN opSets = 1 .. n /\ DOMAIN opSets' = 1 .. n /\ n \in Nat
      /\ \A i \in 1 .. n - 1 : opSets'[i] = opSets[i]
      /\ n \in 1 .. n /\ opSets'[n].ops = v /\ opSets'[n].uuid = opSets[n].uuid
  <2>1. n \in Nat
    BY <1>1
  <2>2. QED
    BY <1>1, <1>2, <1>3, <2>1, LastSetChanged
<1> HIDE DEF n
<1>5. /\ Ends(opSets', k, n) /\ ~Untouched(opSets', k) /\ \A i \in DOMAIN opSets' : Ends(opSets', k, i) => i = n
  BY <1>1, <1>2, <1>4 DEF Ends, Untouched
<1>6. \A m \in Keys \ {k} : \A i \in DOMAIN opSets : opSets'[i].ops[m] = opSets[i].ops[m]
  BY <1>2, <1>4
<1>7. \A m \in Keys \ {k} : /\ Untouched(opSets', m) <=> Untouched(opSets, m)
                            /\ \A i \in DOMAIN opSets : Ends(opSets', m, i) <=> Ends(opSets, m, i)
  BY <1>4, <1>6 DEF Untouched, Ends
<1>8. UNCHANGED <<objSaving, objSent, commands, answers, serverData, remote, isNew, objSaves, accepted, leaked, mixed>>
  BY DEF Save!SetKey
<1>9. /\ estimated' = [estimated EXCEPT ![k] = written + 1] /\ latest' = [latest EXCEPT ![k] = written + 1]
  BY <1>1 DEF Save!SetKey
<1>10. SetTypes' /\ DataTypes' /\ FlagTypes' /\ ServerAccepts'
  BY <1>1, <1>4, <1>8, <1>9, SaveConstantsStay
     DEF SaveInv, SetTypes, DataTypes, FlagTypes, ServerAccepts, Save!AcceptedValues
<1>11. CounterTypes'
  BY <1>1, <1>8, SaveConstants DEF SaveInv, CounterTypes, Save!SetKey
<1>12. OutstandingSets' = OutstandingSets /\ Save!Outstanding' = Save!Outstanding
  BY <1>8 DEF OutstandingSets, Save!Outstanding
<1>13. SetsAreCounted'
  BY <1>4, <1>8, <1>12 DEF SaveInv, SetsAreCounted, n
<1>14. SetsAreNumbered'
  BY <1>4, <1>8, <1>12 DEF SaveInv, SetsAreNumbered, n
<1>16. EstimatedMeans(estimated, serverData, opSets)'
  <2>1. estimated' \in [Keys -> Save!Values] /\ estimated'[k] = written + 1
    BY <1>1, <1>9 DEF SaveInv, DataTypes
  <2>2. \A m \in Keys \ {k} : estimated'[m] = estimated[m]
    BY <1>9 DEF SaveInv, DataTypes
  <2>3. \A i \in DOMAIN opSets' : Ends(opSets', k, i) => opSets'[i].ops[k] = written + 1
    BY <1>2, <1>4, <1>5
  <2>4. \A m \in Keys \ {k} :
           /\ Untouched(opSets', m) => estimated'[m] = serverData[m]
           /\ \A i \in DOMAIN opSets' : Ends(opSets', m, i) => estimated'[m] = opSets'[i].ops[m]
    BY <1>4, <1>6, <1>7, <2>2 DEF SaveInv, EstimatedMeans
  <2>5. QED
    BY <1>5, <1>8, <2>1, <2>3, <2>4, SaveConstantsStay DEF EstimatedMeans
<1>17. SetsAreOfTheirSaves'
  <2> SUFFICES ASSUME ~leaked, ~mixed PROVE SetsAreOfTheirSaves'
    BY <1>8 DEF SetsAreOfTheirSaves
  <2>1. \A i \in 1 .. Len(opSets') - 1 : \E s \in OutstandingSets' : s.uuid = opSets'[i].uuid
    BY <1>4, <1>12 DEF SaveInv, SetsAreOfTheirSaves, n
  <2>2. \A s \in OutstandingSets' : \A i \in DOMAIN opSets' : s.uuid = opSets'[i].uuid => s.ops = opSets'[i].ops
    <3>1. \A s \in OutstandingSets : s.uuid # opSets[n].uuid
      BY <1>4, OutstandingSetsAre DEF SaveInv, SetsAreNumbered, CounterTypes, Save!OpSets, n
    <3>2. \A i \in DOMAIN opSets' : i = n \/ opSets'[i] = opSets[i]
      BY <1>4
    <3>3. QED
      BY <1>4, <1>12, <3>1, <3>2 DEF SaveInv, SetsAreOfTheirSaves
  <2>3. \A m \in Keys : latest'[m] \in accepted' \/
           \E i \in DOMAIN opSets' : Ends(opSets', m, i) /\ opSets'[i].ops[m] = latest'[m]
    BY <1>2, <1>4, <1>5, <1>6, <1>7, <1>8, <1>9 DEF SaveInv, SetsAreOfTheirSaves, DataTypes
  <2>4. QED
    BY <1>8, <2>1, <2>2, <2>3 DEF SetsAreOfTheirSaves, SaveInv
<1>18. QED
  BY <1>10, <1>11, <1>13, <1>14, <1>16, <1>17 DEF SaveInv

LEMMA RevertKeeps ==
  ASSUME SaveInv, Save!Revert
  PROVE  SaveInv'
<1> DEFINE n == Len(opSets)
           v == Save!NoOps
<1>1. /\ opSets \in Seq(Save!OpSets) /\ opSets # <<>> /\ n \in DOMAIN opSets /\ n \in Nat
      /\ serverData \in [Keys -> Save!Values]
  BY DEF SaveInv, SetTypes, DataTypes
<1>2. v \in Save!Ops /\ \A m \in Keys : v[m] = Save!NoOp
  BY DEF Save!Ops, Save!NoOps
<1>3. opSets' = [opSets EXCEPT ![Len(opSets)].ops = v]
  BY DEF Save!Revert
<1> HIDE DEF v
<1>4. /\ opSets' \in Seq(Save!OpSets) /\ Len(opSets') = n
      /\ DOMAIN opSets = 1 .. n /\ DOMAIN opSets' = 1 .. n
      /\ \A i \in 1 .. n - 1 : opSets'[i] = opSets[i]
      /\ n \in 1 .. n /\ opSets'[n].ops = v /\ opSets'[n].uuid = opSets[n].uuid
  BY <1>1, <1>2, <1>3, LastSetChanged
<1> HIDE DEF n
<1>5. UNCHANGED <<objSaving, objSent, commands, answers, serverData, remote, isNew, objSaves, accepted,
                 leaked, mixed, written>>
  BY DEF Save!Revert
<1>6. OutstandingSets' = OutstandingSets /\ Save!Outstanding' = Save!Outstanding
  BY <1>5 DEF OutstandingSets, Save!Outstanding
<1>8. estimated' = Save!Estimated(serverData, opSets') /\ latest' = estimated'
  BY DEF Save!Revert
<1>9. EstimatedMeans(estimated', serverData, opSets')
  BY <1>1, <1>4, <1>8, EstimatedIs
<1>10. SetTypes' /\ DataTypes' /\ CounterTypes' /\ FlagTypes' /\ ServerAccepts'
  BY <1>1, <1>4, <1>5, <1>8, <1>9, SaveConstantsStay
     DEF SaveInv, SetTypes, DataTypes, CounterTypes, FlagTypes, ServerAccepts, Save!AcceptedValues,
         EstimatedMeans
<1>11. SetsAreCounted' /\ SetsAreNumbered'
  BY <1>4, <1>5, <1>6 DEF SaveInv, SetsAreCounted, SetsAreNumbered, n
<1>12. EstimatedMeans(estimated, serverData, opSets)'
  BY <1>5, <1>9, SaveConstantsStay DEF EstimatedMeans, Untouched, Ends
<1>13. SetsAreOfTheirSaves'
  <2> SUFFICES ASSUME ~leaked, ~mixed PROVE SetsAreOfTheirSaves'
    BY <1>5 DEF SetsAreOfTheirSaves
  <2>1. \A i \in 1 .. Len(opSets') - 1 : \E s \in OutstandingSets' : s.uuid = opSets'[i].uuid
    BY <1>4, <1>6 DEF SaveInv, SetsAreOfTheirSaves, n
  <2>2. \A s \in OutstandingSets' : \A i \in DOMAIN opSets' : s.uuid = opSets'[i].uuid => s.ops = opSets'[i].ops
    <3>1. \A s \in OutstandingSets : s.uuid # opSets[n].uuid
      BY <1>4, OutstandingSetsAre DEF SaveInv, SetsAreNumbered, CounterTypes, Save!OpSets, n
    <3>2. \A i \in DOMAIN opSets' : i = n \/ opSets'[i] = opSets[i]
      BY <1>4
    <3>3. QED
      BY <1>4, <1>6, <3>1, <3>2 DEF SaveInv, SetsAreOfTheirSaves
  <2>3. ASSUME NEW m \in Keys
        PROVE  latest'[m] \in accepted' \/
                 \E i \in DOMAIN opSets' : Ends(opSets', m, i) /\ opSets'[i].ops[m] = latest'[m]
    <3>1. CASE Untouched(opSets', m)
      BY <1>5, <1>8, <1>9, <3>1 DEF EstimatedMeans, SaveInv, SetsAreOfTheirSaves
    <3>2. CASE ~Untouched(opSets', m)
      BY <1>4, <1>8, <1>9, <3>2, EndsExist DEF EstimatedMeans
    <3>3. QED
      BY <3>1, <3>2
  <2>4. QED
    BY <1>5, <2>1, <2>2, <2>3 DEF SetsAreOfTheirSaves, SaveInv
<1>14. QED
  BY <1>10, <1>11, <1>12, <1>13 DEF SaveInv

\* A save starts: the last set is its own, and a new one is started behind it.
LEMMA StartKeeps ==
  ASSUME SaveInv, objSaves < MaxSaves, Save!StartSave, objSaves' = objSaves + 1,
         UNCHANGED <<serverData, estimated, isNew, answers, remote, written, latest, accepted, mixed>>,
         \/ leaked' = TRUE /\ UNCHANGED <<objSaving, objSent, commands>>
         \/ /\ objSaving = "idle" /\ objSaving' = "children" /\ objSent' = Save!Unsaved
            /\ UNCHANGED <<commands, leaked>>
         \/ commands' = Append(commands, Save!Unsaved) /\ UNCHANGED <<objSaving, objSent, leaked>>
  PROVE  SaveInv'
<1> DEFINE n == Len(opSets)
           c == opSets[n]
<1>1. /\ opSets \in Seq(Save!OpSets) /\ opSets # <<>> /\ n \in 1 .. n /\ n \in Nat /\ c \in Save!OpSets
      /\ c = Save!Unsaved /\ DOMAIN opSets = 1 .. n /\ objSaves \in 0 .. MaxSaves - 1
      /\ commands \in Seq(Save!OpSets)
  BY SaveConstants DEF SaveInv, SetTypes, CounterTypes, Save!Unsaved, Save!Last
<1>2. /\ opSets' \in Seq(Save!OpSets) /\ Len(opSets') = n + 1
      /\ \A i \in 1 .. n : opSets'[i] = opSets[i]
      /\ opSets'[n + 1].uuid = objSaves + 1 /\ DOMAIN opSets' = 1 .. n + 1
      /\ \A k \in Keys : /\ Untouched(opSets', k) <=> Untouched(opSets, k)
                         /\ \A i : Ends(opSets', k, i) <=> Ends(opSets, k, i)
  BY <1>1, SetStarted
<1> HIDE DEF n, c
<1>3. /\ Append(commands, c) \in Seq(Save!OpSets) /\ Len(Append(commands, c)) = Len(commands) + 1
      /\ {Append(commands, c)[i] : i \in DOMAIN Append(commands, c)} = {commands[i] : i \in DOMAIN commands} \cup {c}
  <2>1. /\ Append(commands, c) \in Seq(Save!OpSets) /\ Len(Append(commands, c)) = Len(commands) + 1
        /\ DOMAIN Append(commands, c) = DOMAIN commands \cup {Len(commands) + 1}
        /\ Append(commands, c)[Len(commands) + 1] = c
        /\ \A i \in DOMAIN commands : Append(commands, c)[i] = commands[i]
    BY <1>1
  <2>2. QED
    BY <2>1
<1>4. /\ OutstandingSets' \subseteq OutstandingSets \cup {c}
      /\ leaked' \/ OutstandingSets' = OutstandingSets \cup {c}
  <2>1. CASE leaked' = TRUE /\ UNCHANGED <<objSaving, objSent, commands>>
    BY <2>1 DEF OutstandingSets
  <2>2. CASE objSaving = "idle" /\ objSaving' = "children" /\ objSent' = Save!Unsaved /\ UNCHANGED commands
    BY <1>1, <2>2 DEF OutstandingSets
  <2>3. CASE commands' = Append(commands, Save!Unsaved) /\ UNCHANGED <<objSaving, objSent>>
    BY <1>1, <1>3, <2>3 DEF OutstandingSets
  <2>4. QED
    BY <2>1, <2>2, <2>3
<1>5. SetTypes' /\ DataTypes' /\ CounterTypes'
  <2>1. SetTypes'
    <3>1. commands' \in Seq(Save!OpSets) /\ objSent' \in Save!OpSets
      BY <1>1, <1>3 DEF SaveInv, SetTypes
    <3>2. opSets' # <<>> /\ opSets' \in Seq(Save!OpSets)
      BY <1>1, <1>2
    <3>3. answers' \subseteq Save!OpSets
      BY DEF SaveInv, SetTypes
    <3>4. QED
      BY <3>1, <3>2, <3>3, SaveConstantsStay DEF SetTypes
  <2>2. DataTypes'
    BY SaveConstantsStay DEF SaveInv, DataTypes
  <2>3. CounterTypes'
    BY <1>1, SaveConstantsStay, SaveConstants DEF SaveInv, CounterTypes
  <2>4. QED
    BY <2>1, <2>2, <2>3
<1>6. FlagTypes'
  BY Zenon DEF SaveInv, FlagTypes
<1>7. SetsAreCounted'
  <2>1. Save!Outstanding' <= Save!Outstanding + 1 /\ Save!Outstanding' \in Nat /\ Save!Outstanding \in Nat
    <3>1. IsFiniteSet(answers) /\ IsFiniteSet(answers')
      BY DEF SaveInv, SetsAreCounted
    <3>2. /\ Save!Outstanding' = (IF objSaving' = "idle" THEN 0 ELSE 1) + Len(commands') + Cardinality(answers)
          /\ Save!Outstanding = (IF objSaving = "idle" THEN 0 ELSE 1) + Len(commands) + Cardinality(answers)
      BY SameCardinality DEF Save!Outstanding
    <3>3. Cardinality(answers) \in Nat /\ Len(commands) \in Nat
      BY <1>1, <3>1, FS_CardinalityType
    <3>4. QED
      BY <1>1, <1>3, <3>2, <3>3
  <2>2. QED
    BY <1>1, <1>2, <2>1 DEF SaveInv, SetsAreCounted, n
<1>8. SetsAreNumbered'
  <2>1. objSaves' = objSaves + 1 /\ objSaves \in Nat /\ c.uuid = objSaves
    BY <1>1 DEF SaveInv, SetsAreNumbered, n, c
  <2>2. \A s \in OutstandingSets' : s.uuid < objSaves'
    BY <1>4, <2>1, OutstandingSetsAre DEF SaveInv, SetsAreNumbered, Save!OpSets
  <2>3. \A i \in 1 .. n : opSets[i].uuid <= objSaves /\ opSets[i].uuid \in Nat
    <3>1. \A i \in 1 .. n : opSets[i] \in Save!OpSets /\ (i = n \/ i < n)
      BY <1>1
    <3>2. \A i \in 1 .. n : opSets[i].uuid \in Nat
      BY <3>1 DEF Save!OpSets
    <3>3. opSets[n].uuid = objSaves /\ \A i \in 1 .. n : i < n => opSets[i].uuid < objSaves
      BY <1>1, <2>1 DEF SaveInv, SetsAreNumbered, c
    <3>4. QED
      BY <2>1, <3>1, <3>2, <3>3
  <2>4. ASSUME NEW i \in DOMAIN opSets', NEW j \in DOMAIN opSets', i < j
        PROVE  opSets'[i].uuid < opSets'[j].uuid
    <3>1. i \in 1 .. n /\ (j \in 1 .. n \/ j = n + 1)
      BY <1>1, <1>2, <2>4
    <3>2. CASE j \in 1 .. n
      BY <1>1, <1>2, <2>4, <3>1, <3>2 DEF SaveInv, SetsAreNumbered
    <3>3. CASE j = n + 1
      BY <1>2, <2>1, <2>3, <3>1, <3>3
    <3>4. QED
      BY <3>1, <3>2, <3>3
  <2>5. QED
    BY <1>2, <2>1, <2>2, <2>4 DEF SetsAreNumbered
<1>9. ServerAccepts'
  BY <1>1 DEF SaveInv, ServerAccepts, Save!AcceptedValues
<1>10. EstimatedMeans(estimated, serverData, opSets)'
  <2>1. \A k \in Keys : \A i : Ends(opSets', k, i) => i \in 1 .. n
    BY <1>1, <1>2 DEF Ends
  <2>2. QED
    BY <1>2, <2>1, SaveConstantsStay, <1>1 DEF SaveInv, EstimatedMeans
<1>11. SetsAreOfTheirSaves'
  <2> SUFFICES ASSUME ~leaked', ~mixed' PROVE SetsAreOfTheirSaves'
    BY DEF SetsAreOfTheirSaves
  <2>1. ~leaked /\ ~mixed /\ OutstandingSets' = OutstandingSets \cup {c}
    BY <1>4 DEF SaveInv, FlagTypes
  <2>2. \A i \in 1 .. Len(opSets') - 1 : \E s \in OutstandingSets' : s.uuid = opSets'[i].uuid
    BY <1>1, <1>2, <2>1 DEF SaveInv, SetsAreOfTheirSaves, n, c
  <2>3. ASSUME NEW s \in OutstandingSets', NEW i \in DOMAIN opSets', s.uuid = opSets'[i].uuid
        PROVE  s.ops = opSets'[i].ops
    <3>1. i \in 1 .. n /\ opSets'[i] = opSets[i]
      <4>1. s.uuid < objSaves + 1 /\ s.uuid \in Nat /\ objSaves \in Nat
        BY <1>1, <1>8, <2>1, OutstandingSetsAre DEF SaveInv, SetsAreNumbered, Save!OpSets
      <4>2. i # n + 1
        BY <1>2, <2>3, <4>1
      <4>3. QED
        BY <1>1, <1>2, <4>2
    <3>2. CASE s \in OutstandingSets
      BY <1>1, <2>1, <2>3, <3>1, <3>2 DEF SaveInv, SetsAreOfTheirSaves
    <3>3. CASE s = c
      <4>1. i = n
        <5>1. i < n => opSets[i].uuid < c.uuid
          BY <1>1, <3>1 DEF SaveInv, SetsAreNumbered, n, c
        <5>2. c.uuid \in Nat /\ opSets[i].uuid = c.uuid
          BY <1>1, <2>3, <3>1, <3>3 DEF Save!OpSets
        <5>3. QED
          BY <1>1, <3>1, <5>1, <5>2
      <4>2. QED
        BY <3>1, <3>3, <4>1 DEF c
    <3>4. QED
      BY <2>1, <3>2, <3>3
  <2>4. ASSUME NEW m \in Keys
        PROVE  latest'[m] \in accepted' \/
                 \E i \in DOMAIN opSets' : Ends(opSets', m, i) /\ opSets'[i].ops[m] = latest'[m]
    <3>1. latest' = latest /\ accepted' = accepted
      OBVIOUS
    <3>2. CASE latest[m] \in accepted
      BY <3>1, <3>2
    <3>3. CASE latest[m] \notin accepted
      <4>1. PICK i \in DOMAIN opSets : Ends(opSets, m, i) /\ opSets[i].ops[m] = latest[m]
        BY <2>1, <3>3 DEF SaveInv, SetsAreOfTheirSaves
      <4>2. i \in 1 .. n /\ i \in DOMAIN opSets'
        BY <1>1, <1>2
      <4>3. Ends(opSets', m, i) /\ opSets'[i] = opSets[i]
        BY <1>2, <4>1, <4>2
      <4>4. QED
        BY <3>1, <4>1, <4>2, <4>3
    <3>4. QED
      BY <3>2, <3>3
  <2>5. QED
    BY <2>1, <2>2, <2>3, <2>4 DEF SetsAreOfTheirSaves, SaveInv
<1>12. QED
  BY <1>5, <1>6, <1>7, <1>8, <1>9, <1>10, <1>11 DEF SaveInv

LEMMA SavesStart ==
  ASSUME SaveInv, \/ Save!BeginSave \/ Save!SaveChildrenOnly \/ Save!CollectChildrenRaises
                  \/ Save!SaveEventually
  PROVE  SaveInv'
BY StartKeeps DEF Save!BeginSave, Save!SaveChildrenOnly, Save!CollectChildrenRaises,
   Save!SaveEventually

\* Steps that leave the queue alone.
LEMMA QueueStays ==
  ASSUME SaveInv, UNCHANGED <<opSets, isNew, objSaves, latest, mixed, written>>,
         SetTypes', DataTypes', CounterTypes', IsFiniteSet(answers'), leaked' \in BOOLEAN,
         Save!Outstanding' <= Save!Outstanding,
         OutstandingSets' \subseteq OutstandingSets,
         leaked' = TRUE \/ (leaked' = leaked /\ OutstandingSets' = OutstandingSets),
         accepted \subseteq accepted', ServerAccepts',
         EstimatedMeans(estimated', serverData', opSets),
         \A k \in Keys : serverData'[k] = serverData[k] \/ serverData'[k] \in accepted'
  PROVE  SaveInv'
<1>1. FlagTypes'
  BY Zenon DEF SaveInv, FlagTypes
<1>2. SetsAreCounted'
  <2>1. IsFiniteSet(answers)
    BY DEF SaveInv, SetsAreCounted
  <2>2. Save!Outstanding' \in Nat
    <3>1. Cardinality(answers') \in Nat /\ Len(commands') \in Nat
      BY FS_CardinalityType DEF SetTypes
    <3>2. Save!Outstanding' = (IF objSaving' = "idle" THEN 0 ELSE 1) + Len(commands') + Cardinality(answers')
      BY SameCardinality DEF Save!Outstanding
    <3>3. QED
      BY <3>1, <3>2
  <2>3. QED
    BY <2>1, <2>2, OutstandingIsCounted DEF SaveInv, SetsAreCounted
<1>3. SetsAreNumbered'
  BY DEF SaveInv, SetsAreNumbered
<1>4. EstimatedMeans(estimated, serverData, opSets)'
  BY SaveConstantsStay DEF EstimatedMeans, Ends, Untouched
<1>5. SetsAreOfTheirSaves'
  <2> SUFFICES ASSUME ~leaked', ~mixed' PROVE SetsAreOfTheirSaves'
    BY DEF SetsAreOfTheirSaves
  <2>1. ~leaked /\ ~mixed /\ OutstandingSets' = OutstandingSets
    OBVIOUS
  <2>2. \A k \in Keys : latest'[k] \in accepted' \/
           \E i \in DOMAIN opSets' : Ends(opSets', k, i) /\ opSets'[i].ops[k] = latest'[k]
    BY <2>1 DEF SaveInv, SetsAreOfTheirSaves
  <2>3. QED
    BY <2>1, <2>2 DEF SaveInv, SetsAreOfTheirSaves
<1>6. QED
  BY <1>1, <1>2, <1>3, <1>4, <1>5 DEF SaveInv

LEMMA SendKeeps ==
  ASSUME SaveInv, Save!SendSave \/ Save!RejectSave
  PROVE  SaveInv'
<1>1. /\ UNCHANGED <<opSets, isNew, objSaves, latest, mixed, written, leaked, objSent, commands, answers,
                    accepted, remote, serverData, estimated>>
      /\ objSaving # "idle" /\ objSaving' \in {"sent", "failed"}
  BY DEF Save!SendSave, Save!RejectSave
<1>2. OutstandingSets' = OutstandingSets /\ Save!Outstanding' = Save!Outstanding
  BY <1>1 DEF OutstandingSets, Save!Outstanding
<1>3. Save!Outstanding \in Nat
  BY OutstandingIsCounted DEF SaveInv, SetsAreCounted
<1>4. SetTypes' /\ DataTypes' /\ CounterTypes'
  BY <1>1, SaveConstantsStay DEF SaveInv, SetTypes, DataTypes, CounterTypes
<1>5. IsFiniteSet(answers') /\ ServerAccepts' /\ EstimatedMeans(estimated', serverData', opSets)
  BY <1>1 DEF SaveInv, SetsAreCounted, ServerAccepts, Save!AcceptedValues
<1>6. leaked' \in BOOLEAN
  BY <1>1 DEF SaveInv, FlagTypes
<1>7. QED
  BY <1>1, <1>2, <1>3, <1>4, <1>5, <1>6, QueueStays

\* The server executes a save: what it is given, it has accepted.
LEMMA Executed ==
  ASSUME SaveInv, NEW s \in Save!OpSets, remote' = Save!Applied(s.ops, remote),
         accepted' = accepted \cup Save!AcceptedValues(s.ops)
  PROVE  /\ remote' \in [Keys -> Save!Values] /\ accepted' \subseteq Save!Values
         /\ accepted \subseteq accepted' /\ \A k \in Keys : remote'[k] \in accepted'
         /\ Save!AcceptedValues(s.ops) \subseteq accepted'
<1>1. s.ops \in Save!Ops /\ remote \in [Keys -> Save!Values] /\ accepted \subseteq Save!Values
  BY DEF Save!OpSets, SaveInv, DataTypes, CounterTypes
<1>2. \A k \in Keys : remote[k] \in accepted
  BY DEF SaveInv, ServerAccepts
<1>3. /\ remote' \in [Keys -> Save!Values]
      /\ \A k \in Keys : remote'[k] \in Save!AcceptedValues(s.ops) \cup {remote[k]}
      /\ Save!AcceptedValues(s.ops) \subseteq Save!Values
  BY <1>1, AppliedTypes
<1>4. QED
  BY <1>1, <1>2, <1>3

LEMMA ExecuteKeeps ==
  ASSUME SaveInv, Save!ExecuteSave
  PROVE  SaveInv'
<1>1. /\ UNCHANGED <<opSets, isNew, objSaves, latest, mixed, written, leaked, objSent, commands, answers,
                    serverData, estimated>>
      /\ objSaving = "sent" /\ objSaving' \in {"saved", "failed"}
      /\ remote' = Save!Applied(objSent.ops, remote)
      /\ accepted' = accepted \cup Save!AcceptedValues(objSent.ops)
  BY DEF Save!ExecuteSave
<1>2. OutstandingSets' = OutstandingSets /\ Save!Outstanding' = Save!Outstanding
  BY <1>1 DEF OutstandingSets, Save!Outstanding
<1>3. Save!Outstanding \in Nat
  BY OutstandingIsCounted DEF SaveInv, SetsAreCounted
<1>4. /\ remote' \in [Keys -> Save!Values] /\ accepted' \subseteq Save!Values
      /\ accepted \subseteq accepted' /\ \A k \in Keys : remote'[k] \in accepted'
      /\ Save!AcceptedValues(objSent.ops) \subseteq accepted'
  <2>1. objSent \in Save!OpSets
    BY DEF SaveInv, SetTypes
  <2>2. QED
    BY <1>1, <2>1, Executed
<1>5. SetTypes' /\ DataTypes' /\ CounterTypes'
  BY <1>1, <1>4, SaveConstantsStay DEF SaveInv, SetTypes, DataTypes, CounterTypes
<1>6. IsFiniteSet(answers') /\ EstimatedMeans(estimated', serverData', opSets)
  BY <1>1 DEF SaveInv, SetsAreCounted
<1>7. leaked' \in BOOLEAN
  BY <1>1 DEF SaveInv, FlagTypes
<1>8. ServerAccepts'
  <2>1. \A s \in answers' : Save!AcceptedValues(s.ops)' \subseteq accepted'
    BY <1>1, <1>4 DEF SaveInv, ServerAccepts, Save!AcceptedValues
  <2>2. Save!AcceptedValues(objSent.ops)' = Save!AcceptedValues(objSent.ops)
    BY <1>1 DEF Save!AcceptedValues
  <2>3. QED
    BY <1>1, <1>4, <2>1, <2>2 DEF ServerAccepts
<1>9. QED
  BY <1>1, <1>2, <1>3, <1>4, <1>5, <1>6, <1>7, <1>8, QueueStays

LEMMA FetchKeeps ==
  ASSUME SaveInv, Save!Fetch
  PROVE  SaveInv'
<1>1. /\ UNCHANGED <<opSets, isNew, objSaves, latest, mixed, written, leaked, objSaving, objSent, commands,
                    answers, accepted, remote>>
      /\ serverData' = remote /\ estimated' = Save!Estimated(serverData', opSets)
  BY DEF Save!Fetch
<1>2. OutstandingSets' = OutstandingSets /\ Save!Outstanding' = Save!Outstanding
  BY <1>1 DEF OutstandingSets, Save!Outstanding
<1>3. Save!Outstanding \in Nat
  BY OutstandingIsCounted DEF SaveInv, SetsAreCounted
<1>4. EstimatedMeans(estimated', serverData', opSets)
  BY <1>1, EstimatedIs DEF SaveInv, SetTypes, DataTypes
<1>5. SetTypes' /\ DataTypes' /\ CounterTypes'
  BY <1>1, <1>4, SaveConstantsStay DEF SaveInv, SetTypes, DataTypes, CounterTypes, EstimatedMeans
<1>6. IsFiniteSet(answers') /\ ServerAccepts'
  BY <1>1 DEF SaveInv, SetsAreCounted, ServerAccepts, Save!AcceptedValues
<1>7. leaked' \in BOOLEAN
  BY <1>1 DEF SaveInv, FlagTypes
<1>8. \A k \in Keys : serverData'[k] \in accepted'
  BY <1>1 DEF SaveInv, ServerAccepts
<1>9. QED
  BY <1>1, <1>2, <1>3, <1>4, <1>5, <1>6, <1>7, <1>8, QueueStays

\* The commands once the first of them has been taken.
LEMMA CommandTaken ==
  ASSUME SetTypes, commands # <<>>, commands' = Tail(commands)
  PROVE  /\ Head(commands) \in Save!OpSets /\ commands' \in Seq(Save!OpSets)
         /\ Len(commands') = Len(commands) - 1 /\ Len(commands) \in Nat
         /\ {commands[i] : i \in DOMAIN commands} =
              {Head(commands)} \cup {commands'[i] : i \in DOMAIN commands'}
<1>1. /\ commands \in Seq(Save!OpSets) /\ commands' \in Seq(Save!OpSets) /\ Len(commands) \in Nat
      /\ Head(commands) = commands[1] /\ commands[1] \in Save!OpSets
      /\ DOMAIN commands = 1 .. Len(commands) /\ 1 \in 1 .. Len(commands)
      /\ Len(commands') = Len(commands) - 1 /\ DOMAIN commands' = 1 .. Len(commands) - 1
      /\ \A i \in 1 .. Len(commands) - 1 : commands'[i] = commands[i + 1]
  BY DEF SetTypes
<1>2. \A i \in DOMAIN commands : i = 1 \/ (i - 1 \in DOMAIN commands' /\ commands[i] = commands'[i - 1])
  BY <1>1
<1>3. \A i \in DOMAIN commands' : i + 1 \in DOMAIN commands /\ commands'[i] = commands[i + 1]
  BY <1>1
<1>4. {commands[i] : i \in DOMAIN commands} \subseteq {commands[1]} \cup {commands'[i] : i \in DOMAIN commands'}
  BY <1>2
<1>5. {commands'[i] : i \in DOMAIN commands'} \subseteq {commands[i] : i \in DOMAIN commands}
  BY <1>3
<1>6. commands[1] \in {commands[i] : i \in DOMAIN commands}
  BY <1>1
<1>7. QED
  BY <1>1, <1>4, <1>5, <1>6

LEMMA CommandsKeep ==
  ASSUME SaveInv, Save!RunCommand \/ Save!CommandFails
  PROVE  SaveInv'
<1> DEFINE h == Head(commands)
<1>1. /\ UNCHANGED <<opSets, isNew, objSaves, latest, mixed, written, objSaving, objSent, serverData, estimated>>
      /\ commands # <<>> /\ commands' = Tail(commands)
  BY DEF Save!RunCommand, Save!CommandFails
<1>2. /\ h \in Save!OpSets /\ commands' \in Seq(Save!OpSets)
      /\ Len(commands') = Len(commands) - 1 /\ Len(commands) \in Nat
      /\ {commands[i] : i \in DOMAIN commands} = {h} \cup {commands'[i] : i \in DOMAIN commands'}
  BY <1>1, CommandTaken DEF SaveInv
<1> HIDE DEF h
<1>3. EstimatedMeans(estimated', serverData', opSets)
  BY <1>1 DEF SaveInv
<1>4. /\ IsFiniteSet(answers) /\ Cardinality(answers) \in Nat
      /\ Save!Outstanding = (IF objSaving = "idle" THEN 0 ELSE 1) + Len(commands) + Cardinality(answers)
      /\ Save!Outstanding' = (IF objSaving = "idle" THEN 0 ELSE 1) + Len(commands') + Cardinality(answers')
  BY <1>1, SameCardinality, FS_CardinalityType DEF Save!Outstanding, SaveInv, SetsAreCounted
<1>5. CASE Save!CommandFails
  <2>1. UNCHANGED <<answers, accepted, remote>> /\ leaked' = TRUE
    BY <1>5 DEF Save!CommandFails
  <2>2. SetTypes' /\ DataTypes' /\ CounterTypes'
    BY <1>1, <1>2, <2>1, SaveConstantsStay DEF SaveInv, SetTypes, DataTypes, CounterTypes
  <2>3. Save!Outstanding' <= Save!Outstanding
    BY <1>2, <1>4, <2>1
  <2>4. OutstandingSets' \subseteq OutstandingSets
    BY <1>1, <1>2, <2>1 DEF OutstandingSets
  <2>5. ServerAccepts'
    BY <1>1, <2>1 DEF SaveInv, ServerAccepts, Save!AcceptedValues
  <2>6. QED
    BY <1>1, <1>3, <1>4, <2>1, <2>2, <2>3, <2>4, <2>5, QueueStays
<1>6. CASE Save!RunCommand
  <2>1. /\ leaked' = leaked /\ answers' = answers \cup {h} /\ remote' = Save!Applied(h.ops, remote)
        /\ accepted' = accepted \cup Save!AcceptedValues(h.ops)
    BY <1>6 DEF Save!RunCommand, h
  <2>2. /\ remote' \in [Keys -> Save!Values] /\ accepted' \subseteq Save!Values
        /\ accepted \subseteq accepted' /\ \A k \in Keys : remote'[k] \in accepted'
        /\ Save!AcceptedValues(h.ops) \subseteq accepted'
    BY <1>2, <2>1, Executed
  <2>3. SetTypes' /\ DataTypes' /\ CounterTypes'
    BY <1>1, <1>2, <2>1, <2>2, SaveConstantsStay DEF SaveInv, SetTypes, DataTypes, CounterTypes
  <2>4. IsFiniteSet(answers') /\ Cardinality(answers') \in Nat /\ Cardinality(answers') <= Cardinality(answers) + 1
    <3>1. IsFiniteSet(answers') /\ (Cardinality(answers') = Cardinality(answers) \/
                                    Cardinality(answers') = Cardinality(answers) + 1)
      BY <1>4, <2>1, FS_AddElement
    <3>2. QED
      BY <1>4, <3>1
  <2>5. Save!Outstanding' <= Save!Outstanding
    BY <1>2, <1>4, <2>4
  <2>6. OutstandingSets' = OutstandingSets
    BY <1>1, <1>2, <2>1 DEF OutstandingSets
  <2>7. ServerAccepts'
    BY <1>1, <2>1, <2>2 DEF SaveInv, ServerAccepts, Save!AcceptedValues
  <2>8. leaked' \in BOOLEAN
    BY <2>1 DEF SaveInv, FlagTypes
  <2>9. QED
    BY <1>1, <1>3, <2>1, <2>2, <2>3, <2>4, <2>5, <2>6, <2>7, <2>8, QueueStays
<1>7. QED
  BY <1>5, <1>6

\* An answer to the save of s takes the first set off the queue.
LEMMA AnswerKeeps ==
  ASSUME SaveInv, NEW s \in OutstandingSets, Save!MergeAfterSave(s),
         Save!AcceptedValues(s.ops) \subseteq accepted, SetTypes', CounterTypes',
         UNCHANGED <<remote, written, objSaves, latest, accepted, leaked>>,
         IsFiniteSet(answers'), Save!Outstanding' = Save!Outstanding - 1,
         OutstandingSets' \subseteq OutstandingSets, OutstandingSets \ {s} \subseteq OutstandingSets',
         ServerAccepts'
  PROVE  SaveInv'
<1> DEFINE n == Len(opSets)
<1>1. /\ opSets \in Seq(Save!OpSets) /\ opSets # <<>> /\ opSets' = Tail(opSets)
      /\ serverData' = Save!Applied(Head(opSets).ops, serverData)
      /\ estimated' = Save!Estimated(serverData', opSets') /\ isNew' = FALSE
      /\ mixed' = (mixed \/ Head(opSets).uuid # s.uuid)
  BY DEF SaveInv, SetTypes, Save!MergeAfterSave
<1>2. /\ opSets' \in Seq(Save!OpSets) /\ Len(opSets') = n - 1
      /\ \A i \in 1 .. n - 1 : opSets'[i] = opSets[i + 1]
      /\ 1 \in DOMAIN opSets /\ Head(opSets) = opSets[1]
      /\ DOMAIN opSets = 1 .. n /\ DOMAIN opSets' = 1 .. n - 1
      /\ \A k \in Keys : \A i \in DOMAIN opSets' : Ends(opSets', k, i) <=> Ends(opSets, k, i + 1)
  BY <1>1, FrontSetTaken
<1>3. Save!Outstanding \in Nat /\ Save!Outstanding' \in Nat /\ n \in Nat
  <2>1. IsFiniteSet(answers)
    BY DEF SaveInv, SetsAreCounted
  <2>2. Save!Outstanding \in Nat /\ n \in Nat
    BY <2>1, OutstandingIsCounted DEF SaveInv
  <2>3. Cardinality(answers') \in Nat /\ Len(commands') \in Nat
    BY FS_CardinalityType DEF SetTypes
  <2>4. Save!Outstanding' = (IF objSaving' = "idle" THEN 0 ELSE 1) + Len(commands') + Cardinality(answers')
    BY SameCardinality DEF Save!Outstanding
  <2>5. QED
    BY <2>2, <2>3, <2>4
<1>4. n > 1 /\ n > Save!Outstanding
  BY <1>3 DEF SaveInv, SetsAreCounted
<1>5. /\ opSets[1] \in Save!OpSets /\ opSets[1].ops \in Save!Ops
      /\ \A i \in DOMAIN opSets : opSets[i].uuid \in Nat
  <2>1. \A i \in DOMAIN opSets : opSets[i] \in Save!OpSets
    BY <1>1
  <2>2. \A t \in Save!OpSets : t.ops \in Save!Ops /\ t.uuid \in Nat
    BY DEF Save!OpSets
  <2>3. QED
    BY <1>2, <2>1, <2>2
<1>6. /\ serverData' \in [Keys -> Save!Values]
      /\ \A k \in Keys : serverData'[k] \in Save!AcceptedValues(opSets[1].ops) \cup {serverData[k]}
  BY <1>1, <1>2, <1>5, AppliedTypes DEF SaveInv, DataTypes
<1>7. EstimatedMeans(estimated', serverData', opSets')
  BY <1>1, <1>2, <1>6, EstimatedIs
<1>8. DataTypes'
  BY <1>6, <1>7, SaveConstantsStay DEF SaveInv, DataTypes, EstimatedMeans
<1>9. FlagTypes'
  <2>1. isNew' \in BOOLEAN /\ leaked' \in BOOLEAN
    BY <1>1 DEF SaveInv, FlagTypes
  <2>2. mixed' \in BOOLEAN
    BY <1>1, Zenon
  <2>3. QED
    BY <2>1, <2>2 DEF FlagTypes
<1>10. SetsAreCounted'
  BY <1>2, <1>3, <1>4 DEF SetsAreCounted
<1>11. SetsAreNumbered'
  <2>1. opSets'[n - 1] = opSets[n] /\ n - 1 \in DOMAIN opSets'
    BY <1>2, <1>3, <1>4
  <2>2. \A i, j \in DOMAIN opSets' : i < j => opSets'[i].uuid < opSets'[j].uuid
    <3>1. \A i \in DOMAIN opSets' : i + 1 \in DOMAIN opSets /\ opSets'[i] = opSets[i + 1]
      BY <1>2, <1>3
    <3>2. \A i, j \in DOMAIN opSets' : i < j => i + 1 < j + 1
      BY <1>2, <1>3
    <3>3. QED
      BY <3>1, <3>2 DEF SaveInv, SetsAreNumbered
  <2>3. QED
    BY <1>2, <2>1, <2>2 DEF SaveInv, SetsAreNumbered
<1>12. EstimatedMeans(estimated, serverData, opSets)'
  BY <1>7, SaveConstantsStay DEF EstimatedMeans, Untouched, Ends
<1>13. SetsAreOfTheirSaves'
  <2> SUFFICES ASSUME ~leaked', ~mixed' PROVE SetsAreOfTheirSaves'
    BY DEF SetsAreOfTheirSaves
  <2>1. ~leaked /\ ~mixed /\ opSets[1].uuid = s.uuid
    BY <1>1, <1>2
  <2>2. s.ops = opSets[1].ops
    BY <1>2, <2>1 DEF SaveInv, SetsAreOfTheirSaves
  <2>3. \A k \in Keys : serverData'[k] \in accepted'
    BY <1>6, <2>1, <2>2 DEF SaveInv, SetsAreOfTheirSaves
  <2>4. ASSUME NEW i \in 1 .. Len(opSets') - 1
        PROVE  \E t \in OutstandingSets' : t.uuid = opSets'[i].uuid
    <3>1. i + 1 \in 1 .. n - 1 /\ i \in 1 .. n - 1 /\ i + 1 > 1 /\ i + 1 \in DOMAIN opSets
      BY <1>2, <1>3, <2>4
    <3>2. PICK t \in OutstandingSets : t.uuid = opSets[i + 1].uuid
      BY <2>1, <3>1 DEF SaveInv, SetsAreOfTheirSaves, n
    <3>3. opSets[1].uuid < opSets[i + 1].uuid
      BY <1>2, <3>1 DEF SaveInv, SetsAreNumbered
    <3>4. opSets[1].uuid \in Nat /\ opSets[i + 1].uuid \in Nat
      BY <1>2, <1>5, <3>1
    <3>5. t # s
      BY <2>1, <3>2, <3>3, <3>4
    <3>6. QED
      BY <1>2, <3>1, <3>2, <3>5
  <2>5. \A t \in OutstandingSets' : \A i \in DOMAIN opSets' :
           t.uuid = opSets'[i].uuid => t.ops = opSets'[i].ops
    <3>1. \A i \in DOMAIN opSets' : i + 1 \in DOMAIN opSets /\ opSets'[i] = opSets[i + 1]
      BY <1>2, <1>3
    <3>2. QED
      BY <2>1, <3>1 DEF SaveInv, SetsAreOfTheirSaves
  <2>6. ASSUME NEW k \in Keys
        PROVE  latest'[k] \in accepted' \/
                 \E i \in DOMAIN opSets' : Ends(opSets', k, i) /\ opSets'[i].ops[k] = latest'[k]
    <3>1. CASE latest[k] \in accepted
      BY <3>1
    <3>2. ASSUME NEW i \in DOMAIN opSets, Ends(opSets, k, i), opSets[i].ops[k] = latest[k] PROVE <2>6!2
      <4>1. CASE i = 1
        BY <2>2, <3>2, <4>1 DEF Ends, Save!AcceptedValues
      <4>2. CASE i # 1
        <5>1. i - 1 \in DOMAIN opSets' /\ (i - 1) + 1 = i /\ i - 1 \in 1 .. n - 1
          BY <1>2, <1>3, <3>2, <4>2
        <5>2. QED
          BY <1>2, <3>2, <5>1
      <4>3. QED
        BY <4>1, <4>2
    <3>3. QED
      BY <2>1, <3>1, <3>2 DEF SaveInv, SetsAreOfTheirSaves
  <2>7. QED
    BY <2>3, <2>4, <2>5, <2>6 DEF SetsAreOfTheirSaves
<1>14. QED
  BY <1>8, <1>9, <1>10, <1>11, <1>12, <1>13 DEF SaveInv

LEMMA SaveResultKeeps ==
  ASSUME SaveInv, Save!HandleSaveResult
  PROVE  SaveInv'
<1>1. /\ UNCHANGED <<objSent, commands, answers, remote, written, objSaves, latest, accepted, leaked>>
      /\ objSaving = "saved" /\ objSaving' = "idle" /\ Save!MergeAfterSave(objSent)
  BY DEF Save!HandleSaveResult
<1>2. opSets' \in Seq(Save!OpSets) /\ Len(opSets') = Len(opSets) - 1
  BY <1>1, FrontSetTaken DEF SaveInv, SetTypes, Save!MergeAfterSave
<1>3. /\ Save!Outstanding \in Nat /\ Len(opSets) \in Nat
      /\ Save!Outstanding = 1 + Len(commands) + Cardinality(answers)
      /\ Save!Outstanding' = 0 + Len(commands) + Cardinality(answers)
      /\ Len(commands) \in Nat /\ Cardinality(answers) \in Nat
  <2>1. SetTypes /\ IsFiniteSet(answers)
    BY DEF SaveInv, SetsAreCounted
  <2>2. Save!Outstanding' = (IF objSaving' = "idle" THEN 0 ELSE 1) + Len(commands') + Cardinality(answers')
    BY SameCardinality DEF Save!Outstanding
  <2>3. QED
    BY <1>1, <2>1, <2>2, OutstandingIsCounted
<1>4. Save!Outstanding' = Save!Outstanding - 1
  BY <1>3
<1>5. opSets' # <<>>
  <2>1. Len(opSets) > 1
    BY <1>3 DEF SaveInv, SetsAreCounted
  <2>2. QED
    BY <1>2, <1>3, <2>1
<1>6. SetTypes'
  BY <1>1, <1>2, <1>5, SaveConstantsStay DEF SaveInv, SetTypes
<1>7. CounterTypes'
  BY <1>1, SaveConstantsStay DEF SaveInv, CounterTypes
<1>8. /\ objSent \in OutstandingSets /\ OutstandingSets' \subseteq OutstandingSets
      /\ OutstandingSets \ {objSent} \subseteq OutstandingSets'
  BY <1>1 DEF OutstandingSets
<1>9. ServerAccepts' /\ Save!AcceptedValues(objSent.ops) \subseteq accepted /\ IsFiniteSet(answers')
  BY <1>1 DEF SaveInv, ServerAccepts, SetsAreCounted, Save!AcceptedValues
<1>10. QED
  BY <1>1, <1>4, <1>6, <1>7, <1>8, <1>9, AnswerKeeps

LEMMA EventualResultKeeps ==
  ASSUME SaveInv, Save!HandleEventualResult
  PROVE  SaveInv'
<1>1. UNCHANGED <<objSaving, objSent, commands, remote, written, objSaves, latest, accepted, leaked>>
  BY DEF Save!HandleEventualResult
<1>2. PICK s \in answers : answers' = answers \ {s} /\ Save!MergeAfterSave(s)
  BY DEF Save!HandleEventualResult
<1>3. opSets' \in Seq(Save!OpSets) /\ Len(opSets') = Len(opSets) - 1
  BY <1>2, FrontSetTaken DEF SaveInv, SetTypes, Save!MergeAfterSave
<1>4. SetTypes /\ IsFiniteSet(answers)
  BY DEF SaveInv, SetsAreCounted
<1>5. IsFiniteSet(answers') /\ Cardinality(answers') = Cardinality(answers) - 1 /\ Cardinality(answers) \in Nat
  BY <1>2, <1>4, FS_RemoveElement, FS_CardinalityType
<1>6. Save!Outstanding' = Save!Outstanding - 1 /\ Save!Outstanding \in Nat /\ Len(opSets) \in Nat
  <2>1. Save!Outstanding' = (IF objSaving' = "idle" THEN 0 ELSE 1) + Len(commands') + Cardinality(answers')
    BY SameCardinality DEF Save!Outstanding
  <2>2. QED
    BY <1>1, <1>4, <1>5, <2>1, OutstandingIsCounted
<1>7. opSets' # <<>>
  <2>1. Save!Outstanding >= 1
    <3>1. Cardinality(answers') \in Nat
      BY <1>5, FS_CardinalityType
    <3>2. QED
      BY <1>4, <1>5, <3>1, OutstandingIsCounted
  <2>2. Len(opSets) > 1
    BY <1>6, <2>1 DEF SaveInv, SetsAreCounted
  <2>3. QED
    BY <1>3, <1>6, <2>2
<1>8. SetTypes'
  BY <1>1, <1>2, <1>3, <1>7, SaveConstantsStay DEF SaveInv, SetTypes
<1>9. CounterTypes'
  BY <1>1, SaveConstantsStay DEF SaveInv, CounterTypes
<1>10. /\ s \in OutstandingSets /\ OutstandingSets' \subseteq OutstandingSets
       /\ OutstandingSets \ {s} \subseteq OutstandingSets'
  BY <1>1, <1>2 DEF OutstandingSets
<1>11. ServerAccepts' /\ Save!AcceptedValues(s.ops) \subseteq accepted
  BY <1>1, <1>2 DEF SaveInv, ServerAccepts, Save!AcceptedValues
<1>12. QED
  BY <1>1, <1>2, <1>5, <1>6, <1>8, <1>9, <1>10, <1>11, AnswerKeeps

\* The failed set is merged into the next.
LEMMA SaveFailureKeeps ==
  ASSUME SaveInv, Save!HandleSaveFailure
  PROVE  SaveInv'
<1> DEFINE n == Len(opSets)
<1>1. /\ UNCHANGED <<serverData, estimated, isNew, objSent, commands, answers, remote, written, objSaves,
                    latest, accepted, leaked>>
      /\ objSaving = "failed" /\ objSaving' = "idle"
      /\ opSets' = [Tail(opSets) EXCEPT ![1] = Save!AfterFailure(@, Head(opSets))]
      /\ mixed' = (mixed \/ Head(opSets).uuid # objSent.uuid \/ n > 2)
  BY DEF Save!HandleSaveFailure
<1>2. SetTypes /\ IsFiniteSet(answers) /\ opSets \in Seq(Save!OpSets)
  BY DEF SaveInv, SetsAreCounted, SetTypes
<1>3. /\ Save!Outstanding \in Nat /\ n \in Nat /\ Save!Outstanding >= 1
      /\ Save!Outstanding' = Save!Outstanding - 1
  <2>1. Save!Outstanding' = (IF objSaving' = "idle" THEN 0 ELSE 1) + Len(commands') + Cardinality(answers')
    BY SameCardinality DEF Save!Outstanding
  <2>2. QED
    BY <1>1, <1>2, <2>1, OutstandingIsCounted
<1>4. n > 1 /\ n > Save!Outstanding
  BY <1>3 DEF SaveInv, SetsAreCounted
<1>5. /\ opSets' \in Seq(Save!OpSets) /\ Len(opSets') = n - 1
      /\ DOMAIN opSets = 1 .. n /\ DOMAIN opSets' = 1 .. n - 1
      /\ Head(opSets) = opSets[1] /\ \A i \in DOMAIN opSets' : opSets'[i].uuid = opSets[i + 1].uuid
      /\ \A k \in Keys :
           /\ Untouched(opSets', k) <=> Untouched(opSets, k)
           /\ \A i \in DOMAIN opSets : Ends(opSets, k, i) =>
                \E j \in DOMAIN opSets' : Ends(opSets', k, j) /\ opSets'[j].ops[k] = opSets[i].ops[k]
  BY <1>1, <1>2, <1>4, SetMerged
<1>6. /\ OutstandingSets' \subseteq OutstandingSets
  BY <1>1 DEF OutstandingSets
<1>7. SetTypes'
  <2>1. opSets' # <<>>
    BY <1>3, <1>4, <1>5
  <2>2. QED
    BY <1>1, <1>2, <1>5, <2>1, SaveConstantsStay DEF SetTypes
<1>8. DataTypes' /\ CounterTypes'
  BY <1>1, SaveConstantsStay DEF SaveInv, DataTypes, CounterTypes
<1>9. FlagTypes'
  <2>1. isNew' \in BOOLEAN /\ leaked' \in BOOLEAN
    BY <1>1 DEF SaveInv, FlagTypes
  <2>2. mixed' \in BOOLEAN
    BY <1>1, Zenon
  <2>3. QED
    BY <2>1, <2>2 DEF FlagTypes
<1>10. SetsAreCounted'
  BY <1>1, <1>2, <1>3, <1>4, <1>5 DEF SetsAreCounted
<1>11. SetsAreNumbered'
  <2>1. (n - 1) + 1 = n /\ n - 1 \in DOMAIN opSets' /\ opSets[n].uuid = objSaves
    BY <1>3, <1>4, <1>5 DEF SaveInv, SetsAreNumbered
  <2>2. \A i, j \in DOMAIN opSets' : i < j => opSets'[i].uuid < opSets'[j].uuid
    <3>1. \A i \in DOMAIN opSets' : i + 1 \in DOMAIN opSets
      BY <1>3, <1>5
    <3>2. \A i, j \in DOMAIN opSets' : i < j => i + 1 < j + 1
      BY <1>3, <1>5
    <3>3. QED
      BY <1>5, <3>1, <3>2 DEF SaveInv, SetsAreNumbered
  <2>3. \A s \in OutstandingSets' : s.uuid < objSaves'
    BY <1>1, <1>6 DEF SaveInv, SetsAreNumbered
  <2>4. QED
    BY <1>1, <1>5, <2>1, <2>2, <2>3 DEF SetsAreNumbered
<1>12. ServerAccepts'
  BY <1>1 DEF SaveInv, ServerAccepts, Save!AcceptedValues
<1>13. EstimatedMeans(estimated, serverData, opSets)'
  <2>1. ASSUME NEW k \in Keys, NEW j \in DOMAIN opSets', Ends(opSets', k, j)
        PROVE  estimated[k] = opSets'[j].ops[k]
    <3>1. ~Untouched(opSets, k)
      BY <1>5, <2>1 DEF Ends, Untouched
    <3>2. PICK i \in DOMAIN opSets : Ends(opSets, k, i)
      BY <1>2, <3>1, EndsExist
    <3>3. PICK m \in DOMAIN opSets' : Ends(opSets', k, m) /\ opSets'[m].ops[k] = opSets[i].ops[k]
      BY <1>5, <3>2
    <3>4. m = j
      <4>1. m \in Int /\ j \in Int /\ ~(m > j) /\ ~(j > m)
        BY <1>5, <2>1, <3>3 DEF Ends
      <4>2. QED
        BY <4>1
    <3>5. QED
      BY <3>2, <3>3, <3>4 DEF SaveInv, EstimatedMeans
  <2>2. \A k \in Keys : Untouched(opSets', k) => estimated[k] = serverData[k]
    BY <1>5 DEF SaveInv, EstimatedMeans
  <2>3. QED
    BY <1>1, <2>1, <2>2, SaveConstantsStay DEF SaveInv, EstimatedMeans
<1>14. SetsAreOfTheirSaves'
  <2> SUFFICES ASSUME ~leaked', ~mixed' PROVE SetsAreOfTheirSaves'
    BY DEF SetsAreOfTheirSaves
  <2>1. ~leaked /\ ~mixed /\ n = 2
    <3>1. ~leaked /\ ~mixed /\ ~(n > 2)
      BY <1>1, Zenon
    <3>2. \A x \in Nat : x > 1 /\ ~(x > 2) => x = 2
      OBVIOUS
    <3>3. n \in Nat /\ n > 1
      BY <1>3, <1>4
    <3>4. QED
      BY <3>1, <3>2, <3>3, Zenon
  <2>2. Len(opSets') = 1 /\ DOMAIN opSets' = {1} /\ opSets'[1].uuid = objSaves
    <3>1. Len(opSets') = 1 /\ DOMAIN opSets' = {1} /\ opSets[2].uuid = objSaves
      BY <1>5, <2>1 DEF SaveInv, SetsAreNumbered
    <3>2. opSets'[1].uuid = opSets[1 + 1].uuid
      BY <1>5, <3>1
    <3>3. QED
      BY <3>1, <3>2
  <2>3. \A s \in OutstandingSets' : \A i \in DOMAIN opSets' : s.uuid # opSets'[i].uuid
    <3>1. \A s \in OutstandingSets' : s.uuid < objSaves
      BY <1>1, <1>11 DEF SetsAreNumbered
    <3>2. \A s \in OutstandingSets' : s.uuid \in Nat
      BY <1>2, <1>6, OutstandingSetsAre DEF Save!OpSets
    <3>3. objSaves \in Nat
      BY DEF SaveInv, CounterTypes
    <3>4. QED
      BY <2>2, <3>1, <3>2, <3>3
  <2>4. \A k \in Keys : serverData'[k] \in accepted'
    BY <1>1, <2>1 DEF SaveInv, SetsAreOfTheirSaves
  <2>5. \A k \in Keys : latest'[k] \in accepted' \/
           \E i \in DOMAIN opSets' : Ends(opSets', k, i) /\ opSets'[i].ops[k] = latest'[k]
    <3>1. \A k \in Keys : latest[k] \in accepted \/
             \E i \in DOMAIN opSets : Ends(opSets, k, i) /\ opSets[i].ops[k] = latest[k]
      BY <2>1 DEF SaveInv, SetsAreOfTheirSaves
    <3>2. ASSUME NEW k \in Keys, NEW i \in DOMAIN opSets, Ends(opSets, k, i), opSets[i].ops[k] = latest[k]
          PROVE  \E j \in DOMAIN opSets' : Ends(opSets', k, j) /\ opSets'[j].ops[k] = latest[k]
      <4>1. PICK j \in DOMAIN opSets' : Ends(opSets', k, j) /\ opSets'[j].ops[k] = opSets[i].ops[k]
        BY <1>5, <3>2, Zenon
      <4>2. QED
        BY <3>2, <4>1, Zenon
    <3>3. latest' = latest /\ accepted' = accepted
      BY <1>1
    <3>4. QED
      BY <3>1, <3>2, <3>3, Zenon
  <2>6. QED
    BY <2>2, <2>3, <2>4, <2>5 DEF SetsAreOfTheirSaves
<1>15. QED
  BY <1>7, <1>8, <1>9, <1>10, <1>11, <1>12, <1>13, <1>14 DEF SaveInv

LEMMA SaveInvStep == SaveInv /\ [Save!Next]_(Save!vars) => SaveInv'
<1> SUFFICES ASSUME SaveInv, [Save!Next]_(Save!vars) PROVE SaveInv'
  OBVIOUS
<1>1. ASSUME NEW k \in Keys, Save!SetKey(k) PROVE SaveInv'
  BY <1>1, SetKeyKeeps
<1>2. CASE Save!Revert
  BY <1>2, RevertKeeps
<1>3. CASE Save!BeginSave \/ Save!SaveChildrenOnly \/ Save!CollectChildrenRaises \/ Save!SaveEventually
  BY <1>3, SavesStart
<1>4. CASE Save!SendSave \/ Save!RejectSave
  BY <1>4, SendKeeps
<1>5. CASE Save!ExecuteSave
  BY <1>5, ExecuteKeeps
<1>6. CASE Save!HandleSaveResult
  BY <1>6, SaveResultKeeps
<1>7. CASE Save!HandleSaveFailure
  BY <1>7, SaveFailureKeeps
<1>8. CASE Save!Fetch
  BY <1>8, FetchKeeps
<1>9. CASE Save!RunCommand \/ Save!CommandFails
  BY <1>9, CommandsKeep
<1>10. CASE Save!HandleEventualResult
  BY <1>10, EventualResultKeeps
<1>11. CASE UNCHANGED Save!vars
  <2>1. SetTypes' /\ DataTypes' /\ CounterTypes' /\ FlagTypes'
    BY <1>11, SaveConstantsStay DEF Save!vars, SaveInv, SetTypes, DataTypes, CounterTypes, FlagTypes
  <2>2. OutstandingSets' = OutstandingSets /\ Save!Outstanding' = Save!Outstanding
    BY <1>11 DEF Save!vars, OutstandingSets, Save!Outstanding
  <2>3. SetsAreCounted' /\ SetsAreNumbered'
    BY <1>11, <2>2 DEF Save!vars, SaveInv, SetsAreCounted, SetsAreNumbered
  <2>4. ServerAccepts'
    BY <1>11 DEF Save!vars, SaveInv, ServerAccepts, Save!AcceptedValues
  <2>5. EstimatedMeans(estimated, serverData, opSets)'
    BY <1>11, SaveConstantsStay DEF Save!vars, SaveInv, EstimatedMeans, Ends, Untouched
  <2>6. SetsAreOfTheirSaves'
    BY <1>11, <2>2 DEF Save!vars, SaveInv, SetsAreOfTheirSaves, Ends
  <2>7. QED
    BY <2>1, <2>3, <2>4, <2>5, <2>6 DEF SaveInv
<1>12. QED
  BY <1>1, <1>2, <1>3, <1>4, <1>5, <1>6, <1>7, <1>8, <1>9, <1>10, <1>11 DEF Save!Next

LEMMA SaveInvAlways == AllSpec => []SaveInv
<1>1. AllInit => SaveInv
  BY SaveInvInit DEF AllInit
<1>2. [AllNext]_allVars => [Save!Next]_(Save!vars)
  BY DEF AllNext, allVars, saveVars, Save!vars
<1>3. QED
  BY <1>1, <1>2, SaveInvStep, PTL DEF AllSpec

\* What an application reads of an object is what the server data and the queue
\* of operation sets make of it, after every interleaving of changes, saves of
\* both kinds, their answers in any order, fetches and reverts (PFObject).
THEOREM EstimatedDataIsCurrent == AllSpec => []EstimatedIsCurrent
<1>1. SaveInv => EstimatedIsCurrent
  BY EstimatedIs DEF SaveInv, SetTypes, DataTypes, EstimatedIsCurrent, Save!EstimatedIsCurrent
<1>2. QED
  BY <1>1, SaveInvAlways, PTL

\* With no save under way, what the application gave a field is accepted by the
\* server or part of the next save, if every save that ended took its own set off
\* the queue (PFObject _mergeAfterSaveWithResult:, _handleSaveResultAsync:).
THEOREM ChangesAreNotLost == AllSpec => []NoChangeLost
<1>1. SaveInv => NoChangeLost
  <2> SUFFICES ASSUME SaveInv, Save!Quiet, ~leaked, ~mixed, NEW k \in Keys
               PROVE  latest[k] \in accepted \/ Save!Unsaved.ops[k] = latest[k]
    BY DEF NoChangeLost, Save!NoChangeLost
  <2>1. SetTypes /\ IsFiniteSet(answers) /\ opSets \in Seq(Save!OpSets) /\ opSets # <<>>
    BY DEF SaveInv, SetsAreCounted, SetTypes
  <2>2. objSaving = "idle" /\ Len(commands) = 0 /\ Cardinality(answers) = 0
    <3>1. (IF objSaving = "idle" THEN 0 ELSE 1) + Len(commands) + Cardinality(answers) = 0
      BY <2>1, OutstandingIsCounted DEF Save!Quiet
    <3>2. QED
      BY <2>1, <3>1, OutstandingIsCounted
  <2>3. answers = {} /\ DOMAIN commands = {}
    BY <2>1, <2>2, FS_EmptySet DEF SetTypes
  <2>4. OutstandingSets = {}
    BY <2>2, <2>3 DEF OutstandingSets
  <2>5. Len(opSets) = 1 /\ DOMAIN opSets = {1} /\ Save!Unsaved = opSets[1]
    <3>1. Len(opSets) \in Nat /\ Len(opSets) > 0
      BY <2>1
    <3>2. ~(1 \in 1 .. Len(opSets) - 1)
      BY <2>4 DEF SaveInv, SetsAreOfTheirSaves
    <3>3. \A x \in Nat : x > 0 /\ 1 \notin 1 .. x - 1 => x = 1
      OBVIOUS
    <3>4. Len(opSets) = 1
      BY <3>1, <3>2, <3>3, Zenon
    <3>5. QED
      BY <2>1, <3>4 DEF Save!Unsaved, Save!Last
  <2>6. QED
    BY <2>5 DEF SaveInv, SetsAreOfTheirSaves
<1>2. QED
  BY <1>1, SaveInvAlways, PTL
-----------------------------------------------------------------------------
\* Saves of new objects that are stored while there is no network.

\* A local id is resolved, or is about to be.
Resolved(l) == cache[l] # NoId \/ (step = "sent" /\ Head(files).local = l)

\* Every object at the server was made while its local id was not resolved, and
\* only a lost answer or a death leaves it unresolved.
ObjectsAreCounted ==
  \A l \in LocalIds :
    /\ IsFiniteSet(created[l])
    /\ Cardinality(created[l]) <= crashes + lost + (IF Resolved(l) THEN 1 ELSE 0)

\* While a command is being answered it is at the head, and the answer is an id.
AnswersAreIds ==
  /\ step # "idle" => files # <<>> /\ answer \in ObjectIds
  /\ saves >= Len(files)

OfflineInv == OffTypeOK /\ AnswersAreIds /\ ObjectsAreCounted

LEMMA OfflineInit == OffInit => OfflineInv
<1> SUFFICES ASSUME OffInit PROVE OfflineInv
  OBVIOUS
<1>1. OffTypeOK
  BY SaveAssumption, UserAssumption, OfflineAssumption, LocalIdAssumption
     DEF OffInit, Init, OffTypeOK, TypeOK, Entries, NoEntry, SaveAssumption, UserAssumption,
         OfflineAssumption, LocalIdAssumption, Commands
<1>2. AnswersAreIds
  BY DEF OffInit, AnswersAreIds
<1>3. ObjectsAreCounted
  <2> SUFFICES ASSUME NEW l \in LocalIds
               PROVE  /\ IsFiniteSet(created[l])
                      /\ Cardinality(created[l]) <= crashes + lost + (IF Resolved(l) THEN 1 ELSE 0)
    BY DEF ObjectsAreCounted
  <2>1. created[l] = {} /\ crashes = 0 /\ lost = 0
    BY DEF OffInit
  <2>2. IsFiniteSet({}) /\ Cardinality({}) = 0
    BY FS_EmptySet
  <2> HIDE DEF Resolved
  <2>3. QED
    BY <2>1, <2>2
<1>4. QED
  BY <1>1, <1>2, <1>3 DEF OfflineInv

LEMMA HeadCommand ==
  ASSUME OffTypeOK, files # <<>>
  PROVE  /\ Head(files).local \in LocalIds /\ Head(files).target \in ObjectIds \union {NoId}
         /\ Tail(files) \in Seq(Commands) /\ Len(Tail(files)) = Len(files) - 1
<1>1. files \in Seq(Commands)
  BY DEF OffTypeOK
<1>2. Head(files) \in Commands /\ Tail(files) \in Seq(Commands) /\ Len(Tail(files)) = Len(files) - 1
  BY <1>1
<1>3. QED
  BY <1>2 DEF Commands

LEMMA KeepsTypes ==
  ASSUME TypeOK, NEW o \in ObjectIds, NEW l \in LocalIds, SetObjectId(o, l)
  PROVE  TypeOK' /\ cache' = [cache EXCEPT ![l] = o]
BY DEF SetObjectId, TypeOK, Entries

\* The server makes one object more for the local id of the head.
LEMMA MakesOne ==
  ASSUME OfflineInv, files # <<>>, NEW o \in ObjectIds,
         created' = [created EXCEPT ![Head(files).local] = @ \union {o}],
         o \notin UNION {created[l] : l \in LocalIds}
  PROVE  /\ created' \in [LocalIds -> SUBSET ObjectIds]
         /\ \A l \in LocalIds :
              /\ IsFiniteSet(created'[l])
              /\ Cardinality(created'[l]) =
                   Cardinality(created[l]) + (IF l = Head(files).local THEN 1 ELSE 0)
              /\ Cardinality(created[l]) \in Nat
<1>1. Head(files).local \in LocalIds /\ created \in [LocalIds -> SUBSET ObjectIds]
  BY HeadCommand DEF OfflineInv, OffTypeOK
<1>2. ASSUME NEW l \in LocalIds
      PROVE  /\ IsFiniteSet(created[l]) /\ Cardinality(created[l]) \in Nat
             /\ IsFiniteSet(created[l] \union {o})
             /\ Cardinality(created[l] \union {o}) = Cardinality(created[l]) + 1
  <2>1. IsFiniteSet(created[l]) /\ o \notin created[l]
    BY DEF OfflineInv, ObjectsAreCounted
  <2>2. QED
    BY <2>1, FS_AddElement, FS_CardinalityType
<1>3. \A l \in LocalIds :
        created'[l] = IF l = Head(files).local THEN created[l] \union {o} ELSE created[l]
  BY <1>1
<1>4. created' \in [LocalIds -> SUBSET ObjectIds]
  BY <1>1
<1>5. ASSUME NEW l \in LocalIds
      PROVE  /\ IsFiniteSet(created'[l])
             /\ Cardinality(created'[l]) =
                  Cardinality(created[l]) + (IF l = Head(files).local THEN 1 ELSE 0)
             /\ Cardinality(created[l]) \in Nat
  <2> DEFINE h == Head(files).local
  <2>1. CASE l = h
    <3>1. created'[l] = created[l] \union {o}
      BY <1>3, <2>1
    <3>2. QED
      BY <1>2, <2>1, <3>1
  <2>2. CASE l # h
    <3>1. created'[l] = created[l] /\ IsFiniteSet(created[l])
      BY <1>3, <2>2 DEF OfflineInv, ObjectsAreCounted
    <3>2. /\ IsFiniteSet(created'[l]) /\ Cardinality(created'[l]) = Cardinality(created[l])
          /\ Cardinality(created[l]) \in Nat
      BY <1>2, <3>1, Zenon
    <3>3. QED
      BY <2>2, <3>2
  <2>3. QED
    BY <2>1, <2>2
<1>6. QED
  BY <1>4, <1>5

LEMMA OfflineStep == OfflineInv /\ [OffNext]_offVars => OfflineInv'
<1> SUFFICES ASSUME OfflineInv, [OffNext]_offVars PROVE OfflineInv'
  OBVIOUS
<1>t. /\ OffTypeOK /\ AnswersAreIds /\ TypeOK /\ ObjectsAreCounted
      /\ saves \in Nat /\ crashes \in Nat /\ lost \in Nat
      /\ MaxSaves \in Nat /\ MaxCrashes \in Nat /\ MaxLost \in Nat /\ NoId \notin ObjectIds
      /\ files \in Seq(Commands) /\ Len(files) \in Nat
      /\ cache \in [LocalIds -> ObjectIds \union {NoId}]
  BY SaveAssumption, UserAssumption, OfflineAssumption, LocalIdAssumption
     DEF OfflineInv, OffTypeOK, TypeOK, SaveAssumption, UserAssumption, OfflineAssumption,
         LocalIdAssumption
<1>n. \A l \in LocalIds : Cardinality(created[l]) \in Nat
  BY <1>t, FS_CardinalityType DEF ObjectsAreCounted
\* What a step leaves resolved, or counts as lost, it may have made.
<1>r. ASSUME UNCHANGED <<created, lost, crashes>>,
             \A l \in LocalIds : Resolved(l) => Resolved(l)'
      PROVE  ObjectsAreCounted'
  <2> SUFFICES ASSUME NEW l \in LocalIds
               PROVE  /\ IsFiniteSet(created[l])
                      /\ Cardinality(created[l]) <= crashes + lost + (IF Resolved(l)' THEN 1 ELSE 0)
    BY <1>r DEF ObjectsAreCounted
  <2>1. /\ IsFiniteSet(created[l]) /\ Cardinality(created[l]) \in Nat
        /\ Cardinality(created[l]) <= crashes + lost + (IF Resolved(l) THEN 1 ELSE 0)
        /\ Resolved(l) => Resolved(l)'
    BY <1>t, <1>n, <1>r DEF ObjectsAreCounted
  <2>2. QED
    BY <1>t, <2>1
<1>1. ASSUME NEW l \in LocalIds, SaveEventually(l) PROVE OfflineInv'
  <2> DEFINE c == [local |-> l, target |-> objectId[l]]
  <2>1. /\ c \in Commands /\ files' = Append(files, c) /\ saves' = saves + 1 /\ saves < MaxSaves
        /\ UNCHANGED <<file, cache, alive, objectId, step, answer, results, crashes, lost, created>>
    BY <1>1, <1>t DEF SaveEventually, OffTypeOK, Commands, vars
  <2> HIDE DEF c
  <2>2. /\ files' \in Seq(Commands) /\ Len(files') = Len(files) + 1
        /\ files # <<>> => Head(files') = Head(files)
        /\ files' # <<>>
    BY <1>t, <2>1
  <2>3. OffTypeOK'
    <3>1. Len(files') <= MaxSaves
      BY <1>t, <2>1, <2>2 DEF AnswersAreIds
    <3>2. QED
      BY <1>t, <2>1, <2>2, <3>1 DEF OffTypeOK, TypeOK, Entries, Commands
  <2>4. AnswersAreIds'
    BY <1>t, <2>1, <2>2 DEF AnswersAreIds
  <2>5. ObjectsAreCounted'
    BY <1>r, <1>t, <2>1, <2>2 DEF Resolved, AnswersAreIds
  <2>6. QED
    BY <2>3, <2>4, <2>5 DEF OfflineInv
<1>2. CASE Send
  <2>1. CASE IsCreate
    <3>1. PICK o \in ObjectIds \ UNION {created[l] : l \in LocalIds} :
            /\ answer' = o
            /\ created' = [created EXCEPT ![Head(files).local] = @ \union {o}]
            /\ step' = "sent"
      BY <1>2, <2>1 DEF Send
    <3>2. /\ step = "idle" /\ files # <<>>
          /\ UNCHANGED <<file, cache, alive, objectId, files, results, saves, crashes, lost>>
      BY <1>2 DEF Send, vars
    <3>3. /\ created' \in [LocalIds -> SUBSET ObjectIds]
          /\ \A l \in LocalIds :
               /\ IsFiniteSet(created'[l])
               /\ Cardinality(created'[l]) =
                    Cardinality(created[l]) + (IF l = Head(files).local THEN 1 ELSE 0)
      BY <3>1, <3>2, MakesOne
    <3>4. OffTypeOK'
      BY <1>t, <3>1, <3>2, <3>3 DEF OffTypeOK, TypeOK, Entries, Commands
    <3>5. AnswersAreIds'
      BY <1>t, <3>1, <3>2 DEF AnswersAreIds
    <3>6. cache[Head(files).local] = NoId
      BY <1>t, <2>1, <3>2, HeadCommand DEF IsCreate, Target, ObjectIdForLocalId
    <3>7. ASSUME NEW l \in LocalIds
          PROVE  Cardinality(created'[l]) <= crashes' + lost' + (IF Resolved(l)' THEN 1 ELSE 0)
      <4>1. CASE l = Head(files).local
        <5>1. ~Resolved(l) /\ Resolved(l)'
          BY <3>1, <3>2, <3>6, <4>1 DEF Resolved
        <5>2. QED
          BY <1>t, <1>n, <3>2, <3>3, <4>1, <5>1 DEF ObjectsAreCounted
      <4>2. CASE l # Head(files).local
        <5>1. Resolved(l) <=> Resolved(l)'
          BY <3>1, <3>2, <4>2 DEF Resolved
        <5>2. QED
          BY <1>t, <1>n, <3>2, <3>3, <4>2, <5>1 DEF ObjectsAreCounted
      <4>3. QED
        BY <4>1, <4>2
    <3>8. ObjectsAreCounted'
      BY <3>3, <3>7 DEF ObjectsAreCounted
    <3>9. QED
      BY <3>4, <3>5, <3>8 DEF OfflineInv
  <2>2. CASE ~IsCreate
    <3>1. /\ step = "idle" /\ files # <<>> /\ answer' = Target /\ step' = "mapped"
          /\ UNCHANGED <<file, cache, alive, objectId, files, results, saves, crashes, lost, created>>
      BY <1>2, <2>2 DEF Send, vars
    <3>2. Target \in ObjectIds
      <4>1. /\ Head(files).local \in LocalIds /\ Head(files).target \in ObjectIds \union {NoId}
        BY <1>t, <3>1, HeadCommand
      <4>2. ObjectIdForLocalId(Head(files).local) \in ObjectIds \union {NoId}
        BY <1>t, <4>1 DEF ObjectIdForLocalId, MapEntry, TypeOK, Entries
      <4>3. QED
        BY <2>2, <4>1, <4>2 DEF IsCreate, Target
    <3>3. OffTypeOK'
      BY <1>t, <3>1, <3>2 DEF OffTypeOK, TypeOK, Entries, Commands
    <3>4. AnswersAreIds'
      BY <1>t, <3>1, <3>2 DEF AnswersAreIds
    <3>5. ObjectsAreCounted'
      BY <1>r, <3>1 DEF Resolved
    <3>6. QED
      BY <3>3, <3>4, <3>5 DEF OfflineInv
  <2>3. QED
    BY <2>1, <2>2
<1>3. CASE LoseAnswer
  <2>1. /\ step = "idle" /\ files # <<>> /\ lost < MaxLost /\ lost' = lost + 1
        /\ UNCHANGED <<file, cache, alive, objectId, files, step, answer, results, saves, crashes>>
    BY <1>3 DEF LoseAnswer, vars
  <2>2. /\ created' \in [LocalIds -> SUBSET ObjectIds]
        /\ \A l \in LocalIds : /\ IsFiniteSet(created'[l])
                               /\ Cardinality(created'[l]) <= Cardinality(created[l]) + 1
                               /\ Cardinality(created'[l]) \in Nat
    <3>1. CASE IsCreate
      <4>1. PICK o \in ObjectIds \ UNION {created[l] : l \in LocalIds} :
              created' = [created EXCEPT ![Head(files).local] = @ \union {o}]
        BY <1>3, <3>1 DEF LoseAnswer
      <4>2. /\ created' \in [LocalIds -> SUBSET ObjectIds]
            /\ \A l \in LocalIds :
                 /\ IsFiniteSet(created'[l])
                 /\ Cardinality(created'[l]) =
                      Cardinality(created[l]) + (IF l = Head(files).local THEN 1 ELSE 0)
        BY <2>1, <4>1, MakesOne
      <4>3. QED
        BY <1>n, <4>2
    <3>2. CASE ~IsCreate
      BY <1>3, <1>t, <1>n, <3>2 DEF LoseAnswer, OffTypeOK, ObjectsAreCounted
    <3>3. QED
      BY <3>1, <3>2
  <2>3. OffTypeOK'
    BY <1>t, <2>1, <2>2 DEF OffTypeOK, TypeOK, Entries, Commands
  <2>4. AnswersAreIds'
    BY <1>t, <2>1 DEF AnswersAreIds
  <2>5. ASSUME NEW l \in LocalIds
        PROVE  /\ IsFiniteSet(created'[l])
               /\ Cardinality(created'[l]) <= crashes' + lost' + (IF Resolved(l)' THEN 1 ELSE 0)
    <3>1. Resolved(l) <=> Resolved(l)'
      BY <2>1 DEF Resolved
    <3>2. QED
      BY <1>t, <1>n, <2>1, <2>2, <3>1 DEF ObjectsAreCounted
  <2>6. QED
    BY <2>3, <2>4, <2>5 DEF OfflineInv, ObjectsAreCounted
<1>4. CASE FailHead
  <2>1. /\ step = "idle" /\ files # <<>> /\ files' = Tail(files)
        /\ UNCHANGED <<file, cache, alive, objectId, step, answer, results, saves, crashes, lost, created>>
    BY <1>4 DEF FailHead, vars
  <2>2. files' \in Seq(Commands) /\ Len(files') = Len(files) - 1
    BY <1>t, <2>1, HeadCommand
  <2>3. OffTypeOK'
    BY <1>t, <2>1, <2>2 DEF OffTypeOK, TypeOK, Entries, Commands
  <2>4. AnswersAreIds'
    BY <1>t, <2>1, <2>2 DEF AnswersAreIds
  <2>5. ObjectsAreCounted'
    BY <1>r, <2>1 DEF Resolved
  <2>6. QED
    BY <2>3, <2>4, <2>5 DEF OfflineInv
<1>5. CASE MapLocalId
  <2>1. /\ step = "sent" /\ step' = "mapped" /\ SetObjectId(answer, Head(files).local)
        /\ UNCHANGED <<alive, objectId, files, answer, results, saves, crashes, lost, created>>
    BY <1>5 DEF MapLocalId
  <2>2. answer \in ObjectIds /\ Head(files).local \in LocalIds
    BY <1>t, <2>1, HeadCommand DEF AnswersAreIds
  <2>3. TypeOK' /\ cache' = [cache EXCEPT ![Head(files).local] = answer]
    BY <1>t, <2>1, <2>2, KeepsTypes
  <2>4. OffTypeOK'
    BY <1>t, <2>1, <2>3 DEF OffTypeOK, Commands
  <2>5. AnswersAreIds'
    BY <1>t, <2>1 DEF AnswersAreIds
  <2>6. \A l \in LocalIds : Resolved(l) => Resolved(l)'
    BY <1>t, <2>1, <2>2, <2>3 DEF Resolved
  <2>7. QED
    BY <1>r, <2>1, <2>4, <2>5, <2>6 DEF OfflineInv
<1>6. CASE RemoveFile
  <2>1. /\ step = "mapped" /\ step' = "idle" /\ answer' = NoId /\ files' = Tail(files)
        /\ results' = IF Head(files).local \in alive
                      THEN results \union {<<Head(files).local, answer>>} ELSE results
        /\ UNCHANGED <<file, cache, alive, objectId, saves, crashes, lost, created>>
    BY <1>6 DEF RemoveFile, vars
  <2>2. /\ files' \in Seq(Commands) /\ Len(files') = Len(files) - 1
        /\ Head(files).local \in LocalIds /\ answer \in ObjectIds
    BY <1>t, <2>1, HeadCommand DEF AnswersAreIds
  <2>3. results' \subseteq (LocalIds \X ObjectIds)
    BY <1>t, <2>1, <2>2 DEF OffTypeOK
  <2>4. OffTypeOK'
    BY <1>t, <2>1, <2>2, <2>3 DEF OffTypeOK, TypeOK, Entries, Commands
  <2>5. AnswersAreIds'
    BY <1>t, <2>1, <2>2 DEF AnswersAreIds
  <2>6. ObjectsAreCounted'
    BY <1>r, <2>1 DEF Resolved
  <2>7. QED
    BY <2>4, <2>5, <2>6 DEF OfflineInv
<1>7. CASE HandleSaveResult
  <2>1. PICK r \in results :
          /\ results' = results \ {r}
          /\ IF objectId[r[1]] = NoId
               THEN objectId' = [objectId EXCEPT ![r[1]] = r[2]] /\ SetObjectId(r[2], r[1])
               ELSE UNCHANGED <<objectId, vars>>
    BY <1>7 DEF HandleSaveResult
  <2>2. UNCHANGED <<alive, files, step, answer, saves, crashes, lost, created>>
    BY <1>7 DEF HandleSaveResult
  <2>3. r[1] \in LocalIds /\ r[2] \in ObjectIds
    BY <1>t, <2>1 DEF OffTypeOK
  <2>4. /\ TypeOK' /\ objectId' \in [LocalIds -> ObjectIds \union {NoId}]
        /\ cache' = cache \/ cache' = [cache EXCEPT ![r[1]] = r[2]]
    <3>1. CASE objectId[r[1]] = NoId
      BY <1>t, <2>1, <2>3, <3>1, KeepsTypes DEF OffTypeOK
    <3>2. CASE objectId[r[1]] # NoId
      BY <1>t, <2>1, <3>2 DEF OffTypeOK, vars, TypeOK, Entries
    <3>3. QED
      BY <3>1, <3>2
  <2>5. OffTypeOK'
    BY <1>t, <2>1, <2>2, <2>4 DEF OffTypeOK, Commands
  <2>6. AnswersAreIds'
    BY <1>t, <2>2 DEF AnswersAreIds
  <2>7. \A l \in LocalIds : Resolved(l) => Resolved(l)'
    BY <1>t, <2>2, <2>3, <2>4 DEF Resolved
  <2>8. QED
    BY <1>r, <2>2, <2>5, <2>6, <2>7 DEF OfflineInv
<1>8. CASE Crash
  <2>1. /\ crashes < MaxCrashes /\ crashes' = crashes + 1
        /\ cache' = [l \in LocalIds |-> NoId]
        /\ alive' = {} /\ results' = {} /\ step' = "idle" /\ answer' = NoId
        /\ objectId' = [l \in LocalIds |-> NoId]
        /\ UNCHANGED <<file, files, saves, lost, created>>
    BY <1>8 DEF Crash, ForgetMemory
  <2>2. OffTypeOK'
    BY <1>t, <2>1 DEF OffTypeOK, TypeOK, Entries, Commands
  <2>3. AnswersAreIds'
    BY <1>t, <2>1 DEF AnswersAreIds
  <2>4. ObjectsAreCounted'
    BY SMTT(30), <1>t, <1>n, <2>1 DEF ObjectsAreCounted
  <2>5. QED
    BY <2>2, <2>3, <2>4 DEF OfflineInv
<1>9. CASE UNCHANGED offVars
  <2>1. OffTypeOK' /\ AnswersAreIds'
    BY <1>9, <1>t DEF offVars, vars, OffTypeOK, TypeOK, Entries, Commands, AnswersAreIds
  <2>2. ObjectsAreCounted'
    BY <1>9, <1>r DEF offVars, vars, Resolved
  <2>3. QED
    BY <2>1, <2>2 DEF OfflineInv
<1>10. QED
  BY <1>1, <1>2, <1>3, <1>4, <1>5, <1>6, <1>7, <1>8, <1>9 DEF OffNext

LEMMA OfflineInvAlways == AllSpec => []OfflineInv
<1>1. AllInit => OfflineInv
  BY OfflineInit DEF AllInit
<1>2. [AllNext]_allVars => [OffNext]_offVars
  BY DEF AllNext, allVars
<1>3. QED
  BY <1>1, <1>2, OfflineStep, PTL DEF AllSpec

\* However many saves of a new object are stored before the first is sent, and
\* however late its answer reaches the object, the server makes one object for
\* it, and one more at most for each answer that was lost and each death of the
\* process (PFCommandCache, PFObjectLocalIdStore, maybeChangeServerOperation).
THEOREM OneObjectIsMade == AllSpec => []OneObjectPerLocalId
<1>1. ASSUME OfflineInv PROVE OneObjectPerLocalId
  <2> SUFFICES ASSUME NEW l \in LocalIds PROVE Cardinality(created[l]) <= 1 + crashes + lost
    BY DEF OneObjectPerLocalId
  <2>1. /\ IsFiniteSet(created[l]) /\ crashes \in Nat /\ lost \in Nat
        /\ Cardinality(created[l]) <= crashes + lost + (IF Resolved(l) THEN 1 ELSE 0)
    BY <1>1 DEF OfflineInv, OffTypeOK, ObjectsAreCounted
  <2>2. QED
    BY <2>1, FS_CardinalityType
<1>2. QED
  BY <1>1, OfflineInvAlways, PTL

-----------------------------------------------------------------------------
\* Types.

LEMMA FieldInvAlways == AllSpec => []FieldInv
<1>1. AllInit => FieldInv
  BY FieldInitially DEF AllInit
<1>2. [AllNext]_allVars => [FieldNext]_fieldVars
  BY DEF AllNext, allVars
<1>3. QED
  BY <1>1, <1>2, FieldStep, PTL DEF AllSpec

LEMMA ComponentAlways == AllSpec => [](component \in Components)
<1>1. AllInit => component \in Components
  BY DEF AllInit
<1>2. component \in Components /\ [AllNext]_allVars => (component \in Components)'
  BY DEF AllNext, allVars, Components
<1>3. QED
  BY <1>1, <1>2, PTL DEF AllSpec

LEMMA StoreInvAlways == AllSpec => []ClosedInv
<1>1. AllInit => ClosedInv
  BY ClosedInvInit DEF AllInit
<1>2. [AllNext]_allVars => [StoreNext]_storeVars
  BY DEF AllNext, allVars
<1>3. QED
  BY <1>1, <1>2, ClosedInvStays, PTL DEF AllSpec

\* Every reachable state of the seven components has its type: no count of saves,
\* attempts, chunks, failures or deaths leaves its range, every row is that of an
\* object or a pin, and no call or answer is taken for another (PFObject,
\* PFCurrentUserController, PFURLSessionCommandRunner, PFFileController,
\* PFCommandCache, PFOfflineStore).
THEOREM ObjectsTypesCorrect == AllSpec => []ObjectsTypeOK
<1>1. SaveInv => Save!TypeOK
  BY DEF SaveInv, SetTypes, DataTypes, CounterTypes, FlagTypes, Save!TypeOK
<1>2. TransferInv => Transfer!TypeOK
  BY TransferTypes DEF TransferInv
<1>3. UserInv => User!TypeOK
  BY UserInvImplies
<1>4. RunInv => Runner!TypeOK
  BY DEF RunInv
<1>5. FieldInv => FieldTypeOK
  BY DEF FieldInv
<1>6. OfflineInv => OffTypeOK
  BY DEF OfflineInv
<1>7. ClosedInv => StoreTypeOK
  BY DEF ClosedInv
<1>8. /\ component \in Components /\ OffTypeOK /\ FieldTypeOK /\ Save!TypeOK /\ StoreTypeOK
      /\ User!TypeOK /\ Runner!TypeOK /\ Transfer!TypeOK
      => ObjectsTypeOK
  BY DEF ObjectsTypeOK
<1>9. QED
  BY <1>1, <1>2, <1>3, <1>4, <1>5, <1>6, <1>7, <1>8, SaveInvAlways, TransferInvAlways, UserAlone,
     UserInvAlways, RunInvAlways, FieldInvAlways, OfflineInvAlways, StoreInvAlways, ComponentAlways,
     PTL
=============================================================================
