---------------------------- MODULE CurrentUser ----------------------------
(***************************************************************************)
(* PFCurrentUserController and the calls PFUser makes of it.  The user who *)
(* is logged in is kept in memory, in the keychain (the credentials) and   *)
(* on disk: in a file, or pinned in the local datastore, depending on the  *)
(* storage.  Reads, saves and log outs of the current user run one at a    *)
(* time on a task queue, in several steps between which the process may    *)
(* die; the users themselves are used by anybody in the meantime.          *)
(*                                                                         *)
(* A user here is an instance: with the file storage two instances may     *)
(* stand for one account, with the datastore there is one for each.  A     *)
(* lazy user is one of its own who is not on the server yet.               *)
(***************************************************************************)
EXTENDS Integers, Sequences, FiniteSets

CONSTANTS
  Users,         \* instances of PFUser that stand for accounts
  Account,       \* [Users -> accounts]
  Lazy,          \* lazy users (anonymous, not signed up)
  Nobody,
  MaxCalls,      \* bound on the calls made
  MaxFailures,   \* bound on the operations on the disk that fail
  MaxCrashes     \* bound on the times the process dies

Storages == {"file", "datastore"}

VARIABLES
  storage,       \* _storageType
  automatic,     \* automaticUsersEnabled
  queue,         \* _dataTaskQueue: the calls, the first of which is running
  step,          \* how far it has come
  current,       \* _currentUser
  matchesDisk,   \* _currentUserMatchesDisk
  stored,        \* whose user is in the file, or pinned
  keychain,      \* whose credentials are in the keychain, Nobody if none
  known,         \* the users that exist in memory
  isCurrent,     \* those whose _current is set
  creds,         \* [user -> whose credentials it holds]
  saving,        \* users being saved to the server
  decided,       \* those that were current when the answer came
  calls, failures, crashes,
  out,           \* logged out, and nothing left that should undo it (history)
  split          \* the keychain was left with another user's (history)

userVars == <<storage, automatic, queue, step, current, matchesDisk, stored, keychain, known,
              isCurrent, creds, saving, decided, calls, failures, crashes, out, split>>

Everybody == Users \cup Lazy
Identity(u) == IF u \in Users THEN Account[u] ELSE u
Identities == {Identity(u) : u \in Everybody}

Init ==
  /\ storage \in Storages /\ automatic \in BOOLEAN
  /\ queue = <<>> /\ step = "start"
  /\ current = Nobody /\ matchesDisk = FALSE
  /\ stored = {} /\ keychain = Nobody
  /\ known = {} /\ isCurrent = {}
  /\ creds = [u \in Everybody |-> Nobody]
  /\ saving = {} /\ decided = {}
  /\ calls = 0 /\ failures = 0 /\ crashes = 0
  /\ out = FALSE /\ split = FALSE

-----------------------------------------------------------------------------
(* Calls. *)

Enqueue(op, u) == queue' = Append(queue, [op |-> op, user |-> u])

Call == calls < MaxCalls /\ calls' = calls + 1

GetCurrentUser ==
  /\ Call /\ Enqueue("get", Nobody)
  /\ UNCHANGED <<storage, automatic, step, current, matchesDisk, stored, keychain, known,
                 isCurrent, creds, saving, decided, failures, crashes, out, split>>

LogOutCurrentUser ==
  /\ Call /\ Enqueue("logOut", Nobody)
  /\ UNCHANGED <<storage, automatic, step, current, matchesDisk, stored, keychain, known,
                 isCurrent, creds, saving, decided, failures, crashes, out, split>>

\* An instance for an account: a new one, except that the datastore gives the
\* one that exists.
InstanceOf(u) ==
  IF storage = "datastore" /\ \E w \in known : Identity(w) = Identity(u)
    THEN u \in known ELSE u \notin known

\* The server accepts a log in and the user is made the current one.
LogIn(u) ==
  /\ Call /\ InstanceOf(u)
  /\ known' = known \cup {u}
  /\ creds' = [creds EXCEPT ![u] = Identity(u)]
  /\ Enqueue("save", u)
  /\ out' = FALSE
  /\ UNCHANGED <<storage, automatic, step, current, matchesDisk, stored, keychain,
                 isCurrent, saving, decided, failures, crashes, split>>

\* A user the application holds is saved to the server ...
SaveUser(u) ==
  /\ Call /\ u \in known /\ u \notin saving
  /\ saving' = saving \cup {u}
  /\ UNCHANGED <<storage, automatic, queue, step, current, matchesDisk, stored, keychain,
                 known, isCurrent, creds, decided, failures, crashes, out, split>>

\* ... and when the answer is handled while it is the current user ...
HandleSaveResult(u) ==
  /\ u \in saving
  /\ saving' = saving \ {u}
  /\ decided' = IF u \in isCurrent THEN decided \cup {u} ELSE decided
  /\ UNCHANGED <<storage, automatic, queue, step, current, matchesDisk, stored, keychain,
                 known, isCurrent, creds, calls, failures, crashes, out, split>>

\* ... it is made the current user again.
SaveCurrentUser(u) ==
  /\ u \in decided
  /\ decided' = decided \ {u}
  /\ Enqueue("save", u)
  /\ UNCHANGED <<storage, automatic, step, current, matchesDisk, stored, keychain, known,
                 isCurrent, creds, saving, calls, failures, crashes, out, split>>

-----------------------------------------------------------------------------
(* The call at the head of the queue. *)

At(op, s) == queue # <<>> /\ Head(queue).op = op /\ step = s
Done == queue' = Tail(queue) /\ step' = "start"
GoTo(s) == step' = s /\ UNCHANGED queue

Fails == failures < MaxFailures /\ failures' = failures + 1

\* _getCurrentUserAsyncWithOptions, for a read and for a log out.
Read ==
  /\ At("get", "start") \/ At("logOut", "start")
  /\ CASE current = Nobody /\ ~matchesDisk -> GoTo("load")
       [] Head(queue).op = "logOut" /\ (current # Nobody \/ matchesDisk) -> GoTo("out")
       [] Head(queue).op = "get" /\ current = Nobody /\ matchesDisk /\ automatic -> GoTo("lazy")
       [] OTHER -> Done
  /\ UNCHANGED <<storage, automatic, current, matchesDisk, stored, keychain, known, isCurrent,
                 creds, saving, decided, calls, failures, crashes, out, split>>

AfterLoad(u) ==
  CASE Head(queue).op = "logOut" -> GoTo("out")
    [] Head(queue).op = "get" /\ u = Nobody /\ automatic -> GoTo("lazy")
    [] OTHER -> Done

\* _loadCurrentUserFromDiskAsync finds the user, and gives it the credentials
\* in the keychain, whosever they are ...
Load(u) ==
  /\ At("get", "load") \/ At("logOut", "load")
  /\ Identity(u) \in stored /\ InstanceOf(u)
  /\ known' = known \cup {u}
  /\ isCurrent' = isCurrent \cup {u}
  /\ creds' = [creds EXCEPT ![u] = IF keychain = Nobody THEN @ ELSE keychain]
  /\ current' = u /\ matchesDisk' = TRUE
  /\ AfterLoad(u)
  /\ UNCHANGED <<storage, automatic, stored, keychain, saving, decided, calls, failures,
                 crashes, out, split>>

\* ... or finds none, or fails.  A file that cannot be read is as good as none:
\* the error is dropped when its lock is given back.
LoadNobody ==
  /\ At("get", "load") \/ At("logOut", "load")
  /\ \/ stored = {} /\ matchesDisk' = TRUE /\ UNCHANGED failures
     \/ Fails /\ matchesDisk' \in IF storage = "file" THEN BOOLEAN ELSE {FALSE}
  /\ current' = Nobody
  /\ AfterLoad(Nobody)
  /\ UNCHANGED <<storage, automatic, stored, keychain, known, isCurrent, creds, saving,
                 decided, calls, crashes, out, split>>

\* _lazyLogInUser: only the datastore keeps the lazy user.
LazyLogIn(u) ==
  /\ At("get", "lazy") /\ u \notin known
  /\ known' = known \cup {u}
  /\ isCurrent' = isCurrent \cup {u}
  /\ creds' = [creds EXCEPT ![u] = u]
  /\ IF storage = "datastore"
       THEN /\ queue' = <<[op |-> "save", user |-> u]>> \o Tail(queue)
            /\ step' = "start"
            /\ UNCHANGED <<current, matchesDisk>>
       ELSE Done /\ current' = u /\ matchesDisk' = TRUE
  /\ UNCHANGED <<storage, automatic, stored, keychain, saving, decided, calls, failures,
                 crashes, out, split>>

\* _logOutAsync of a user; a lazy one keeps what identifies it.
LogOutUser(u) ==
  /\ isCurrent' = isCurrent \ {u}
  /\ creds' = IF u \in Users THEN [creds EXCEPT ![u] = Nobody] ELSE creds

SameUser(u, w) == u = w \/ (u \in Users /\ w \in Users /\ Account[u] = Account[w])

\* Mutant: the other user is not logged out.
SaveStartOver ==
  /\ At("save", "start")
  /\ GoTo("mark")
  /\ UNCHANGED <<storage, automatic, current, matchesDisk, stored, keychain, known, isCurrent,
                 creds, saving, decided, calls, failures, crashes, out, split>>

\* _saveCurrentUserAsync: a different user is logged out first, which may take
\* a request to the server.
SaveStart ==
  /\ At("save", "start")
  /\ IF current # Nobody /\ ~SameUser(current, Head(queue).user)
       THEN LogOutUser(current) ELSE UNCHANGED <<isCurrent, creds>>
  /\ GoTo("mark")
  /\ UNCHANGED <<storage, automatic, current, matchesDisk, stored, keychain, known, saving,
                 decided, calls, failures, crashes, out, split>>

\* Mutant: the pin of the last user stays until the new one replaces it.
MarkKeepingPin ==
  /\ At("save", "mark")
  /\ isCurrent' = isCurrent \cup {Head(queue).user}
  /\ GoTo("keychain")
  /\ UNCHANGED <<storage, automatic, current, matchesDisk, stored, keychain, known, creds,
                 saving, decided, calls, failures, crashes, out, split>>

Mark ==
  /\ At("save", "mark")
  /\ isCurrent' = isCurrent \cup {Head(queue).user}
  /\ GoTo(IF storage = "datastore" THEN "unpin" ELSE "keychain")
  /\ UNCHANGED <<storage, automatic, current, matchesDisk, stored, keychain, known, creds,
                 saving, decided, calls, failures, crashes, out, split>>

\* The end of a save: memory has the user whatever became of the disk.
Install(matches) ==
  /\ current' = Head(queue).user /\ matchesDisk' = matches
  /\ Done

Unpin ==
  /\ At("save", "unpin")
  /\ \/ stored' = {} /\ GoTo("keychain") /\ UNCHANGED <<failures, current, matchesDisk>>
     \/ Fails /\ Install(FALSE) /\ UNCHANGED stored
  /\ UNCHANGED <<storage, automatic, keychain, known, isCurrent, creds, saving, decided,
                 calls, crashes, out, split>>

\* The credentials replace those of the last user.  The keychain may refuse:
\* nobody looks at the result, and what it had stays beside the new user.
SaveCredentials ==
  /\ At("save", "keychain")
  /\ \/ keychain' = creds[Head(queue).user] /\ UNCHANGED <<failures, split>>
     \/ /\ Fails /\ UNCHANGED keychain
        /\ split' = (split \/ keychain \notin {Nobody, Identity(Head(queue).user)})
  /\ GoTo("persist")
  /\ UNCHANGED <<storage, automatic, current, matchesDisk, stored, known, isCurrent, creds,
                 saving, decided, calls, crashes, out>>

\* The pin, or the file, whose failure may go unnoticed as that of a read.
Persist ==
  /\ At("save", "persist")
  /\ \/ stored' = {Identity(Head(queue).user)} /\ Install(TRUE) /\ UNCHANGED <<failures, split>>
     \/ /\ Fails
        /\ \E m \in IF storage = "file" THEN BOOLEAN ELSE {FALSE} : Install(m)
        /\ split' = (split \/ storage = "file")
        /\ UNCHANGED stored
  /\ UNCHANGED <<storage, automatic, keychain, known, isCurrent, creds, saving, decided,
                 calls, crashes, out>>

\* logOutCurrentUserAsync: the user is logged out, the removal from the disk
\* starts and the keychain is cleared, in either order, with a failure of the
\* keychain unnoticed ...
StartLogOut ==
  /\ At("logOut", "out")
  /\ IF current # Nobody THEN LogOutUser(current) ELSE UNCHANGED <<isCurrent, creds>>
  /\ GoTo("remove both")
  /\ UNCHANGED <<storage, automatic, current, matchesDisk, stored, keychain, known, saving,
                 decided, calls, failures, crashes, out, split>>

ClearKeychain ==
  /\ \/ At("logOut", "remove both") /\ GoTo("remove stored")
     \/ At("logOut", "remove keychain") /\ GoTo("forget")
  /\ \/ keychain' = Nobody /\ UNCHANGED failures
     \/ Fails /\ UNCHANGED keychain
  /\ UNCHANGED <<storage, automatic, current, matchesDisk, stored, known, isCurrent, creds,
                 saving, decided, calls, crashes, out, split>>

\* Mutant: only the pin is removed, the file stays.
RemovePinOnly ==
  /\ \/ At("logOut", "remove both") /\ GoTo("remove keychain")
     \/ At("logOut", "remove stored") /\ GoTo("forget")
  /\ stored' = IF storage = "datastore" THEN {} ELSE stored
  /\ UNCHANGED <<storage, automatic, current, matchesDisk, keychain, known, isCurrent, creds,
                 saving, decided, calls, failures, crashes, out, split>>

RemoveStored ==
  /\ \/ At("logOut", "remove both") /\ GoTo("remove keychain")
     \/ At("logOut", "remove stored") /\ GoTo("forget")
  /\ \/ stored' = {} /\ UNCHANGED failures
     \/ Fails /\ UNCHANGED stored
  /\ UNCHANGED <<storage, automatic, current, matchesDisk, keychain, known, isCurrent, creds,
                 saving, decided, calls, crashes, out, split>>

\* Mutant: memory keeps the user it had.
ForgetDiskOnly ==
  /\ At("logOut", "forget")
  /\ matchesDisk' = TRUE
  /\ out' = /\ failures = 0 /\ decided = {} /\ isCurrent \subseteq {current}
            /\ \A i \in DOMAIN queue : queue[i].op # "save"
  /\ Done
  /\ UNCHANGED <<storage, automatic, current, stored, keychain, known, isCurrent, creds, saving,
                 decided, calls, failures, crashes, split>>

\* ... and memory says that there is no user and that the disk agrees, whether
\* or not the removal succeeded.  The session may still be ended on the server.
Forget ==
  /\ At("logOut", "forget")
  /\ current' = Nobody /\ matchesDisk' = TRUE
  /\ out' = /\ failures = 0 /\ decided = {} /\ isCurrent \subseteq {current}
            /\ \A i \in DOMAIN queue : queue[i].op # "save"
  /\ Done
  /\ UNCHANGED <<storage, automatic, stored, keychain, known, isCurrent, creds, saving,
                 decided, calls, failures, crashes, split>>

-----------------------------------------------------------------------------

Crash ==
  /\ crashes < MaxCrashes /\ known # {}
  /\ crashes' = crashes + 1
  /\ queue' = <<>> /\ step' = "start"
  /\ current' = Nobody /\ matchesDisk' = FALSE
  /\ known' = {} /\ isCurrent' = {}
  /\ creds' = [u \in Everybody |-> Nobody]
  /\ saving' = {} /\ decided' = {}
  /\ split' = (split \/ (storage = "file" /\ At("save", "persist")))
  /\ UNCHANGED <<storage, automatic, stored, keychain, calls, failures, out>>

Next ==
  \/ GetCurrentUser \/ LogOutCurrentUser
  \/ \E u \in Users : LogIn(u)
  \/ \E u \in Users : SaveUser(u) \/ HandleSaveResult(u) \/ SaveCurrentUser(u)
  \/ Read \/ LoadNobody
  \/ \E u \in Everybody : Load(u)
  \/ \E u \in Lazy : LazyLogIn(u)
  \/ SaveStart \/ Mark \/ Unpin \/ SaveCredentials \/ Persist
  \/ StartLogOut \/ ClearKeychain \/ RemoveStored \/ Forget
  \/ Crash

Spec == Init /\ [][Next]_userVars

-----------------------------------------------------------------------------
(* Properties. *)

QueuedCalls == [op : {"get", "save", "logOut"}, user : Everybody \cup {Nobody}]

TypeOK ==
  /\ storage \in Storages /\ automatic \in BOOLEAN
  /\ queue \in Seq(QueuedCalls)
  /\ step \in {"start", "load", "lazy", "mark", "unpin", "keychain", "persist", "out",
               "remove both", "remove stored", "remove keychain", "forget"}
  /\ current \in known \cup {Nobody} /\ matchesDisk \in BOOLEAN
  /\ stored \subseteq Identities /\ keychain \in Identities \cup {Nobody}
  /\ known \subseteq Everybody /\ isCurrent \subseteq known
  /\ creds \in [Everybody -> Identities \cup {Nobody}]
  /\ saving \subseteq known /\ decided \subseteq known
  /\ calls \in 0 .. MaxCalls /\ failures \in 0 .. MaxFailures /\ crashes \in 0 .. MaxCrashes
  /\ out \in BOOLEAN /\ split \in BOOLEAN

\* A user never holds the credentials of another: what a start of the process
\* puts together from the disk and the keychain belongs together
\* (_saveCurrentUserToDiskAsync, _loadCurrentUserFromDiskAsync).  It needs that the
\* keychain did not refuse the credentials of a user while it held another's,
\* and with the file storage that nothing stopped a save between the keychain
\* and the file.
CredentialsAreTheUsers ==
  split \/ \A u \in Everybody : creds[u] \in {Identity(u), Nobody}

\* Once logged out nobody is the current user until somebody logs in, not even
\* after a restart (logOutCurrentUserAsync; PFUser.h: "all future calls to
\* +currentUser will return nil"), provided that the removal succeeded, that no
\* save of a current user was about to be recorded, and that no other instance
\* of the account was left current.
LoggedOutStaysOut == out => current \in Lazy \cup {Nobody}

\* What memory says of the disk is so once the queue is empty and nothing has
\* failed: the current user is the one stored, and nobody is stored when there
\* is none; a lazy user kept only in memory is the exception the code makes.
\* Whose credentials the keychain has is not part of it.
MemoryMatchesDisk ==
  queue = <<>> /\ matchesDisk /\ failures = 0 =>
    \/ stored = {} /\ (current = Nobody \/ (current \in Lazy /\ storage = "file"))
    \/ current # Nobody /\ stored = {Identity(current)}

\* With the datastore only the current user believes to be it: whoever was
\* replaced or logged out has been told (_saveCurrentUserAsync, _logOutAsync).
OnlyOneIsCurrent ==
  storage = "datastore" /\ queue = <<>> => isCurrent \subseteq {current}
=============================================================================
