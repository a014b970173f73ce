----------------------------- MODULE MCObjects -----------------------------
(***************************************************************************)
(* Model checking of what lies between the application and the server for  *)
(* objects and users: saves of new objects made offline, the operations on *)
(* a field, the operation sets of an object, the local datastore, the      *)
(* current user, the runs of commands, and files.  Each is specified       *)
(* alone, and in a behaviour only one of them takes steps.                 *)
(***************************************************************************)
EXTENDS OfflineSaves, FieldOperations, OfflineStore, TLC

CONSTANTS
  Keys, MaxChanges,                                     \* of ObjectSave
  Users, Account, Lazy, Nobody, MaxCalls, MaxFailures,  \* of CurrentUser
  Runs, RetryAttempts, Chunks,                          \* of CommandRunner
  Files, SharedUrl, NewChoices, DownloadAttempts, MaxTransfers, MaxClears  \* of FileTransfers

VARIABLES
  component,
  opSets, serverData, estimated, isNew, objSaving, objSent, commands, answers, remote,
  written, objSaves, latest, accepted, leaked, mixed,
  storage, automatic, queue, userStep, current, matchesDisk, stored, keychain, known,
  isCurrent, creds, userSaving, decided, calls, failures, userCrashes, out, split,
  at, kind, retry, left, cancelled, observed, task, status, chunk, delegates, broken,
  runFile, result, runSent, runLost,
  new, ops, stage, fileAnswer, joined, uploaded, staged, downloadTasks, run, tries, received, fd,
  temporary, cached, transfers, clears, crossed, late, stranded, cleared

\* A step, a step with a fraction, and more than an int holds.
FieldAmounts == {Number("int", 2), Number("double", 3), Number("long", 8)}

\* Two instances of user a, one of user b.
SharedAccount == [u \in Users |-> IF u = "b" THEN "b" ELSE "a"]

\* Lazy users have no account.
ASSUME UserAssumption ==
  /\ Users \cap Lazy = {}
  /\ \A u \in Users : Account[u] \notin Lazy
  /\ Nobody \notin Users \cup Lazy
  /\ MaxCalls \in Nat /\ MaxFailures \in Nat /\ MaxCrashes \in Nat

\* The bounds of a run of ObjectSave are numbers.
ASSUME SaveAssumption == MaxChanges \in Nat /\ MaxSaves \in Nat

\* _retryAttempts is a count of attempts that includes the first.
ASSUME RunnerAssumption == RetryAttempts \in Nat \ {0} /\ Chunks \in Nat

\* A file is neither an outcome nor a shared URL.
ASSUME FileAssumption ==
  /\ Files \cap {"success", "error", "cancelled", "none"} = {} /\ SharedUrl \notin Files
  /\ NewChoices \subseteq SUBSET Files
  /\ DownloadAttempts \in Nat /\ MaxTransfers \in Nat /\ MaxClears \in Nat

\* No definition tells the names of pins apart, nor the keys of an object.
Interchangeable == Permutations(PinNames) \union Permutations(Keys)

\* No file is made from data, or one is.
MadeFromData == {{}, {"f1"}}

Save == INSTANCE ObjectSave WITH
  saving <- objSaving, sent <- objSent, saves <- objSaves

User == INSTANCE CurrentUser WITH
  step <- userStep, saving <- userSaving, crashes <- userCrashes

Runner == INSTANCE CommandRunner WITH
  file <- runFile, sent <- runSent, lost <- runLost

Transfer == INSTANCE FileTransfers WITH
  RetryAttempts <- DownloadAttempts, answer <- fileAnswer

saveVars == <<opSets, serverData, estimated, isNew, objSaving, objSent, commands, answers,
              remote, written, objSaves, latest, accepted, leaked, mixed>>
userVars == <<storage, automatic, queue, userStep, current, matchesDisk, stored, keychain,
              known, isCurrent, creds, userSaving, decided, calls, failures, userCrashes,
              out, split>>
runVars == <<at, kind, retry, left, cancelled, observed, task, status, chunk, delegates,
             broken, runFile, result, runSent, runLost>>

fileVars == <<new, ops, stage, fileAnswer, joined, uploaded, staged, downloadTasks, run, tries,
              received, fd, temporary, cached, transfers, clears, crossed, late, stranded,
              cleared>>

allVars == <<component, offVars, fieldVars, saveVars, storeVars, userVars, runVars, fileVars>>

Components == {"offline saves", "field", "operation sets", "local datastore",
               "current user", "runs", "files"}

\* Of the components that take no step one initial state is enough.
AllInit ==
  /\ component \in Components
  /\ OffInit /\ FieldInit /\ Save!Init /\ StoreInit /\ User!Init /\ Runner!Init
  /\ Transfer!Init
  /\ component # "field" => serverValue = NoValue
  /\ component # "operation sets" => isNew
  /\ component # "current user" => storage = "file" /\ automatic
  /\ component # "runs" => kind = [r \in Runs |-> "data"] /\ retry = {}
  /\ component # "files" => new = {}

AllNext ==
  \/ /\ component = "offline saves" /\ OffNext
     /\ UNCHANGED <<component, fieldVars, saveVars, storeVars, userVars, runVars, fileVars>>
  \/ /\ component = "field" /\ FieldNext
     /\ UNCHANGED <<component, offVars, saveVars, storeVars, userVars, runVars, fileVars>>
  \/ /\ component = "operation sets" /\ Save!Next
     /\ UNCHANGED <<component, offVars, fieldVars, storeVars, userVars, runVars, fileVars>>
  \/ /\ component = "local datastore" /\ StoreNext
     /\ UNCHANGED <<component, offVars, fieldVars, saveVars, userVars, runVars, fileVars>>
  \/ /\ component = "current user" /\ User!Next
     /\ UNCHANGED <<component, offVars, fieldVars, saveVars, storeVars, runVars, fileVars>>
  \/ /\ component = "runs" /\ Runner!Next
     /\ UNCHANGED <<component, offVars, fieldVars, saveVars, storeVars, userVars, fileVars>>
  \/ /\ component = "files" /\ Transfer!Next
     /\ UNCHANGED <<component, offVars, fieldVars, saveVars, storeVars, userVars, runVars>>

AllSpec == AllInit /\ [][AllNext]_allVars

-----------------------------------------------------------------------------
\* What the components that take no step are in is an initial state, where the
\* component that does has been as well: it is looked at there.

\* The types of all seven.
ObjectsTypeOK ==
  /\ component \in Components
  /\ component = "offline saves" => OffTypeOK
  /\ component = "field" => FieldTypeOK
  /\ component = "operation sets" => Save!TypeOK
  /\ component = "local datastore" => StoreTypeOK
  /\ component = "current user" => User!TypeOK
  /\ component = "runs" => Runner!TypeOK
  /\ component = "files" => Transfer!TypeOK

\* Estimated data is what server data and operation sets make of it
\* (PFObject), as ObjectSave states it.
EstimatedIsCurrent == component = "operation sets" => Save!EstimatedIsCurrent

\* What the application has set reaches the server or is still to be sent, as
\* ObjectSave states it.
NoChangeLost == component = "operation sets" => Save!NoChangeLost

\* Users hold their own credentials, as CurrentUser states it.
CredentialsAreTheUsers == component = "current user" => User!CredentialsAreTheUsers

\* Nobody comes back after a log out, as CurrentUser states it.
LoggedOutStaysOut == component = "current user" => User!LoggedOutStaysOut

\* Memory is right about the disk, as CurrentUser states it.
MemoryMatchesDisk == component = "current user" => User!MemoryMatchesDisk

\* Only the current user believes to be it, as CurrentUser states it.
OnlyOneIsCurrent == component = "current user" => User!OnlyOneIsCurrent

\* A download holds its last attempt only, as CommandRunner states it.
DownloadedFileIsWhole == component = "runs" => Runner!DownloadedFileIsWhole

\* A run with nothing left to happen has ended, as CommandRunner states it.
RunsEnd == component = "runs" => Runner!RunsEnd

\* Data that is available is there, as FileTransfers states it.
AvailableDataIsWhole == component = "files" => Transfer!AvailableDataIsWhole

\* A shared download is under way, as FileTransfers states it.
SharedDownloadsAreLive == component = "files" => Transfer!SharedDownloadsAreLive
=============================================================================
