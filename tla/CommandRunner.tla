--------------------------- MODULE CommandRunner ---------------------------
(***************************************************************************)
(* PFURLSessionCommandRunner, PFURLSession and the delegates of its tasks. *)
(* A run of a command is a series of attempts.  An attempt makes a task    *)
(* and a delegate, registers the delegate in the session and resumes the   *)
(* task; the callbacks of NSURLSession look the delegate up and finish the *)
(* attempt, and a temporary failure is tried again after a delay.  The     *)
(* caller may cancel at any moment.                                        *)
(*                                                                         *)
(* NSURLSession is external: a task that was resumed ends with a response  *)
(* or an error, one that was cancelled ends with an error of its own even  *)
(* if it was never resumed.  So are the tokens of Bolts: an observer that  *)
(* registers after the cancellation may or may not be called.              *)
(***************************************************************************)
EXTENDS Integers, FiniteSets

CONSTANTS
  Runs,
  RetryAttempts,   \* _retryAttempts, at least 1
  Chunks           \* pieces in which the content of a download arrives

Kinds == {"data", "download"}

VARIABLES
  at,          \* [run -> how far it is]
  kind,        \* [run -> data or download]
  retry,       \* runs with PFCommandRunningOptionRetryIfFailed
  left,        \* [run -> attempts left, this one included]
  cancelled,   \* runs whose cancellation was requested
  observed,    \* runs whose delegate observes the cancellation
  task,        \* [run -> the state of its NSURLSessionDataTask]
  status,      \* [run -> the class of its response's status code, 0 without one]
  chunk,       \* [run -> chunks received]
  delegates,   \* _delegatesDictionary, by run
  broken,      \* runs the output stream of whose delegate has an error
  file,        \* [run -> the target file of a download: chunks, by attempt]
  result,      \* [run -> how its attempt, in the end the run, turned out]
  sent,        \* [run -> requests put on the wire] (history)
  lost         \* runs one of whose tasks ended before it had a delegate (history)

runVars == <<at, kind, retry, left, cancelled, observed, task, status, chunk, delegates,
             broken, file, result, sent, lost>>

Init ==
  /\ at = [r \in Runs |-> "idle"]
  /\ kind \in [Runs -> Kinds]
  /\ retry \in {R \in SUBSET Runs : {r \in Runs : kind[r] = "download"} \subseteq R}
  /\ left = [r \in Runs |-> RetryAttempts]
  /\ cancelled = {} /\ observed = {}
  /\ task = [r \in Runs |-> "none"]
  /\ status = [r \in Runs |-> 0] /\ chunk = [r \in Runs |-> 0]
  /\ delegates = {} /\ broken = {}
  /\ file = [r \in Runs |-> {}]
  /\ result = [r \in Runs |-> "none"]
  /\ sent = [r \in Runs |-> 0]
  /\ lost = {}

Move(r, there) == at' = [at EXCEPT ![r] = there]
Turn(r, how) == result' = [result EXCEPT ![r] = how]

-----------------------------------------------------------------------------
(* The runner and the session. *)

\* runCommandAsync and the like: _performCommandRunningBlock.
Run(r) ==
  /\ at[r] = "idle"
  /\ IF r \in cancelled THEN Move(r, "ended") /\ Turn(r, "cancelled")
                        ELSE Move(r, "attempt") /\ UNCHANGED result
  /\ UNCHANGED <<kind, retry, left, cancelled, observed, task, status, chunk, delegates,
                 broken, file, sent, lost>>

\* The session looks at the token, on its executor for the last time, and makes
\* the task ...
MakeTask(r) ==
  /\ at[r] = "attempt"
  /\ IF r \in cancelled
       THEN Move(r, "answered") /\ Turn(r, "cancelled") /\ UNCHANGED task
       ELSE Move(r, "made") /\ task' = [task EXCEPT ![r] = "suspended"] /\ UNCHANGED result
  /\ status' = [status EXCEPT ![r] = 0] /\ chunk' = [chunk EXCEPT ![r] = 0]
  /\ broken' = broken \ {r} /\ observed' = observed \ {r}
  /\ UNCHANGED <<kind, retry, left, cancelled, delegates, file, sent, lost>>

Unfinished(r) == task[r] \in {"suspended", "running", "responded"}
CancelTask(r) == task' = [task EXCEPT ![r] = IF Unfinished(r) THEN "cancelling" ELSE @]

\* ... and its delegate, which observes the token.
MakeDelegate(r) ==
  /\ at[r] = "made"
  /\ observed' = observed \cup {r}
  /\ UNCHANGED task \/ (r \in cancelled /\ CancelTask(r))
  /\ Move(r, "delegated")
  /\ UNCHANGED <<kind, retry, left, cancelled, status, chunk, delegates, broken, file, result,
                 sent, lost>>

\* _performDataTask, once it runs on its executor.
RegisterDelegate(r) ==
  /\ at[r] = "delegated"
  /\ delegates' = delegates \cup {r}
  /\ Move(r, "registered")
  /\ UNCHANGED <<kind, retry, left, cancelled, observed, task, status, chunk, broken, file,
                 result, sent, lost>>

ResumeTask(r) ==
  /\ at[r] = "registered"
  /\ IF task[r] = "suspended"
       THEN task' = [task EXCEPT ![r] = "running"] /\ sent' = [sent EXCEPT ![r] = @ + 1]
       ELSE UNCHANGED <<task, sent>>
  /\ Move(r, IF result[r] = "none" THEN "waiting" ELSE "answered")
  /\ UNCHANGED <<kind, retry, left, cancelled, observed, status, chunk, delegates, broken,
                 file, result, lost>>

\* The continuation of an attempt.  With retries a token that was cancelled by
\* now makes the run a cancelled one, whatever the answer.
Conclude(r) ==
  /\ at[r] = "answered"
  /\ IF r \in retry /\ r \notin cancelled /\ result[r] = "temporary" /\ left[r] > 1
       THEN Move(r, "delay") /\ UNCHANGED result
       ELSE Move(r, "ended") /\ Turn(r, IF r \in retry \cap cancelled THEN "cancelled" ELSE result[r])
  /\ UNCHANGED <<kind, retry, left, cancelled, observed, task, status, chunk, delegates,
                 broken, file, sent, lost>>

RetryAfterDelay(r) ==
  /\ at[r] = "delay"
  /\ IF r \in cancelled
       THEN Move(r, "ended") /\ Turn(r, "cancelled") /\ UNCHANGED left
       ELSE /\ Move(r, "attempt") /\ Turn(r, "none")
            /\ left' = [left EXCEPT ![r] = @ - 1]
  /\ UNCHANGED <<kind, retry, cancelled, observed, task, status, chunk, delegates, broken,
                 file, sent, lost>>

Cancel(r) ==
  /\ r \notin cancelled /\ at[r] # "ended"
  /\ cancelled' = cancelled \cup {r}
  /\ IF r \in observed THEN CancelTask(r) ELSE UNCHANGED task
  /\ UNCHANGED <<at, kind, retry, left, observed, status, chunk, delegates, broken, file,
                 result, sent, lost>>

-----------------------------------------------------------------------------
(* Callbacks of NSURLSession. *)

\* didReceiveResponse: the output stream is opened, and the file emptied.
Respond(r) ==
  /\ task[r] = "running"
  /\ task' = [task EXCEPT ![r] = "responded"]
  /\ \E class \in {2, 4, 5} : status' = [status EXCEPT ![r] = class]
  /\ file' = [file EXCEPT ![r] = {}]
  /\ UNCHANGED <<at, kind, retry, left, cancelled, observed, chunk, delegates, broken, result,
                 sent, lost>>

\* didReceiveData of a download.  A write that fails is left at that; when there
\* is more to write the error is found and the task cancelled.
ReceiveData(r) ==
  /\ kind[r] = "download" /\ task[r] = "responded" /\ chunk[r] < Chunks
  /\ chunk' = [chunk EXCEPT ![r] = @ + 1]
  /\ IF r \in broken
       THEN CancelTask(r) /\ UNCHANGED <<file, broken>>
       ELSE /\ \/ file' = [file EXCEPT ![r] = @ \cup {<<left[r], chunk'[r]>>}] /\ UNCHANGED broken
               \/ broken' = broken \cup {r} /\ UNCHANGED file
            /\ UNCHANGED task
  /\ UNCHANGED <<at, kind, retry, left, cancelled, observed, status, delegates, result, sent,
                 lost>>

\* _taskDidFinish of a JSON delegate: the body may be JSON, JSON with an error,
\* or no JSON at all; and of a download, which does not retry a status.
FinishData(failed, class, body) ==
  CASE failed                                           -> IF class = 4 THEN "permanent" ELSE "temporary"
    [] ~failed /\ body = "garbage"                      -> "permanent"
    [] ~failed /\ body # "garbage" /\ class = 2         -> "success"
    [] ~failed /\ body = "error" /\ class = 5           -> "temporary"
    [] OTHER                                            -> "permanent"

\* Mutant: the status alone decides.
FinishDownloadByStatus(failed, class) ==
  CASE class = 2             -> "success"
    [] failed /\ class = 0  -> "temporary"
    [] OTHER                 -> "permanent"

FinishDownload(failed, class) ==
  CASE failed /\ class # 4  -> "temporary"
    [] ~failed /\ class = 2 -> "success"
    [] OTHER                -> "permanent"

\* Mutant: the delegate stays registered.
CompleteKeepingDelegate(r, how) ==
  /\ task' = [task EXCEPT ![r] = "completed"]
  /\ IF r \in delegates
       THEN /\ Turn(r, how)
            /\ at' = [at EXCEPT ![r] = IF @ = "waiting" THEN "answered" ELSE @]
            /\ UNCHANGED lost
       ELSE lost' = lost \cup {r} /\ UNCHANGED <<result, at>>
  /\ UNCHANGED <<delegates, kind, retry, left, cancelled, observed, status, chunk, broken, file,
                 sent>>

\* The task ends, and its delegate, if it is registered, finishes the attempt
\* and is removed.
Complete(r, how) ==
  /\ task' = [task EXCEPT ![r] = "completed"]
  /\ IF r \in delegates
       THEN /\ Turn(r, how) /\ delegates' = delegates \ {r}
            /\ at' = [at EXCEPT ![r] = IF @ = "waiting" THEN "answered" ELSE @]
            /\ UNCHANGED lost
       ELSE lost' = lost \cup {r} /\ UNCHANGED <<result, delegates, at>>
  /\ UNCHANGED <<kind, retry, left, cancelled, observed, status, chunk, broken, file, sent>>

DidCompleteWithError(r) ==
  \/ /\ task[r] \in {"running", "responded"}
     /\ Complete(r, IF kind[r] = "data" THEN FinishData(TRUE, status[r], "none")
                                        ELSE FinishDownload(TRUE, status[r]))
  \/ task[r] = "cancelling" /\ Complete(r, "cancelled")

DidComplete(r) ==
  /\ task[r] = "responded"
  /\ \/ /\ kind[r] = "data"
        /\ \E body \in {"json", "error", "garbage"} : Complete(r, FinishData(FALSE, status[r], body))
     \/ kind[r] = "download" /\ chunk[r] = Chunks /\ Complete(r, FinishDownload(FALSE, status[r]))

Step(r) ==
  \/ Run(r) \/ MakeTask(r) \/ MakeDelegate(r) \/ RegisterDelegate(r) \/ ResumeTask(r)
  \/ Conclude(r) \/ RetryAfterDelay(r)
  \/ Respond(r) \/ ReceiveData(r) \/ DidComplete(r) \/ DidCompleteWithError(r)

Next == \E r \in Runs : Step(r) \/ Cancel(r)

Spec == Init /\ [][Next]_runVars

-----------------------------------------------------------------------------
(* Properties. *)

TypeOK ==
  /\ at \in [Runs -> {"idle", "attempt", "made", "delegated", "registered", "waiting",
                      "answered", "delay", "ended"}]
  /\ kind \in [Runs -> Kinds] /\ retry \subseteq Runs
  /\ left \in [Runs -> 1 .. RetryAttempts]
  /\ cancelled \subseteq Runs /\ observed \subseteq Runs /\ broken \subseteq Runs
  /\ task \in [Runs -> {"none", "suspended", "running", "responded", "cancelling", "completed"}]
  /\ status \in [Runs -> {0, 2, 4, 5}] /\ chunk \in [Runs -> 0 .. Chunks]
  /\ delegates \subseteq Runs /\ lost \subseteq Runs
  /\ file \in [Runs -> SUBSET ((1 .. RetryAttempts) \X (1 .. Chunks))]
  /\ result \in [Runs -> {"none", "success", "permanent", "temporary", "cancelled"}]
  /\ sent \in [Runs -> 0 .. RetryAttempts]

Ended(r) == at[r] = "ended"

\* A download that succeeds leaves in the target file what its last attempt
\* received and nothing of an earlier one, complete but for a last write that
\* failed (_writeDataOutputStreamData).
DownloadedFileIsWhole ==
  \A r \in Runs : Ended(r) /\ result[r] = "success" /\ kind[r] = "download" =>
    /\ {left[r]} \X (1 .. Chunks - 1) \subseteq file[r]
    /\ file[r] \subseteq {left[r]} \X (1 .. Chunks)

\* There is a step of the run or of the callbacks of its task still to come.
UnderWay(r) == at[r] \notin {"waiting", "ended"} \/ task[r] \in {"running", "responded", "cancelling"}

\* Every run comes to an end: a run with nothing left to happen has ended and
\* left no delegate in the session, unless its task ended, cancelled, before
\* _performDataTask registered the delegate, and nobody heard of it.
RunsEnd == \A r \in Runs : UnderWay(r) \/ (Ended(r) /\ r \notin delegates) \/ r \in lost
=============================================================================
