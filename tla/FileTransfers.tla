---------------------------- MODULE FileTransfers ----------------------------
(***************************************************************************)
(* PFFile and PFFileController: files that are uploaded from a staged copy *)
(* and downloaded into a cache.  The operations of one PFFile run one      *)
(* after the other in its task queue; several PFFiles may have one URL,    *)
(* and then share a download, which is looked up in _downloadTasks and     *)
(* registered there afterwards.  A download is written to a temporary file *)
(* named after the URL and moved to the cache when it is complete.         *)
(*                                                                         *)
(* The attempts of a download are those of CommandRunner, with its failed  *)
(* writes left out.  The file system is external: a stream stays open on   *)
(* a file that is moved or removed, and one that is opened empties it.     *)
(***************************************************************************)
EXTENDS Integers, Sequences

CONSTANTS
  Files,           \* PFFile objects
  SharedUrl,       \* the URL of those that are made with one
  NewChoices,      \* sets of files made from data to start from
  Chunks,          \* pieces of content
  RetryAttempts,
  MaxTransfers,    \* bound: calls of get and save
  MaxClears        \* bound: files removed from the cache

Urls == Files \cup {SharedUrl}
Content == 1 .. Chunks
Outcomes == {"success", "error", "cancelled"}
NoFile == {0}

VARIABLES
  new,            \* the files made from data
  ops,            \* [file -> operations in its task queue, the head is running]
  stage,          \* [file -> how far the operation at the head is]
  answer,         \* [file -> outcome of the operation at the head]
  joined,         \* [file -> file whose download it waits for]
  uploaded,       \* new files whose state has a URL
  staged,         \* new files whose staged copy exists
  downloadTasks,  \* _downloadTasks: the file that downloads a URL, or the
                  \* outcome of a finished task, or "none"
  run,            \* [file -> state of the download it started]
  tries,          \* [file -> attempts left]
  received,       \* [file -> chunks received in this attempt]
  fd,             \* [file -> where the file its output stream writes to is now]
  temporary,      \* [URL -> chunks in the temporary file]
  cached,         \* [URL -> chunks in the cached file]
  transfers, clears,  \* bound counters
  crossed,        \* URLs two downloads of which wrote at the same time (history)
  late,           \* URLs a finished task was registered for (history)
  stranded,       \* files whose upload was cancelled when it was done (history)
  cleared         \* URLs whose cached file was removed (history)

callVars == <<ops, transfers>>
waitVars == <<stage, answer, joined>>
uploadVars == <<new, uploaded, staged, stranded>>
runVars == <<run, tries, received, fd>>
diskVars == <<temporary, cached>>
clearVars == <<clears, cleared>>
transferVars == <<callVars, waitVars, uploadVars, downloadTasks, runVars, diskVars, clearVars,
                  crossed, late>>

\* The URL of a file: a new one gets one of its own when it is uploaded.
UrlOf == [f \in Files |-> IF f \in new THEN f ELSE SharedUrl]

TypeOK ==
  /\ new \subseteq Files
  /\ ops \in [Files -> Seq([what : {"get", "save"}, token : {"current", "detached", "cancelled"}])]
  /\ stage \in [Files -> {"idle", "lookup", "create", "register", "waiting", "joined",
                          "uploading", "caching", "setting", "answered"}]
  /\ answer \in [Files -> Outcomes \cup {"none"}]
  /\ joined \in [Files -> Files]
  /\ uploaded \subseteq new /\ staged \subseteq new /\ stranded \subseteq new
  /\ downloadTasks \in [Urls -> Files \cup Outcomes \cup {"none"}]
  /\ run \in [Files -> {"none", "attempt", "open", "downloaded"}]
  /\ tries \in [Files -> 0 .. RetryAttempts]
  /\ received \in [Files -> 0 .. Chunks]
  /\ fd \in [Files -> {"none", "temporary", "cached", "gone"}]
  /\ temporary \in [Urls -> (SUBSET Content) \cup {NoFile}]
  /\ cached \in [Urls -> (SUBSET Content) \cup {NoFile}]
  /\ transfers \in 0 .. MaxTransfers /\ clears \in 0 .. MaxClears
  /\ crossed \subseteq Urls /\ late \subseteq Urls /\ cleared \subseteq Urls

\* The staged copies are made when the files are.
Init ==
  /\ ops = [f \in Files |-> <<>>] /\ transfers = 0
  /\ stage = [f \in Files |-> "idle"]
  /\ answer = [f \in Files |-> "none"]
  /\ joined = [f \in Files |-> f]
  /\ new \in NewChoices
  /\ uploaded = {} /\ staged = new /\ stranded = {}
  /\ downloadTasks = [u \in Urls |-> "none"]
  /\ run = [f \in Files |-> "none"] /\ tries = [f \in Files |-> 0]
  /\ received = [f \in Files |-> 0] /\ fd = [f \in Files |-> "none"]
  /\ temporary = [u \in Urls |-> NoFile] /\ cached = [u \in Urls |-> NoFile]
  /\ clears = 0 /\ cleared = {} /\ crossed = {} /\ late = {}

-----------------------------------------------------------------------------
(* Calls of the application. *)

Dirty(f) == f \in new \ uploaded

\* isDataAvailable: the path of the staged copy is never forgotten.
DataAvailable(f) == Dirty(f) \/ cached[UrlOf[f]] # NoFile

\* An operation takes the token of the current cancellation source, and makes
\* one if there is none.  Operations that share it are the "current" ones.
Call(f, what) ==
  /\ transfers < MaxTransfers
  /\ transfers' = transfers + 1
  /\ ops' = [ops EXCEPT ![f] = Append(@, [what |-> what, token |-> "current"])]
  /\ UNCHANGED <<waitVars, uploadVars, downloadTasks, runVars, diskVars, clearVars, crossed, late>>

GetData(f) == Call(f, "get")
Save(f) == Call(f, "save")

Retokened(q, token) ==
  [i \in DOMAIN q |-> IF q[i].token = "current" THEN [q[i] EXCEPT !.token = token] ELSE q[i]]

Cancel(f) ==
  /\ \E i \in DOMAIN ops[f] : ops[f][i].token = "current"
  /\ ops' = [ops EXCEPT ![f] = Retokened(@, "cancelled")]
  /\ UNCHANGED <<transfers, waitVars, uploadVars, downloadTasks, runVars, diskVars, clearVars,
                 crossed, late>>

-----------------------------------------------------------------------------
(* An operation in the task queue of its file. *)

Running(f) == Head(ops[f])
Cancelled(f) == Running(f).token = "cancelled"

Become(f, s) == stage' = [stage EXCEPT ![f] = s]
Answer(f, outcome) == Become(f, "answered") /\ answer' = [answer EXCEPT ![f] = outcome]

\* An upload that finds its token cancelled, like one with nothing to do, ends
\* before the controller is called and leaves the cancellation source alone.
Begin(f) ==
  /\ stage[f] = "idle" /\ ops[f] # <<>>
  /\ IF \/ Running(f).what = "get" /\ DataAvailable(f)
        \/ Running(f).what = "save" /\ (~Dirty(f) \/ Cancelled(f))
       THEN ops' = [ops EXCEPT ![f] = Tail(@)] /\ UNCHANGED <<stage, answer>>
       ELSE /\ UNCHANGED ops
            /\ CASE Running(f).what = "save" -> Become(f, "uploading") /\ UNCHANGED answer
                 [] Cancelled(f) -> Answer(f, "cancelled")
                 [] OTHER -> Become(f, "lookup") /\ UNCHANGED answer
  /\ UNCHANGED <<transfers, joined, uploadVars, downloadTasks, runVars, diskVars, clearVars,
                 crossed, late>>

\* The operation ends, and the file forgets its cancellation source: those that
\* wait behind with the same token cannot be cancelled any more.
End(f) ==
  /\ stage[f] = "answered"
  /\ ops' = [ops EXCEPT ![f] = Retokened(Tail(@), "detached")]
  /\ Become(f, "idle") /\ answer' = [answer EXCEPT ![f] = "none"]
  /\ joined' = [joined EXCEPT ![f] = f]
  /\ UNCHANGED <<transfers, uploadVars, downloadTasks, runVars, diskVars, clearVars, crossed, late>>

-----------------------------------------------------------------------------
(* downloadFileAsyncWithState:.  The access queue of the dictionaries is    *)
(* serial, so that a lookup sees every change enqueued before it; other     *)
(* downloads come between a lookup and the registration that follows.       *)

LookUp(f) ==
  /\ stage[f] = "lookup"
  /\ LET task == downloadTasks[UrlOf[f]] IN
       \/ task = "none" /\ Become(f, "create") /\ UNCHANGED <<answer, joined>>
       \/ task \in Files /\ Become(f, "joined") /\ joined' = [joined EXCEPT ![f] = task]
                         /\ UNCHANGED answer
       \/ task \in Outcomes /\ Answer(f, task) /\ UNCHANGED joined
  /\ UNCHANGED <<callVars, uploadVars, downloadTasks, runVars, diskVars, clearVars, crossed, late>>

\* A run whose token is cancelled by now is over at once, and what follows it
\* runs here.
CreateRun(f) ==
  /\ stage[f] = "create"
  /\ Become(f, "register")
  /\ IF Cancelled(f)
       THEN /\ answer' = [answer EXCEPT ![f] = "cancelled"]
            /\ downloadTasks' = [downloadTasks EXCEPT ![UrlOf[f]] = "none"]
            /\ UNCHANGED <<run, tries>>
       ELSE /\ run' = [run EXCEPT ![f] = "attempt"]
            /\ tries' = [tries EXCEPT ![f] = RetryAttempts]
            /\ UNCHANGED <<answer, downloadTasks>>
  /\ UNCHANGED <<callVars, joined, uploadVars, received, fd, diskVars, clearVars, crossed, late>>

\* A task that is over by now is registered all the same.
Register(f) ==
  /\ stage[f] = "register"
  /\ IF run[f] = "none"
       THEN /\ downloadTasks' = [downloadTasks EXCEPT ![UrlOf[f]] = answer[f]]
            /\ late' = late \cup {UrlOf[f]}
            /\ Become(f, "answered")
       ELSE /\ downloadTasks' = [downloadTasks EXCEPT ![UrlOf[f]] = f]
            /\ Become(f, "waiting")
            /\ UNCHANGED late
  /\ UNCHANGED <<callVars, answer, joined, uploadVars, runVars, diskVars, clearVars, crossed>>

Waiting(f) == {g \in Files : g = f \/ (stage[g] = "joined" /\ joined[g] = f)}

\* Mutant: an end that removes nothing when it failed.
RunEndsRegistered(f, outcome) ==
  /\ run' = [run EXCEPT ![f] = "none"]
  /\ tries' = [tries EXCEPT ![f] = 0] /\ received' = [received EXCEPT ![f] = 0]
  /\ downloadTasks' = [downloadTasks EXCEPT ![UrlOf[f]] = IF outcome = "success" THEN "none" ELSE @]
  /\ answer' = [g \in Files |-> IF g \in Waiting(f) THEN outcome ELSE answer[g]]
  /\ stage' = [g \in Files |->
                 IF g \in Waiting(f) /\ stage[g] # "register" THEN "answered" ELSE stage[g]]

\* What every end of a run does: whatever is registered for the URL is removed,
\* and those that wait for the run are answered.
RunEnds(f, outcome) ==
  /\ run' = [run EXCEPT ![f] = "none"]
  /\ tries' = [tries EXCEPT ![f] = 0] /\ received' = [received EXCEPT ![f] = 0]
  /\ downloadTasks' = [downloadTasks EXCEPT ![UrlOf[f]] = "none"]
  /\ answer' = [g \in Files |-> IF g \in Waiting(f) THEN outcome ELSE answer[g]]
  /\ stage' = [g \in Files |->
                 IF g \in Waiting(f) /\ stage[g] # "register" THEN "answered" ELSE stage[g]]

\* A download is in the temporary file until it has been moved.
Writing(f) == run[f] \in {"open", "downloaded"}

\* The response opens the output stream, which makes the temporary file or
\* empties the one that is there.
Respond(f) ==
  /\ run[f] = "attempt"
  /\ run' = [run EXCEPT ![f] = "open"]
  /\ received' = [received EXCEPT ![f] = 0]
  /\ fd' = [fd EXCEPT ![f] = "temporary"]
  /\ temporary' = [temporary EXCEPT ![UrlOf[f]] = {}]
  /\ crossed' = crossed \cup
       {UrlOf[g] : g \in {h \in Files \ {f} : UrlOf[h] = UrlOf[f] /\ Writing(h)}}
  /\ UNCHANGED <<callVars, waitVars, uploadVars, downloadTasks, tries, cached, clearVars, late>>

\* A chunk is written at its place in the file the stream is open on.
ReceiveData(f) ==
  /\ run[f] = "open" /\ received[f] < Chunks
  /\ received' = [received EXCEPT ![f] = @ + 1]
  /\ temporary' = IF fd[f] = "temporary"
                    THEN [temporary EXCEPT ![UrlOf[f]] = @ \cup {received'[f]}] ELSE temporary
  /\ cached' = IF fd[f] = "cached"
                 THEN [cached EXCEPT ![UrlOf[f]] = @ \cup {received'[f]}] ELSE cached
  /\ UNCHANGED <<callVars, waitVars, uploadVars, downloadTasks, run, tries, fd, clearVars,
                 crossed, late>>

\* The download ends well, ...
Complete(f) ==
  /\ run[f] = "open" /\ received[f] = Chunks /\ ~Cancelled(f)
  /\ run' = [run EXCEPT ![f] = "downloaded"]
  /\ fd' = [fd EXCEPT ![f] = "none"]
  /\ tries' = [tries EXCEPT ![f] = 0] /\ received' = [received EXCEPT ![f] = 0]
  /\ UNCHANGED <<callVars, waitVars, uploadVars, downloadTasks, diskVars, clearVars, crossed,
                 late>>

\* ... it fails and is tried again, ...
Retry(f) ==
  /\ run[f] \in {"attempt", "open"} /\ ~Cancelled(f) /\ tries[f] > 1
  /\ run' = [run EXCEPT ![f] = "attempt"]
  /\ tries' = [tries EXCEPT ![f] = @ - 1]
  /\ fd' = [fd EXCEPT ![f] = "none"] /\ received' = [received EXCEPT ![f] = 0]
  /\ UNCHANGED <<callVars, waitVars, uploadVars, downloadTasks, diskVars, clearVars, crossed,
                 late>>

\* Mutant: what a failed download has received is kept as the file.
FailKeepingFile(f) ==
  /\ run[f] \in {"attempt", "open"} /\ ~Cancelled(f)
  /\ run' = [run EXCEPT ![f] = "downloaded"]
  /\ fd' = [fd EXCEPT ![f] = "none"]
  /\ UNCHANGED <<callVars, waitVars, uploadVars, downloadTasks, tries, received, diskVars,
                 clearVars, crossed, late>>

\* ... it fails for good, or it was cancelled.
Fail(f) ==
  /\ run[f] \in {"attempt", "open"}
  /\ fd' = [fd EXCEPT ![f] = "none"]
  /\ RunEnds(f, IF Cancelled(f) THEN "cancelled" ELSE "error")
  /\ UNCHANGED <<callVars, joined, uploadVars, diskVars, clearVars, crossed, late>>

\* A downloaded file is moved to the cache, unless there is one: that error is
\* ignored.  A temporary file that is gone makes for another error, or the same
\* one if it is found first.
CacheDownload(f) ==
  LET u == UrlOf[f] IN
  /\ run[f] = "downloaded"
  /\ \/ /\ cached[u] # NoFile
        /\ RunEnds(f, "success")
        /\ UNCHANGED <<diskVars, fd>>
     \/ /\ temporary[u] = NoFile
        /\ RunEnds(f, "error")
        /\ UNCHANGED <<diskVars, fd>>
     \/ /\ temporary[u] # NoFile /\ cached[u] = NoFile
        /\ cached' = [cached EXCEPT ![u] = temporary[u]]
        /\ temporary' = [temporary EXCEPT ![u] = NoFile]
        /\ fd' = [g \in Files |-> IF UrlOf[g] = u /\ fd[g] = "temporary" THEN "cached" ELSE fd[g]]
        /\ RunEnds(f, "success")
  /\ UNCHANGED <<callVars, joined, uploadVars, clearVars, crossed, late>>

-----------------------------------------------------------------------------
(* uploadFileAsyncWithState: and the end of the upload in PFFile. *)

\* The run of the upload ends; there is nothing to send once the staged copy is
\* gone.
Upload(f) ==
  /\ stage[f] = "uploading"
  /\ \/ Cancelled(f) /\ Answer(f, "cancelled")
     \/ ~Cancelled(f) /\ Answer(f, "error")
     \/ ~Cancelled(f) /\ f \in staged /\ Become(f, "caching") /\ UNCHANGED answer
  /\ UNCHANGED <<callVars, joined, uploadVars, downloadTasks, runVars, diskVars, clearVars,
                 crossed, late>>

\* The staged copy becomes the cached file ...
CacheUpload(f) ==
  /\ stage[f] = "caching"
  /\ staged' = staged \ {f}
  /\ cached' = [cached EXCEPT ![UrlOf[f]] = Content]
  /\ Become(f, "setting")
  /\ UNCHANGED <<callVars, answer, joined, new, uploaded, stranded, downloadTasks, runVars,
                 temporary, clearVars, crossed, late>>

\* ... and the file gets its URL, but not if it was cancelled since.
SetState(f) ==
  /\ stage[f] = "setting"
  /\ IF Cancelled(f)
       THEN Answer(f, "cancelled") /\ stranded' = stranded \cup {f} /\ UNCHANGED uploaded
       ELSE Answer(f, "success") /\ uploaded' = uploaded \cup {f} /\ UNCHANGED stranded
  /\ UNCHANGED <<callVars, joined, new, staged, downloadTasks, runVars, diskVars, clearVars, crossed,
                 late>>

-----------------------------------------------------------------------------
\* clearFileCacheAsync, for one file of the directory.
ClearFile(u) ==
  /\ clears < MaxClears /\ cached[u] # NoFile
  /\ clears' = clears + 1 /\ cleared' = cleared \cup {u}
  /\ cached' = [cached EXCEPT ![u] = NoFile]
  /\ fd' = [f \in Files |-> IF UrlOf[f] = u /\ fd[f] = "cached" THEN "gone" ELSE fd[f]]
  /\ UNCHANGED <<callVars, waitVars, uploadVars, downloadTasks, run, tries, received, temporary,
                 crossed, late>>

Next ==
  \/ \E f \in Files :
       \/ GetData(f) \/ Save(f) \/ Cancel(f)
       \/ Begin(f) \/ End(f)
       \/ LookUp(f) \/ CreateRun(f) \/ Register(f)
       \/ Respond(f) \/ ReceiveData(f) \/ Complete(f) \/ Retry(f) \/ Fail(f) \/ CacheDownload(f)
       \/ Upload(f) \/ CacheUpload(f) \/ SetState(f)
  \/ \E u \in Urls : ClearFile(u)

Spec == Init /\ [][Next]_transferVars

-----------------------------------------------------------------------------
(* Properties. *)

\* Where its data is: in the staged copy, which is where PFFile looks until it
\* has a URL, and in the cache from the move of the staged copy on.
HasItsData(f) ==
  IF Dirty(f) /\ stage[f] # "setting" THEN f \in staged ELSE cached[UrlOf[f]] = Content

(***************************************************************************)
(* A file that says that its data is available has all of it, and so has   *)
(* one whose get was answered well.  An upload moves the staged copy to    *)
(* the cache before it changes the state, and in between isDataAvailable   *)
(* is YES for the path of a staged copy that is gone (PFFile.m:476): the   *)
(* data is whole in the cache then, unless the cache is cleared.           *)
(* A file need not have its data when two downloads of its URL wrote to    *)
(* the one temporary file, when its upload was cancelled between that move *)
(* and the change of its state, and, after a get, when the cache was       *)
(* cleared.                                                                *)
(***************************************************************************)
AvailableDataIsWhole ==
  \A f \in Files :
    LET got == stage[f] = "answered" /\ answer[f] = "success" /\ Running(f).what = "get" IN
    \/ UrlOf[f] \in crossed \/ f \in stranded
    \/ /\ DataAvailable(f) => HasItsData(f) \/ (stage[f] = "setting" /\ UrlOf[f] \in cleared)
       /\ got => HasItsData(f) \/ UrlOf[f] \in cleared

(***************************************************************************)
(* Whoever waits for a download waits for one that is under way, and a     *)
(* download that is found in _downloadTasks is under way or was over when  *)
(* it was registered.                                                      *)
(***************************************************************************)
SharedDownloadsAreLive ==
  /\ \A f \in Files :
       /\ stage[f] = "waiting" => run[f] # "none"
       /\ stage[f] = "joined" => run[joined[f]] # "none" /\ UrlOf[joined[f]] = UrlOf[f]
  /\ \A u \in Urls :
       /\ downloadTasks[u] \in Files => run[downloadTasks[u]] # "none"
       /\ downloadTasks[u] \in Outcomes => u \in late
=============================================================================
