------------------------- MODULE CommandCacheProofs -------------------------
(***************************************************************************)
(* Proofs about PFEventuallyQueue with its commands in files, for every    *)
(* number of commands, attempts, client calls and deaths of the process,   *)
(* every size of a command and of the cache, with and without Backand.     *)
(***************************************************************************)
EXTENDS CommandCache, EventuallyQueueProofs, WellFoundedInduction

CacheInv == QueueInv /\ WrittenIsAccountedFor

-----------------------------------------------------------------------------
(* The bytes of the files, summed from the newest.                         *)

LEMMA LeastNatural ==
  ASSUME NEW T \in SUBSET Nat, T # {}
  PROVE  \E m \in T : \A x \in T : m <= x
<1> DEFINE R == {p \in Nat \X Nat : p[1] < p[2]}
<1>1. IsWellFoundedOn(R, Nat)
  BY NatLessThanWellFounded DEF OpToRel
<1> HIDE DEF R
<1>2. PICK m \in T : \A x \in T : ~(<<x, m>> \in R)
  BY <1>1, WFMin
<1>3. ASSUME NEW x \in T PROVE m <= x
  <2>1. <<x, m>> \notin R
    BY <1>2
  <2>2. QED
    BY <2>1 DEF R
<1>4. QED
  BY <1>3

Suffix == 1 .. NumCommands + 1
SumStep(f, c) == IF c \in Commands THEN FileSize(c) + f[c + 1] ELSE 0

\* There is such a function: one that is right about the last n + 1 commands
\* is made from one that is right about the last n.
LEMMA SumExists == \E f : f = [c \in Suffix |-> SumStep(f, c)]
<1> DEFINE RightOn(f, n) ==
             /\ DOMAIN f = Suffix /\ f = [c \in Suffix |-> f[c]]
             /\ \A c \in Suffix : NumCommands + 1 - c < n => f[c] = SumStep(f, c)
           T == {n \in Nat : \A f : ~RightOn(f, n)}
<1>n. NumCommands \in Nat
  BY ConstantsAssumption DEF ConstantsAssumption
<1>1. T = {}
  <2> SUFFICES ASSUME T # {} PROVE FALSE
    OBVIOUS
  <2>1. PICK n \in T : \A m \in T : n <= m
    BY LeastNatural
  <2>2. n # 0
    <3>1. RightOn([c \in Suffix |-> 0], 0)
      BY <1>n DEF Suffix
    <3>2. QED
      BY <2>1, <3>1
  <2>3. n - 1 \in Nat /\ n - 1 \notin T
    BY <2>1, <2>2
  <2>4. PICK f : RightOn(f, n - 1)
    BY <2>3
  <2> DEFINE g == [c \in Suffix |-> SumStep(f, c)]
  <2>5. ASSUME NEW c \in Suffix, NumCommands + 1 - c < n PROVE g[c] = SumStep(g, c)
    <3>1. CASE c \in Commands
      <4>1. c + 1 \in Suffix /\ NumCommands + 1 - (c + 1) < n - 1
        BY <1>n, <2>3, <2>5, <3>1 DEF Suffix, Commands
      <4>2. f[c + 1] = SumStep(f, c + 1)
        BY <2>4, <4>1
      <4>3. g[c + 1] = f[c + 1]
        BY <4>1, <4>2
      <4>4. QED
        BY <3>1, <4>3 DEF SumStep
    <3>2. CASE c \notin Commands
      BY <3>2 DEF SumStep
    <3>3. QED
      BY <3>1, <3>2
  <2>6. RightOn(g, n)
    <3>1. DOMAIN g = Suffix /\ g = [c \in Suffix |-> g[c]]
      OBVIOUS
    <3> HIDE DEF g
    <3>2. QED
      BY <2>5, <3>1
  <2> HIDE DEF g
  <2>7. QED
    BY <2>1, <2>6
<1>2. PICK f : RightOn(f, NumCommands + 1)
  <2>1. NumCommands + 1 \in Nat
    BY <1>n
  <2>2. QED
    BY <1>1, <2>1
<1>3. ASSUME NEW c \in Suffix PROVE f[c] = SumStep(f, c)
  <2>1. NumCommands + 1 - c < NumCommands + 1
    BY <1>n DEF Suffix
  <2>2. QED
    BY <1>2, <2>1
<1>4. f = [c \in Suffix |-> SumStep(f, c)]
  BY <1>2, <1>3
<1>5. QED
  BY <1>4

LEMMA SizeFromSums == \A c \in Suffix : SizeFrom[c] = SumStep(SizeFrom, c)
<1> DEFINE P(g) == g = [c \in Suffix |-> SumStep(g, c)]
<1>1. SizeFrom = CHOOSE g : P(g)
  BY DEF SizeFrom, Suffix, SumStep
<1>2. \E g : P(g)
  BY SumExists
<1> HIDE DEF P
<1>3. P(SizeFrom)
  BY <1>1, <1>2, Zenon
<1>4. QED
  BY <1>3 DEF P

(***************************************************************************)
(* The older the first file that is counted, the more bytes.               *)
(***************************************************************************)
LEMMA SizesGrow ==
  ASSUME size \in [Commands -> Nat], NEW c \in Suffix, NEW d \in Suffix, c <= d
  PROVE  SizeFrom[c] \in Nat /\ SizeFrom[d] \in Nat /\ SizeFrom[d] <= SizeFrom[c]
<1>n. NumCommands \in Nat
  BY ConstantsAssumption DEF ConstantsAssumption
<1> DEFINE Grows(a, b) == SizeFrom[a] \in Nat /\ SizeFrom[b] \in Nat /\ SizeFrom[b] <= SizeFrom[a]
           Short(n) == \A a, b \in Suffix : a <= b /\ NumCommands + 1 - a <= n => Grows(a, b)
           T == {n \in Nat : ~Short(n)}
<1>1. T = {}
  <2> SUFFICES ASSUME T # {} PROVE FALSE
    OBVIOUS
  <2>1. PICK n \in T : \A m \in T : n <= m
    BY LeastNatural
  <2>2. PICK a \in Suffix, b \in Suffix :
          a <= b /\ NumCommands + 1 - a <= n /\ ~Grows(a, b)
    BY <2>1
  <2>3. CASE a = NumCommands + 1
    <3>1. b = a /\ a \notin Commands
      BY <1>n, <2>2, <2>3 DEF Suffix, Commands
    <3>2. SizeFrom[a] = 0
      BY <3>1, SizeFromSums DEF SumStep
    <3>3. QED
      BY <2>2, <3>1, <3>2
  <2>4. CASE a # NumCommands + 1
    <3>1. a \in Commands /\ a + 1 \in Suffix /\ n - 1 \in Nat
          /\ NumCommands + 1 - (a + 1) <= n - 1
      BY <1>n, <2>1, <2>2, <2>4 DEF Suffix, Commands
    <3>2. Short(n - 1)
      BY <2>1, <3>1
    <3>3. SizeFrom[a] = FileSize(a) + SizeFrom[a + 1] /\ FileSize(a) \in Nat
      BY <3>1, SizeFromSums DEF SumStep, FileSize
    <3>4. SizeFrom[a + 1] \in Nat
      <4>1. a + 1 <= a + 1
        BY <3>1 DEF Suffix
      <4>2. QED
        BY <3>1, <3>2, <4>1
    <3>5. CASE b = a
      BY <2>2, <3>3, <3>4, <3>5
    <3>6. CASE b # a
      <4>1. a + 1 <= b
        BY <2>2, <3>6 DEF Suffix
      <4>2. Grows(a + 1, b)
        BY <3>1, <3>2, <4>1
      <4>3. QED
        BY <2>2, <3>3, <4>2
    <3>7. QED
      BY <3>5, <3>6
  <2>5. QED
    BY <2>3, <2>4
<1>2. NumCommands + 1 - c \in Nat
  BY <1>n DEF Suffix
<1>3. Short(NumCommands + 1 - c)
  BY <1>1, <1>2
<1>4. NumCommands + 1 - c <= NumCommands + 1 - c
  BY <1>2
<1>5. QED
  BY <1>3, <1>4

-----------------------------------------------------------------------------
\* What a step does to the queue: it is one of the base class's, it leaves the
\* queue alone, it is a removal of files, or it is one of the other three.
DiscardFiles ==
  /\ stored' \subseteq stored
  /\ stored \subseteq stored' \union dropped'
  /\ dropped \subseteq dropped' /\ failed' = failed
  /\ UNCHANGED <<callVars, sources, promise, passVars, connVars, histVars, running, kick, pc,
                 semaphore, calls>>

LEMMA EvictDiscards == EvictCommand => DiscardFiles
<1> SUFFICES ASSUME EvictCommand PROVE DiscardFiles
  OBVIOUS
<1>1. PICK c \in evicting : /\ stored' = stored \ {c}
                            /\ dropped' = dropped \union (stored \intersect {c})
  BY DEF EvictCommand
<1>2. QED
  BY <1>1 DEF EvictCommand, DiscardFiles

LEMMA RemoveListedDiscards == RemoveListedFile => DiscardFiles
<1> SUFFICES ASSUME RemoveListedFile PROVE DiscardFiles
  OBVIOUS
<1>1. PICK c \in listed : /\ stored' = stored \ {c}
                          /\ dropped' = dropped \union (stored \intersect {c})
  BY DEF RemoveListedFile
<1>2. QED
  BY <1>1 DEF RemoveListedFile, DiscardFiles

KeepHistory == dropped' = dropped /\ failed' = failed

LEMMA StepKinds ==
  ASSUME [Next]_cacheVars
  PROVE  \/ UNCHANGED vars /\ KeepHistory
         \/ QueueStep /\ ~RemoveCommand /\ KeepHistory
         \/ RemoveCommandFile
         \/ DiscardFiles
         \/ Refused
         \/ UnreadableCommand /\ KeepHistory
         \/ BeginRemoveAllCommands
         \/ DieAndReopen
<1> USE DEF QueueStep, ClientStep, ProcessingStep, KeepHistory, extraVars, cacheHist
<1>1. CASE UNCHANGED cacheVars
  BY <1>1 DEF cacheVars
<1>2. CASE BaseStep /\ UNCHANGED extraVars
  <2>1. RunCommands \/ BeginPass \/ LoadCommandFile \/ SkipMissingCommand \/ EndPass
          \/ FetchCompletionSource \/ RunCommand \/ BeginBackoff \/ QuitBackoff
          \/ BackoffElapsed \/ ResolvePromise
        => ~RemoveCommand
    BY DEF RunCommands, BeginPass, LoadCommandFile, LoadCommand, SkipMissingCommand, EndPass,
           FetchCompletionSource, RunCommand, BeginBackoff, QuitBackoff, BackoffElapsed,
           ResolvePromise, RemoveCommand
  <2>2. ClientStep \/ DidEnqueueCommand \/ ApplyConnected \/ SignalRetry => ~RemoveCommand
    BY DEF EnqueueCommand, Resume, Pause, SetConnected, DidEnqueueCommand, ApplyConnected,
           SignalRetry, RemoveCommand
  <2>3. CASE UnreadableCommand
    BY <1>2, <2>3
  <2>4. QED
    BY <1>2, <2>1, <2>2, <2>3 DEF BaseStep, PassStep, LoadCommandFile
<1>3. CASE CacheStep
  <2>1. CASE CleanupDiskCache \/ ListFiles
    BY <2>1 DEF CleanupDiskCache, ListFiles
  <2>2. CASE WriteCommand
    BY <2>2 DEF WriteCommand, StoreCommand, RemoveCommand, callVars
  <2>3. CASE EndRemoveAllCommands
    BY <2>3 DEF EndRemoveAllCommands, Resume, RemoveCommand
  <2>4. QED
    BY <1>3, <2>1, <2>2, <2>3, EvictDiscards, RemoveListedDiscards
       DEF CacheStep, RejectCommand, WriteFails
<1>4. CASE Crash \/ LoadRaises
  BY <1>4 DEF Crash, LoadRaises
<1>5. QED
  BY <1>1, <1>2, <1>3, <1>4 DEF Next

-----------------------------------------------------------------------------
(* Each kind of step keeps the invariant.                                   *)

LEMMA DiscardKeeps == CacheInv /\ DiscardFiles => CacheInv'
<1> SUFFICES ASSUME CacheInv, DiscardFiles PROVE CacheInv'
  OBVIOUS
<1>1. FlagsOK'
  BY Zenon DEF CacheInv, QueueInv, BaseTypeOK, FlagsOK, DiscardFiles, connVars, histVars, passVars
<1>2. BaseTypeOK'
  BY <1>1
     DEF DiscardFiles, CacheInv, QueueInv, BaseTypeOK, Handling, callVars, passVars, connVars,
         histVars
<1>3. NoLostWakeup'
  BY DEF DiscardFiles, CacheInv, QueueInv, NoLostWakeup, callVars, connVars, histVars
<1>4. PassCoversStored' /\ CurrentCommand' /\ PassInOrder'
  BY DEF DiscardFiles, CacheInv, QueueInv, PassCoversStored, InPass, CurrentCommand,
         PassInOrder, callVars, passVars, histVars
<1>5. ResolvedIsFinal' /\ Unanswered'
  BY DEF DiscardFiles, CacheInv, QueueInv, ResolvedIsFinal, Unanswered, callVars, passVars,
         histVars
<1>6. WrittenIsAccountedFor'
  BY DEF DiscardFiles, CacheInv, WrittenIsAccountedFor, callVars, histVars
<1>7. QED
  BY <1>2, <1>3, <1>4, <1>5, <1>6 DEF CacheInv, QueueInv

\* A refused command is answered, and was neither stored nor in a pass.
LEMMA RefusedKeeps == CacheInv /\ Refused => CacheInv'
<1> SUFFICES ASSUME CacheInv, Refused PROVE CacheInv'
  OBVIOUS
<1>0. /\ written' = written + 1 /\ registered' = written + 1 /\ written = registered
      /\ written < accepted /\ accepted' = accepted /\ written \in Nat
      /\ written + 1 \in Commands
  BY ConstantsAssumption
     DEF Refused, HookReady, CacheInv, QueueInv, BaseTypeOK, Commands, ConstantsAssumption
<1>1. FlagsOK'
  BY Zenon DEF CacheInv, QueueInv, BaseTypeOK, FlagsOK, Refused, connVars, histVars, passVars
<1>2. BaseTypeOK'
  BY <1>0, <1>1, ConstantsAssumption
     DEF Refused, CacheInv, QueueInv, BaseTypeOK, Handling, Commands, passVars,
         connVars, histVars, ConstantsAssumption
<1>3. NoLostWakeup' /\ PassCoversStored' /\ CurrentCommand' /\ PassInOrder'
  BY <1>0
     DEF Refused, CacheInv, QueueInv, NoLostWakeup, PassCoversStored, InPass,
         CurrentCommand, PassInOrder, BaseTypeOK, passVars, connVars, histVars
<1>4. ResolvedIsFinal' /\ Unanswered'
  <2>1. /\ promise'[written + 1] = "error"
        /\ \A c \in Commands : c # written + 1 => promise'[c] = promise[c]
    BY <1>0 DEF Refused, CacheInv, QueueInv, BaseTypeOK
  <2>2. written + 1 \notin stored /\ written + 1 \notin snapshot
    BY <1>0 DEF CacheInv, QueueInv, BaseTypeOK
  <2>3. ResolvedIsFinal'
    BY <2>1, <2>2
       DEF Refused, CacheInv, QueueInv, ResolvedIsFinal, Commands, passVars, histVars
  <2>4. \A c \in Commands : promise'[c] # "pending" => c <= written'
    <3>1. \A c \in Commands : c \in Int
      BY ConstantsAssumption DEF Commands, ConstantsAssumption
    <3>2. QED
      BY <1>0, <2>1, <3>1 DEF CacheInv, QueueInv, Unanswered
  <2>5. pc' \in Handling => promise'[cur'] = "pending"
    <3>1. UNCHANGED <<pc, cur>> /\ (pc \in Handling => cur \in Commands /\ cur # written + 1)
      BY <1>0, ConstantsAssumption
         DEF Refused, CacheInv, QueueInv, BaseTypeOK, Commands, NoCommand, passVars,
             ConstantsAssumption
    <3>2. QED
      BY <2>1, <3>1 DEF CacheInv, QueueInv, Unanswered
  <2>6. QED
    BY <2>3, <2>4, <2>5 DEF Unanswered, Commands
<1>5. WrittenIsAccountedFor'
  BY <1>0 DEF Refused, CacheInv, WrittenIsAccountedFor, histVars
<1>6. QED
  BY <1>2, <1>3, <1>4, <1>5 DEF CacheInv, QueueInv

\* A command whose file cannot be read is taken off the pass to be finished.
LEMMA UnreadableKeeps == CacheInv /\ UnreadableCommand /\ KeepHistory => CacheInv'
<1> SUFFICES ASSUME CacheInv, UnreadableCommand, KeepHistory PROVE CacheInv'
  OBVIOUS
<1>0. PICK c \in snapshot \intersect stored :
        /\ IsNext(c) /\ cur' = c /\ snapshot' = snapshot \ {c}
        /\ pc = "load" /\ pc' = "finish" /\ outcome' = "permanent"
  BY DEF UnreadableCommand
<1>u. UNCHANGED <<callVars, storeVars, holdsSource, retries, connVars, histVars, running, kick,
                  semaphore, calls>>
  BY DEF UnreadableCommand
<1>1. FlagsOK'
  BY <1>u, Zenon DEF CacheInv, QueueInv, BaseTypeOK, FlagsOK, connVars, histVars
<1>2. BaseTypeOK'
  BY <1>0, <1>u, <1>1
     DEF CacheInv, QueueInv, BaseTypeOK, Handling, NoCommand, callVars, storeVars, connVars, histVars
<1>3. NoLostWakeup' /\ PassCoversStored' /\ CurrentCommand' /\ PassInOrder'
  BY <1>0, <1>u
     DEF IsNext, CacheInv, QueueInv, BaseTypeOK, NoLostWakeup, PassCoversStored, InPass,
         CurrentCommand, PassInOrder, Handling, NoCommand, callVars, storeVars, connVars, histVars
<1>4. ResolvedIsFinal' /\ Unanswered'
  <2>1. c \in Commands
    BY <1>0, ConstantsAssumption DEF CacheInv, QueueInv, BaseTypeOK, Commands, ConstantsAssumption
  <2>2. promise[c] = "pending"
    BY <1>0, <2>1 DEF CacheInv, QueueInv, ResolvedIsFinal
  <2>3. QED
    BY <1>0, <1>u, <2>1, <2>2
       DEF CacheInv, QueueInv, ResolvedIsFinal, Unanswered, callVars, storeVars, histVars
<1>5. WrittenIsAccountedFor'
  BY <1>u DEF CacheInv, WrittenIsAccountedFor, KeepHistory, callVars, storeVars, histVars
<1>6. QED
  BY <1>2, <1>3, <1>4, <1>5 DEF CacheInv, QueueInv

LEMMA BeginRemoveKeeps == CacheInv /\ BeginRemoveAllCommands => CacheInv'
<1> SUFFICES ASSUME CacheInv, BeginRemoveAllCommands PROVE CacheInv'
  OBVIOUS
<1>1. FlagsOK'
  BY Zenon DEF CacheInv, QueueInv, BaseTypeOK, FlagsOK, BeginRemoveAllCommands, connVars,
               histVars, passVars
<1>2. QED
  BY <1>1
     DEF BeginRemoveAllCommands, CacheInv, QueueInv, NoLostWakeup, PassCoversStored, InPass,
         CurrentCommand, PassInOrder, ResolvedIsFinal, Unanswered, BaseTypeOK, Handling,
         WrittenIsAccountedFor, callVars, passVars, connVars, histVars, cacheHist

\* A new queue is idle and handles nothing; the files are what they were.
LEMMA ReopenKeeps == CacheInv /\ DieAndReopen => CacheInv'
<1> SUFFICES ASSUME CacheInv, DieAndReopen PROVE CacheInv'
  OBVIOUS
<1>0. /\ written' = accepted /\ registered' = accepted /\ accepted' = accepted
      /\ written \in Nat /\ accepted \in Nat /\ written <= accepted /\ accepted <= NumCommands
  BY ConstantsAssumption
     DEF DieAndReopen, Reopen, CacheInv, QueueInv, BaseTypeOK, ConstantsAssumption
<1>1. FlagsOK'
  BY Zenon DEF DieAndReopen, Reopen, FlagsOK
<1>2. BaseTypeOK'
  BY <1>0, <1>1, ConstantsAssumption
     DEF DieAndReopen, Reopen, CacheInv, QueueInv, BaseTypeOK, Handling, NoCommand, Commands,
         ConstantsAssumption
<1>3. /\ NoLostWakeup' /\ PassCoversStored' /\ CurrentCommand' /\ PassInOrder'
      /\ ResolvedIsFinal' /\ Unanswered'
  BY <1>0
     DEF DieAndReopen, Reopen, CacheInv, QueueInv, NoLostWakeup, PassCoversStored, InPass,
         CurrentCommand, PassInOrder, ResolvedIsFinal, Unanswered, Handling, Commands
<1>4. WrittenIsAccountedFor'
  BY <1>0 DEF DieAndReopen, Reopen, CacheInv, WrittenIsAccountedFor
<1>5. QED
  BY <1>2, <1>3, <1>4 DEF CacheInv, QueueInv

\* The file of a command goes when it was executed, failed or was unreadable.
LEMMA RemoveFileKeeps == CacheInv /\ RemoveCommandFile => CacheInv'
<1> SUFFICES ASSUME CacheInv, RemoveCommandFile PROVE CacheInv'
  OBVIOUS
<1>1. QueueInv'
  BY QueueInvStep DEF CacheInv, RemoveCommandFile, QueueStep, ProcessingStep
<1>2. /\ stored' = stored \ {cur} /\ UNCHANGED <<written, delivered, dropped>>
      /\ failed \subseteq failed' /\ cur \in delivered \union failed'
  BY DEF RemoveCommandFile, RemoveCommand, CacheInv, QueueInv, CurrentCommand, callVars, histVars
<1>3. QED
  BY <1>1, <1>2 DEF CacheInv, WrittenIsAccountedFor

\* The other steps of the base class remove nothing from the storage.
LEMMA QueueStepKeeps == CacheInv /\ QueueStep /\ ~RemoveCommand /\ KeepHistory => CacheInv'
<1> SUFFICES ASSUME CacheInv, QueueStep, ~RemoveCommand, KeepHistory PROVE CacheInv'
  OBVIOUS
<1>1. QueueInv'
  BY QueueInvStep DEF CacheInv
<1>2. CASE StoreCommand
  BY <1>1, <1>2
     DEF StoreCommand, CacheInv, QueueInv, BaseTypeOK, WrittenIsAccountedFor, KeepHistory, histVars
<1>3. CASE RunCommand
  <2>1. delivered \subseteq delivered' /\ UNCHANGED <<written, stored>>
    BY <1>3 DEF RunCommand, callVars, storeVars
  <2>2. QED
    BY <1>1, <2>1 DEF CacheInv, WrittenIsAccountedFor, KeepHistory
<1>4. CASE UNCHANGED <<written, stored, delivered>>
  BY <1>1, <1>4 DEF CacheInv, WrittenIsAccountedFor, KeepHistory
<1>5. QED
  BY <1>2, <1>3, <1>4, StorageKept

LEMMA CacheInvInit == Init => CacheInv
BY QueueInvInit DEF Init, BaseInit, CacheInv, WrittenIsAccountedFor

LEMMA CacheInvStep == CacheInv /\ [Next]_cacheVars => CacheInv'
<1> SUFFICES ASSUME CacheInv, [Next]_cacheVars PROVE CacheInv'
  OBVIOUS
<1>1. CASE UNCHANGED vars /\ KeepHistory
  BY <1>1
     DEF vars, KeepHistory, callVars, storeVars, passVars, connVars, histVars, CacheInv,
         WrittenIsAccountedFor, QueueInv, BaseTypeOK, FlagsOK, NoLostWakeup,
         PassCoversStored, InPass, CurrentCommand, PassInOrder, ResolvedIsFinal, Unanswered
<1>2. QED
  BY <1>1, StepKinds, QueueStepKeeps, RemoveFileKeeps, DiscardKeeps, RefusedKeeps,
     UnreadableKeeps, BeginRemoveKeeps, ReopenKeeps

LEMMA Invariance == Spec => []CacheInv
BY CacheInvInit, CacheInvStep, PTL DEF Spec

-----------------------------------------------------------------------------
(* The files: their types, and what is evicted.                            *)

FileTypes ==
  /\ size \in [Commands -> Sizes \union {0}]
  /\ cleaned \in BOOLEAN
  /\ evicting \subseteq 1 .. written
  /\ removing \in {"none", "paused", "listed"}
  /\ listed \subseteq 1 .. written
  /\ removals \in 0 .. MaxDisruptions /\ crashes \in 0 .. MaxDisruptions
  /\ usingBackand \in BackandChoices
  /\ dropped \subseteq 1 .. accepted /\ failed \subseteq 1 .. accepted

LEMMA QueueStepGrows ==
  ASSUME BaseTypeOK, BaseTypeOK', BaseStep \/ StoreCommand \/ RemoveCommand
  PROVE  /\ written <= written' /\ accepted <= accepted'
         /\ written' \in Nat /\ accepted' \in Nat
<1>1. QueueStep \/ written' = written
  BY DEF BaseStep, PassStep, QueueStep, ClientStep, ProcessingStep, LoadCommandFile,
         UnreadableCommand, callVars
<1>2. written \in Nat /\ accepted \in Nat
  BY DEF BaseTypeOK
<1>3. accepted' = accepted \/ accepted' = accepted + 1
  BY DEF BaseStep, PassStep, ClientStep, StoreCommand, RemoveCommand, EnqueueCommand, Resume, Pause,
         SetConnected, ApplyConnected, SignalRetry, DidEnqueueCommand, RunCommands, BeginPass,
         LoadCommandFile, LoadCommand, UnreadableCommand, SkipMissingCommand, EndPass,
         FetchCompletionSource, RunCommand, BeginBackoff, QuitBackoff, BackoffElapsed,
         ResolvePromise, callVars
<1>4. QED
  BY <1>1, <1>2, <1>3, WrittenGrows

LEMMA FileTypesStep ==
  ASSUME MaxDisruptions \in Nat, BaseTypeOK, BaseTypeOK', FileTypes, [Next]_cacheVars
  PROVE  FileTypes'
<1>w. /\ written \in Nat /\ accepted \in Nat /\ written <= accepted /\ accepted <= NumCommands
      /\ stored \subseteq 1 .. written /\ cur \in 0 .. written
      /\ pc \in Handling => cur # NoCommand
  BY ConstantsAssumption DEF BaseTypeOK, ConstantsAssumption
<1>c. cleaned' \in BOOLEAN
  BY Zenon
     DEF FileTypes, Next, CacheStep, Crash, LoadRaises, DieAndReopen, RejectCommand,
         CleanupDiskCache, WriteCommand, WriteFails, Refused, EvictCommand, BeginRemoveAllCommands,
         ListFiles, RemoveListedFile, EndRemoveAllCommands, RemoveCommandFile, cacheVars,
         extraVars, diskVars
<1>b. usingBackand' \in BackandChoices
  <2>1. usingBackand' = usingBackand
    BY Zenon
       DEF Next, CacheStep, Crash, LoadRaises, RejectCommand, CleanupDiskCache, WriteCommand,
           WriteFails, Refused, EvictCommand, BeginRemoveAllCommands, ListFiles, RemoveListedFile,
           EndRemoveAllCommands, RemoveCommandFile, cacheVars, extraVars, crashVars
  <2>2. QED
    BY <2>1 DEF FileTypes
<1>d. removals' \in 0 .. MaxDisruptions /\ crashes' \in 0 .. MaxDisruptions
  BY DEF FileTypes, Next, CacheStep, Crash, LoadRaises, DieAndReopen, RejectCommand,
         CleanupDiskCache, WriteCommand, WriteFails, Refused, EvictCommand,
         BeginRemoveAllCommands, ListFiles, RemoveListedFile, EndRemoveAllCommands,
         RemoveCommandFile, cacheVars, extraVars, crashVars, removeVars
<1> DEFINE Rest ==
             /\ size \in [Commands -> Sizes \union {0}]
             /\ evicting \subseteq 1 .. written
             /\ removing \in {"none", "paused", "listed"}
             /\ listed \subseteq 1 .. written
             /\ dropped \subseteq 1 .. accepted /\ failed \subseteq 1 .. accepted
<1>r. Rest
  BY DEF FileTypes
<1>1. CASE UNCHANGED cacheVars
  <2>1. Rest'
    BY <1>1, <1>r
       DEF cacheVars, vars, extraVars, diskVars, removeVars, cacheHist, callVars
  <2>2. QED
    BY <1>c, <1>b, <1>d, <2>1 DEF FileTypes
<1>2. CASE BaseStep /\ UNCHANGED extraVars
  <2>1. Rest'
    BY <1>2, <1>r, <1>w, QueueStepGrows DEF extraVars, diskVars, removeVars, cacheHist
  <2>2. QED
    BY <1>c, <1>b, <1>d, <2>1 DEF FileTypes
<1>3. CASE RejectCommand \/ WriteCommand \/ WriteFails
  <2>1. /\ written' = written + 1 /\ accepted' = accepted /\ written + 1 <= accepted
        /\ UNCHANGED <<size, evicting, removing, listed, failed>>
        /\ dropped' \subseteq dropped \union {written + 1}
    BY <1>3, <1>w
       DEF RejectCommand, WriteCommand, WriteFails, Refused, StoreCommand, HookReady, diskVars,
           removeVars, cacheHist
  <2>2. Rest'
    BY <1>r, <1>w, <2>1
  <2>3. QED
    BY <1>c, <1>b, <1>d, <2>2 DEF FileTypes
<1>4. CASE CleanupDiskCache
  <2>1. PICK s \in Sizes : /\ size' = [size EXCEPT ![written + 1] = s]
                           /\ evicting' = evicting \union Victims(s)
    BY <1>4 DEF CleanupDiskCache
  <2>2. UNCHANGED <<written, accepted, removing, listed, dropped, failed>>
    BY <1>4 DEF CleanupDiskCache, vars, callVars, removeVars, cacheHist
  <2>3. evicting' \subseteq 1 .. written
    BY <1>r, <1>w, <2>1 DEF Victims
  <2>4. size' \in [Commands -> Sizes \union {0}]
    BY <1>r, <2>1
  <2>5. Rest'
    BY <1>r, <2>2, <2>3, <2>4
  <2>6. QED
    BY <1>c, <1>b, <1>d, <2>5 DEF FileTypes
<1>5. CASE EvictCommand \/ RemoveListedFile
  <2>1. /\ UNCHANGED <<written, accepted, size, removing, failed>>
        /\ evicting' \subseteq evicting /\ listed' \subseteq listed
        /\ dropped' \subseteq dropped \union stored
    BY <1>5 DEF EvictCommand, RemoveListedFile, callVars, diskVars, removeVars
  <2>2. Rest'
    BY <1>r, <1>w, <2>1
  <2>3. QED
    BY <1>c, <1>b, <1>d, <2>2 DEF FileTypes
<1>6. CASE BeginRemoveAllCommands \/ ListFiles \/ EndRemoveAllCommands
  <2>1. /\ UNCHANGED <<written, accepted, size, evicting, dropped, failed>>
        /\ removing' \in {"none", "paused", "listed"}
        /\ listed' = listed \/ listed' = stored
    BY <1>6
       DEF BeginRemoveAllCommands, ListFiles, EndRemoveAllCommands, Resume, vars, callVars,
           diskVars, cacheHist
  <2>2. Rest'
    BY <1>r, <1>w, <2>1
  <2>3. QED
    BY <1>c, <1>b, <1>d, <2>2 DEF FileTypes
<1>7. CASE RemoveCommandFile
  <2>1. /\ UNCHANGED <<written, accepted, size, evicting, removing, listed, dropped>>
        /\ failed' \subseteq failed \union {cur} /\ cur \in 1 .. accepted
    BY <1>7, <1>w
       DEF RemoveCommandFile, RemoveCommand, callVars, diskVars, removeVars, Handling, NoCommand
  <2>2. Rest'
    BY <1>r, <2>1
  <2>3. QED
    BY <1>c, <1>b, <1>d, <2>2 DEF FileTypes
<1>8. CASE Crash \/ LoadRaises
  <2>1. /\ written' = accepted /\ evicting' = {} /\ listed' = {} /\ removing' = "none"
        /\ UNCHANGED <<accepted, size, failed>>
        /\ dropped' = dropped \union (written + 1 .. accepted)
    BY <1>8 DEF Crash, LoadRaises, DieAndReopen, Reopen
  <2>2. Rest'
    BY <1>r, <1>w, <2>1
  <2>3. QED
    BY <1>c, <1>b, <1>d, <2>2 DEF FileTypes
<1>9. QED
  BY <1>1, <1>2, <1>3, <1>4, <1>5, <1>6, <1>7, <1>8 DEF Next, CacheStep

(***************************************************************************)
(* Eviction starts from the oldest file, by the sum of the sizes of the    *)
(* newer ones, and stays so while files are removed and written.           *)
(***************************************************************************)
LEMMA EvictionStep ==
  ASSUME Sizes \subseteq Nat, DiskCacheSize \in Nat, BaseTypeOK, FileTypes, OldestEvictedFirst, [Next]_cacheVars
  PROVE  OldestEvictedFirst'
<1>w. /\ written \in Nat /\ stored \subseteq 1 .. written /\ evicting \subseteq 1 .. written
      /\ NumCommands \in Nat /\ written <= NumCommands
  BY ConstantsAssumption DEF BaseTypeOK, FileTypes, ConstantsAssumption
<1>z. size \in [Commands -> Nat]
  <2>1. size \in [Commands -> Sizes \union {0}] /\ Sizes \union {0} \subseteq Nat
    BY DEF FileTypes
  <2>2. QED
    BY <2>1
<1>1. CASE stored' \subseteq stored /\ evicting' = evicting
  BY <1>1 DEF OldestEvictedFirst
<1>2. CASE WriteCommand
  <2>1. stored' = stored \union {written + 1} /\ evicting' = evicting
    BY <1>2 DEF WriteCommand, StoreCommand
  <2>2. QED
    BY <1>w, <2>1 DEF OldestEvictedFirst
<1>3. CASE CleanupDiskCache
  <2>1. PICK s \in Sizes : evicting' = evicting \union Victims(s)
    BY <1>3 DEF CleanupDiskCache
  <2>2. stored' = stored /\ s \in Nat
    BY <1>3 DEF CleanupDiskCache, vars, storeVars
  <2>3. ASSUME NEW c \in Victims(s), NEW d \in stored, d < c PROVE d \in Victims(s)
    <3>0. c \in stored /\ s + SizeFrom[c] > DiskCacheSize /\ ~(DirectorySize <= DiskCacheSize)
      BY DEF Victims
    <3>1. c \in Suffix /\ d \in Suffix /\ d <= c
      BY <1>w, <2>3, <3>0 DEF Suffix
    <3>2. SizeFrom[d] \in Nat /\ SizeFrom[c] \in Nat /\ SizeFrom[c] <= SizeFrom[d]
      BY <1>z, <3>1, SizesGrow
    <3>3. s + SizeFrom[d] > DiskCacheSize
      BY <2>2, <3>0, <3>2
    <3>4. QED
      BY <3>0, <3>3 DEF Victims
  <2>4. QED
    BY <2>1, <2>2, <2>3 DEF OldestEvictedFirst
<1>4. CASE EvictCommand
  <2>1. PICK c \in evicting : evicting' = evicting \ {c} /\ stored' = stored \ {c}
    BY <1>4 DEF EvictCommand
  <2>2. QED
    BY <2>1 DEF OldestEvictedFirst
<1>5. CASE Crash \/ LoadRaises
  BY <1>5 DEF Crash, LoadRaises, DieAndReopen, OldestEvictedFirst
<1>6. CASE BaseStep /\ UNCHANGED extraVars
  <2>1. stored' = stored /\ evicting' = evicting
    BY <1>6
       DEF BaseStep, PassStep, ClientStep, EnqueueCommand, Resume, Pause, SetConnected,
           ApplyConnected, SignalRetry, DidEnqueueCommand, RunCommands, BeginPass,
           LoadCommandFile, LoadCommand, UnreadableCommand, SkipMissingCommand, EndPass,
           FetchCompletionSource, RunCommand, BeginBackoff, QuitBackoff, BackoffElapsed,
           ResolvePromise, storeVars, extraVars, diskVars
  <2>2. QED
    BY <1>1, <2>1
<1>7. CASE \/ UNCHANGED cacheVars \/ RejectCommand \/ WriteFails \/ BeginRemoveAllCommands
           \/ ListFiles \/ RemoveListedFile \/ EndRemoveAllCommands \/ RemoveCommandFile
  <2>1. stored' \subseteq stored /\ evicting' = evicting
    BY <1>7
       DEF RejectCommand, WriteFails, Refused, BeginRemoveAllCommands, ListFiles,
           RemoveListedFile, EndRemoveAllCommands, Resume, RemoveCommandFile, RemoveCommand, cacheVars, vars,
           storeVars, extraVars, diskVars
  <2>2. QED
    BY <1>1, <2>1
<1>8. QED
  BY <1>2, <1>3, <1>4, <1>5, <1>6, <1>7 DEF Next, CacheStep

-----------------------------------------------------------------------------
(***************************************************************************)
(* The inductive invariant of the command cache and its files.             *)
(***************************************************************************)
FilesInv == CacheInv /\ FileTypes /\ OldestEvictedFirst

\* What the model assumes of the constants of the cache.
CacheConstants ==
  /\ Sizes \subseteq Nat
  /\ DiskCacheSize \in Nat
  /\ MaxDisruptions \in Nat

LEMMA FilesInvInit == ASSUME CacheConstants, Init PROVE FilesInv
<1>1. cleaned \in BOOLEAN
  BY Zenon DEF Init
<1>2. FileTypes
  BY <1>1 DEF Init, BaseInit, FileTypes, CacheConstants
<1>3. QED
  BY <1>2, CacheInvInit DEF Init, FilesInv, OldestEvictedFirst

LEMMA FilesInvStep ==
  ASSUME CacheConstants, FilesInv, [Next]_cacheVars PROVE FilesInv'
<1>1. CacheInv /\ CacheInv'
  BY CacheInvStep DEF FilesInv
<1>2. BaseTypeOK /\ BaseTypeOK'
  BY <1>1 DEF CacheInv, QueueInv
<1>3. FileTypes'
  BY <1>2, FileTypesStep DEF FilesInv, CacheConstants
<1>4. OldestEvictedFirst'
  BY <1>2, EvictionStep DEF FilesInv, CacheConstants
<1>5. QED
  BY <1>1, <1>3, <1>4 DEF FilesInv

LEMMA FilesAreRight == FilesInv => TypeOK /\ ResolvedIsFinal /\ NothingLost
BY DEF FilesInv, CacheInv, QueueInv, TypeOK, FileTypes, NothingLost

-----------------------------------------------------------------------------
(***************************************************************************)
(* A command that was written is stored, or the server executed it, it     *)
(* failed for good, its file could not be read (and is deleted, its caller *)
(* unanswered), or it was discarded or evicted: no other step of the queue *)
(* and no death of the process between two steps loses it.                 *)
(***************************************************************************)
THEOREM WrittenIsKept == Spec => []WrittenIsAccountedFor
BY Invariance, PTL DEF CacheInv

(***************************************************************************)
(* The same, and eviction takes the oldest files first: while a file waits *)
(* to be evicted, every older one does (_cleanupDiskCacheWithRequiredFree- *)
(* Size:).                                                                 *)
(***************************************************************************)
THEOREM FilesAreNotLost == ASSUME CacheConstants PROVE Spec => []NothingLost
<1>1. Init => FilesInv
  BY FilesInvInit
<1>2. FilesInv /\ [Next]_cacheVars => FilesInv'
  BY FilesInvStep
<1>3. QED
  BY <1>1, <1>2, FilesAreRight, PTL DEF Spec

(***************************************************************************)
(* An idle, running and connected cache with registered commands has a     *)
(* kick pending or was woken from a retry wait, also after it was emptied  *)
(* or opened again (_runCommands, removeAllCommands).                      *)
(***************************************************************************)
THEOREM CacheWakeupsAreNotLost == Spec => []NoLostWakeup
BY Invariance, PTL DEF CacheInv, QueueInv

(***************************************************************************)
(* An answered command is out of the files and of the pass, and success is *)
(* answered only for what the server executed, also across deaths.         *)
(***************************************************************************)
THEOREM CacheAnswersAreFinal == Spec => []ResolvedIsFinal
BY Invariance, PTL DEF CacheInv, QueueInv

-----------------------------------------------------------------------------
(***************************************************************************)
(* Every step of the cache is one of EventualDelivery, or none: files that *)
(* are removed and a process that dies drop commands, and a command that   *)
(* cannot be stored is refused.                                            *)
(***************************************************************************)
LEMMA CacheDeliveryStep ==
  CacheInv /\ [Next]_cacheVars => [Delivery!Next]_(Delivery!deliveryVars)
<1> SUFFICES ASSUME CacheInv, [Next]_cacheVars PROVE Delivery!Next \/ Unseen
  BY UnseenStutters
<1>1. CASE UNCHANGED vars
  BY <1>1 DEF vars, callVars, storeVars, passVars, histVars, Unseen, Left, Sending
<1>2. CASE QueueStep \/ RemoveCommandFile
  BY <1>2, DeliveryStep DEF CacheInv, RemoveCommandFile, QueueStep, ProcessingStep
<1>3. CASE DiscardFiles
  <2>1. stored' \subseteq stored /\ UNCHANGED <<accepted, written, Sending, delivered, promise>>
    BY <1>3 DEF DiscardFiles, callVars, passVars, histVars, Sending
  <2>2. QED
    BY <2>1, StoredIsDropped DEF CacheInv, Delivery!Next
<1>4. CASE Refused
  <2>1. /\ written \in Nat /\ accepted \in Nat /\ written < accepted
        /\ stored \subseteq 1 .. written /\ delivered \subseteq 1 .. written
        /\ Sending \in 0 .. written
    BY <1>4 DEF Refused, HookReady, CacheInv, QueueInv, BaseTypeOK, Sending, NoCommand
  <2>2. /\ written' = written + 1 /\ stored' = stored
        /\ promise' = [promise EXCEPT ![written + 1] = "error"]
        /\ UNCHANGED <<accepted, Sending, delivered>>
    BY <1>4 DEF Refused, passVars, histVars, Sending
  <2>3. /\ written + 1 \in (1 .. accepted) \ Left
        /\ written + 1 # Sending /\ written + 1 \notin delivered
        /\ Left' = Left \union {written + 1}
    BY <2>1, <2>2 DEF Left
  <2>4. Delivery!Refuse
    BY <2>2, <2>3 DEF Delivery!Refuse, Left, Sending
  <2>5. QED
    BY <2>4 DEF Delivery!Next
<1>5. CASE BeginRemoveAllCommands
  BY <1>5 DEF BeginRemoveAllCommands, callVars, passVars, histVars, Unseen, Left, Sending
<1>6. CASE DieAndReopen
  <2>1. /\ written' = accepted /\ stored' = stored /\ Sending' = 0
        /\ UNCHANGED <<accepted, delivered, promise>>
    BY <1>6 DEF DieAndReopen, Reopen, Sending, Handling, NoCommand
  <2>2. written \in Nat /\ accepted \in Nat /\ written <= accepted
    BY DEF CacheInv, QueueInv, BaseTypeOK
  <2>3. Left \subseteq Left' /\ Left' \subseteq 1 .. accepted
    BY <2>1, <2>2 DEF Left
  <2>4. Delivery!Drop
    BY <2>1, <2>3 DEF Delivery!Drop, Left, Sending
  <2>5. QED
    BY <2>4 DEF Delivery!Next
<1>7. CASE UnreadableCommand /\ KeepHistory
  <2>1. PICK c \in snapshot \intersect stored :
          IsNext(c) /\ cur' = c /\ pc = "load" /\ pc' = "finish"
    BY <1>7 DEF UnreadableCommand
  <2>2. /\ c \in 1 .. written /\ written \in Nat /\ accepted \in Nat /\ written <= accepted
        /\ c \in stored
    BY <2>1 DEF CacheInv, QueueInv, BaseTypeOK
  <2>3. ASSUME NEW d \in 1 .. accepted, d < c
        PROVE  d \notin stored
    BY <2>1, <2>2, <2>3 DEF CacheInv, QueueInv, PassInOrder, InPass, CurrentCommand, IsNext, NoCommand
  <2>4. Sending = 0 /\ Sending' = c
    BY <2>1 DEF Sending, NoCommand, Handling
  <2>5. Sending' \in (1 .. accepted) \ Left /\ \A d \in 1 .. accepted : d < Sending' => d \in Left
    BY <2>2, <2>3, <2>4 DEF Left
  <2>6. UNCHANGED <<accepted, Left, delivered, promise>>
    BY <1>7 DEF UnreadableCommand, Left, callVars, storeVars, histVars
  <2>7. Delivery!Send
    BY <2>4, <2>5, <2>6 DEF Delivery!Send, Left, Sending
  <2>8. QED
    BY <2>7 DEF Delivery!Next
<1>8. QED
  BY <1>1, <1>2, <1>3, <1>4, <1>5, <1>6, <1>7, StepKinds

(***************************************************************************)
(* The command cache delivers as EventualDelivery says, whatever it        *)
(* evicts, refuses and discards, and whenever the process dies.            *)
(***************************************************************************)
THEOREM CommandCacheDelivers == Spec => DeliversInOrder
<1>1. Init => Delivery!Init
  BY DeliveryInit DEF Init
<1>2. Spec => Delivery!Init /\ [][Delivery!Next]_(Delivery!deliveryVars)
  BY <1>1, CacheDeliveryStep, Invariance, PTL DEF Spec
<1>3. QED
  BY <1>2 DEF DeliversInOrder, Delivery!Spec
=============================================================================
