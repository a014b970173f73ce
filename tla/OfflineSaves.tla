---------------------------- MODULE OfflineSaves ----------------------------
(***************************************************************************)
(* saveEventually on objects that the server does not know yet: the        *)
(* command cache, the local id store and the objects, together.  Each      *)
(* command for a new object is stored as a create with the object's local  *)
(* id; when it is sent, maybeChangeServerOperation turns it into an update *)
(* if the local id has been resolved by an earlier one.                    *)
(***************************************************************************)
EXTENDS LocalIdStore, Sequences, FiniteSets

CONSTANTS MaxSaves, MaxCrashes, MaxLost     \* bounds

ASSUME OfflineAssumption == {MaxSaves, MaxCrashes, MaxLost} \subseteq Nat

VARIABLES
  alive,     \* local ids whose object is still in memory
  objectId,  \* the object's own objectId
  files,     \* stored commands, in the order they will run
  step,      \* "idle", or how far the command at the head has got
  answer,    \* object id in the server's answer to the head command
  results,   \* answers on their way to handleSaveResultAsync:
  saves, crashes, lost,  \* bound counters
  created    \* history: the objects the server has made for each local id

offVars == <<vars, alive, objectId, files, step, answer, results, saves,
             crashes, lost, created>>

Commands == [local : LocalIds, target : ObjectIds \union {NoId}]

OffTypeOK ==
  /\ TypeOK
  /\ alive \subseteq LocalIds
  /\ objectId \in [LocalIds -> ObjectIds \union {NoId}]
  /\ files \in Seq(Commands) /\ Len(files) <= MaxSaves
  /\ step \in {"idle", "sent", "mapped"}
  /\ answer \in ObjectIds \union {NoId}
  /\ results \subseteq (LocalIds \X ObjectIds)
  /\ saves \in 0 .. MaxSaves /\ crashes \in 0 .. MaxCrashes /\ lost \in 0 .. MaxLost
  /\ created \in [LocalIds -> SUBSET ObjectIds]

OffInit ==
  /\ Init
  /\ alive = LocalIds
  /\ objectId = [l \in LocalIds |-> NoId]
  /\ files = <<>> /\ step = "idle" /\ answer = NoId /\ results = {}
  /\ saves = 0 /\ crashes = 0 /\ lost = 0
  /\ created = [l \in LocalIds |-> {}]

-----------------------------------------------------------------------------
\* A create when the object has no objectId yet, an update otherwise.
SaveEventually(l) ==
  /\ saves < MaxSaves /\ l \in alive
  /\ saves' = saves + 1
  /\ files' = Append(files, [local |-> l, target |-> objectId[l]])
  /\ UNCHANGED <<vars, alive, objectId, step, answer, results, crashes, lost,
                 created>>

\* Mutant: an unresolved local id passes for an object id.
TargetOrLocalId == IF Head(files).target # NoId THEN Head(files).target
                   ELSE IF ObjectIdForLocalId(Head(files).local) # NoId
                     THEN ObjectIdForLocalId(Head(files).local)
                     ELSE Head(files).local

\* Mutant: the command is sent as it was stored.
TargetAsStored == Head(files).target

\* The id maybeChangeServerOperation leaves the head command with.
Target == IF Head(files).target # NoId THEN Head(files).target
          ELSE ObjectIdForLocalId(Head(files).local)

IsCreate == Target = NoId

Send ==
  /\ step = "idle" /\ files # <<>>
  /\ IF IsCreate
       THEN \E o \in ObjectIds \ UNION {created[l] : l \in LocalIds} :
              /\ answer' = o
              /\ created' = [created EXCEPT ![Head(files).local] = @ \union {o}]
              /\ step' = "sent"
       ELSE /\ answer' = Target
            /\ step' = "mapped"
            /\ UNCHANGED created
  /\ UNCHANGED <<vars, alive, objectId, files, results, saves, crashes,
                 lost>>

\* The server executes the command and its answer is lost: a temporary failure,
\* the command stays stored.
LoseAnswer ==
  /\ step = "idle" /\ files # <<>> /\ lost < MaxLost
  /\ lost' = lost + 1
  /\ IF IsCreate
       THEN \E o \in ObjectIds \ UNION {created[l] : l \in LocalIds} :
              created' = [created EXCEPT ![Head(files).local] = @ \union {o}]
       ELSE UNCHANGED created
  /\ UNCHANGED <<vars, alive, objectId, files, step, answer, results, saves,
                 crashes>>



\* _didFinishRunningCommand: the answer to a create resolves the local id ...
MapLocalId ==
  /\ step = "sent"
  /\ SetObjectId(answer, Head(files).local)
  /\ step' = "mapped"
  /\ UNCHANGED <<alive, objectId, files, answer, results, saves, crashes, lost,
                 created>>

\* ... and then the file goes, and the promise brings the answer to the object.
RemoveFile ==
  /\ step = "mapped"
  /\ files' = Tail(files)
  /\ results' = IF Head(files).local \in alive
                  THEN results \union {<<Head(files).local, answer>>} ELSE results
  /\ step' = "idle" /\ answer' = NoId
  /\ UNCHANGED <<vars, alive, objectId, saves, crashes, lost,
                 created>>

\* The head command fails for good: its file goes, nothing is mapped.
FailHead ==
  /\ step = "idle" /\ files # <<>>
  /\ files' = Tail(files)
  /\ UNCHANGED <<vars, alive, objectId, step, answer, results, saves, crashes, lost,
                 created>>

\* handleSaveResultAsync: sets the objectId; _notifyObjectIdChanged tells the
\* store once, and the object gives up its local id.
HandleSaveResult ==
  /\ \E r \in results :
       /\ results' = results \ {r}
       /\ IF objectId[r[1]] = NoId
            THEN objectId' = [objectId EXCEPT ![r[1]] = r[2]] /\ SetObjectId(r[2], r[1])
            ELSE UNCHANGED <<objectId, vars>>
  /\ UNCHANGED <<alive, files, step, answer, saves, crashes, lost, created>>

\* The process dies; the objects it held are gone, the files are not.
Crash ==
  /\ crashes < MaxCrashes
  /\ crashes' = crashes + 1
  /\ ForgetMemory
  /\ alive' = {} /\ results' = {} /\ step' = "idle" /\ answer' = NoId
  /\ objectId' = [l \in LocalIds |-> NoId]
  /\ UNCHANGED <<files, saves, lost, created>>

OffNext ==
  \/ \E l \in LocalIds : SaveEventually(l)
  \/ Send \/ LoseAnswer \/ FailHead \/ MapLocalId \/ RemoveFile
  \/ HandleSaveResult \/ Crash

OffSpec == OffInit /\ [][OffNext]_offVars

-----------------------------------------------------------------------------
(***************************************************************************)
(* However many saves of a new object are stored before the first one is   *)
(* sent, and however late its answer reaches the object, the server makes  *)
(* one object for it, and one more at most for each answer that was lost   *)
(* and each death of the process.                                          *)
(***************************************************************************)
OneObjectPerLocalId ==
  \A l \in LocalIds : Cardinality(created[l]) <= 1 + crashes + lost

=============================================================================
