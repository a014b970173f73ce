----------------------------- MODULE ObjectSave -----------------------------
(***************************************************************************)
(* The operation sets of one PFObject while saveInBackground,              *)
(* saveEventually, fetch and revert interleave with changes to its fields. *)
(* Changes collect in the last set of operationSetQueue; a save snapshots  *)
(* it and starts a new one; the answer to a save takes the first set off   *)
(* the queue, whichever save it answers.                                   *)
(*                                                                         *)
(* A change sets a field to a fresh value, so that merging two operations  *)
(* keeps the later one.                                                    *)
(***************************************************************************)
EXTENDS Naturals, SequencesExt, FiniteSets

CONSTANTS
  Keys,
  MaxChanges,   \* bound: changes of fields
  MaxSaves      \* bound: saves of either kind

Values == 0 .. MaxChanges   \* 0: the field is not set
NoOp == MaxChanges + 1      \* no operation on a field

VARIABLES
  opSets,      \* operationSetQueue
  serverData,  \* _state.serverData
  estimated,   \* _estimatedData
  isNew,       \* the ivar dirty: never saved
  saving,      \* "idle", or how far the save of the task queue has got
  sent,        \* the set that save snapshotted
  commands,    \* sets of the stored commands of saveEventually, in order
  answers,     \* answers to those commands on their way to the object
  remote,      \* the object at the server
  written,     \* bound counters
  saves,
  latest,      \* history: the value the application gave each field
  accepted,    \* history: values the server has accepted
  leaked,      \* history: a save ended without taking a set off the queue
  mixed        \* history: an answer took, or a failure was merged into, the
               \* set of another save

vars == <<opSets, serverData, estimated, isNew, saving, sent, commands, answers,
          remote, written, saves, latest, accepted, leaked, mixed>>

Ops == [Keys -> Values \union {NoOp}]
OpSets == [uuid : 0 .. MaxSaves, ops : Ops]

NoOps == [k \in Keys |-> NoOp]
OpSet(id) == [uuid |-> id, ops |-> NoOps]
Unsaved == Last(opSets)
HasChanges == Unsaved.ops # NoOps

TypeOK ==
  /\ opSets \in Seq(OpSets)
  /\ {serverData, estimated, remote, latest} \subseteq [Keys -> Values]
  /\ isNew \in BOOLEAN
  /\ saving \in {"idle", "children", "sent", "saved", "failed"}
  /\ sent \in OpSets
  /\ commands \in Seq(OpSets)
  /\ answers \subseteq OpSets
  /\ written \in 0 .. MaxChanges /\ saves \in 0 .. MaxSaves
  /\ accepted \subseteq Values
  /\ leaked \in BOOLEAN /\ mixed \in BOOLEAN

Init ==
  /\ opSets = <<OpSet(0)>>
  /\ serverData = [k \in Keys |-> 0] /\ estimated = serverData
  /\ remote = serverData /\ latest = serverData
  /\ isNew \in BOOLEAN
  /\ saving = "idle" /\ sent = OpSet(0)
  /\ commands = <<>> /\ answers = {}
  /\ written = 0 /\ saves = 0 /\ accepted = {0}
  /\ leaked = FALSE /\ mixed = FALSE

Applied(ops, data) == [k \in Keys |-> IF ops[k] = NoOp THEN data[k] ELSE ops[k]]

\* estimatedDataFromServerData:operationSetQueue: applies every set in turn, so
\* that the last operation on a field gives its value.
Touching(q, k) == {i \in DOMAIN q : q[i].ops[k] # NoOp}
Estimated(data, q) ==
  [k \in Keys |-> IF Touching(q, k) = {} THEN data[k] ELSE q[Max(Touching(q, k))].ops[k]]

\* mergeOperationSet: s has precedence over the earlier set.
Merged(s, earlier) ==
  [s EXCEPT !.ops = [k \in Keys |-> IF s.ops[k] = NoOp THEN earlier.ops[k] ELSE s.ops[k]]]

\* Mutant: the failed set overrides what has changed since.
MergedOver(s, earlier) == [s EXCEPT !.ops = Applied(earlier.ops, s.ops)]

AfterFailure(s, earlier) == Merged(s, earlier)

-----------------------------------------------------------------------------
(* The application.                                                        *)

SetKey(k) ==
  /\ written < MaxChanges
  /\ written' = written + 1
  /\ estimated' = [estimated EXCEPT ![k] = written']
  /\ opSets' = [opSets EXCEPT ![Len(opSets)].ops[k] = written']
  /\ latest' = [latest EXCEPT ![k] = written']
  /\ UNCHANGED <<serverData, isNew, saving, sent, commands, answers, remote,
                 saves, accepted, leaked, mixed>>

\* The unsaved changes are given up.
Revert ==
  /\ isNew \/ HasChanges
  /\ opSets' = [opSets EXCEPT ![Len(opSets)].ops = NoOps]
  /\ estimated' = Estimated(serverData, opSets')
  /\ latest' = estimated'
  /\ UNCHANGED <<serverData, isNew, saving, sent, commands, answers, remote,
                 written, saves, accepted, leaked, mixed>>

StartSave == opSets' = Append(opSets, OpSet(saves + 1))

-----------------------------------------------------------------------------
(* saveInBackground.                                                       *)

\* saveAsync: with something of its own to save.
BeginSave ==
  /\ saving = "idle" /\ saves < MaxSaves
  /\ isNew \/ HasChanges
  /\ StartSave
  /\ saves' = saves + 1
  /\ saving' = "children"
  /\ sent' = Unsaved
  /\ UNCHANGED <<serverData, estimated, isNew, commands, answers, remote,
                 written, latest, accepted, leaked, mixed>>

\* Only a child is dirty: a set is started and nobody will take it off.
SaveChildrenOnly ==
  /\ saving = "idle" /\ saves < MaxSaves
  /\ ~isNew /\ ~HasChanges
  /\ StartSave
  /\ saves' = saves + 1
  /\ leaked' = TRUE
  /\ UNCHANGED <<serverData, estimated, isNew, saving, sent, commands, answers,
                 remote, written, latest, accepted, mixed>>

\* Collecting the children raises, after the set was started.
CollectChildrenRaises ==
  /\ saving = "idle" /\ saves < MaxSaves
  /\ isNew \/ HasChanges
  /\ StartSave
  /\ saves' = saves + 1
  /\ leaked' = TRUE
  /\ UNCHANGED <<serverData, estimated, isNew, saving, sent, commands, answers,
                 remote, written, latest, accepted, mixed>>

\* The children are saved, the command runs; or a child fails.
SendSave ==
  /\ saving = "children"
  /\ saving' \in {"sent", "failed"}
  /\ UNCHANGED <<opSets, serverData, estimated, isNew, sent, commands, answers,
                 remote, written, saves, latest, accepted, leaked, mixed>>

AcceptedValues(ops) == {ops[k] : k \in Keys} \ {NoOp}

\* The server executes the command; its answer may be lost.
ExecuteSave ==
  /\ saving = "sent"
  /\ remote' = Applied(sent.ops, remote)
  /\ accepted' = accepted \union AcceptedValues(sent.ops)
  /\ saving' \in {"saved", "failed"}
  /\ UNCHANGED <<opSets, serverData, estimated, isNew, sent, commands, answers,
                 written, saves, latest, leaked, mixed>>

RejectSave ==
  /\ saving = "sent"
  /\ saving' = "failed"
  /\ UNCHANGED <<opSets, serverData, estimated, isNew, sent, commands, answers,
                 remote, written, saves, latest, accepted, leaked, mixed>>

\* Mutant: the set replaces the server data instead of being applied to it.
MergeReplacing(s) ==
  /\ serverData' = Head(opSets).ops
  /\ opSets' = Tail(opSets)
  /\ estimated' = Estimated(serverData', opSets')
  /\ isNew' = FALSE
  /\ mixed' = (mixed \/ Head(opSets).uuid # s.uuid)

\* Mutant: the estimated data is rebuilt without the sets still in the queue.
MergeForgettingQueue(s) ==
  /\ serverData' = Applied(Head(opSets).ops, serverData)
  /\ opSets' = Tail(opSets)
  /\ estimated' = serverData'
  /\ isNew' = FALSE
  /\ mixed' = (mixed \/ Head(opSets).uuid # s.uuid)

\* _mergeAfterSaveWithResult:, for the answer to the save of set s.
MergeAfterSave(s) ==
  /\ serverData' = Applied(Head(opSets).ops, serverData)
  /\ opSets' = Tail(opSets)
  /\ estimated' = Estimated(serverData', opSets')
  /\ isNew' = FALSE
  /\ mixed' = (mixed \/ Head(opSets).uuid # s.uuid)

HandleSaveResult ==
  /\ saving = "saved"
  /\ saving' = "idle"
  /\ MergeAfterSave(sent)
  /\ UNCHANGED <<sent, commands, answers, remote, written, saves, latest,
                 accepted, leaked>>

\* The failed changes are rolled forward into the set now in front.
HandleSaveFailure ==
  /\ saving = "failed"
  /\ saving' = "idle"
  /\ opSets' = [Tail(opSets) EXCEPT ![1] = AfterFailure(@, Head(opSets))]
  /\ mixed' = (mixed \/ Head(opSets).uuid # sent.uuid \/ Len(opSets) > 2)
  /\ UNCHANGED <<serverData, estimated, isNew, sent, commands, answers, remote,
                 written, saves, latest, accepted, leaked>>

\* The task queue is free: the server's data replaces what was known.
Fetch ==
  /\ saving = "idle" /\ ~isNew
  /\ serverData' = remote
  /\ estimated' = Estimated(serverData', opSets)
  /\ UNCHANGED <<opSets, isNew, saving, sent, commands, answers, remote,
                 written, saves, latest, accepted, leaked, mixed>>

-----------------------------------------------------------------------------
(* saveEventually; it does not wait for the saves of the task queue.       *)

SaveEventually ==
  /\ saves < MaxSaves
  /\ isNew \/ HasChanges
  /\ commands' = Append(commands, Unsaved)
  /\ StartSave
  /\ saves' = saves + 1
  /\ UNCHANGED <<serverData, estimated, isNew, saving, sent, answers, remote,
                 written, latest, accepted, leaked, mixed>>

RunCommand ==
  /\ commands # <<>>
  /\ remote' = Applied(Head(commands).ops, remote)
  /\ accepted' = accepted \union AcceptedValues(Head(commands).ops)
  /\ answers' = answers \union {Head(commands)}
  /\ commands' = Tail(commands)
  /\ UNCHANGED <<opSets, serverData, estimated, isNew, saving, sent, written,
                 saves, latest, leaked, mixed>>

\* A command that fails for good is dropped; its set stays in the queue.
CommandFails ==
  /\ commands # <<>>
  /\ commands' = Tail(commands)
  /\ leaked' = TRUE
  /\ UNCHANGED <<opSets, serverData, estimated, isNew, saving, sent, answers,
                 remote, written, saves, latest, accepted, mixed>>

HandleEventualResult ==
  /\ \E s \in answers :
       /\ answers' = answers \ {s}
       /\ MergeAfterSave(s)
  /\ UNCHANGED <<saving, sent, commands, remote, written, saves, latest,
                 accepted, leaked>>

Next ==
  \/ \E k \in Keys : SetKey(k)
  \/ Revert
  \/ BeginSave \/ SaveChildrenOnly \/ CollectChildrenRaises
  \/ SendSave \/ ExecuteSave \/ RejectSave
  \/ HandleSaveResult \/ HandleSaveFailure \/ Fetch
  \/ SaveEventually \/ RunCommand \/ CommandFails \/ HandleEventualResult

Spec == Init /\ [][Next]_vars

-----------------------------------------------------------------------------
Outstanding == (IF saving = "idle" THEN 0 ELSE 1) + Len(commands) + Cardinality(answers)
Quiet == Outstanding = 0

(***************************************************************************)
(* The estimated data an application reads is always what the server data  *)
(* and the operation sets make of it, although it is kept separately and   *)
(* not rebuilt when a failed set is merged into the next one.              *)
(***************************************************************************)
EstimatedIsCurrent == estimated = Estimated(serverData, opSets)

(***************************************************************************)
(* No change is lost: with no save under way, the value given to a field   *)
(* is accepted by the server or is part of the next save, if every save    *)
(* that ended took its own set off the queue.                              *)
(***************************************************************************)
NoChangeLost ==
  (Quiet /\ ~leaked /\ ~mixed) =>
    \A k \in Keys : latest[k] \in accepted \/ Unsaved.ops[k] = latest[k]

(***************************************************************************)
(* "If there was an error, we want to roll forward the save changes before *)
(* rethrowing": with no save under way, a change that the server has not   *)
(* accepted is part of the next save.                                      *)
(***************************************************************************)
ErrorsRollForward ==
  Quiet => \A k \in Keys : latest[k] \in accepted \/ Unsaved.ops[k] = latest[k]
=============================================================================
