------------------------- MODULE CommandIdentifiers -------------------------
(***************************************************************************)
(* The file names PFCommandCache gives to stored commands.  A name starts  *)
(* with the wall clock in whole seconds, then the low bits of a counter    *)
(* that starts again at zero with every run of the application, then a     *)
(* UUID; commands are run in the order of their names.                     *)
(***************************************************************************)
EXTENDS Naturals, SequencesExt

CONSTANTS
  MaxCounter,      \* bound on _fileCounter; its 2^32 values are not exhausted
  MaxTime,         \* bound on the wall clock, in seconds
  MaxCommands,     \* bound on the commands stored at once
  MaxDisturbances  \* bound on clock set-backs and reopenings within a second

VARIABLES
  now,      \* timeIntervalSinceReferenceDate, truncated
  counter,  \* _fileCounter
  files,    \* stored commands, in the order they were stored
  era       \* history: disturbances of the order of names so far

vars == <<now, counter, files, era>>

\* The UUID only matters when time and counter are equal: any order then.
FileNames == [time : 0 .. MaxTime, counter : 0 .. MaxCounter, era : 0 .. MaxDisturbances]

TypeOK ==
  /\ now \in 0 .. MaxTime
  /\ counter \in 0 .. MaxCounter
  /\ files \in Seq(FileNames) /\ Len(files) <= MaxCommands
  /\ era \in 0 .. MaxDisturbances

Init == now = 0 /\ counter = 0 /\ files = <<>> /\ era = 0

\* compare: on names of fixed-width fields.
SortsBefore(m, n) ==
  \/ m.time < n.time
  \/ m.time = n.time /\ m.counter < n.counter

\* Mutant: the counter is not advanced.
NewIdentifierWithoutCounter ==
  /\ Len(files) < MaxCommands
  /\ counter < MaxCounter
  /\ files' = Append(files, [time |-> now, counter |-> counter, era |-> era])
  /\ UNCHANGED <<now, counter, era>>

\* Mutant: the counter is advanced past its width.
NewIdentifierUnbounded ==
  /\ Len(files) < MaxCommands
  /\ files' = Append(files, [time |-> now, counter |-> counter, era |-> era])
  /\ counter' = counter + 1
  /\ UNCHANGED <<now, era>>

NewIdentifier ==
  /\ Len(files) < MaxCommands
  /\ counter < MaxCounter
  /\ files' = Append(files, [time |-> now, counter |-> counter, era |-> era])
  /\ counter' = counter + 1
  /\ UNCHANGED <<now, era>>

\* Any stored command may be removed: it has run, or it was evicted.
RemoveFile ==
  /\ \E i \in DOMAIN files : files' = RemoveAt(files, i)
  /\ UNCHANGED <<now, counter, era>>

Tick ==
  /\ now < MaxTime
  /\ now' = now + 1
  /\ UNCHANGED <<counter, files, era>>

\* The user or the network sets the clock back.
SetClockBack ==
  /\ era < MaxDisturbances
  /\ now' \in 0 .. now - 1
  /\ era' = era + 1
  /\ UNCHANGED <<counter, files>>

\* A new run of the application, with a new counter.
Reopen ==
  /\ counter' = 0
  /\ \/ now < MaxTime /\ now' = now + 1 /\ era' = era
     \/ era < MaxDisturbances /\ now' = now /\ era' = era + 1
  /\ UNCHANGED files

Next == NewIdentifier \/ RemoveFile \/ Tick \/ SetClockBack \/ Reopen

Spec == Init /\ [][Next]_vars

-----------------------------------------------------------------------------
(***************************************************************************)
(* The names of stored commands sort, without ties, in the order in which  *)
(* they were stored, whatever was removed in between and across runs of    *)
(* the application, as long as the clock was not set back and no run began *)
(* in the second in which the previous one ended.                          *)
(***************************************************************************)
OldestFirst ==
  \A i, j \in DOMAIN files :
    (i < j /\ files[i].era = files[j].era) => SortsBefore(files[i], files[j])
=============================================================================
