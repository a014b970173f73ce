-------------------------- MODULE EventualDelivery --------------------------
(***************************************************************************)
(* What an eventually queue promises the application and the server, with  *)
(* nothing said of passes, retries, pauses and connectivity: commands are  *)
(* sent one at a time, each only when all before it have left the queue;   *)
(* an answer is given once, to a command that has left, and is true.       *)
(* Commands may be dropped at any time, but never unnoticed: a command     *)
(* that was dropped is not sent, unless it was being sent.                 *)
(***************************************************************************)
EXTENDS Naturals

CONSTANT NumCommands

VARIABLES
  accepted,  \* commands are numbered as they are accepted
  left,      \* commands that have left the queue
  sending,   \* the command being sent, or 0
  executed,  \* commands the server has executed
  answer     \* what the caller was told of its command

deliveryVars == <<accepted, left, sending, executed, answer>>

Init ==
  /\ accepted = 0 /\ left = {} /\ sending = 0 /\ executed = {}
  /\ answer = [c \in 1 .. NumCommands |-> "pending"]

Accept ==
  /\ accepted < NumCommands
  /\ accepted' = accepted + 1
  /\ UNCHANGED <<left, sending, executed, answer>>

\* The first command of the queue.
Send ==
  /\ sending = 0
  /\ sending' \in (1 .. accepted) \ left
  /\ \A d \in 1 .. accepted : d < sending' => d \in left
  /\ UNCHANGED <<accepted, left, executed, answer>>

Execute ==
  /\ sending # 0
  /\ executed' = executed \union {sending}
  /\ UNCHANGED <<accepted, left, sending, answer>>

\* The command has been decided, once for all.
Finish ==
  /\ sending # 0
  /\ left' = left \union {sending}
  /\ UNCHANGED <<accepted, sending, executed, answer>>

\* The attempt is over: nothing was decided, or nobody waits for the answer.
Release ==
  /\ sending # 0
  /\ sending' = 0
  /\ UNCHANGED <<accepted, left, executed, answer>>

Answer ==
  /\ sending \in left
  /\ answer[sending] = "pending"
  /\ \E a \in {"success", "error"} :
       /\ a = "success" => sending \in executed
       /\ answer' = [answer EXCEPT ![sending] = a]
  /\ sending' = 0
  /\ UNCHANGED <<accepted, left, executed>>

\* Commands are dropped; the one being sent may be let go with them.
Drop ==
  /\ left \subseteq left' /\ left' \subseteq 1 .. accepted
  /\ sending' \in {sending, 0}
  /\ UNCHANGED <<accepted, executed, answer>>

\* A command that cannot be stored is refused.
Refuse ==
  /\ \E c \in (1 .. accepted) \ left :
       /\ c # sending /\ c \notin executed
       /\ left' = left \union {c}
       /\ answer' = [answer EXCEPT ![c] = "error"]
  /\ UNCHANGED <<accepted, sending, executed>>

Next == Accept \/ Send \/ Execute \/ Finish \/ Release \/ Answer \/ Drop \/ Refuse

Spec == Init /\ [][Next]_deliveryVars
=============================================================================
