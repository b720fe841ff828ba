--------------------------- MODULE CommandLifecycle ---------------------------
(***************************************************************************)
(* What the event stream of a command promises to the backend that reads   *)
(* it: a command is rejected, or it is dispatched, retried at most         *)
(* MaxRetry times and then concluded at most once; it only fails when all  *)
(* retries are used up.  Commands are independent of each other, and one   *)
(* step of the gateway may move several of them.                           *)
(***************************************************************************)
EXTENDS Naturals

CONSTANTS Commands, MaxRetry

VARIABLES
  last,     \* the last status published for each command
  tries     \* how often "retrying" was published for it

vars == <<last, tries>>

Open == {"dispatched", "retrying"}

Init ==
  /\ last = [c \in Commands |-> "none"]
  /\ tries = [c \in Commands |-> 0]

Begin(c) ==
  last[c] = "none" /\ last'[c] \in {"dispatched", "rejected"} /\ tries'[c] = tries[c]

Retry(c) ==
  /\ last[c] \in Open /\ tries[c] < MaxRetry
  /\ last'[c] = "retrying" /\ tries'[c] = tries[c] + 1

Conclude(c) ==
  last[c] \in Open /\ last'[c] \in {"acked", "done"} /\ tries'[c] = tries[c]

Fail(c) ==
  /\ last[c] \in Open /\ tries[c] = MaxRetry
  /\ last'[c] = "failed" /\ tries'[c] = tries[c]

Stay(c) == last'[c] = last[c] /\ tries'[c] = tries[c]

Next == \A c \in Commands : Begin(c) \/ Retry(c) \/ Conclude(c) \/ Fail(c) \/ Stay(c)

Spec == Init /\ [][Next]_vars

==============================================================================
