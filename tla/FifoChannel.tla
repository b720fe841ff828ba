----------------------------- MODULE FifoChannel -----------------------------
(***************************************************************************)
(* What the outgoing side of one device connection promises to its callers *)
(* (sendJson, sendRaw): buffers reach the device in the order in which     *)
(* they were accepted, each at most once and with none left out in the     *)
(* middle, until the connection breaks; after that nothing more arrives.   *)
(* Buffers are named by the order of their acceptance: 1, 2, 3, ...        *)
(***************************************************************************)
EXTENDS Naturals, Sequences

VARIABLES
  accepted,    \* how many buffers the callers have handed over
  delivered,   \* the buffers the device has received, in order
  broken       \* the connection no longer carries data

vars == <<accepted, delivered, broken>>

Init ==
  /\ accepted = 0
  /\ delivered = <<>>
  /\ broken = FALSE

Accept ==
  /\ accepted' = accepted + 1
  /\ UNCHANGED <<delivered, broken>>

Deliver ==
  /\ ~broken
  /\ Len(delivered) < accepted
  /\ delivered' = Append(delivered, Len(delivered) + 1)
  /\ UNCHANGED <<accepted, broken>>

Break ==
  /\ ~broken
  /\ broken' = TRUE
  /\ UNCHANGED <<accepted, delivered>>

Next == Accept \/ Deliver \/ Break

Spec == Init /\ [][Next]_vars

==============================================================================
