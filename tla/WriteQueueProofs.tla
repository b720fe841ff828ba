--------------------------- MODULE WriteQueueProofs ---------------------------
(***************************************************************************)
(* Proofs about WriteQueue for every MaxWrites.  The strengthening is the  *)
(* numbering of the buffers: what is on the wire, in write_queue and still *)
(* posted to the strand is, in this order, 1, 2, ..., accepted, with one   *)
(* overlap: a buffer already transferred stays at the front of write_queue *)
(* until its completion handler pops it.                                   *)
(***************************************************************************)
EXTENDS WriteQueue, SequenceTheorems, TLAPS

(* The transfer of the front buffer is complete, its handler has not run.    *)
Unpopped == writes # <<>> /\ writes[1].st = "written"

(* How many buffers the completion handler has popped from write_queue.      *)
Popped == IF Unpopped THEN Len(wire) - 1 ELSE Len(wire)

(* The one operation outstanding transfers the front of the queue.           *)
FrontInFlight ==
  write_in_progress => /\ write_queue # <<>>
                       /\ writes[1].buf = write_queue[1]

(* An operation can only have failed on a socket that is no longer open.     *)
FailedMeansGone ==
  writes # <<>> => (writes[1].st = "failed" => socket # "open")

(* wire, write_queue and posted number the buffers without a gap.            *)
Numbered ==
  /\ InOrder
  /\ Popped \in Nat
  /\ \A i \in 1..Len(write_queue) : write_queue[i] = Popped + i
  /\ \A i \in 1..Len(posted) : posted[i] = Popped + Len(write_queue) + i
  /\ accepted = Popped + Len(write_queue) + Len(posted)

IInv ==
  /\ TypeOK
  /\ SingleWriter
  /\ FrontInFlight
  /\ NoStall
  /\ FailedMeansGone
  /\ Numbered

------------------------------------------------------------------------------
(* A sequence of length zero is the empty sequence.                          *)
LEMMA LenZero ==
  ASSUME NEW S, NEW s \in Seq(S), Len(s) = 0
  PROVE  s = <<>>
BY EmptySeq, SeqEqual

(* Removing the only operation leaves none.                                  *)
LEMMA RemoveOnly ==
  ASSUME NEW S, NEW s \in Seq(S), Len(s) = 1
  PROVE  Remove(s, 1) = <<>>
<1>1. SubSeq(s, 1, 1 - 1) = <<>>
  BY SubSeqEmpty
<1>2. SubSeq(s, 1 + 1, Len(s)) = <<>>
  BY SubSeqEmpty
<1>3. <<>> \o <<>> = <<>>
  BY ConcatEmptySeq, EmptySeq
<1> QED BY <1>1, <1>2, <1>3 DEF Remove

(* The initial state satisfies the inductive invariant.                      *)
LEMMA InitIInv == Init => IInv
<1> SUFFICES ASSUME Init PROVE IInv
  OBVIOUS
<1> USE DEF Init
<1>1. TypeOK
  BY EmptySeq DEF TypeOK
<1>2. SingleWriter /\ FrontInFlight /\ NoStall /\ FailedMeansGone
  BY DEF SingleWriter, FrontInFlight, NoStall, FailedMeansGone
<1>3. ~Unpopped /\ Popped = 0
  BY DEF Unpopped, Popped
<1>4. Numbered
  BY <1>3 DEF Numbered, InOrder
<1> QED BY <1>1, <1>2, <1>4 DEF IInv

(* The operations that leave the queue and the operations alone, and may     *)
(* only move the socket away from "open", preserve the invariant.            *)
LEMMA SocketStep ==
  ASSUME IInv, UNCHANGED queueVars,
         socket' \in {"open", "reset", "closed"}, socket' = "open" => socket = "open",
         closing' \in BOOLEAN, reader' \in {"reading", "cleanup", "ended"}
  PROVE  IInv'
<1> USE DEF queueVars
<1>1. TypeOK'
  BY DEF IInv, TypeOK
<1>2. SingleWriter' /\ FrontInFlight' /\ NoStall' /\ FailedMeansGone'
  BY DEF IInv, SingleWriter, FrontInFlight, NoStall, FailedMeansGone
<1>3. Popped' = Popped
  BY DEF Popped, Unpopped
<1>4. Numbered'
  BY <1>3 DEF IInv, Numbered, InOrder
<1> QED BY <1>1, <1>2, <1>4 DEF IInv

(* A buffer is posted behind all earlier ones.                               *)
LEMMA EnqueueStep == IInv /\ enqueueWrite => IInv'
<1> SUFFICES ASSUME IInv, enqueueWrite PROVE IInv'
  OBVIOUS
<1> USE DEF enqueueWrite
<1>1. TypeOK'
  BY DEF IInv, TypeOK
<1>2. SingleWriter' /\ FrontInFlight' /\ NoStall' /\ FailedMeansGone'
  BY DEF IInv, SingleWriter, FrontInFlight, NoStall, FailedMeansGone
<1>3. Popped' = Popped
  BY DEF Popped, Unpopped
<1>4. /\ Len(posted') = Len(posted) + 1
      /\ \A i \in 1..Len(posted) : posted'[i] = posted[i]
      /\ posted'[Len(posted) + 1] = accepted + 1
  BY DEF IInv, TypeOK
<1>5. /\ Len(posted) \in Nat /\ Len(write_queue) \in Nat /\ accepted \in Nat
      /\ Popped \in Nat
  BY DEF IInv, TypeOK, Numbered
<1>6. \A i \in 1..Len(posted') : posted'[i] = Popped + Len(write_queue) + i
  BY <1>4, <1>5 DEF IInv, Numbered
<1>7. Numbered'
  BY <1>3, <1>4, <1>5, <1>6 DEF IInv, Numbered, InOrder
<1> QED BY <1>1, <1>2, <1>7 DEF IInv

(* The posted lambda moves the oldest posted buffer to the end of the queue, *)
(* and starts a write exactly when none is outstanding.                      *)
LEMMA RunPostedStep == IInv /\ RunPosted => IInv'
<1> SUFFICES ASSUME IInv, RunPosted PROVE IInv'
  OBVIOUS
<1> DEFINE q == Append(write_queue, Head(posted))
<1>0. /\ posted # <<>> /\ posted' = Tail(posted)
      /\ write_queue' = q
      /\ UNCHANGED <<accepted, wire, socket, closing, reader>>
  BY DEF RunPosted, flushWrites
<1>1. /\ q \in Seq(Nat \ {0}) /\ q # <<>> /\ Len(q) = Len(write_queue) + 1
      /\ \A i \in 1..Len(write_queue) : q[i] = write_queue[i]
      /\ q[Len(q)] = posted[1]
  BY <1>0 DEF IInv, TypeOK
<1>2. /\ posted' \in Seq(Nat \ {0}) /\ Len(posted') = Len(posted) - 1
      /\ \A i \in 1..Len(posted') : posted'[i] = posted[i + 1]
  BY <1>0, HeadTailProperties DEF IInv, TypeOK
<1>n. /\ Len(posted) \in Nat \ {0} /\ Len(write_queue) \in Nat
      /\ Popped \in Nat /\ accepted \in Nat
  BY <1>0, EmptySeq DEF IInv, TypeOK, Numbered
<1>a. \A i \in 1..Len(q) : q[i] = Popped + i
  <2>1. posted[1] = Popped + Len(write_queue) + 1
    BY <1>n DEF IInv, Numbered
  <2>2. \A i \in 1..Len(write_queue) : write_queue[i] = Popped + i
    BY DEF IInv, Numbered
  <2> HIDE DEF q
  <2> TAKE i \in 1..Len(q)
  <2>3. CASE i \in 1..Len(write_queue)
    BY <1>1, <2>2, <2>3
  <2>4. CASE i = Len(write_queue) + 1
    BY <1>1, <2>1, <2>4, <1>n
  <2> QED BY <1>1, <1>n, <2>3, <2>4
<1>b. \A i \in 1..Len(posted') : posted'[i] = Popped + Len(q) + i
  BY <1>1, <1>2, <1>n DEF IInv, Numbered
<1>c. accepted' = Popped + Len(q) + Len(posted')
  BY <1>0, <1>1, <1>2, <1>n DEF IInv, Numbered
<1>d. ASSUME Popped' = Popped PROVE Numbered'
  BY <1>0, <1>n, <1>a, <1>b, <1>c, <1>d DEF IInv, Numbered, InOrder
<1>3. CASE write_in_progress
  <2>1. UNCHANGED <<write_in_progress, writes>>
    BY <1>3 DEF RunPosted
  <2>2. TypeOK'
    BY <1>0, <1>1, <1>2, <2>1 DEF IInv, TypeOK
  <2>3. SingleWriter' /\ NoStall' /\ FailedMeansGone'
    BY <1>0, <1>3, <2>1 DEF IInv, SingleWriter, NoStall, FailedMeansGone
  <2>4. FrontInFlight'
    BY <1>0, <1>1, <2>1 DEF IInv, TypeOK, FrontInFlight
  <2>5. Popped' = Popped
    BY <1>0, <2>1 DEF Popped, Unpopped
  <2>6. Numbered'
    BY <2>5, <1>d
  <2> QED BY <2>2, <2>3, <2>4, <2>6 DEF IInv
<1>4. CASE ~write_in_progress
  <2>1. write_in_progress' = TRUE /\ writes' = Append(writes, [buf |-> Head(q), st |-> "going"])
    BY <1>1, <1>4 DEF RunPosted, flushWrites
  <2>2. writes = <<>>
    <3>1. Len(writes) # 1 /\ Len(writes) <= 1 /\ writes \in Seq(Op)
      BY <1>4 DEF IInv, TypeOK, SingleWriter
    <3>2. Len(writes) = 0
      BY <3>1, LenProperties
    <3> QED BY <3>1, <3>2, LenZero
  <2>3. Head(q) = q[1] /\ q[1] \in Nat \ {0}
    BY <1>1
  <2>4. writes' \in Seq(Op) /\ Len(writes') = 1 /\ writes'[1] = [buf |-> q[1], st |-> "going"]
    BY <2>1, <2>2, <2>3 DEF Op
  <2>5. TypeOK'
    BY <1>0, <1>1, <1>2, <2>1, <2>4 DEF IInv, TypeOK
  <2>6. SingleWriter' /\ NoStall' /\ FailedMeansGone' /\ FrontInFlight'
    BY <1>0, <1>1, <2>1, <2>4
       DEF SingleWriter, NoStall, FailedMeansGone, FrontInFlight
  <2>7. Popped' = Popped
    BY <1>0, <2>2, <2>4 DEF Popped, Unpopped
  <2>8. Numbered'
    BY <2>7, <1>d
  <2> QED BY <2>5, <2>6, <2>8 DEF IInv
<1> QED BY <1>3, <1>4

(* Completing the only operation keeps its buffer.                           *)
LEMMA Completed ==
  ASSUME NEW s \in Seq(Op), Len(s) = 1, NEW v \in {"going", "written", "failed"}
  PROVE  LET t == [s EXCEPT ![1].st = v] IN
         /\ t \in Seq(Op) /\ Len(t) = 1
         /\ t[1].buf = s[1].buf /\ t[1].st = v
<1> DEFINE e == [s[1] EXCEPT !.st = v]
           t == [s EXCEPT ![1] = e]
<1>1. 1 \in 1..Len(s)
  OBVIOUS
<1>2. s[1] \in Op
  BY <1>1, ElementOfSeq
<1>3. e \in Op /\ e.buf = s[1].buf /\ e.st = v
  BY <1>2 DEF Op
<1>4. [s EXCEPT ![1].st = v] = t
  OBVIOUS
<1>5. s \in [1..1 -> Op]
  BY LenProperties
<1>6. t \in [1..1 -> Op] /\ t[1] = e
  <2> HIDE DEF e
  <2> QED BY <1>3, <1>5
<1> HIDE DEF t, e
<1>7. t \in Seq(Op)
  BY <1>6, SeqDef
<1>8. Len(t) = 1
  <2>1. DOMAIN t = 1..Len(t) /\ Len(t) \in Nat /\ DOMAIN t = 1..1
    BY <1>6, <1>7, LenProperties
  <2>2. 1 \in 1..Len(t)
    BY <2>1
  <2>3. Len(t) \in 1..Len(t)
    BY <2>1, <2>2
  <2>4. Len(t) \in 1..1
    BY <2>1, <2>3
  <2> QED BY <2>4
<1>9. t \in Seq(Op) /\ Len(t) = 1 /\ t[1].buf = s[1].buf /\ t[1].st = v
  BY <1>3, <1>6, <1>7, <1>8
<1> QED BY <1>4, <1>9

(* An operation outstanding is the only one, and its index is 1.             *)
LEMMA OnlyOne ==
  ASSUME IInv, NEW i \in DOMAIN writes
  PROVE  /\ i = 1 /\ Len(writes) = 1 /\ writes # <<>> /\ writes \in Seq(Op)
         /\ write_in_progress = TRUE
         /\ write_queue # <<>> /\ writes[1].buf = write_queue[1]
         /\ Remove(writes, i) = <<>>
<1>1. writes \in Seq(Op) /\ Len(writes) <= 1
  BY DEF IInv, TypeOK, SingleWriter
<1>2. i \in 1..Len(writes) /\ Len(writes) \in Nat
  BY <1>1, LenProperties
<1>3. i = 1 /\ Len(writes) = 1
  <2> DEFINE n == Len(writes)
  <2>1. n <= 1 /\ i \in 1..n /\ n \in Nat
    BY <1>1, <1>2
  <2> HIDE DEF n
  <2>2. i = 1 /\ n = 1
    BY <2>1
  <2> QED BY <2>2 DEF n
<1>4. write_in_progress = TRUE
  BY <1>3 DEF IInv, TypeOK, SingleWriter
<1>5. writes # <<>>
  BY <1>3, EmptySeq
<1> QED BY <1>1, <1>3, <1>4, <1>5, RemoveOnly DEF IInv, FrontInFlight

(* The completion handler pops the buffer that has just been transferred and *)
(* starts the next one, if there is any.                                     *)
LEMMA OnWrittenStep ==
  ASSUME IInv, NEW i \in DOMAIN writes, OnWritten(i)
  PROVE  IInv'
<1> DEFINE q == Tail(write_queue)
<1>0. /\ writes[1].st = "written" /\ write_queue # <<>>
      /\ flushWrites(q, <<>>)
      /\ UNCHANGED <<accepted, posted, wire, socket, closing, reader>>
  BY OnlyOne DEF OnWritten
<1>1. /\ q \in Seq(Nat \ {0}) /\ Len(q) = Len(write_queue) - 1
      /\ \A k \in 1..Len(q) : q[k] = write_queue[k + 1]
  BY <1>0, HeadTailProperties DEF IInv, TypeOK
<1>2. /\ Unpopped /\ Popped = Len(wire) - 1
  BY <1>0, OnlyOne DEF Unpopped, Popped
<1>3. /\ Len(write_queue) \in Nat \ {0} /\ Len(posted) \in Nat
      /\ Len(wire) \in Nat /\ Popped \in Nat
  BY <1>0, EmptySeq, LenProperties DEF IInv, TypeOK, Numbered
<1>4. /\ write_queue' = q /\ write_in_progress' = (q # <<>>)
      /\ q = <<>> => writes' = <<>>
      /\ q # <<>> => writes' = <<[buf |-> q[1], st |-> "going"]>>
  <2>1. q # <<>> => Append(<<>>, [buf |-> Head(q), st |-> "going"])
                      = <<[buf |-> q[1], st |-> "going"]>>
    BY <1>1
  <2> HIDE DEF q
  <2> QED BY <1>0, <2>1 DEF flushWrites
<1> HIDE DEF q
<1>5. q # <<>> => q[1] \in Nat \ {0}
  BY <1>1, EmptySeq, ElementOfSeq
<1>6. /\ writes' \in Seq(Op)
      /\ q = <<>> => Len(writes') = 0
      /\ q # <<>> => /\ Len(writes') = 1
                    /\ writes'[1] = [buf |-> q[1], st |-> "going"]
  <2>1. CASE q = <<>>
    BY <2>1, <1>4, EmptySeq
  <2>2. CASE q # <<>>
    <3>1. [buf |-> q[1], st |-> "going"] \in Op
      BY <2>2, <1>5 DEF Op
    <3>2. writes' = <<[buf |-> q[1], st |-> "going"]>>
      BY <2>2, <1>4
    <3> QED BY <3>1, <3>2, <2>2
  <2> QED BY <2>1, <2>2
<1>7. TypeOK'
  BY <1>0, <1>1, <1>4, <1>6 DEF IInv, TypeOK
<1>8. SingleWriter' /\ NoStall' /\ FailedMeansGone' /\ FrontInFlight'
  <2>1. CASE q = <<>>
    <3>1. write_in_progress' = FALSE /\ write_queue' = <<>> /\ writes' = <<>>
          /\ Len(writes') = 0
      BY <2>1, <1>4, <1>6
    <3> QED BY <3>1 DEF SingleWriter, NoStall, FailedMeansGone, FrontInFlight
  <2>2. CASE q # <<>>
    <3>1. write_in_progress' = TRUE /\ write_queue' = q /\ Len(writes') = 1
          /\ writes'[1] = [buf |-> q[1], st |-> "going"]
      BY <2>2, <1>4, <1>6
    <3> QED BY <2>2, <3>1 DEF SingleWriter, NoStall, FailedMeansGone, FrontInFlight
  <2> QED BY <2>1, <2>2
<1>9. Popped' = Popped + 1
  <2>1. ~Unpopped'
    BY <1>4, <1>6 DEF Unpopped
  <2> QED BY <2>1, <1>0, <1>2, <1>3 DEF Popped
<1>10. Numbered'
  <2>1. \A k \in 1..Len(write_queue) : write_queue[k] = Popped + k
    BY DEF IInv, Numbered
  <2>2. \A k \in 1..Len(q) : q[k] = Popped + 1 + k
    BY <2>1, <1>1, <1>3
  <2>3. \A k \in 1..Len(posted) : posted[k] = Popped + 1 + Len(q) + k
    BY <1>1, <1>3 DEF IInv, Numbered
  <2>4. accepted = Popped + 1 + Len(q) + Len(posted)
    BY <1>1, <1>3 DEF IInv, Numbered
  <2>5. write_queue' = q /\ UNCHANGED <<wire, posted, accepted>>
    BY <1>0, <1>4
  <2>6. InOrder'
    BY <2>5 DEF IInv, Numbered, InOrder
  <2>7. Popped' \in Nat
    BY <1>9 DEF IInv, Numbered
  <2> QED BY <1>9, <2>2, <2>3, <2>4, <2>5, <2>6, <2>7 DEF Numbered
<1> QED BY <1>7, <1>8, <1>10 DEF IInv

(* A failed operation leaves the queue as it is; the socket is gone.         *)
LEMMA OnWriteErrorStep ==
  ASSUME IInv, NEW i \in DOMAIN writes, OnWriteError(i)
  PROVE  IInv'
<1>1. /\ writes[1].st = "failed" /\ writes' = <<>> /\ write_in_progress' = FALSE
      /\ closing' = TRUE
      /\ socket' = IF closing THEN socket ELSE "closed"
      /\ UNCHANGED <<accepted, posted, write_queue, wire, reader>>
  BY OnlyOne DEF OnWriteError
<1>2. socket' # "open" /\ socket' \in {"open", "reset", "closed"}
  <2>1. socket # "open" /\ socket \in {"open", "reset", "closed"}
    BY <1>1, OnlyOne DEF IInv, TypeOK, FailedMeansGone
  <2> QED BY <1>1, <2>1
<1>3. TypeOK'
  BY <1>1, <1>2, EmptySeq DEF IInv, TypeOK
<1>4. SingleWriter' /\ NoStall' /\ FailedMeansGone' /\ FrontInFlight'
  BY <1>1, <1>2, EmptySeq DEF SingleWriter, NoStall, FailedMeansGone, FrontInFlight
<1>5. Popped' = Popped
  BY <1>1 DEF Popped, Unpopped
<1>6. Numbered'
  BY <1>1, <1>5 DEF IInv, Numbered, InOrder
<1> QED BY <1>3, <1>4, <1>6 DEF IInv

(* The kernel completes the outstanding transfer: the next buffer in order.  *)
LEMMA TransferStep ==
  ASSUME IInv, NEW i \in DOMAIN writes, Transfer(i)
  PROVE  /\ IInv'
         /\ wire' = Append(wire, Len(wire) + 1) /\ Len(wire) < accepted
<1>0. /\ i = 1 /\ Len(writes) = 1 /\ writes \in Seq(Op)
      /\ write_queue # <<>> /\ writes[1].buf = write_queue[1]
  BY OnlyOne
<1>1. /\ writes[1].st = "going" /\ socket = "open"
      /\ writes' = [writes EXCEPT ![1].st = "written"]
      /\ wire' = Append(wire, writes[1].buf)
      /\ UNCHANGED <<accepted, posted, write_queue, write_in_progress,
                     socket, closing, reader>>
  BY <1>0 DEF Transfer
<1>2. /\ writes' \in Seq(Op) /\ Len(writes') = 1
      /\ writes'[1].buf = writes[1].buf /\ writes'[1].st = "written"
  BY <1>0, <1>1, Completed
<1>3. /\ Len(wire) \in Nat /\ wire \in Seq(Nat \ {0})
      /\ Len(write_queue) \in Nat \ {0} /\ Len(posted) \in Nat /\ accepted \in Nat
  BY <1>0, EmptySeq, LenProperties DEF IInv, TypeOK
<1>4. Popped = Len(wire)
  BY <1>1 DEF Popped, Unpopped
<1>5. writes[1].buf = Len(wire) + 1
  BY <1>0, <1>3, <1>4 DEF IInv, Numbered
<1>6. wire' = Append(wire, Len(wire) + 1) /\ Len(wire) < accepted
  <2>1. accepted = Len(wire) + Len(write_queue) + Len(posted)
    BY <1>4 DEF IInv, Numbered
  <2> QED BY <1>1, <1>3, <1>5, <2>1
<1>7. wire' \in Seq(Nat \ {0}) /\ Len(wire') = Len(wire) + 1
  BY <1>3, <1>6
<1>8. TypeOK'
  BY <1>1, <1>2, <1>7 DEF IInv, TypeOK
<1>9. SingleWriter' /\ NoStall' /\ FailedMeansGone' /\ FrontInFlight'
  BY <1>1, <1>2 DEF IInv, SingleWriter, NoStall, FailedMeansGone, FrontInFlight
<1>10. Popped' = Popped
  <2>1. Unpopped'
    <3>1. writes' # <<>>
      <4>1. Len(<<>>) = 0
        BY EmptySeq
      <4> QED BY <1>2, <4>1
    <3> QED BY <1>2, <3>1 DEF Unpopped
  <2> QED BY <2>1, <1>3, <1>4, <1>7 DEF Popped
<1>11. InOrder'
  <2>1. DOMAIN wire = 1..Len(wire) /\ DOMAIN wire' = 1..(Len(wire) + 1)
    BY <1>3, <1>7, LenProperties
  <2>2. /\ \A k \in 1..Len(wire) : wire'[k] = wire[k]
        /\ wire'[Len(wire) + 1] = Len(wire) + 1
    BY <1>3, <1>6
  <2>3. \A k \in 1..Len(wire) : wire[k] = k
    BY <2>1 DEF IInv, Numbered, InOrder
  <2>4. \A k \in 1..(Len(wire) + 1) : k \in 1..Len(wire) \/ k = Len(wire) + 1
    BY <1>3
  <2> QED BY <2>1, <2>2, <2>3, <2>4 DEF InOrder
<1>12. Numbered'
  BY <1>1, <1>10, <1>11 DEF IInv, Numbered
<1> QED BY <1>6, <1>8, <1>9, <1>12 DEF IInv

(* An operation on a socket that is gone fails.                              *)
LEMMA AbortStep ==
  ASSUME IInv, NEW i \in DOMAIN writes, Abort(i)
  PROVE  IInv'
<1>0. /\ i = 1 /\ Len(writes) = 1 /\ writes \in Seq(Op) /\ writes # <<>>
  BY OnlyOne
<1>1. /\ writes[1].st = "going" /\ socket # "open"
      /\ writes' = [writes EXCEPT ![1].st = "failed"]
      /\ UNCHANGED <<accepted, posted, write_queue, write_in_progress, wire,
                     socket, closing, reader>>
  BY <1>0 DEF Abort
<1>2. /\ writes' \in Seq(Op) /\ Len(writes') = 1
      /\ writes'[1].buf = writes[1].buf /\ writes'[1].st = "failed"
  BY <1>0, <1>1, Completed
<1>3. TypeOK'
  BY <1>1, <1>2 DEF IInv, TypeOK
<1>4. SingleWriter' /\ NoStall' /\ FailedMeansGone' /\ FrontInFlight'
  BY <1>1, <1>2 DEF IInv, SingleWriter, NoStall, FailedMeansGone, FrontInFlight
<1>5. Popped' = Popped
  BY <1>1, <1>2 DEF Popped, Unpopped
<1>6. Numbered'
  BY <1>1, <1>5 DEF IInv, Numbered, InOrder
<1> QED BY <1>3, <1>4, <1>6 DEF IInv

------------------------------------------------------------------------------
(* Every step of the write queue preserves the inductive invariant.          *)
LEMMA NextIInv == IInv /\ [Next]_vars => IInv'
<1> SUFFICES ASSUME IInv, [Next]_vars PROVE IInv'
  OBVIOUS
<1>1. CASE enqueueWrite
  BY <1>1, EnqueueStep
<1>2. CASE RunPosted
  BY <1>2, RunPostedStep
<1>3. CASE WriteOp
  BY <1>3, OnWrittenStep, OnWriteErrorStep, TransferStep, AbortStep DEF WriteOp
<1>4. CASE ReadError
  BY <1>4, SocketStep DEF ReadError, IInv, TypeOK
<1>5. CASE ReaderCloses
  BY <1>5, SocketStep DEF ReaderCloses, IInv, TypeOK
<1>6. CASE close
  BY <1>6, SocketStep DEF close, IInv, TypeOK
<1>7. CASE PeerReset
  BY <1>7, SocketStep DEF PeerReset, IInv, TypeOK
<1>8. CASE UNCHANGED vars
  BY <1>8, SocketStep DEF vars, queueVars, IInv, TypeOK
<1>9. CASE Resting
  BY <1>9, <1>8 DEF Resting
<1> QED BY <1>1, <1>2, <1>3, <1>4, <1>5, <1>6, <1>7, <1>8, <1>9 DEF Next

(* The numbering of the buffers, with what it needs, always holds.           *)
THEOREM Invariance == Spec => []IInv
<1> QED BY InitIInv, NextIInv, PTL DEF Spec

(* The variables of enqueueWrite and flushWrites always have their types.    *)
THEOREM TypeCorrect == Spec => []TypeOK
<1>1. IInv => TypeOK
  BY DEF IInv
<1> QED BY <1>1, Invariance, PTL

(* flushWrites never has two async_write operations on the socket at once.   *)
THEOREM OneWriteAtATime == Spec => []SingleWriter
<1>1. IInv => SingleWriter
  BY DEF IInv
<1> QED BY <1>1, Invariance, PTL

(* The device receives what enqueueWrite accepted in order, without a gap.   *)
THEOREM WireInOrder == Spec => []InOrder
<1>1. IInv => InOrder
  BY DEF IInv, Numbered
<1> QED BY <1>1, Invariance, PTL

(* A queued buffer on a usable socket always has a write under way.          *)
THEOREM QueueNeverStalls == Spec => []NoStall
<1>1. IInv => NoStall
  BY DEF IInv
<1> QED BY <1>1, Invariance, PTL

------------------------------------------------------------------------------
(* Each step of the queue is a step of the channel its callers rely on, or   *)
(* leaves the channel as it is.                                              *)
LEMMA ChannelStep ==
  ASSUME IInv, [Next]_vars
  PROVE  [Channel!Next]_(Channel!vars)
<1> USE DEF Channel!Next, Channel!vars, Channel!Accept, Channel!Deliver, Channel!Break
<1>1. CASE enqueueWrite
  BY <1>1 DEF enqueueWrite
<1>2. CASE WriteOp
  <2> PICK i \in DOMAIN writes :
           OnWritten(i) \/ OnWriteError(i) \/ Transfer(i) \/ Abort(i)
    BY <1>2 DEF WriteOp
  <2>1. CASE Transfer(i)
    BY <2>1, TransferStep DEF Transfer
  <2>2. CASE OnWriteError(i)
    <3>1. socket # "open"
      BY <2>2, OnlyOne DEF OnWriteError, IInv, FailedMeansGone
    <3>2. socket' # "open"
      BY <2>2, <3>1 DEF OnWriteError
    <3> QED BY <2>2, <3>1, <3>2 DEF OnWriteError
  <2>3. CASE OnWritten(i) \/ Abort(i)
    BY <2>3 DEF OnWritten, Abort
  <2> QED BY <2>1, <2>2, <2>3
<1>3. CASE ReaderCloses \/ close \/ PeerReset
  BY <1>3 DEF ReaderCloses, close, PeerReset, queueVars
<1>4. CASE RunPosted \/ ReadError \/ Resting \/ UNCHANGED vars
  BY <1>4 DEF RunPosted, ReadError, Resting, vars, queueVars
<1> QED BY <1>1, <1>2, <1>3, <1>4 DEF Next

(* enqueueWrite, flushWrites and the completion handler implement FifoChannel.*)
THEOREM ChannelRefinement == Spec => ImplementsChannel
<1>1. Init => Channel!Init
  BY DEF Init, Channel!Init
<1>2. IInv /\ [Next]_vars => [Channel!Next]_(Channel!vars)
  BY ChannelStep
<1> QED BY <1>1, <1>2, Invariance, PTL DEF Spec, ImplementsChannel, Channel!Spec

==============================================================================
