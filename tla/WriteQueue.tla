------------------------------ MODULE WriteQueue ------------------------------
(***************************************************************************)
(* The outgoing side of one DeviceSession: enqueueWrite, flushWrites and   *)
(* the completion handler of async_write, all run on write_strand_, next   *)
(* to the read chain of the same session, which may run on another io      *)
(* worker and closes the shared socket.                                    *)
(*                                                                         *)
(* A buffer is named by its place in the order of enqueueWrite's posts, so *)
(* the k-th buffer handed over is the number k.  The strand runs one       *)
(* handler at a time: a handler is one action.                             *)
(***************************************************************************)
EXTENDS Naturals, Sequences

CONSTANT MaxWrites        \* bound: how many buffers are handed over

ASSUME MaxWritesAssumption == MaxWrites \in Nat

VARIABLES
  accepted,           \* history: number of enqueueWrite calls so far
  posted,             \* lambdas waiting on write_strand_, by their buffer
  write_queue,        \* write_queue_
  write_in_progress,  \* write_in_progress_
  writes,             \* async_write operations whose handler has not run yet
  wire,               \* history: buffers transferred completely, in order
  socket,             \* "open", "reset" by the peer, or "closed" by close()
  closing,            \* closing_
  reader              \* the read chain: "reading", "cleanup" or "ended"

vars == <<accepted, posted, write_queue, write_in_progress, writes, wire,
          socket, closing, reader>>

queueVars == <<accepted, posted, write_queue, write_in_progress, writes, wire>>

Op == [buf : Nat \ {0}, st : {"going", "written", "failed"}]

TypeOK ==
  /\ accepted \in Nat
  /\ posted \in Seq(Nat \ {0})
  /\ write_queue \in Seq(Nat \ {0})
  /\ write_in_progress \in BOOLEAN
  /\ writes \in Seq(Op)
  /\ wire \in Seq(Nat \ {0})
  /\ socket \in {"open", "reset", "closed"}
  /\ closing \in BOOLEAN
  /\ reader \in {"reading", "cleanup", "ended"}

Init ==
  /\ accepted = 0
  /\ posted = <<>>
  /\ write_queue = <<>>
  /\ write_in_progress = FALSE
  /\ writes = <<>>
  /\ wire = <<>>
  /\ socket = "open"
  /\ closing = FALSE
  /\ reader = "reading"

Remove(s, i) == SubSeq(s, 1, i - 1) \o SubSeq(s, i + 1, Len(s))

------------------------------------------------------------------------------
(* Mutant: write_in_progress_ is not reset when the queue is empty.          *)
flushWritesStuck(q, ops) ==
  /\ write_queue' = q
  /\ write_in_progress' = (q # <<>> \/ write_in_progress)
  /\ writes' = IF q = <<>> THEN ops
                           ELSE Append(ops, [buf |-> Head(q), st |-> "going"])

(* flushWrites with the queue q, when ops are the operations outstanding: it *)
(* starts an async_write of the front buffer, or notes that it is idle.      *)
flushWrites(q, ops) ==
  /\ write_queue' = q
  /\ write_in_progress' = (q # <<>>)
  /\ writes' = IF q = <<>> THEN ops
                           ELSE Append(ops, [buf |-> Head(q), st |-> "going"])

(* enqueueWrite, from any thread: the buffer is posted to the strand.        *)
enqueueWrite ==
  /\ accepted < MaxWrites
  /\ accepted' = accepted + 1
  /\ posted' = Append(posted, accepted + 1)
  /\ UNCHANGED <<write_queue, write_in_progress, writes, wire,
                 socket, closing, reader>>

(* Mutants: flushWrites is called although a write is going on; a buffer is  *)
(* pushed to the front of the queue instead of its back.                     *)
RunPostedUnguarded ==
  /\ posted # <<>>
  /\ posted' = Tail(posted)
  /\ flushWrites(Append(write_queue, Head(posted)), writes)
  /\ UNCHANGED <<accepted, wire, socket, closing, reader>>

RunPostedFront ==
  /\ posted # <<>>
  /\ posted' = Tail(posted)
  /\ LET q == <<Head(posted)>> \o write_queue IN
       IF write_in_progress
       THEN /\ write_queue' = q
            /\ UNCHANGED <<write_in_progress, writes>>
       ELSE flushWrites(q, writes)
  /\ UNCHANGED <<accepted, wire, socket, closing, reader>>

(* The posted lambda: push_back, and flushWrites unless a write is going on. *)
RunPosted ==
  /\ posted # <<>>
  /\ posted' = Tail(posted)
  /\ LET q == Append(write_queue, Head(posted)) IN
       IF write_in_progress
       THEN /\ write_queue' = q
            /\ UNCHANGED <<write_in_progress, writes>>
       ELSE flushWrites(q, writes)
  /\ UNCHANGED <<accepted, wire, socket, closing, reader>>

(* Mutant: the next write is not started.                                    *)
OnWrittenStops(i) ==
  /\ writes[i].st = "written"
  /\ write_queue # <<>>
  /\ write_queue' = Tail(write_queue)
  /\ write_in_progress' = FALSE
  /\ writes' = Remove(writes, i)
  /\ UNCHANGED <<accepted, posted, wire, socket, closing, reader>>

(* async_write's handler without an error: pop_front and flushWrites.        *)
OnWritten(i) ==
  /\ writes[i].st = "written"
  /\ write_queue # <<>>
  /\ flushWrites(Tail(write_queue), Remove(writes, i))
  /\ UNCHANGED <<accepted, posted, wire, socket, closing, reader>>

(* async_write's handler with an error: the queue stays as it is, and        *)
(* handleDisconnect closes the socket unless another chain is already at it. *)
OnWriteError(i) ==
  /\ writes[i].st = "failed"
  /\ write_in_progress' = FALSE
  /\ writes' = Remove(writes, i)
  /\ closing' = TRUE
  /\ socket' = IF closing THEN socket ELSE "closed"
  /\ UNCHANGED <<accepted, posted, write_queue, wire, reader>>

------------------------------------------------------------------------------
(* The read chain ends with an error: handleDisconnect claims closing_ and,  *)
(* after the bookkeeping it does elsewhere, closes the socket.               *)
ReadError ==
  /\ reader = "reading"
  /\ closing' = TRUE
  /\ reader' = IF closing THEN "ended" ELSE "cleanup"
  /\ UNCHANGED <<queueVars, socket>>

ReaderCloses ==
  /\ reader = "cleanup"
  /\ reader' = "ended"
  /\ socket' = "closed"
  /\ UNCHANGED <<queueVars, closing>>

(* A message handler calls close() directly.  After a failed authentication  *)
(* the chain goes on and meets the error at its next read; after an unknown  *)
(* first byte or a bad version no read is started again.                     *)
close ==
  /\ reader = "reading"
  /\ socket # "closed"
  /\ socket' = "closed"
  /\ reader' \in {"reading", "ended"}
  /\ UNCHANGED <<queueVars, closing>>

------------------------------------------------------------------------------
(* External: the peer, the kernel and Asio's completion of an operation.  An *)
(* operation still going when the socket is no longer open fails.            *)
PeerReset ==
  /\ socket = "open"
  /\ socket' = "reset"
  /\ UNCHANGED <<queueVars, closing, reader>>

Transfer(i) ==
  /\ writes[i].st = "going"
  /\ socket = "open"
  /\ writes' = [writes EXCEPT ![i].st = "written"]
  /\ wire' = Append(wire, writes[i].buf)
  /\ UNCHANGED <<accepted, posted, write_queue, write_in_progress,
                 socket, closing, reader>>

Abort(i) ==
  /\ writes[i].st = "going"
  /\ socket # "open"
  /\ writes' = [writes EXCEPT ![i].st = "failed"]
  /\ UNCHANGED <<accepted, posted, write_queue, write_in_progress, wire,
                 socket, closing, reader>>

------------------------------------------------------------------------------
WriteOp ==
  \E i \in DOMAIN writes : OnWritten(i) \/ OnWriteError(i) \/ Transfer(i) \/ Abort(i)

(* All buffers handed over and nothing left to run: the session is at rest.  *)
Resting ==
  /\ accepted = MaxWrites /\ posted = <<>> /\ writes = <<>> /\ reader = "ended"
  /\ UNCHANGED vars

Next ==
  \/ enqueueWrite
  \/ RunPosted
  \/ WriteOp
  \/ ReadError
  \/ ReaderCloses
  \/ close
  \/ PeerReset
  \/ Resting

Spec == Init /\ [][Next]_vars

(* The io workers keep running strand handlers that are ready, and a peer    *)
(* that is still connected keeps draining its socket.                        *)
Fairness ==
  /\ WF_vars(RunPosted)
  /\ WF_vars(WriteOp)

FairSpec == Spec /\ Fairness

------------------------------------------------------------------------------
(* Never two async_write operations at once on the socket of a session: the  *)
(* "serial write queue" of docs/system-flow.md section 8.                    *)
SingleWriter ==
  /\ Len(writes) <= 1
  /\ write_in_progress <=> Len(writes) = 1

(* The device receives the buffers in the order of enqueueWrite, none twice  *)
(* and none skipped, whatever order the strand and the kernel work in.       *)
InOrder == \A i \in DOMAIN wire : wire[i] = i

(* No stall: while the socket is usable, a queued buffer always has a write  *)
(* under way, so no later enqueueWrite is needed to get it moving.           *)
NoStall == write_queue # <<>> /\ socket = "open" => write_in_progress

(* Every buffer handed over is eventually transferred, or the socket is gone.*)
EventuallyWritten ==
  \A k \in 1..MaxWrites :
    (accepted >= k) ~> (Len(wire) >= k \/ socket # "open")

(* The queue implements the in-order channel its callers rely on.            *)
Channel == INSTANCE FifoChannel WITH delivered <- wire, broken <- (socket # "open")

ImplementsChannel == Channel!Spec

==============================================================================
