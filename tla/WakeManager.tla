----------------------------- MODULE WakeManager -----------------------------
(***************************************************************************)
(* The command dispatcher: sendWake, sendLowPowerWake, markAck, markDone   *)
(* and the retry timer, each handler being one action, as with one io      *)
(* worker (WakeThreads is about several).  Sessions come, go and lose      *)
(* their entry in ctx_.sessions as SessionRegistry shows; devices answer   *)
(* what they have received, late, twice or never.                          *)
(*                                                                         *)
(* A message id is "W" and the time in milliseconds: here the value of the *)
(* clock ms, so two commands may get the same id.  A command stands for    *)
(* one request of the backend.                                             *)
(*                                                                         *)
(* A command of the HTTP server may have a text that is not UTF-8.  It     *)
(* cannot be serialised: sendWake throws half-way, and so does every later *)
(* handler that publishes an event of its entry, which ends the process.   *)
(***************************************************************************)
EXTENDS Integers

CONSTANTS
  Commands,          \* requests of the backend, each made at most once
  Devices,           \* device ids
  Sessions,          \* DeviceSession objects
  NoSession,         \* no entry in ctx_.sessions
  MaxRetry,          \* max_retry
  AckTimeout,        \* ack_timeout_ms, in units of the clock
  MaxMs              \* bound: commands are made before this time

ASSUME NoSessionAssumption == NoSession \notin Sessions
ASSUME MaxRetryAssumption == MaxRetry \in Nat
ASSUME AckTimeoutAssumption == AckTimeout \in Nat
ASSUME MaxMsAssumption == MaxMs \in Nat

VARIABLES
  pending,     \* pending_: a map from message ids to PendingWake
  keys,        \* Redis keys device:pending_wake:<device>:<id>
  registered,  \* ctx_.sessions
  alive,       \* "new", "live" or "gone" for each session object
  sproto,      \* protocol_ of each session
  ms,          \* the clock message ids are made from
  id,          \* history: the message id made for each command
  down,        \* an exception has left a handler: the process is gone
  wire,        \* JSON commands on their way to a device
  received,    \* JSON commands their device has received
  answered,    \* history: commands whose device sent wake_ack or task_done
  finished,    \* history: commands whose device sent task_done
  last,        \* history: the last event published for each command
  tries        \* history: "retrying" events published for each command

wakeVars  == <<pending, keys, last, tries, down>>
linkVars  == <<registered, alive, sproto>>
devVars   == <<wire, received, answered, finished>>
vars      == <<wakeVars, linkVars, devVars, ms, id>>

Ids == 0..MaxMs
NoId == -1

Entry == [cmd : Commands, device_id : Devices, session : Sessions,
          protocol : {"JSON_LINE", "LOWPOWER"}, utf8 : BOOLEAN,
          retry_count : Nat, next_retry : 0..AckTimeout]

Msg == [cmd : Commands, id : Ids, session : Sessions]

Status == {"none", "rejected", "dispatched", "retrying", "acked", "done", "failed"}

TypeOK ==
  /\ DOMAIN pending \subseteq Ids
  /\ pending \in [DOMAIN pending -> Entry]
  /\ keys \subseteq Devices \X Ids
  /\ registered \in [Devices -> Sessions \cup {NoSession}]
  /\ alive \in [Sessions -> {"new", "live", "gone"}]
  /\ sproto \in [Sessions -> {"JSON_LINE", "LOWPOWER"}]
  /\ ms \in Ids
  /\ id \in [Commands -> Ids \cup {NoId}]
  /\ down \in BOOLEAN
  /\ wire \subseteq Msg
  /\ received \subseteq Msg
  /\ answered \subseteq Commands
  /\ finished \subseteq Commands
  /\ last \in [Commands -> Status]
  /\ tries \in [Commands -> Nat]

Init ==
  /\ pending = [i \in {} |-> 0]
  /\ keys = {}
  /\ registered = [d \in Devices |-> NoSession]
  /\ alive = [s \in Sessions |-> "new"]
  /\ sproto \in [Sessions -> {"JSON_LINE", "LOWPOWER"}]
  /\ ms = 0
  /\ id = [c \in Commands |-> NoId]
  /\ down = FALSE
  /\ wire = {} /\ received = {} /\ answered = {} /\ finished = {}
  /\ last = [c \in Commands |-> "none"]
  /\ tries = [c \in Commands |-> 0]

------------------------------------------------------------------------------
(* pending_[i] = e, which replaces an entry that has the same id.            *)
Put(i, e) ==
  pending' = [j \in DOMAIN pending \cup {i} |-> IF j = i THEN e ELSE pending[j]]

(* pending_.erase for a set of ids.                                          *)
Without(ids) == [i \in DOMAIN pending \ ids |-> pending[i]]

publishCommandEvent(c, status) ==
  /\ last' = [last EXCEPT ![c] = status]
  /\ UNCHANGED tries

(* An exception leaves the handler and io.run: pending_ goes with the        *)
(* process, the Redis keys stay.                                             *)
ProcessEnds ==
  /\ pending' = Without(DOMAIN pending)
  /\ down' = TRUE

(* The throw statements of sendWake and sendLowPowerWake: the MQTT bridge    *)
(* publishes "rejected", the HTTP server answers with an error.              *)
Reject(c) ==
  /\ publishCommandEvent(c, "rejected")
  /\ UNCHANGED <<pending, keys, down, alive, sproto, devVars, ms, id>>

NewEntry(c, d, p, utf8) ==
  [cmd |-> c, device_id |-> d, session |-> registered[d], protocol |-> p, utf8 |-> utf8,
   retry_count |-> 0, next_retry |-> AckTimeout]

(* The rest of both, with a message id made from the clock: the entry, the   *)
(* Redis key, the message to the device, the event.                          *)
Dispatch(c, d, p) ==
  /\ Put(ms, NewEntry(c, d, p, TRUE))
  /\ keys' = keys \cup {<<d, ms>>}
  /\ wire' = IF p = "JSON_LINE"
             THEN wire \cup {[cmd |-> c, id |-> ms, session |-> registered[d]]}
             ELSE wire
  /\ publishCommandEvent(c, "dispatched")
  /\ id' = [id EXCEPT ![c] = ms]
  /\ UNCHANGED <<down, linkVars, received, answered, finished, ms>>

(* A request for device d: not routable, session expired (the entry in       *)
(* ctx_.sessions is erased), or sent.                                        *)
CanIssue(c) == last[c] = "none" /\ ms < MaxMs

sendWakeOffline(c, d) ==
  /\ CanIssue(c)
  /\ registered[d] = NoSession
  /\ Reject(c)
  /\ UNCHANGED registered

sendWakeExpired(c, d) ==
  /\ CanIssue(c)
  /\ registered[d] # NoSession /\ alive[registered[d]] = "gone"
  /\ registered' = [registered EXCEPT ![d] = NoSession]
  /\ Reject(c)

Routable(c, d) ==
  CanIssue(c) /\ registered[d] # NoSession /\ alive[registered[d]] = "live"

sendWake(c, d) ==
  /\ Routable(c, d)
  /\ sproto[registered[d]] # "LOWPOWER"
  /\ Dispatch(c, d, "JSON_LINE")

(* The same with a text that is not UTF-8: savePendingWake throws, or        *)
(* sendJson when there is no Redis, and the entry is in pending_ already.    *)
sendWakeThrows(c, d) ==
  /\ Routable(c, d)
  /\ sproto[registered[d]] # "LOWPOWER"
  /\ Put(ms, NewEntry(c, d, "JSON_LINE", FALSE))
  /\ publishCommandEvent(c, "rejected")
  /\ id' = [id EXCEPT ![c] = ms]
  /\ UNCHANGED <<keys, down, linkVars, devVars, ms>>

(* sendLowPowerWake, for a LOWPOWER session or the command lowpower_wakeup:  *)
(* Redis has the local key of the device, or the command is rejected.        *)
sendLowPowerWake(c, d) ==
  /\ Routable(c, d)
  /\ \/ Dispatch(c, d, "LOWPOWER")
     \/ Reject(c) /\ UNCHANGED registered

(* Mutant: the first entry found is taken for the one acknowledged.          *)
markAckFirst(i) ==
  IF i \in DOMAIN pending
  THEN LET f == CHOOSE j \in DOMAIN pending : \A k \in DOMAIN pending : j <= k IN
       /\ publishCommandEvent(pending[f].cmd, "acked")
       /\ pending' = Without({f})
       /\ UNCHANGED <<keys, down>>
  ELSE UNCHANGED wakeVars

(* markAck: the entry goes, the Redis key stays.                             *)
markAck(i) ==
  \/ /\ i \in DOMAIN pending /\ pending[i].utf8
     /\ publishCommandEvent(pending[i].cmd, "acked")
     /\ pending' = Without({i})
     /\ UNCHANGED <<keys, down>>
  \/ /\ i \in DOMAIN pending /\ ~pending[i].utf8
     /\ ProcessEnds
     /\ UNCHANGED <<keys, last, tries>>
  \/ i \notin DOMAIN pending /\ UNCHANGED wakeVars

(* markDone: the entry and the Redis key go.                                 *)
markDone(i) ==
  \/ /\ i \in DOMAIN pending /\ pending[i].utf8
     /\ keys' = keys \ {<<pending[i].device_id, i>>}
     /\ publishCommandEvent(pending[i].cmd, "done")
     /\ pending' = Without({i})
     /\ UNCHANGED down
  \/ /\ i \in DOMAIN pending /\ ~pending[i].utf8
     /\ keys' = keys \ {<<pending[i].device_id, i>>}
     /\ ProcessEnds
     /\ UNCHANGED <<last, tries>>
  \/ i \notin DOMAIN pending /\ UNCHANGED wakeVars

(* handleJsonWakeAck and handleJsonTaskDone for an answer to message m.      *)
handleJsonWakeAck(m) ==
  /\ markAck(m.id)
  /\ answered' = answered \cup {m.cmd}
  /\ UNCHANGED <<linkVars, wire, received, finished, ms, id>>

handleJsonTaskDone(m) ==
  /\ markDone(m.id)
  /\ answered' = answered \cup {m.cmd}
  /\ finished' = finished \cup {m.cmd}
  /\ UNCHANGED <<linkVars, wire, received, ms, id>>

------------------------------------------------------------------------------
(* Mutant: entries without retries left are not looked at.                   *)
DueUnlessSpent ==
  {i \in DOMAIN pending : pending[i].next_retry = 0 /\ pending[i].retry_count < MaxRetry}

(* onTick: entries whose time has come fail when their retries are used up,  *)
(* and are retried otherwise, unless retryWake finds their session gone.     *)
Due == {i \in DOMAIN pending : pending[i].next_retry = 0}

(* Mutant: one retry too many.                                               *)
FailingLate == {i \in Due : pending[i].retry_count > MaxRetry}

Failing == {i \in Due : pending[i].retry_count >= MaxRetry}

Retrying == {i \in Due \ Failing : alive[pending[i].session] = "live"}

CmdsOf(ids) == {pending[i].cmd : i \in ids}

(* Mutant: the time-out after a retry is one too long.                       *)
RetriedLate(e) == [e EXCEPT !.retry_count = @ + 1, !.next_retry = AckTimeout + 1]

(* retryWake.                                                                *)
Retried(e) == [e EXCEPT !.retry_count = @ + 1, !.next_retry = AckTimeout]

(* Entries whose events cannot be serialised.                                *)
IllFormed == {i \in DOMAIN pending : ~pending[i].utf8}

(* The events of a tick that has visited the entries in ids.                 *)
publishTick(ids) ==
  /\ last' = [c \in Commands |-> IF c \in CmdsOf(Failing \cap ids) THEN "failed"
                                 ELSE IF c \in CmdsOf(Retrying \cap ids) THEN "retrying"
                                 ELSE last[c]]
  /\ tries' = [c \in Commands |-> IF c \in CmdsOf(Retrying \cap ids) THEN tries[c] + 1
                                                                    ELSE tries[c]]

(* Mutant: the entry of a session that is gone is erased without an event.   *)
onTickDropsExpired ==
  /\ Due # {} /\ Due \cap IllFormed = {}
  /\ pending' = [i \in DOMAIN pending \ (Failing \cup (Due \ Retrying)) |->
                   IF i \in Retrying THEN Retried(pending[i]) ELSE pending[i]]
  /\ publishTick(Due)
  /\ UNCHANGED <<keys, down, linkVars, devVars, ms, id>>

onTick ==
  /\ Failing \cup Retrying # {} /\ (Failing \cup Retrying) \cap IllFormed = {}
  /\ pending' = [i \in DOMAIN pending \ Failing |->
                   IF i \in Retrying THEN Retried(pending[i]) ELSE pending[i]]
  /\ publishTick(Due)
  /\ wire' = wire \cup {[cmd |-> pending[i].cmd, id |-> i, session |-> pending[i].session] :
                          i \in {j \in Retrying : pending[j].protocol = "JSON_LINE"}}
  /\ UNCHANGED <<keys, down, linkVars, received, answered, finished, ms, id>>

(* The tick meets an entry that cannot be published, after any of the        *)
(* others: the order is that of a hash table.  Messages it has queued do not *)
(* leave, for their write handlers do not run.                               *)
onTickThrows ==
  /\ ~down
  /\ (Failing \cup Retrying) \cap IllFormed # {}
  /\ \E visited \in SUBSET ((Failing \cup Retrying) \ IllFormed) : publishTick(visited)
  /\ ProcessEnds
  /\ UNCHANGED <<keys, linkVars, devVars, ms, id>>

------------------------------------------------------------------------------
(* External: time, the TTL of the Redis keys, the devices and their sessions.*)
Elapse ==
  /\ ~down
  /\ ms' = IF ms < MaxMs THEN ms + 1 ELSE ms
  /\ pending' = [i \in DOMAIN pending |->
                   [pending[i] EXCEPT !.next_retry = IF @ > 0 THEN @ - 1 ELSE @]]
  /\ UNCHANGED <<keys, last, tries, down, linkVars, devVars, id>>

KeyExpires ==
  /\ \E k \in keys : keys' = keys \ {k}
  /\ UNCHANGED <<pending, last, tries, down, linkVars, devVars, ms, id>>

Deliver ==
  \E m \in wire :
    /\ alive[m.session] = "live"
    /\ wire' = wire \ {m}
    /\ received' = received \cup {m}
    /\ UNCHANGED <<wakeVars, linkVars, answered, finished, ms, id>>

Connect(d, s) ==
  /\ alive[s] = "new"
  /\ alive' = [alive EXCEPT ![s] = "live"]
  /\ registered' = [registered EXCEPT ![d] = s]
  /\ UNCHANGED <<wakeVars, sproto, devVars, ms, id>>

SessionGone(s) ==
  /\ alive[s] = "live"
  /\ alive' = [alive EXCEPT ![s] = "gone"]
  /\ wire' = {m \in wire : m.session # s}
  /\ UNCHANGED <<wakeVars, registered, sproto, received, answered, finished, ms, id>>

Unregister(d) ==
  /\ registered[d] # NoSession
  /\ registered' = [registered EXCEPT ![d] = NoSession]
  /\ UNCHANGED <<wakeVars, alive, sproto, devVars, ms, id>>

------------------------------------------------------------------------------
Request(c, d) ==
  \/ sendWakeOffline(c, d) \/ sendWakeExpired(c, d)
  \/ sendWake(c, d) \/ sendWakeThrows(c, d) \/ sendLowPowerWake(c, d)

Answer == \E m \in received : handleJsonWakeAck(m) \/ handleJsonTaskDone(m)

Tick == onTick \/ onTickThrows

Connections ==
  \/ Deliver
  \/ \E d \in Devices, s \in Sessions : Connect(d, s)
  \/ \E s \in Sessions : SessionGone(s)
  \/ \E d \in Devices : Unregister(d)

Next ==
  \/ /\ ~down
     /\ \/ \E c \in Commands, d \in Devices : Request(c, d)
        \/ Answer
        \/ Connections
        \/ KeyExpires
  \/ Tick \/ Elapse

Spec == Init /\ [][Next]_vars

(* Time passes and the tick timer, which re-arms itself, keeps firing.       *)
FairSpec == Spec /\ WF_vars(Elapse) /\ WF_vars(Tick)

------------------------------------------------------------------------------
(* Every command's events follow the life cycle the backend is told of.      *)
Lifecycle == INSTANCE CommandLifecycle

FollowsLifecycle == Lifecycle!Spec

Concluded == {"acked", "done", "failed"}

(* A command that was neither rejected nor concluded is still worked on: no  *)
(* path through sendWake, onTick, markAck and markDone drops its entry in    *)
(* silence.  Ids come from a clock, so another command may take the entry's  *)
(* place; then the id has an entry until a command with this id concludes.   *)
OpenIsTracked ==
  \A c \in Commands :
    ~down /\ last[c] \in {"dispatched", "retrying"} =>
      \/ id[c] \in DOMAIN pending
      \/ \E b \in Commands \ {c} : id[b] = id[c] /\ last[b] \in Concluded

(* "acked" and "done" are about a command whose device has answered, or      *)
(* another command with the same message id: nothing else in markAck and     *)
(* markDone can credit an answer to the wrong command.                       *)
AnsweredByItsDevice ==
  \A c \in Commands :
    last[c] \in {"acked", "done"} => \E b \in answered : id[b] = id[c]

(* A command concludes while the session it was sent to stays, unless the    *)
(* process ends and takes pending_ with it.                                  *)
ConcludesWhileConnected ==
  \A i \in Ids :
    (i \in DOMAIN pending)
      ~> (i \notin DOMAIN pending \/ alive[pending[i].session] = "gone")

------------------------------------------------------------------------------
(* What the documents say and the code does not do.                          *)

(* README: WakeManager manages time-outs and retries; system-flow.md section *)
(* 7: a command that does not succeed in the end is reported as failed, as   *)
(* long as the process runs.                                                 *)
EveryCommandConcludes ==
  \A c \in Commands : (last[c] = "dispatched") ~> (last[c] \in Concluded \/ down)

(* system-flow.md section 7, "done": the device has executed the command.    *)
TaskDoneIsReported == \A c \in finished : last[c] \in {"done", "failed"}

==============================================================================
