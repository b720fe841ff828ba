------------------------------ MODULE WakeThreads ------------------------------
(***************************************************************************)
(* WakeManager on several io workers.  pending_ has no lock, so the        *)
(* handlers interleave at every call they make: the sections under         *)
(* ctx_.mutex, each access to pending_, the Redis command, the message to  *)
(* the device, the publication.  One device with several connections, each *)
(* with a read chain of its own; commands have ids of their own, as when   *)
(* they are a millisecond apart.  WakeManager has the ends of sessions and *)
(* handlers that do not overlap.                                           *)
(*                                                                         *)
(* An access to pending_ is one step; that two of them may collide inside  *)
(* the container, or that an insertion may rehash it under an iterator, is *)
(* left out.  An iterator whose element another worker has erased must not *)
(* be used: broken says that it has been, and nothing is said of what      *)
(* comes after.                                                            *)
(***************************************************************************)
EXTENDS Integers, FiniteSets

CONSTANTS
  Commands,      \* requests of the backend, which are also their message ids
  Sessions,      \* connections of the device
  NoSession,     \* the device is not registered
  NoCommand,     \* no entry
  Workers,       \* numbers of io workers to consider
  MaxRetry       \* max_retry

ASSUME NoSessionAssumption == NoSession \notin Sessions
ASSUME NoCommandAssumption == NoCommand \notin Commands
ASSUME WorkersAssumption == Workers \subseteq Nat \ {0}
ASSUME MaxRetryAssumption == MaxRetry \in Nat

VARIABLES
  workers,       \* worker_threads
  \* the device and its registration
  registered,    \* ctx_.sessions[device_id]
  sproto,        \* protocol_ of each connection
  received,      \* JSON commands the device has received
  \* WakeManager
  pending,       \* pending_: the commands with an entry
  retry_count,   \* of each entry
  due,           \* entries whose next_retry has passed
  keys,          \* commands with a Redis key pending_wake
  broken,        \* an iterator without an element has been used
  \* handlers under way
  send,          \* sendWake, sendLowPowerWake of each command
  ans,           \* markAck or markDone on each read chain
  tick,          \* onTick
  \* history
  events,        \* what has been published about each command
  sent,          \* the protocols each command has been sent in, with the session
  moved,         \* lowpower_wakeup was asked for, or the registration has
                 \* changed while the command was handled
  overtaken      \* commands retried before their Redis key was written

deviceVars == <<registered, sproto, received>>
mapVars    == <<pending, retry_count, due, keys, broken>>
history    == <<events, sent, moved, overtaken>>
vars == <<workers, deviceVars, mapVars, send, ans, tick, history>>

NoAnswer == [at |-> "idle"]
NoTick   == [at |-> "idle"]

Init ==
  /\ workers \in Workers
  /\ registered = NoSession
  /\ sproto \in [Sessions -> {"JSON_LINE", "LOWPOWER"}]
  /\ received = {}
  /\ pending = {} /\ due = {} /\ keys = {}
  /\ retry_count = [c \in Commands |-> 0]
  /\ broken = FALSE
  /\ send = [c \in Commands |-> [at |-> "new", session |-> NoSession, proto |-> "JSON_LINE"]]
  /\ ans = [s \in Sessions |-> NoAnswer]
  /\ tick = NoTick
  /\ events = [c \in Commands |-> {}]
  /\ sent = [c \in Commands |-> {}]
  /\ moved = [c \in Commands |-> FALSE]
  /\ overtaken = {}

------------------------------------------------------------------------------
(* Handlers that hold a worker; a new handler needs a free one.              *)
Sending == {c \in Commands : send[c].at \notin {"new", "end"}}

Answering == {s \in Sessions : ans[s].at # "idle"}

CanRun ==
  Cardinality(Sending) + Cardinality(Answering) + (IF tick = NoTick THEN 0 ELSE 1) < workers

publishCommandEvent(c, status) == events' = [events EXCEPT ![c] = @ \cup {status}]

At(c, step) == send' = [send EXCEPT ![c].at = step]

Reject(c) ==
  /\ At(c, "end")
  /\ publishCommandEvent(c, "rejected")
  /\ UNCHANGED <<workers, deviceVars, mapVars, ans, tick, sent, moved, overtaken>>

------------------------------------------------------------------------------
(* sendWake up to its choice of the protocol.  lowpower: the command is      *)
(* lowpower_wakeup.                                                          *)
sendWakeOffline(c) ==
  /\ CanRun /\ send[c].at = "new" /\ registered = NoSession
  /\ Reject(c)

(* Mutant: the protocol of the session is not looked at.                     *)
sendWakeJson(c, lowpower) ==
  /\ CanRun /\ send[c].at = "new" /\ registered # NoSession
  /\ send' = [send EXCEPT ![c] =
       IF lowpower
       THEN [at |-> "second", session |-> registered, proto |-> "LOWPOWER"]
       ELSE [at |-> "insert", session |-> registered, proto |-> "JSON_LINE"]]
  /\ moved' = [moved EXCEPT ![c] = lowpower]
  /\ UNCHANGED <<workers, deviceVars, mapVars, ans, tick, events, sent, overtaken>>

(* Mutant: the message leaves before the entry is made.                      *)
sendWakeThenInsert(c, lowpower) ==
  /\ CanRun /\ send[c].at = "new" /\ registered # NoSession
  /\ send' = [send EXCEPT ![c] = [at |-> "insert", session |-> registered,
                                  proto |-> "JSON_LINE"]]
  /\ received' = received \cup {c}
  /\ UNCHANGED <<workers, registered, sproto, mapVars, ans, tick, history>>

sendWake(c, lowpower) ==
  /\ CanRun /\ send[c].at = "new" /\ registered # NoSession
  /\ send' = [send EXCEPT ![c] =
       IF lowpower \/ sproto[registered] = "LOWPOWER"
       THEN [at |-> "second", session |-> registered, proto |-> "LOWPOWER"]
       ELSE [at |-> "insert", session |-> registered, proto |-> "JSON_LINE"]]
  /\ moved' = [moved EXCEPT ![c] = lowpower]
  /\ UNCHANGED <<workers, deviceVars, mapVars, ans, tick, events, sent, overtaken>>

(* sendLowPowerWake looks the session up again, then the local key, and gives *)
(* up without either.                                                        *)
sendLowPowerWakeOffline(c) ==
  /\ send[c].at = "second"
  /\ Reject(c)

sendLowPowerWake(c) ==
  /\ send[c].at = "second" /\ registered # NoSession
  /\ send' = [send EXCEPT ![c] = [at |-> "insert", session |-> registered,
                                  proto |-> "LOWPOWER"]]
  /\ UNCHANGED <<workers, deviceVars, mapVars, ans, tick, history>>

(* The message, to the session and in the protocol of the entry.             *)
Transmit(c) ==
  /\ sent' = [sent EXCEPT ![c] = @ \cup {<<send[c].proto, send[c].session>>}]
  /\ received' = IF send[c].proto = "JSON_LINE" THEN received \cup {c} ELSE received
  /\ UNCHANGED <<registered, sproto>>

(* Mutant: the message leaves before the Redis key is written.               *)
InsertEntryThenSend(c) ==
  /\ send[c].at = "insert"
  /\ pending' = pending \cup {c}
  /\ Transmit(c)
  /\ At(c, "save")
  /\ UNCHANGED <<workers, retry_count, due, keys, broken, ans, tick, events, moved,
                 overtaken>>

(* What both do next: the entry, the Redis key, the message, the event.      *)
InsertEntry(c) ==
  /\ send[c].at = "insert"
  /\ pending' = pending \cup {c}
  /\ At(c, "save")
  /\ UNCHANGED <<workers, deviceVars, retry_count, due, keys, broken, ans, tick, history>>

savePendingWake(c) ==
  /\ send[c].at = "save"
  /\ keys' = keys \cup {c}
  /\ At(c, "send")
  /\ UNCHANGED <<workers, deviceVars, pending, retry_count, due, broken, ans, tick, history>>

SendMessage(c) ==
  /\ send[c].at = "send"
  /\ Transmit(c)
  /\ At(c, "publish")
  /\ UNCHANGED <<workers, mapVars, ans, tick, events, moved, overtaken>>

PublishDispatched(c) ==
  /\ send[c].at = "publish"
  /\ publishCommandEvent(c, "dispatched")
  /\ At(c, "end")
  /\ UNCHANGED <<workers, deviceVars, mapVars, ans, tick, sent, moved, overtaken>>

------------------------------------------------------------------------------
(* markAck and markDone, called on a read chain for an answer to command c:  *)
(* find, the Redis command of markDone,                                      *)
Find(s, c, status) ==
  /\ CanRun /\ ans[s] = NoAnswer /\ c \in received
  /\ c \in pending
  /\ ans' = [ans EXCEPT ![s] = [at |-> IF status = "done" THEN "remove" ELSE "publish",
                                it |-> c, status |-> status]]
  /\ UNCHANGED <<workers, deviceVars, mapVars, send, tick, history>>

(* the use of it for that, for the event, and for the erasure.               *)
Dangling(s) ==
  /\ ans[s].at # "idle" /\ ans[s].it \notin pending
  /\ broken' = TRUE
  /\ UNCHANGED <<workers, deviceVars, pending, retry_count, due, keys, send, ans, tick,
                 history>>

removePendingWake(s) ==
  /\ ans[s].at = "remove" /\ ans[s].it \in pending
  /\ keys' = keys \ {ans[s].it}
  /\ ans' = [ans EXCEPT ![s].at = "publish"]
  /\ UNCHANGED <<workers, deviceVars, pending, retry_count, due, broken, send, tick,
                 history>>

PublishAnswer(s) ==
  /\ ans[s].at = "publish" /\ ans[s].it \in pending
  /\ publishCommandEvent(ans[s].it, ans[s].status)
  /\ ans' = [ans EXCEPT ![s].at = "erase"]
  /\ UNCHANGED <<workers, deviceVars, mapVars, send, tick, sent, moved, overtaken>>

Erase(s) ==
  /\ ans[s].at = "erase" /\ ans[s].it \in pending
  /\ pending' = pending \ {ans[s].it}
  /\ due' = due \ {ans[s].it}
  /\ ans' = [ans EXCEPT ![s] = NoAnswer]
  /\ UNCHANGED <<workers, deviceVars, retry_count, keys, broken, send, tick, history>>

------------------------------------------------------------------------------
(* onTick: the loop over pending_ stands at an element, and goes on to any   *)
(* that it has not passed; an entry made meanwhile may be passed or not.     *)
StartTick ==
  /\ CanRun /\ tick = NoTick /\ due # {}
  /\ tick' = [at |-> NoCommand, todo |-> pending, passed |-> {}, remove |-> {}]
  /\ UNCHANGED <<workers, deviceVars, mapVars, send, ans, history>>

MayMove == tick # NoTick /\ tick.at \in pending \cup {NoCommand}

TickDangling ==
  /\ tick # NoTick /\ ~MayMove
  /\ broken' = TRUE
  /\ UNCHANGED <<workers, deviceVars, pending, retry_count, due, keys, send, ans, tick,
                 history>>

Passed(c, remove) ==
  tick' = [tick EXCEPT !.at = c, !.passed = @ \cup {c}, !.remove = remove]

PassEntry(c) ==
  /\ MayMove /\ c \in pending \ tick.passed /\ c \notin due
  /\ Passed(c, tick.remove)
  /\ UNCHANGED <<workers, deviceVars, mapVars, send, ans, history>>

(* Mutant: a failed entry is erased inside the loop.                         *)
FailEntryInLoop(c) ==
  /\ MayMove /\ c \in due \ tick.passed /\ retry_count[c] >= MaxRetry
  /\ publishCommandEvent(c, "failed")
  /\ Passed(c, tick.remove)
  /\ pending' = pending \ {c}
  /\ due' = due \ {c}
  /\ UNCHANGED <<workers, deviceVars, retry_count, keys, broken, send, ans, sent, moved,
                 overtaken>>

FailEntry(c) ==
  /\ MayMove /\ c \in due \ tick.passed /\ retry_count[c] >= MaxRetry
  /\ publishCommandEvent(c, "failed")
  /\ Passed(c, tick.remove \cup {c})
  /\ UNCHANGED <<workers, deviceVars, mapVars, send, ans, sent, moved, overtaken>>

(* retryWake.  A low-power wake is not sent again when its key has gone from *)
(* Redis.  Its calls are one step: an erasure between them is seen when the  *)
(* loop moves on.                                                            *)
retryWake(c) ==
  /\ MayMove /\ c \in due \ tick.passed /\ retry_count[c] < MaxRetry
  /\ retry_count' = [retry_count EXCEPT ![c] = @ + 1]
  /\ due' = due \ {c}
  /\ publishCommandEvent(c, "retrying")
  /\ \/ Transmit(c)
     \/ send[c].proto = "LOWPOWER" /\ UNCHANGED <<deviceVars, sent>>
  /\ Passed(c, tick.remove)
  /\ overtaken' = IF send[c].at = "save" THEN overtaken \cup {c} ELSE overtaken
  /\ UNCHANGED <<workers, pending, keys, broken, send, ans, moved>>

EndTick ==
  /\ MayMove /\ pending \cap tick.todo \subseteq tick.passed
  /\ pending' = pending \ tick.remove
  /\ due' = due \ tick.remove
  /\ tick' = NoTick
  /\ UNCHANGED <<workers, deviceVars, retry_count, keys, broken, send, ans, history>>

------------------------------------------------------------------------------
(* External: the device registers on another connection; ack_timeout_ms      *)
(* passes, which may be any time after the entry is made: the time-out is    *)
(* not checked when it is read, and a call of Redis may take long.           *)
Register(s) ==
  /\ registered # s
  /\ registered' = s
  /\ moved' = [c \in Commands |-> moved[c] \/ c \in Sending]
  /\ UNCHANGED <<workers, sproto, received, mapVars, send, ans, tick, events, sent, overtaken>>

TimeOut(c) ==
  /\ c \in pending \ due
  /\ due' = due \cup {c}
  /\ UNCHANGED <<workers, deviceVars, pending, retry_count, keys, broken, send, ans, tick,
                 history>>

SendHandler(c) ==
  \/ sendWakeOffline(c) \/ \E lowpower \in BOOLEAN : sendWake(c, lowpower)
  \/ sendLowPowerWakeOffline(c) \/ sendLowPowerWake(c)
  \/ InsertEntry(c) \/ savePendingWake(c) \/ SendMessage(c) \/ PublishDispatched(c)

AnswerHandler(s) ==
  \/ \E c \in Commands, status \in {"acked", "done"} : Find(s, c, status)
  \/ Dangling(s) \/ removePendingWake(s) \/ PublishAnswer(s) \/ Erase(s)

TickHandler ==
  \/ StartTick \/ TickDangling \/ EndTick
  \/ \E c \in Commands : PassEntry(c) \/ FailEntry(c) \/ retryWake(c)

Next ==
  /\ ~broken
  /\ \/ \E c \in Commands : SendHandler(c) \/ TimeOut(c)
     \/ \E s \in Sessions : AnswerHandler(s) \/ Register(s)
     \/ TickHandler

Spec == Init /\ [][Next]_vars

------------------------------------------------------------------------------
(* Whatever handlers overlap, a device's answer is about a command that has  *)
(* its entry, until an answer or a failure has been published for it.        *)
AnswerFindsEntry ==
  \A c \in received :
    events[c] \cap {"acked", "done", "failed"} = {} => c \in pending

(* The Redis key of a command is gone when the command is reported as done:  *)
(* no worker still writes it afterwards, unless the tick has sent the        *)
(* command again before savePendingWake wrote the key.                       *)
LeftKeyWasOvertaken ==
  \A c \in Commands : "done" \in events[c] /\ c \in keys => c \in overtaken

(* A command goes out in the protocol of the connection it goes to, unless   *)
(* lowpower_wakeup was asked for or the device has registered on another     *)
(* connection between the two lookups.                                       *)
SentInItsProtocol ==
  \A c \in Commands : \A m \in sent[c] : m[1] = sproto[m[2]] \/ moved[c]

(* With one worker no iterator into pending_ outlives its element.           *)
AloneIsUnbroken == workers = 1 => ~broken

==============================================================================
