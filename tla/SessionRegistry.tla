--------------------------- MODULE SessionRegistry ---------------------------
(***************************************************************************)
(* Who is online: the maps sessions and states of GatewayContext, the Redis*)
(* key device:online:<id> and the retained MQTT state of each device, as   *)
(* DeviceSession (read chain and write chain of every connection),         *)
(* TcpGatewayServer::checkOffline and the lookup of WakeManager::sendWake  *)
(* use them.                                                               *)
(*                                                                         *)
(* A handler holds an io worker from its first step to its last.  Its      *)
(* steps are what other workers can see: the section under ctx_.mutex, the *)
(* Redis command, the MQTT publication.  With Workers = 1 handlers never   *)
(* interleave.  WriteQueue has the details of the write chain; here it is  *)
(* idle, busy with a write, or cleaning up after a write error.            *)
(***************************************************************************)
EXTENDS Integers, FiniteSets

CONSTANTS
  Devices,       \* device ids
  NoDevice,      \* the empty device_id_ of a connection that has not logged in
  Sessions,      \* DeviceSession objects, one per accepted connection
  NoSession,     \* no entry in ctx_.sessions
  DevStates,     \* values of dev_state ("sleep" is one)
  Workers,       \* io worker threads
  IdleTimeout    \* idle_timeout_sec, which is also the TTL of the Redis key

ASSUME NoDeviceAssumption == NoDevice \notin Devices
ASSUME NoSessionAssumption == NoSession \notin Sessions
ASSUME SleepAssumption == "sleep" \in DevStates
ASSUME DevStatesAssumption == "none" \notin DevStates /\ "offline" \notin DevStates
ASSUME IdleTimeoutAssumption == IdleTimeout \in Nat \ {0}

Ids == Devices \cup {NoDevice}

VARIABLES
  \* GatewayContext, guarded by ctx_.mutex
  sessions,      \* ctx_.sessions (weak pointers)
  known,         \* ids with an entry in ctx_.states
  online,        \* DeviceState::online
  dev_state,     \* DeviceState::dev_state
  age,           \* time since last_heartbeat, up to IdleTimeout + 1, while online
  \* the backends
  redis_ttl,     \* remaining TTL of device:online:<id>, 0: no such key, and as
                 \* in Redis -1: a key that does not expire
  redis_dev,     \* the dev_state in its value
  mqtt,          \* retained state: "none", "offline", or online with dev_state
  \* DeviceSession
  sock,          \* "open", "reset" by the peer, "closed" by close()
  proto,         \* protocol_
  dev,           \* device_id_
  closing,       \* closing_
  inbuf,         \* a received message that the read chain has not handled yet
  copy,          \* the DeviceState the running handler took a copy of
  reader,        \* where the read chain is
  writer,        \* where the write chain is
  \* TcpGatewayServer
  dropping       \* ids whose Redis key checkOffline has still to delete

ctxVars     == <<sessions, known, online, dev_state, age>>
redisVars   == <<redis_ttl, redis_dev>>
backendVars == <<redis_ttl, redis_dev, mqtt>>
connVars    == <<sock, proto, dev, closing, inbuf, copy, reader, writer>>
vars        == <<ctxVars, backendVars, connVars, dropping>>

(* Steps of handleDisconnect after its section under the mutex.              *)
OffSteps == {"del", "pub"}

TypeOK ==
  /\ sessions \in [Ids -> Sessions \cup {NoSession}]
  /\ known \in [Ids -> BOOLEAN]
  /\ online \in [Ids -> BOOLEAN]
  /\ dev_state \in [Ids -> DevStates]
  /\ age \in [Ids -> 0..(IdleTimeout + 1)]
  /\ redis_ttl \in [Ids -> 0..IdleTimeout]
  /\ redis_dev \in [Ids -> DevStates]
  /\ mqtt \in [Ids -> {"none", "offline"} \cup DevStates]
  /\ sock \in [Sessions -> {"open", "reset", "closed"}]
  /\ proto \in [Sessions -> {"UNKNOWN", "JSON_LINE", "LOWPOWER"}]
  /\ dev \in [Sessions -> Ids]
  /\ closing \in [Sessions -> BOOLEAN]
  /\ inbuf \in [Sessions -> BOOLEAN]
  /\ copy \in [Sessions -> DevStates]
  /\ reader \in [Sessions -> {"free", "detect", "read", "login", "redis", "mqtt",
                              "ended"} \cup OffSteps]
  /\ writer \in [Sessions -> {"idle", "busy"} \cup OffSteps]
  /\ dropping \in SUBSET Ids

Init ==
  /\ sessions = [i \in Ids |-> NoSession]
  /\ known = [i \in Ids |-> FALSE]
  /\ online = [i \in Ids |-> FALSE]
  /\ dev_state = [i \in Ids |-> "sleep"]
  /\ age = [i \in Ids |-> 0]
  /\ redis_ttl = [i \in Ids |-> 0]
  /\ redis_dev = [i \in Ids |-> "sleep"]
  /\ mqtt = [i \in Ids |-> "none"]
  /\ sock = [s \in Sessions |-> "open"]
  /\ proto = [s \in Sessions |-> "UNKNOWN"]
  /\ dev = [s \in Sessions |-> NoDevice]
  /\ closing = [s \in Sessions |-> FALSE]
  /\ inbuf = [s \in Sessions |-> FALSE]
  /\ copy = [s \in Sessions |-> "sleep"]
  /\ reader = [s \in Sessions |-> "free"]
  /\ writer = [s \in Sessions |-> "idle"]
  /\ dropping = {}

------------------------------------------------------------------------------
(* Handlers that hold a worker; a new handler needs a free one.              *)
MidRead(s)  == reader[s] \in {"login", "redis", "mqtt"} \cup OffSteps
MidWrite(s) == writer[s] \in OffSteps

CanRun ==
  Cardinality({s \in Sessions : MidRead(s)}) + Cardinality({s \in Sessions : MidWrite(s)})
    + (IF dropping = {} THEN 0 ELSE 1) < Workers

(* No handler is between two of its steps.                                   *)
Quiet == dropping = {} /\ \A s \in Sessions : ~MidRead(s) /\ ~MidWrite(s)

(* No chain holds the session any more: the weak pointers to it are dead.    *)
Expired(s) == reader[s] = "ended" /\ writer[s] = "idle"

(* The key device:online:<id> exists.                                        *)
HasKey(i) == redis_ttl[i] # 0

(* sendJson, sendRaw: the write chain gets work.                             *)
Send(s) == writer' = [writer EXCEPT ![s] = IF @ = "idle" THEN "busy" ELSE @]

------------------------------------------------------------------------------
(* handleDisconnect by the read chain or the write chain of s, up to the end *)
(* of its section under the mutex.  step is where the chain continues; done  *)
(* where it ends when there is nothing (more) for it to do.                  *)
DisconnectContext(s) ==
  IF closing[s] \/ dev[s] = NoDevice
  THEN UNCHANGED <<sessions, online>>
  ELSE /\ sessions' = [sessions EXCEPT ![dev[s]] = NoSession]
       /\ online' = [online EXCEPT ![dev[s]] = FALSE]

(* Mutant: the early way out for a connection without a device skips close().*)
DisconnectSocketForgotten(s) == UNCHANGED sock

DisconnectSocket(s) ==
  sock' = IF ~closing[s] /\ dev[s] = NoDevice
          THEN [sock EXCEPT ![s] = "closed"] ELSE sock

handleDisconnect(s) ==
  /\ closing' = [closing EXCEPT ![s] = TRUE]
  /\ DisconnectContext(s)
  /\ DisconnectSocket(s)
  /\ UNCHANGED <<known, dev_state, age, backendVars, proto, dev, copy, dropping>>

(* Mutant: the test of closing_ is dropped.                                  *)
AfterDisconnectAlways(s, done) == IF dev[s] = NoDevice THEN done ELSE "del"

AfterDisconnect(s, done) ==
  IF closing[s] \/ dev[s] = NoDevice THEN done ELSE "del"

(* Mutant: the Redis key is left to its TTL.                                 *)
RedisOfflineSkipped(s) ==
  UNCHANGED <<ctxVars, backendVars, sock, proto, dev, closing, inbuf, copy, dropping>>

(* redis->setOffline(device_id_).                                            *)
RedisOffline(s) ==
  /\ redis_ttl' = [redis_ttl EXCEPT ![dev[s]] = 0]
  /\ UNCHANGED <<ctxVars, redis_dev, mqtt, sock, proto, dev, closing, inbuf, copy,
                 dropping>>

(* Mutant: close() is missing at the end of handleDisconnect.                *)
PublishOfflineNoClose(s) ==
  /\ mqtt' = [mqtt EXCEPT ![dev[s]] = "offline"]
  /\ UNCHANGED <<ctxVars, redisVars, sock, proto, dev, closing, inbuf, copy, dropping>>

(* mqtt_backend->publishDeviceOffline(device_id_), then close().             *)
PublishOffline(s) ==
  /\ mqtt' = [mqtt EXCEPT ![dev[s]] = "offline"]
  /\ sock' = [sock EXCEPT ![s] = "closed"]
  /\ UNCHANGED <<ctxVars, redisVars, proto, dev, closing, inbuf, copy, dropping>>

------------------------------------------------------------------------------
(* TcpGatewayServer::accept and DeviceSession::start.                        *)
Accept(s) ==
  /\ CanRun
  /\ reader[s] = "free"
  /\ reader' = [reader EXCEPT ![s] = "detect"]
  /\ UNCHANGED <<ctxVars, backendVars, sock, proto, dev, closing, inbuf, copy,
                 writer, dropping>>

(* readAutoDetect's handler: it peeks at the first byte.                     *)
readAutoDetect(s) ==
  /\ CanRun
  /\ reader[s] = "detect" /\ inbuf[s]
  /\ \/ /\ proto' \in {[proto EXCEPT ![s] = p] : p \in {"JSON_LINE", "LOWPOWER"}}
        /\ reader' = [reader EXCEPT ![s] = "read"]
        /\ UNCHANGED sock
     \/ /\ sock' = [sock EXCEPT ![s] = "closed"]
        /\ reader' = [reader EXCEPT ![s] = "ended"]
        /\ UNCHANGED proto
  /\ UNCHANGED <<ctxVars, backendVars, dev, closing, inbuf, copy, writer, dropping>>

(* The handler of readJsonLine or readLowPowerPayload takes a message.       *)
Message(s, p) ==
  /\ CanRun
  /\ reader[s] = "read" /\ proto[s] \in p /\ inbuf[s]
  /\ inbuf' = [inbuf EXCEPT ![s] = FALSE]

JsonOrLowPower == {"JSON_LINE", "LOWPOWER"}

(* handleJsonLogin or handleLowPowerAuthReq, accepted: device_id_ is set,    *)
(* and the DeviceState is built.                                             *)
Login(s, d, v) ==
  /\ Message(s, JsonOrLowPower)
  /\ proto[s] = "LOWPOWER" => v = "sleep"
  /\ dev' = [dev EXCEPT ![s] = d]
  /\ copy' = [copy EXCEPT ![s] = v]
  /\ reader' = [reader EXCEPT ![s] = "login"]
  /\ UNCHANGED <<ctxVars, backendVars, sock, proto, closing, writer, dropping>>

(* registerOnlineState: its section under the mutex.                         *)
registerOnlineState(s) ==
  /\ reader[s] = "login"
  /\ sessions' = [sessions EXCEPT ![dev[s]] = s]
  /\ known' = [known EXCEPT ![dev[s]] = TRUE]
  /\ online' = [online EXCEPT ![dev[s]] = TRUE]
  /\ dev_state' = [dev_state EXCEPT ![dev[s]] = copy[s]]
  /\ age' = [age EXCEPT ![dev[s]] = 0]
  /\ reader' = [reader EXCEPT ![s] = "redis"]
  /\ UNCHANGED <<backendVars, sock, proto, dev, closing, inbuf, copy, writer, dropping>>

(* handleJsonHeartbeat or handleLowPowerHeartbeat of a device that has       *)
(* logged in: the section under the mutex, which ends with a copy.           *)
Heartbeat(s, v) ==
  /\ Message(s, JsonOrLowPower)
  /\ dev[s] # NoDevice
  /\ proto[s] = "LOWPOWER" => v = "sleep"
  /\ known' = [known EXCEPT ![dev[s]] = TRUE]
  /\ online' = [online EXCEPT ![dev[s]] = TRUE]
  /\ dev_state' = [dev_state EXCEPT ![dev[s]] = v]
  /\ age' = [age EXCEPT ![dev[s]] = 0]
  /\ copy' = [copy EXCEPT ![s] = v]
  /\ reader' = [reader EXCEPT ![s] = "redis"]
  /\ UNCHANGED <<sessions, backendVars, sock, proto, dev, closing, writer, dropping>>

(* setOnline with the copied state, on the way through updateRedisOnline.    *)
UpdateRedis(s, ttl) ==
  /\ reader[s] = "redis"
  /\ redis_ttl' = [redis_ttl EXCEPT ![dev[s]] = ttl]
  /\ redis_dev' = [redis_dev EXCEPT ![dev[s]] = copy[s]]
  /\ reader' = [reader EXCEPT ![s] = "mqtt"]
  /\ UNCHANGED <<ctxVars, mqtt, sock, proto, dev, closing, inbuf, copy, writer, dropping>>

(* Mutants: the TTL of an existing key is kept; SET in place of SETEX, so    *)
(* that the key does not expire.                                             *)
updateRedisOnlineKeepTTL(s) ==
  UpdateRedis(s, IF HasKey(dev[s]) THEN redis_ttl[dev[s]] ELSE IdleTimeout)
updateRedisOnlineNoTTL(s) == UpdateRedis(s, 0 - 1)

(* Mutant: a key that exists is only given a new TTL.                        *)
updateRedisOnlineTouch(s) ==
  /\ reader[s] = "redis"
  /\ redis_ttl' = [redis_ttl EXCEPT ![dev[s]] = IdleTimeout]
  /\ redis_dev' = IF HasKey(dev[s]) THEN redis_dev
                  ELSE [redis_dev EXCEPT ![dev[s]] = copy[s]]
  /\ reader' = [reader EXCEPT ![s] = "mqtt"]
  /\ UNCHANGED <<ctxVars, mqtt, sock, proto, dev, closing, inbuf, copy, writer, dropping>>

(* updateRedisOnline: SETEX with a fresh TTL.                                *)
updateRedisOnline(s) == UpdateRedis(s, IdleTimeout)

(* Mutant: the handler answers without publishing.                           *)
publishDeviceStateSkipped(s) ==
  /\ reader[s] = "mqtt"
  /\ reader' = [reader EXCEPT ![s] = "read"]
  /\ Send(s)
  /\ UNCHANGED <<ctxVars, backendVars, sock, proto, dev, closing, inbuf, copy, dropping>>

(* publishDeviceState with the copied state; the handler then sends its      *)
(* answer and the chain reads on.                                            *)
publishDeviceState(s) ==
  /\ reader[s] = "mqtt"
  /\ mqtt' = [mqtt EXCEPT ![dev[s]] = copy[s]]
  /\ reader' = [reader EXCEPT ![s] = "read"]
  /\ Send(s)
  /\ UNCHANGED <<ctxVars, redisVars, sock, proto, dev, closing, inbuf, copy, dropping>>

(* handleJsonHostSleep and handleJsonHostState: states[device_id_] is        *)
(* created when it is missing, even for the empty id; host_sleep answers.    *)
HostState(s, v) ==
  /\ Message(s, {"JSON_LINE"})
  /\ known' = [known EXCEPT ![dev[s]] = TRUE]
  /\ dev_state' = [dev_state EXCEPT ![dev[s]] = v]
  /\ \/ v = "sleep" /\ Send(s)
     \/ UNCHANGED writer
  /\ UNCHANGED <<sessions, online, age, backendVars, sock, proto, dev, closing, copy,
                 reader, dropping>>

(* Messages that leave the registry alone: refused with an answer (bad JSON, *)
(* unknown type, login without an id, heartbeat before login), task_done     *)
(* (answered) and wake_ack, empty lines, unsupported frames (not answered).  *)
OtherMessage(s) ==
  /\ Message(s, JsonOrLowPower)
  /\ \/ proto[s] = "JSON_LINE" /\ Send(s)
     \/ UNCHANGED writer
  /\ UNCHANGED <<ctxVars, backendVars, sock, proto, dev, closing, copy, reader, dropping>>

(* A frame that makes handleLowPowerAuthReq or handleLowPowerHeartbeat call  *)
(* close(): the chain goes on to the next header.                            *)
RefusedFrame(s) ==
  /\ Message(s, {"LOWPOWER"})
  /\ sock' = [sock EXCEPT ![s] = "closed"]
  /\ UNCHANGED <<ctxVars, backendVars, proto, dev, closing, copy, reader, writer, dropping>>

(* readLowPowerHeader with a bad version: close(), and no further read.      *)
BadVersion(s) ==
  /\ Message(s, {"LOWPOWER"})
  /\ sock' = [sock EXCEPT ![s] = "closed"]
  /\ reader' = [reader EXCEPT ![s] = "ended"]
  /\ UNCHANGED <<ctxVars, backendVars, proto, dev, closing, copy, writer, dropping>>

(* A read handler with an error; what had been received may be lost.         *)
ReadError(s) ==
  /\ CanRun
  /\ reader[s] \in {"detect", "read"} /\ sock[s] # "open"
  /\ inbuf' = [inbuf EXCEPT ![s] = FALSE]
  /\ reader' = [reader EXCEPT ![s] = AfterDisconnect(s, "ended")]
  /\ handleDisconnect(s)
  /\ UNCHANGED writer

ReaderRedisOffline(s) ==
  /\ reader[s] = "del"
  /\ reader' = [reader EXCEPT ![s] = "pub"]
  /\ RedisOffline(s)
  /\ UNCHANGED writer

ReaderPublishOffline(s) ==
  /\ reader[s] = "pub"
  /\ reader' = [reader EXCEPT ![s] = "ended"]
  /\ PublishOffline(s)
  /\ UNCHANGED writer

------------------------------------------------------------------------------
(* The write chain: flushWrites' completion handler without an error, which  *)
(* may have been on its way when the socket was closed.                      *)
WriteDone(s) ==
  /\ CanRun
  /\ writer[s] = "busy"
  /\ writer' = [writer EXCEPT ![s] = "idle"]
  /\ UNCHANGED <<ctxVars, backendVars, sock, proto, dev, closing, inbuf, copy, reader,
                 dropping>>

(* ... and with one: handleDisconnect on the write chain.                    *)
WriteError(s) ==
  /\ CanRun
  /\ writer[s] = "busy" /\ sock[s] # "open"
  /\ writer' = [writer EXCEPT ![s] = AfterDisconnect(s, "idle")]
  /\ handleDisconnect(s)
  /\ UNCHANGED <<inbuf, reader>>

WriterRedisOffline(s) ==
  /\ writer[s] = "del"
  /\ writer' = [writer EXCEPT ![s] = "pub"]
  /\ RedisOffline(s)
  /\ UNCHANGED reader

WriterPublishOffline(s) ==
  /\ writer[s] = "pub"
  /\ writer' = [writer EXCEPT ![s] = "idle"]
  /\ PublishOffline(s)
  /\ UNCHANGED reader

------------------------------------------------------------------------------
(* sendWake finds the session of a device: an entry whose session is gone is *)
(* erased, otherwise the command is sent.                                    *)
sendWake(d) ==
  /\ CanRun
  /\ sessions[d] # NoSession
  /\ IF Expired(sessions[d])
     THEN sessions' = [sessions EXCEPT ![d] = NoSession] /\ UNCHANGED writer
     ELSE Send(sessions[d]) /\ UNCHANGED sessions
  /\ UNCHANGED <<known, online, dev_state, age, backendVars, sock, proto, dev, closing,
                 inbuf, copy, reader, dropping>>

(* Mutant: only devices with an entry in ctx_.sessions are looked at.        *)
IdleRegistered ==
  {i \in Ids : known[i] /\ online[i] /\ age[i] > IdleTimeout /\ sessions[i] # NoSession}

(* checkOffline: its section under the mutex.                                *)
Idle == {i \in Ids : known[i] /\ online[i] /\ age[i] > IdleTimeout}

(* Mutant: the entry in ctx_.sessions is not erased.                         *)
checkOfflineKeepsSession ==
  /\ CanRun
  /\ dropping = {} /\ Idle # {}
  /\ online' = [i \in Ids |-> online[i] /\ i \notin Idle]
  /\ dropping' = Idle
  /\ UNCHANGED <<sessions, known, dev_state, age, backendVars, connVars>>

checkOffline ==
  /\ CanRun
  /\ dropping = {} /\ Idle # {}
  /\ online' = [i \in Ids |-> online[i] /\ i \notin Idle]
  /\ sessions' = [i \in Ids |-> IF i \in Idle THEN NoSession ELSE sessions[i]]
  /\ dropping' = Idle
  /\ UNCHANGED <<known, dev_state, age, backendVars, connVars>>

(* ... and its loop over the ids it has taken offline.                       *)
DropKey ==
  \E i \in dropping :
    /\ redis_ttl' = [redis_ttl EXCEPT ![i] = 0]
    /\ dropping' = dropping \ {i}
    /\ UNCHANGED <<ctxVars, redis_dev, mqtt, connVars>>

------------------------------------------------------------------------------
(* External: the devices, the clock, the TTL of Redis.                       *)
Receive(s) ==
  /\ reader[s] \notin {"free", "ended"} /\ sock[s] = "open" /\ ~inbuf[s]
  /\ inbuf' = [inbuf EXCEPT ![s] = TRUE]
  /\ UNCHANGED <<ctxVars, backendVars, sock, proto, dev, closing, copy, reader, writer,
                 dropping>>

PeerReset(s) ==
  /\ reader[s] # "free" /\ sock[s] = "open"
  /\ sock' = [sock EXCEPT ![s] = "reset"]
  /\ UNCHANGED <<ctxVars, backendVars, proto, dev, closing, inbuf, copy, reader, writer,
                 dropping>>

TimePasses ==
  /\ age' = [i \in Ids |-> IF online[i] /\ age[i] <= IdleTimeout THEN age[i] + 1
                                                                 ELSE age[i]]
  /\ redis_ttl' = [i \in Ids |-> IF redis_ttl[i] > 0 THEN redis_ttl[i] - 1
                                                       ELSE redis_ttl[i]]
  /\ UNCHANGED <<sessions, known, online, dev_state, redis_dev, mqtt, connVars, dropping>>

------------------------------------------------------------------------------
(* A handler that holds a worker takes its next step.                        *)
Continue(s) ==
  \/ registerOnlineState(s) \/ updateRedisOnline(s) \/ publishDeviceState(s)
  \/ ReaderRedisOffline(s) \/ ReaderPublishOffline(s)
  \/ WriterRedisOffline(s) \/ WriterPublishOffline(s)

HandleMessage(s) ==
  \/ \E d \in Devices, v \in DevStates : Login(s, d, v)
  \/ \E v \in DevStates : Heartbeat(s, v) \/ HostState(s, v)
  \/ OtherMessage(s) \/ RefusedFrame(s) \/ BadVersion(s)

ReadHandler(s) == readAutoDetect(s) \/ HandleMessage(s) \/ ReadError(s)

WriteHandler(s) == WriteDone(s) \/ WriteError(s)

Next ==
  \/ \E s \in Sessions : \/ Accept(s) \/ Continue(s)
                         \/ ReadHandler(s) \/ WriteHandler(s)
                         \/ Receive(s) \/ PeerReset(s)
  \/ \E d \in Devices : sendWake(d)
  \/ checkOffline \/ DropKey
  \/ TimePasses

Spec == Init /\ [][Next]_vars

(* Workers keep running: a handler under way finishes, a completed read or   *)
(* write gets its handler, the offline timer fires again and again, and time *)
(* passes.  Nothing is assumed of the devices.                               *)
Fairness ==
  /\ \A s \in Sessions : WF_vars(Continue(s)) /\ SF_vars(ReadHandler(s))
                         /\ SF_vars(WriteHandler(s))
  /\ SF_vars(checkOffline) /\ WF_vars(DropKey)
  /\ WF_vars(TimePasses)

FairSpec == Spec /\ Fairness

------------------------------------------------------------------------------
(* Safety, for any number of workers.                                        *)

(* A device that commands can be routed to is also reported online: no       *)
(* interleaving of login, disconnect, timeout and lookup leaves an entry in  *)
(* ctx_.sessions for a device that states calls offline.                     *)
RegisteredIsOnline ==
  \A i \in Ids : sessions[i] # NoSession => known[i] /\ online[i]

(* The entry that host_sleep and host_state create under the empty id before *)
(* a login never becomes a device: it is not online and has no session, no   *)
(* Redis key and no MQTT state.                                              *)
AnonymousIsNoDevice ==
  /\ ~online[NoDevice] /\ sessions[NoDevice] = NoSession
  /\ ~HasKey(NoDevice) /\ mqtt[NoDevice] = "none"

(* closing_ lets one of the two chains clean up, never both.                 *)
OneCleanup ==
  \A s \in Sessions : reader[s] \in OffSteps => writer[s] \notin OffSteps

(* Whoever loses that race, no session ends with its socket still open.      *)
EndedIsClosed ==
  \A s \in Sessions : Expired(s) => sock[s] = "closed"

------------------------------------------------------------------------------
(* Safety, when one worker runs all handlers: between two handlers ...       *)

(* ... a device with a Redis key is online,                                  *)
RedisKeyMeansOnline ==
  Quiet => \A d \in Devices : HasKey(d) => online[d]

(* ... a device that is online and was heard from within the TTL has its key,*)
FreshDeviceHasKey ==
  Quiet => \A d \in Devices : online[d] /\ age[d] < IdleTimeout => HasKey(d)

(* ... both backends report the same dev_state for it,                       *)
BackendsAgree ==
  Quiet => \A d \in Devices : HasKey(d) => mqtt[d] = redis_dev[d]

(* ... and MQTT never reports an online device as offline or not at all.     *)
OnlineIsPublished ==
  Quiet => \A d \in Devices : online[d] => mqtt[d] \in DevStates

------------------------------------------------------------------------------
(* Liveness.                                                                 *)

(* checkOffline: a device past the idle timeout is marked offline, unless it *)
(* is heard from again.                                                      *)
SilentGoesOffline ==
  \A d \in Devices : (online[d] /\ age[d] > IdleTimeout) ~> (~online[d] \/ age[d] = 0)

(* A connection that broke is closed by the gateway in the end.              *)
BrokenIsClosed == \A s \in Sessions : (sock[s] = "reset") ~> (sock[s] = "closed")

(* A Redis key left behind for a device that is offline does not stay: the   *)
(* TTL removes it, unless the device comes back.                             *)
StaleKeyExpires ==
  \A d \in Devices : (HasKey(d) /\ ~online[d]) ~> (~HasKey(d) \/ online[d])

------------------------------------------------------------------------------
(* What the documents say and the code does not do.                          *)

(* README, wake command: a device that is online gets a message id and the   *)
(* command is sent.  sendWake needs an entry in ctx_.sessions for that; the  *)
(* device here is online and one of its connections is up and being read.    *)
OnlineDeviceIsReachable ==
  Quiet => \A d \in Devices :
             online[d] /\ (\E s \in Sessions : dev[s] = d /\ reader[s] = "read"
                                                 /\ sock[s] = "open")
               => sessions[d] # NoSession

==============================================================================
