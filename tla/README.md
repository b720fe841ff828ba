# A TLA+ model of the low-power TCP gateway

The gateway keeps TCP connections to battery-powered devices, tracks which of
them are online, mirrors that to Redis and MQTT, and sends wake commands from a
backend to the devices. These modules model its control, TLC checks them on
small instances, and TLAPS proves the safety properties for every size.

Paths below are relative to the repository. Most modules are about the program
that `CMakeLists.txt` builds: `src/main.cpp` and the files under `src/session`,
`src/service`, `src/storage`, `src/backend`, `src/protocol`,
`src/TcpGatewayServer.cpp`, `src/HttpAdminServer.cpp`. `StandaloneGateway` is
about the single-file gateway, the `main.cpp` in the root, which the components
were split from. The earlier versions of the components next to these
directories are not built and not modelled.

## 1. Inventory

| component | state | operations | meets others through |
|---|---|---|---|
| DeviceSession, write side | `write_queue_`, `write_in_progress_`, socket | `enqueueWrite`, `flushWrites`, its completion handler | strand, shared socket, `closing_` |
| DeviceSession, read side | `protocol_`, `device_id_`, `closing_` | detection, login, heartbeat, wake_ack, task_done, host_sleep, host_state, auth and heartbeat frames, `handleDisconnect` | `ctx_.mutex`, Redis, MQTT, WakeManager |
| GatewayContext | `sessions` (weak pointers), `states` | none, a shared record | every component |
| TcpGatewayServer | acceptor, offline timer | `accept`, `checkOffline` | `ctx_`, Redis |
| WakeManager | `pending_`, tick timer | `sendWake`, `sendLowPowerWake`, `markAck`, `markDone`, `onTick`, `retryWake` | `ctx_.sessions`, sessions, Redis, MQTT |
| RedisStore | one hiredis context with its error flag | `connect`, SETEX / DEL of `device:online`, `device:pending_wake`, lookups of ids and local keys | called from all threads, without a lock |
| MqttBackend | mosquitto client, `client_mutex_`, `started_` | `start`, `stop`, publications, `onConnect`, `onMessage`, command requests | callbacks on the thread of libmosquitto, `sendWake` posted to the io workers |
| HttpAdminServer | one session per connection | online query, command | handlers on the io workers, calls `sendWake` |
| LowPowerProtocol, JsonLineProtocol | none | framing, encoding | pure functions |
| Standalone gateway (root `main.cpp`) | `GatewayState::sessions`, `states`; per session a read buffer and a write queue | login, heartbeat, disconnect, offline checker, HTTP online and wake | one thread, everything through `GatewayState` |
| AppConfig | configuration | `load` | gives the constants their values |
| main | all objects, worker threads | start-up, `io.run`, unwinding | owns every component |

What is hard here:

* several io workers run the handlers of one session's read chain and write
  chain, the offline timer, the tick timer and other sessions side by side;
* the mutex covers the two maps, but not the Redis and MQTT updates that follow;
* a device reconnects before its old connection has ended;
* connections break between any two steps; messages received before that are
  still handled after it;
* devices answer a command late, twice or never, while the tick retries it;
* message ids come from a clock with a resolution of a millisecond, so two
  commands may have the same one;
* texts are serialised late: a cmd or a parse error that is not UTF-8 makes
  `dump()` throw after an entry was made, after a message was sent, or inside a
  catch clause;
* an HTTP client may connect and stay silent, for there is no deadline;
* `pending_` has no lock: with several workers `sendWake`, the tick and the
  answers of devices interleave at every call they make;
* the hiredis context has no lock either, so two callers may take each other's
  replies; after a lost connection it answers every call with nothing until the
  process restarts;
* the process may end while commands to Redis are under way, and what it kept in
  memory (`pending_`, `ctx_`) is gone while Redis keeps its entries;
* a login reads ids and keys from Redis that may be wrong, missing or changed
  before the answer is made, and a lookup that fails falls back to
  `dev_default_secret`;
* a connection may log in twice under different ids (standalone gateway);
* TCP cuts the bytes of a device anywhere, and lengths have 16 bits;
* the callbacks of libmosquitto run beside main's start-up and unwinding, and
  `stop` waits for their thread with a mutex in hand.

`PROJECT.json` lists each of these at its line under `hazards`, with the
properties that look for it.

## 2. Modules

| module | models | role |
|---|---|---|
| `FifoChannel` | what the callers of `sendJson` rely on | abstract |
| `WriteQueue` | write side of one DeviceSession | detailed |
| `WriteQueueProofs` | | theorems |
| `SessionRegistry` | read side of all sessions, `GatewayContext`, `checkOffline`, the backends' view of each device | detailed |
| `SessionRegistryProofs` | | theorems |
| `CommandLifecycle` | what the backend may expect of a command's events | abstract |
| `WakeManager` | `pending_`, retries, answers, event stream, one handler at a time | detailed |
| `WakeManagerProofs` | | theorems |
| `WakeThreads` | the same functions, interleaved call by call on several workers | detailed |
| `WakeThreadsProofs` | | theorems |
| `KeyValueStore` | what the callers of RedisStore rely on | abstract |
| `RedisStore` | the hiredis context, the connection and the server | detailed, extended by its users |
| `AuthExchange` | AUTH_REQ, disconnect and wake frames on top of `RedisStore`, with crashes and lost connections | composition |
| `AuthExchangeProofs` | | lemmas on the operations of `RedisStore`, theorems |
| `StandaloneGateway` | the single-file gateway | detailed |
| `StandaloneGatewayProofs` | | theorems |
| `LowPowerProtocol` | framing and length-value payloads | pure operators |
| `DeviceStream` | how a DeviceSession cuts its byte stream into messages | detailed |
| `DeviceStreamProofs` | | theorems on the framing and on the reader |
| `CommandBridge` | main, MqttBackend, HttpAdminServer | detailed |
| `CommandBridgeProofs` | | theorems |
| `MC*` | constants and symmetry for TLC | instances |

**WriteQueue.** The strand runs one handler at a time, so the lambda that
`enqueueWrite` posts (`RunPosted`) and the completion handler (`OnWritten`,
`OnWriteError`) are one action each. The read chain is not on the strand: it
closes the socket between any two of them (`ReadError`, `ReaderCloses`,
`close`). The kernel and Asio are `Transfer`, `Abort`, `PeerReset`. A buffer is
its number in the order of acceptance, so order and loss are visible.

**SessionRegistry.** A handler is split where another worker can see a
difference: the section under `ctx_.mutex`, the Redis command, the publication.
`reader[s]` and `writer[s]` say where the two chains of a session are. A handler
under way holds a worker, and `CanRun` lets a new one start only while fewer
than `Workers` are held, so `Workers = 1` is the sequential program. A login is
`Login` (`device_id_` is set), `registerOnlineState`, `updateRedisOnline`,
`publishDeviceState`; a heartbeat joins at `updateRedisOnline` with the copy of
the state it took. `handleDisconnect` on either chain is its section under the
mutex, then `RedisOffline`, then `PublishOffline`, which closes the socket; the
two early ways out (lost race for `closing_`, no device) are in
`AfterDisconnect` and `DisconnectSocket`. JSON and low-power messages share
actions where they do the same to the registry. Messages that leave it alone are
one action, `OtherMessage`.

**WakeManager.** Every function is one action. The clock `ms` stands for
`nowMs()`; an id is the value of the clock, so commands issued in the same
millisecond share one and the later entry replaces the earlier; `id` remembers
it for each command. A retried or sent JSON command goes to `wire`, may reach
`received`, and may then be answered any number of times; low-power devices have
no message that acknowledges a wake frame. Sessions and registrations change as
SessionRegistry allows (`Connect`, `SessionGone`, `Unregister`). An entry's `utf8`
is whether its texts can be serialised. When they cannot, `sendWakeThrows` leaves
the entry behind and refuses the request; the next event about it throws out of
its handler (`onTickThrows`, the last disjuncts of `markAck` and `markDone`), and
`down` says that the process is gone.

**WakeThreads.** Each step is one access to `pending_`, one section under
`ctx_.mutex`, one Redis command, one message or one publication. `send[c]`,
`ans[s]` and `tick` say where `sendWake`, `markAck`/`markDone` and `onTick`
stand; `CanRun` starts a handler only on a free worker. An iterator is the
element it points at; using it after another worker has erased the element is
undefined, so `broken` is set and nothing is said of what follows. `retryWake`
is one step, with the message and the "retrying" event. `TimeOut` may come at any
moment after the insertion, also before `savePendingWake` and `sendJson`: the
code sets `next_retry` before it inserts the entry, does not check
`ack_timeout_ms`, and has no time-out on Redis calls. `moved` remembers when
the two lookups of `sendWake` and `sendLowPowerWake` may have seen different
registrations, `overtaken` for which commands a retry came before the key.

**RedisStore, KeyValueStore.** `Call` is `redisCommand` up to where it waits: the
command goes to `pipe` if the context has no error and the connection is up.
`Return` takes the next reply, whoever it is for, or returns nothing and sets
`err`. `Execute`, `LinkLost`, `StrayEnds` and `Expire` are the server and the
network: commands of a lost connection are `stray` and may be executed later,
once or never. `connect` is a new process. In `KeyValueStore` a call takes effect
at one moment between start and return; a call that fails returns nothing and may
still take effect later.

**AuthExchange.** The handlers stop at each Redis call. `handleLowPowerAuthReq`
looks up the id, `resolveLocalKey` the key, `registerOnlineState` verifies, sets
`device_id_`, registers and calls `setOnline`, `SendAuthResp` answers;
`UnknownDevice` and `SignatureFailed` are the early returns. `handleDisconnect`
erases the entry and calls `setOffline`. `sendLowPowerWake` reads the key, saves
`pending_wake` and sends the frame. A cipher text is the record of key and plain
text, a signature the record of key and signed text, so decryption with another
key gives nothing; the AES key is the first 16 bytes of the local key, so two
keys may encrypt alike and still sign differently. What Redis holds at the start
is any member of `InitialData`: a device without a key, with another key, or an
index that takes it for another device.

**StandaloneGateway.** One thread runs `io_context`, so every handler is one
action. Both chains of a connection call `handle_disconnect`, and there is no
`closing_`; a handler that had its line before the close still runs. `writer`
tells an empty queue, one buffer, several, and a queue that has stopped after an
error; `inbuf` whether there is a line to handle; `logins` is the history of who
has logged in as which device. `Expired` is a weak pointer without a session.

**LowPowerProtocol, DeviceStream.** A byte has `Base` values, so lengths wrap at
`Base * Base` (2^16 in the code); a `std::optional` is a set with at most one
element. DeviceStream sends lines or frames into `net`; bytes reach `arrived` one
at a time, which covers every segmentation; the reads complete when what they
wait for is there. `WriterCloses` is the write chain closing the socket. Whether
the lookup, the cipher and the signature of AUTH_REQ succeed is open.

**CommandBridge.** `main` is where the main thread is: `loadConfig`,
`connectRedis`, the steps of `MqttBackend::start`, `openServers`, then `io.run`;
every step may fail. An exception in a handler (`HandlerThrows`) unwinds main
when there is one worker; with more it ends the process, for it leaves a thread
or meets threads that are not joined. `stop` is three steps, with
`client_mutex_` held across them; messages that were read before the
disconnection still reach `onMessage`. `cb` is what the thread of libmosquitto is
doing. A request goes from `away` to its answer; an HTTP client sends the rest of
its request when it likes (`RequestComplete`); `sendWake` returns or throws
(WakeManager has the rest). A message delivered twice is two requests. A request
of kind `illText` has a text that is not UTF-8: its refusal throws inside the
catch clause of `onMessage` and ends the process (`refusalThrows`), whatever the
number of workers; over HTTP the response 200 that repeats it throws inside the
try block, so a low-power wake may be sent, published as "dispatched" and
answered with 409 (`handleCommand`).

Payloads, field values other than `dev_state`, log lines and reply texts are left
out: no property depends on them.

## 3. What TLC checks

Passing runs:

* `write_queue`: at most one `async_write` at a time (`SingleWriter`), no queued
  buffer without a write under way (`NoStall`), each buffer is written or the
  socket is gone (`EventuallyWritten`), refinement of `FifoChannel`
  (`ImplementsChannel`). Four buffers: one in flight, two queued, one posted.
* `registry_concurrent`: two workers, two connections, one device. An entry in
  `ctx_.sessions` means online (`RegisteredIsOnline`); one chain cleans up
  (`OneCleanup`); no session ends with an open socket (`EndedIsClosed`). Two
  connections are a reconnect; two workers are enough for any two handlers to
  interleave.
* `registry_sequential`: one worker; between two handlers a Redis key means
  online (`RedisKeyMeansOnline`), an online device that was heard from has its
  key (`FreshDeviceHasKey`), MQTT reports an online device as online
  (`OnlineIsPublished`; not the converse, for `checkOffline` leaves a retained
  "online"), and both backends hold the same `dev_state` (`BackendsAgree`).
  `IdleTimeout = 2` lets a device be fresh, at the limit and past it, and a
  heartbeat come while the key is still there. With `Workers = 2` in the same
  configuration TLC refutes `RedisKeyMeansOnline`: the DEL of a disconnect
  overtakes the SETEX of the login, and the key stays until its TTL.
* `registry_liveness`: silent devices go offline, broken connections are closed,
  stale keys expire.
* `wake`: two commands to a device with two connections, one retry; ids may be
  shared and texts need not be UTF-8. A command without a conclusion has an entry
  under its id, or another command with that id was concluded (`OpenIsTracked`);
  a conclusion comes from a device's answer to a message with that id
  (`AnsweredByItsDevice`); every command refines `CommandLifecycle`
  (`FollowsLifecycle`), and one whose session stays is concluded
  (`ConcludesWhileConnected`). One retry lets an answer come before, between and
  after the sendings. The process may end, so deadlock is not checked.
* `wake_threads`: two commands, two connections, one worker and two; with two, any
  two of a dispatch, an answer and the tick overlap, and an entry may time out at
  any moment. A device's answer is about a command that still has its entry,
  because the entry is made before the message leaves (`AnswerFindsEntry`); a
  command that was reported as done has a Redis key only when a retry overtook
  its `savePendingWake` (`LeftKeyWasOvertaken`; the key then stays until its
  TTL); a message has the protocol of its connection unless the device moved
  between the two lookups (`SentInItsProtocol`); one worker never uses an
  iterator whose element is gone (`AloneIsUnbroken`). With several workers an
  iterator may dangle, "acked" may be published before "dispatched", both
  "failed" and "acked" for one command, and a wake frame may go to a JSON
  connection. Deadlock is not checked: after `broken` there is no step.
* `auth_exchange`: a device in development, whose key is `dev_default_secret`, on
  two connections; one AUTH_REQ each, one connection at a time, two faults
  (crashes and lost Redis connections), one change of the key. Two keys share
  their first 16 bytes. A connection is only registered as the device at its
  other end (`IdentityIsOwn`); the device accepts every answer it gets
  (`AnswersAreAccepted`); wake frames match the key of the login
  (`WakeupMatchesKey`); whatever is left in Redis has a TTL (`LeftoversExpire`);
  while no two calls overlap `RedisStore` implements `KeyValueStore`
  (`AloneIsKeyValueStore`). Two faults are a lost connection before a restart.
  One request per connection is enough for every place of the exchange to meet
  every fault; the wake handler and a session overlap in their calls, so replies
  are swapped. The properties are proved for all bounds. Deadlock is not checked:
  when requests and faults are used up nothing is left to do.
* `standalone`: two devices, two connections. A device that the wake call finds
  is one that the online call reports as online (`RoutableIsOnline`); a connected
  device without an entry has logged in on more than one connection
  (`OnlyReconnectsHide`); an entry whose session is gone belongs to a connection
  that logged in as another device since (`DeadEntryWasRenamed`); silent devices
  go offline (`SilentGoesOffline`). The first two connections of two devices give
  every reconnect and every rename. Deadlock is not checked: an exception in a
  handler ends the program.
* `device_stream`: three messages of either protocol, empty lines, both line
  ends, payloads with bytes that mean something elsewhere, a bad version, resets
  and a close at any point. What the handlers get is what was sent, complete and
  in order (`InSync`); every accepted frame and payload has exactly one encoding
  (`AcceptedIsCanonical`); nothing that arrived is left waiting
  (`EveryMessageHandled`). With `Base = 5` a payload of five bytes needs both
  bytes of its length.
* `command_bridge`: two MQTT requests of any kind and an HTTP request, one lost
  broker connection, one worker. Nothing is left behind when main ends
  (`NothingLeft`); callbacks never meet a destroyed client (`CallbackHasClient`);
  each connection is subscribed or its `onConnect` failed
  (`LinkedMeansSubscribed`); one first answer per request, where "dispatched",
  "rejected" and 200 are true and 409 is false only for a command that is not
  UTF-8 (`OneTrueAnswer`); every request that arrived as a whole is answered or
  the process ends (`ArrivedIsAnswered`); a client that sends half a request may
  stay in `reading` for ever. `StopEnds` allows one exception, a deadlock of the
  code: a callback that is about to publish a refusal waits for `client_mutex_`,
  and `stop` holds it while it waits for the callback's thread; without the
  exception TLC refutes `StopEnds`. The process may end or hang, so deadlock is
  not checked. One worker is the case in which main unwinds; with several an
  exception aborts the process, and of that case the run says nothing.

Runs that TLC refutes: each states what a document of the repository says, and
the trace shows what the code does instead (`findings` in `PROJECT.json`).

* `reachable`: a device is timed out while connected, its next heartbeat makes it
  online again, and no entry in `ctx_.sessions` comes back; commands are rejected
  until it logs in again. The end of an old connection does the same.
* `wake_task_done`: `markAck` erases the entry, so a later `task_done` is not
  reported.

One more thing the definitions in these modules show when they are tried:
`WakeManager!EveryCommandConcludes` (a command is concluded as long as the process
runs, without the premise that its session stays) is refuted, for `retryWake`
skips a session that is gone and does not count the attempt, although
`docs/system-flow.md:167` has "failed" follow the retries.

Read off the modules, without a run of their own: a device without a local key in
Redis logs in with `dev_default_secret`, and a wake for it ends with "local_key
not found"; `host_state` and `host_sleep` reach the registry only, and
`checkOffline` publishes nothing over MQTT, although `docs/system-flow.md:87`
says that changes of state are synchronised to Redis and to MQTT; the retained
MQTT state of a device stays "online" after a crash; of two commands with one
message id the first is not retried nor concluded any more.

Bounds: `MaxWrites`, `MaxMs`, `MaxMessages`, `MaxLosses`, `MaxRequests`,
`MaxOpen` and `MaxFaults` end the supply of buffers, commands, messages, lost
connections, AUTH_REQs, connections at a time and faults;
`IdleTimeout`, `AckTimeout` and `MaxRetry` are small values of the configuration;
`age` stops one past `IdleTimeout`, where nothing can tell larger values apart.

Fairness: io workers run handlers that are ready, so a handler under way
continues (weak fairness), and a handler that is ready again and again is run
although other handlers hold the workers in between (strong fairness). Both
timers re-arm themselves in their handlers. Time passes. Nothing is assumed of
devices, except that a socket that stays open is drained (`WF_vars(WriteOp)`),
without which no write completes, and that bytes under way arrive while the
connection is open (`WF_vars(Arrive)`). In CommandBridge the main thread and the
callbacks run on (weak fairness); nothing is assumed of the broker, nor of HTTP
clients, which need not complete a request. A response fits into the send buffer
of its socket, so its write ends without the client. Calls to Redis return.
StandaloneGateway assumes only that `io.run` gets to the offline timer.
`WakeThreads` and `AuthExchange` state safety alone.

## 4. What is proved

`tlapm` checks every proof to its last leaf, for any values of the constants
that satisfy the named assumptions (time-outs and retry limits are natural
numbers, `NoSession` and `NoDevice` are outside their sets).

* **WriteQueueProofs**. The inductive invariant ties the pieces of the queue
  together: what was written, what is queued and what is still posted are
  consecutive numbers up to `accepted`; the front of the queue is the buffer of
  the outstanding write; after a transfer and before its handler the front is
  already on the wire. That gives `SingleWriter`, `InOrder`, `NoStall`, and that
  each step is a step of `FifoChannel` or stutters.
* **SessionRegistryProofs**. `RegisteredIsOnline` needs that no chain is between
  login and registration with the empty id. `EndedIsClosed` needs that a chain
  only ends after `closing_` was claimed by a chain that will still close the
  socket, or has, and `OneCleanup` that this chain is unique. Proved for every
  number of workers, sessions and devices.
  The second part has `Workers = 1` as a hypothesis, as the run
  `registry_sequential` has; with two workers TLC refutes `RedisKeyMeansOnline`
  (section 3). `OneHandler`: a handler starts only when no
  other is under way. `Owed`: each fact that holds between two handlers may be
  broken only while the one that restores it is at one of its own steps (a key of
  a device that is not online only until `setOffline` or the loop of
  `checkOffline` deletes it, and so on). Hence `RedisKeyMeansOnline`,
  `FreshDeviceHasKey`, `BackendsAgree` and `OnlineIsPublished`, for any sets of
  devices and sessions and any idle timeout.
* **WakeManagerProofs**. The entry of a command carries the number of "retrying"
  events published for it, no command has two entries, and an entry's command is
  open: with that every step maps to `CommandLifecycle`, also with colliding ids.
  `IdInv`: entries and messages carry the id that was made for their command,
  also when it is not the only one with that id. Hence `OpenIsTracked` and
  `AnsweredByItsDevice`, without an assumption on how commands are spaced.
* **WakeThreadsProofs**. What a handler has done when it reaches a step, whatever
  the others do (`OrderInv`): the entry is made, and its key written, before the
  message is sent, so a command that a device has received from `sendWake` has its
  entry until an answer or a failure is published for it, and `savePendingWake`
  runs after the key was removed only when a retry sent the message first.
  `FitInv`: the session of a pending entry speaks the protocol
  of its message, unless the device has registered elsewhere meanwhile.
  `AloneInv`: with one worker an iterator is held by the only handler under way,
  so its element is there. Hence `AnswerFindsEntry`, `LeftKeyWasOvertaken` and
  `SentInItsProtocol` for any number of workers, and `AloneIsUnbroken`.

* **DeviceStreamProofs**, first the framing (`LowPowerProtocol`). For every size
  of a byte and every payload: encoding, then parsing gives back what was encoded,
  and refuses it when a length does not fit its field (a length taken modulo is
  smaller, so the sizes cannot add up). The argument gives the bytes of the
  encoding first, then parses them. The converse is `AcceptedPayloadIsCanonical`:
  an accepted payload is the one built of its fields.
  Then the reader. The bytes a device sends are a concatenation over its messages,
  which would need induction. `Stream` says instead that there are a sequence `b`
  of all bytes so far, the positions `c[k]` in it where message `k` ends and the
  numbers `e[k]` of messages that are not empty up to there, such that `arrived`
  followed by `net` is `b` after a position `off`, and the reader stands at a
  `c[k]`, or five bytes behind it when a header was read. Sending extends `b`, `c`
  and `e`; arriving moves the border between the two parts; reading moves `off` to
  the next `c[k]`, because the first line end after `c[k]` is that of the line,
  and the length in the header that of the frame. Hence `InSync` and, since only
  frames of the device are handled, `AcceptedIsCanonical`.
  Assumed of the constants: a byte has at least two values, `{`, `\n`, `\r` and the
  version 1 are different bytes, a line body contains no line end and starts with
  `{` unless it is empty, a frame carries the length of its payload, and
  `MaxMessages` is a natural number.
* **CommandBridgeProofs**. Where main is tells whether there is a client and a
  thread (`Life`): start makes the client before the thread, stop ends the thread
  before the client, no way out leads past stop. Hence `NothingLeft` and
  `CallbackHasClient`; `LinkedMeansSubscribed` is inductive by itself.
  `AnswerInv` ties a request's stage to its events and its HTTP code: nothing has
  been published before the handler reaches its answer, `sent[r]` is settled by
  then, and a sent command gets 409 only when its text is not UTF-8. Hence `OneTrueAnswer`, for any number of requests and workers.

* **StandaloneGatewayProofs**. A socket is read from as long as it is open, ids
  and entries come from logins only (`EntriesLoggedIn`), and a read chain that
  ends erases the entry of its device, after which no line of the connection can
  bring it back (`EndedIsErased`). Hence `RoutableIsOnline`, `OnlyReconnectsHide`
  and `DeadEntryWasRenamed`, for any number of devices and connections.
* **AuthExchangeProofs**, which starts with lemmas on the operations of `RedisStore`.
  `IdentityInv`: between request and answer a handler works on a request of its
  own device; such a request verifies for no other id and no other key, whatever
  the lookups returned. That gives `IdentityIsOwn` and `AnswersAreAccepted` with
  no assumption on Redis at all.
  `StoreInv` says what is on the connection while one call is under way alone: its
  command cannot be sent, is with the server, or has been answered; each operation
  is then a step of `KeyValueStore`. `CommandsInv` adds that the handlers write
  only entries with a TTL, which gives `LeftoversExpire` also for commands that
  are executed late. `LookupsInv` keeps what handlers wait for apart from what
  they write.
  `WakeInv`, while no calls overlap and no key is changed: a lookup under way
  returns the key in Redis, or nothing because the connection is lost; a
  registered device has the key of its firmware in Redis, or none, or Redis is
  lost and no lookup succeeds any more. Hence `WakeupMatchesKey`.

Some parts of these invariants are theorems and no run repeats them: types,
`InOrder` (WriteQueue) and `AnonymousIsNoDevice` (SessionRegistry: `states[""]`
never becomes a device).

TLC checked the invariants of the proofs on the instances of the runs before they
were proved: `OneHandler` and `Owed` on `MCRegistrySequential` (1.3 million
states), the parts of `WakeThreadsProofs` on `MCWakeThreads` (1.4 million). It
cannot evaluate `Stream`, which quantifies over all sequences of bytes.

Every invariant, and every box-action and refinement property that a passing run
checks, is stated by a theorem. Only model-checked are the liveness properties,
which are outside the prover: `EventuallyWritten`, `SilentGoesOffline`,
`StaleKeyExpires`, `ConcludesWhileConnected`, `BrokenIsClosed`,
`EveryMessageHandled`, `ArrivedIsAnswered` and `StopEnds`.

## 5. Not modelled

* JsonLineProtocol, URLs, JSON texts, log lines and reply texts: conversions
  without state. AppConfig: its values are the constants. The earlier versions of
  the components: not built.
* What a collision of two threads does inside `std::unordered_map` (a rehash
  under an iterator) or inside the buffers of the hiredis context: undefined, and
  left out beyond `broken` and swapped replies.
* Failures of Redis in SessionRegistry and WakeManager: commands succeed there.
  `RedisStore` and `AuthExchange` have the failures; the low-power heartbeat, which
  refreshes a key in Redis, is in SessionRegistry only.
* A publication that fails is modelled in CommandBridge only. That an exception
  can leave a handler is modelled, but not which messages make it.
* Ciphers and digests are symbols: that AES and HMAC keep what they promise is
  taken for granted.

## 6. Plan

1. Done: WriteQueue, SessionRegistry, WakeManager, LowPowerProtocol with
   DeviceStream, CommandBridge; WakeManager on several workers; RedisStore with
   faults and restarts under the authentication exchange; the single-file gateway;
   the abstract specifications, runs and theorems above.
2. The heartbeat interval a device is told (600 s when its battery is low) against
   an idle timeout of 600 s and the period of the check.
3. A composition of registry and dispatcher in one module, in place of the
   external `Connect`, `SessionGone` and `Unregister`.
4. Proofs: the safety steps under the liveness properties (that the helpful
   action of each `~>` cannot be undone), and more general lemmas of `RedisStore`
   for its other callers.
