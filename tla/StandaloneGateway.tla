--------------------------- MODULE StandaloneGateway ---------------------------
(***************************************************************************)
(* The single-file gateway of the root main.cpp: DeviceSession,            *)
(* TcpGatewayServer, HttpSession and HttpAdminServer around one            *)
(* GatewayState.  One thread calls io.run(), so every handler is one step  *)
(* and there is no lock.  Compared with the program under src/ there is no *)
(* closing_ (both chains of a connection run handle_disconnect), and the   *)
(* idle timeout closes the connection.                                     *)
(*                                                                         *)
(* A write queue is empty, has the line an async_write is about, or more,  *)
(* or is stuck: do_write's handler leaves the queue as it is after an      *)
(* error, and send_json starts a write only when the queue is empty.       *)
(***************************************************************************)
EXTENDS Integers

CONSTANTS
  Devices,       \* device ids
  NoDevice,      \* the empty device_id_ before a login
  Sessions,      \* DeviceSession objects, one per accepted connection
  NoSession,     \* no entry in gateway_.sessions
  IdleTimeout    \* DEFAULT_IDLE_TIMEOUT_SECONDS

ASSUME NoDeviceAssumption == NoDevice \notin Devices
ASSUME NoSessionAssumption == NoSession \notin Sessions
ASSUME IdleTimeoutAssumption == IdleTimeout \in Nat

VARIABLES
  \* GatewayState
  sessions,      \* the map sessions (weak pointers)
  state,         \* the map states: "none" (no entry), "online" or "offline"
  age,           \* time since last_heartbeat, up to IdleTimeout + 1, while online
  \* DeviceSession
  sock,          \* "free" (not accepted), "open", "reset" by the peer, "closed"
  reader,        \* the read chain: "free", "reading" or "ended"
  inbuf,         \* lines have been received and not handled
  dev,           \* device_id_
  writer,        \* write_queue_: "empty", "one", "more" or "stuck"
  \* main
  running,       \* io.run() has not been left
  logins         \* history: the connections that have logged in as each device

stateVars == <<sessions, state, age>>
connVars  == <<sock, reader, inbuf, dev, writer>>
vars      == <<stateVars, connVars, running, logins>>

TypeOK ==
  /\ sessions \in [Devices -> Sessions \cup {NoSession}]
  /\ state \in [Devices -> {"none", "online", "offline"}]
  /\ age \in [Devices -> 0..(IdleTimeout + 1)]
  /\ sock \in [Sessions -> {"free", "open", "reset", "closed"}]
  /\ reader \in [Sessions -> {"free", "reading", "ended"}]
  /\ inbuf \in [Sessions -> BOOLEAN]
  /\ dev \in [Sessions -> Devices \cup {NoDevice}]
  /\ writer \in [Sessions -> {"empty", "one", "more", "stuck"}]
  /\ running \in BOOLEAN
  /\ logins \in [Devices -> SUBSET Sessions]

Init ==
  /\ sessions = [d \in Devices |-> NoSession]
  /\ state = [d \in Devices |-> "none"]
  /\ age = [d \in Devices |-> 0]
  /\ sock = [s \in Sessions |-> "free"]
  /\ reader = [s \in Sessions |-> "free"]
  /\ inbuf = [s \in Sessions |-> FALSE]
  /\ dev = [s \in Sessions |-> NoDevice]
  /\ writer = [s \in Sessions |-> "empty"]
  /\ running = TRUE
  /\ logins = [d \in Devices |-> {}]

------------------------------------------------------------------------------
(* No handler holds the session any more: weak pointers to it are dead.      *)
Expired(s) == reader[s] = "ended" /\ writer[s] \in {"empty", "stuck"}

(* send_json.                                                                *)
send_json(s) ==
  writer' = [writer EXCEPT ![s] = IF @ = "empty" THEN "one"
                                  ELSE IF @ = "one" THEN "more" ELSE @]

(* Mutant: the entry in sessions is left behind.                             *)
handle_disconnectKeepsEntry(s) ==
  /\ state' = [d \in Devices |-> IF d = dev[s] /\ state[d] # "none" THEN "offline"
                                                                    ELSE state[d]]
  /\ sock' = [sock EXCEPT ![s] = "closed"]
  /\ UNCHANGED <<sessions, age, dev, running, logins>>

(* handle_disconnect, on either chain: whoever is registered as the device   *)
(* of this connection is erased; then close().                               *)
handle_disconnect(s) ==
  /\ state' = [d \in Devices |-> IF d = dev[s] /\ state[d] # "none" THEN "offline"
                                                                    ELSE state[d]]
  /\ sessions' = [d \in Devices |-> IF d = dev[s] THEN NoSession ELSE sessions[d]]
  /\ sock' = [sock EXCEPT ![s] = "closed"]
  /\ UNCHANGED <<age, dev, running, logins>>

------------------------------------------------------------------------------
(* TcpGatewayServer::do_accept and DeviceSession::start.                     *)
do_accept(s) ==
  /\ running /\ sock[s] = "free"
  /\ sock' = [sock EXCEPT ![s] = "open"]
  /\ reader' = [reader EXCEPT ![s] = "reading"]
  /\ UNCHANGED <<stateVars, inbuf, dev, writer, running, logins>>

(* do_read_line's handler with a line, maybe the last of those that have been *)
(* received; they may have been in read_buffer_ when the socket was closed.  *)
ReadLine(s) ==
  /\ running /\ reader[s] = "reading" /\ inbuf[s]
  /\ inbuf' \in {inbuf, [inbuf EXCEPT ![s] = FALSE]}

(* Mutant: the login does not mark the device online.                        *)
handle_loginQuiet(s, d) ==
  /\ ReadLine(s)
  /\ dev' = [dev EXCEPT ![s] = d]
  /\ sessions' = [sessions EXCEPT ![d] = s]
  /\ state' = [state EXCEPT ![d] = IF @ = "none" THEN "offline" ELSE @]
  /\ age' = [age EXCEPT ![d] = 0]
  /\ logins' = [logins EXCEPT ![d] = @ \cup {s}]
  /\ send_json(s)
  /\ UNCHANGED <<sock, reader, running>>

(* handle_login with a device id.  A connection may log in again, also under *)
(* another id; the entry of the first id stays.                              *)
handle_login(s, d) ==
  /\ ReadLine(s)
  /\ dev' = [dev EXCEPT ![s] = d]
  /\ sessions' = [sessions EXCEPT ![d] = s]
  /\ state' = [state EXCEPT ![d] = "online"]
  /\ age' = [age EXCEPT ![d] = 0]
  /\ logins' = [logins EXCEPT ![d] = @ \cup {s}]
  /\ send_json(s)
  /\ UNCHANGED <<sock, reader, running>>

(* handle_heartbeat of a device that has logged in.                          *)
handle_heartbeat(s) ==
  /\ ReadLine(s)
  /\ dev[s] # NoDevice
  /\ state' = [state EXCEPT ![dev[s]] = "online"]
  /\ age' = [age EXCEPT ![dev[s]] = 0]
  /\ send_json(s)
  /\ UNCHANGED <<sessions, sock, reader, dev, running, logins>>

(* Lines that leave who is online alone, answered or not: bad JSON, unknown  *)
(* types, a login without an id, a heartbeat before the login, wake_ack,     *)
(* task_done, host_sleep, host_state, empty lines.                           *)
OtherLine(s) ==
  /\ ReadLine(s)
  /\ send_json(s) \/ UNCHANGED writer
  /\ UNCHANGED <<stateVars, sock, reader, dev, running, logins>>

(* Mutant: a failed read of a connection that is closed already just ends.   *)
ReadErrorUnlessClosed(s) ==
  /\ running /\ reader[s] = "reading" /\ sock[s] \in {"reset", "closed"}
  /\ reader' = [reader EXCEPT ![s] = "ended"]
  /\ inbuf' = [inbuf EXCEPT ![s] = FALSE]
  /\ IF sock[s] = "closed" THEN UNCHANGED <<stateVars, sock, dev, running, logins>>
                           ELSE handle_disconnect(s)
  /\ UNCHANGED writer

(* do_read_line's handler with an error.                                     *)
ReadError(s) ==
  /\ running /\ reader[s] = "reading" /\ sock[s] \in {"reset", "closed"}
  /\ reader' = [reader EXCEPT ![s] = "ended"]
  /\ inbuf' = [inbuf EXCEPT ![s] = FALSE]
  /\ handle_disconnect(s)
  /\ UNCHANGED writer

(* do_write's handler, which may report success for a write that completed   *)
(* before the socket was closed.                                             *)
WriteDone(s) ==
  /\ running /\ writer[s] \in {"one", "more"}
  /\ \/ writer[s] = "one" /\ writer' = [writer EXCEPT ![s] = "empty"]
     \/ writer[s] = "more" /\ writer' \in {writer, [writer EXCEPT ![s] = "one"]}
  /\ UNCHANGED <<stateVars, sock, reader, inbuf, dev, running, logins>>

WriteError(s) ==
  /\ running /\ writer[s] \in {"one", "more"} /\ sock[s] # "open"
  /\ writer' = [writer EXCEPT ![s] = "stuck"]
  /\ handle_disconnect(s)
  /\ UNCHANGED <<reader, inbuf>>

------------------------------------------------------------------------------
(* check_offline_devices: the ids past the timeout, and their sessions.      *)
Idle == {d \in Devices : state[d] = "online" /\ age[d] > IdleTimeout}

Locked == {s \in Sessions : ~Expired(s) /\ \E d \in Idle : sessions[d] = s}

(* Mutant: the connection is left open, as in TcpGatewayServer::checkOffline.*)
check_offline_devicesOpen ==
  /\ running /\ Idle # {}
  /\ state' = [d \in Devices |-> IF d \in Idle THEN "offline" ELSE state[d]]
  /\ sessions' = [d \in Devices |-> IF d \in Idle THEN NoSession ELSE sessions[d]]
  /\ UNCHANGED <<age, connVars, running, logins>>

(* Mutant: only devices whose session can be locked are taken offline.       *)
check_offline_devicesLocked ==
  LET gone == {d \in Idle : sessions[d] \in Locked} IN
  /\ running /\ gone # {}
  /\ state' = [d \in Devices |-> IF d \in gone THEN "offline" ELSE state[d]]
  /\ sessions' = [d \in Devices |-> IF d \in gone THEN NoSession ELSE sessions[d]]
  /\ sock' = [s \in Sessions |-> IF s \in Locked THEN "closed" ELSE sock[s]]
  /\ UNCHANGED <<age, reader, inbuf, dev, writer, running, logins>>

check_offline_devices ==
  /\ running /\ Idle # {}
  /\ state' = [d \in Devices |-> IF d \in Idle THEN "offline" ELSE state[d]]
  /\ sessions' = [d \in Devices |-> IF d \in Idle THEN NoSession ELSE sessions[d]]
  /\ sock' = [s \in Sessions |-> IF s \in Locked THEN "closed" ELSE sock[s]]
  /\ UNCHANGED <<age, reader, inbuf, dev, writer, running, logins>>

------------------------------------------------------------------------------
(* The HTTP side.  GET .../online answers from states.                       *)
handle_get_online(d) == IF state[d] = "none" THEN "device_not_found" ELSE state[d]

(* POST .../wake finds an entry, and the session behind it.                  *)
Routable(d) == sessions[d] # NoSession /\ ~Expired(sessions[d])

handle_post_wake(d) ==
  /\ running /\ Routable(d)
  /\ send_json(sessions[d])
  /\ UNCHANGED <<stateVars, sock, reader, inbuf, dev, running, logins>>

(* "device_session_expired": the entry is erased, states is not touched.     *)
handle_post_wakeExpired(d) ==
  /\ running /\ sessions[d] # NoSession /\ Expired(sessions[d])
  /\ sessions' = [sessions EXCEPT ![d] = NoSession]
  /\ UNCHANGED <<state, age, connVars, running, logins>>

------------------------------------------------------------------------------
(* An exception leaves a handler and io.run(): remote_endpoint() of a peer   *)
(* that has gone, a JSON value of an unexpected type.  main returns 1.       *)
Fatal ==
  /\ running
  /\ running' = FALSE
  /\ UNCHANGED <<stateVars, connVars, logins>>

(* External: the devices and the clock.                                      *)
Receive(s) ==
  /\ running /\ sock[s] = "open" /\ ~inbuf[s]
  /\ inbuf' = [inbuf EXCEPT ![s] = TRUE]
  /\ UNCHANGED <<stateVars, sock, reader, dev, writer, running, logins>>

PeerReset(s) ==
  /\ running /\ sock[s] = "open"
  /\ sock' = [sock EXCEPT ![s] = "reset"]
  /\ UNCHANGED <<stateVars, reader, inbuf, dev, writer, running, logins>>

TimePasses ==
  /\ running
  /\ age' = [d \in Devices |-> IF state[d] = "online" /\ age[d] <= IdleTimeout
                               THEN age[d] + 1 ELSE age[d]]
  /\ UNCHANGED <<sessions, state, connVars, running, logins>>

------------------------------------------------------------------------------
ReadHandler(s) ==
  \/ \E d \in Devices : handle_login(s, d)
  \/ handle_heartbeat(s) \/ OtherLine(s) \/ ReadError(s)

WriteHandler(s) == WriteDone(s) \/ WriteError(s)

HttpHandler(d) == handle_post_wake(d) \/ handle_post_wakeExpired(d)

Next ==
  \/ \E s \in Sessions : \/ do_accept(s) \/ ReadHandler(s) \/ WriteHandler(s)
                         \/ Receive(s) \/ PeerReset(s)
  \/ \E d \in Devices : HttpHandler(d)
  \/ check_offline_devices
  \/ TimePasses
  \/ Fatal

Spec == Init /\ [][Next]_vars

(* io.run() gets to the handler of the offline timer, which re-arms itself.  *)
FairSpec == Spec /\ WF_vars(check_offline_devices)

------------------------------------------------------------------------------
(* The two maps agree: whatever mix of logins under several ids,             *)
(* reconnects, late lines and clean-ups by both chains came before, a device *)
(* with an entry, be its session alive or not, is one that GET .../online    *)
(* calls online; POST .../wake finds no others.                              *)
RoutableIsOnline ==
  \A d \in Devices : sessions[d] # NoSession => handle_get_online(d) = "online"

(* POST .../wake misses a connected device only after a reconnect: as long   *)
(* as one connection alone has logged in as the device, its entry is there   *)
(* while it is open.  The program under src/ breaks this by its timeout.     *)
OnlyReconnectsHide ==
  \A d \in Devices, s \in Sessions :
    sock[s] = "open" /\ logins[d] = {s} => sessions[d] = s

(* "device_session_expired" is only ever answered for a device whose         *)
(* connection has logged in as another device since.                         *)
DeadEntryWasRenamed ==
  \A d \in Devices, s \in Sessions : sessions[d] = s /\ Expired(s) => dev[s] # d

(* A device past the idle timeout is taken offline unless it is heard from,  *)
(* also when its connection has gone or answers to another id.               *)
SilentGoesOffline ==
  \A d \in Devices :
    (state[d] = "online" /\ age[d] > IdleTimeout)
      ~> (state[d] = "offline" \/ age[d] = 0 \/ ~running)

==============================================================================
