---------------------------- MODULE CommandBridge ----------------------------
(***************************************************************************)
(* The process around the dispatcher: main, which starts and unwinds the   *)
(* components, MqttBackend with the thread that libmosquitto runs for it,  *)
(* and HttpAdminServer.  It follows a request of the backend from its      *)
(* arrival on either way to its first answer.                              *)
(*                                                                         *)
(* An Mqtt request is one delivery of a message: a message that the broker *)
(* delivers twice (qos 1) is two requests, for the code does not tell them *)
(* apart.  What sendWake does is in WakeManager; here it throws or not.    *)
(***************************************************************************)
EXTENDS Integers, Sequences, FiniteSets

CONSTANTS
  MqttRequests,   \* messages on the command topic
  HttpRequests,   \* connections to the HTTP port
  Workers,        \* server.worker_threads
  MqttEnable,     \* mqtt.enable
  MaxLosses       \* bound: times the connection to the broker is lost

ASSUME BridgeAssumption ==
  /\ MqttRequests \cap HttpRequests = {}
  /\ "idle" \notin MqttRequests /\ "connect" \notin MqttRequests
  /\ Workers \in Nat \ {0} /\ MqttEnable \in BOOLEAN /\ MaxLosses \in Nat

Requests == MqttRequests \cup HttpRequests

VARIABLES
  main,        \* where the main thread is
  client,      \* client_: "null" or "live"
  lib,         \* mosquitto_lib_init calls that were not cleaned up
  loop,        \* whether the thread of libmosquitto exists
  mutex,       \* client_mutex_: "free", or "main" while stop holds it
  linked,      \* connected to the broker
  subscribed,  \* messages reach this connection: it is subscribed, or what was
               \* read before the disconnection is still being handled
  deaf,        \* the last onConnect could not subscribe
  cb,          \* callback of the libmosquitto thread: "idle", "connect" or the
               \* request whose refusal it is about to publish
  losses,      \* connections to the broker that were lost
  kind,        \* what a request holds
  stage,       \* how far a request is
  events,      \* history: command events published for a request
  sent,        \* history: whether sendWake has dispatched a request
  code         \* history: status codes of the HTTP responses to a request

mqttVars == <<client, lib, loop, mutex, linked, subscribed, deaf, cb, losses>>
requestVars == <<kind, stage, events, sent, code>>
vars == <<main, mqttVars, requestVars>>

(* "illText" is a bad text or a cmd with bytes that are not UTF-8: what is    *)
(* parsed is always UTF-8, an error message or a part of a URL may not be.   *)
MqttKinds == {"noDevice", "badJson", "illText", "noCmd", "command"}
HttpKinds == {"online", "command", "illText", "other"}

(* The end of main, by return or by an exception that main catches.          *)
Unwinding == main \in {"stop", "join", "destroy"}
Over == main \in {"exited", "aborted"}

(* io workers.  A request holds one from the call of sendWake to its answer. *)
Busy == {r \in Requests : stage[r] \in {"thrown", "dispatched"}}

CanRun == main = "run" /\ Cardinality(Busy) < Workers

Init ==
  /\ main = "load" /\ client = "null" /\ lib = 0 /\ loop = FALSE /\ mutex = "free"
  /\ linked = FALSE /\ subscribed = FALSE /\ deaf = FALSE /\ cb = "idle" /\ losses = 0
  /\ kind \in {k \in [Requests -> MqttKinds \cup HttpKinds] :
                 /\ \A r \in MqttRequests : k[r] \in MqttKinds
                 /\ \A r \in HttpRequests : k[r] \in HttpKinds}
  /\ stage = [r \in Requests |-> "away"]
  /\ events = [r \in Requests |-> <<>>]
  /\ sent = [r \in Requests |-> FALSE]
  /\ code = [r \in Requests |-> <<>>]

------------------------------------------------------------------------------
(* main: what fails before MqttBackend exists ends the process at once;      *)
(* after that ~MqttBackend calls stop.                                       *)
loadConfig ==
  /\ main = "load"
  /\ main' \in {"redis", "exited"}
  /\ UNCHANGED <<mqttVars, requestVars>>

connectRedis ==
  /\ main = "redis"
  /\ main' \in {IF MqttEnable THEN "new" ELSE "tcp", "exited"}
  /\ UNCHANGED <<mqttVars, requestVars>>

(* MqttBackend::start: mosquitto_new, the user name, connect_async.          *)
startNew ==
  /\ main = "new"
  /\ \/ main' = "auth" /\ client' = "live" /\ lib' = lib + 1
     \/ main' = "stop" /\ UNCHANGED <<client, lib>>
  /\ UNCHANGED <<loop, mutex, linked, subscribed, deaf, cb, losses, requestVars>>

(* The part of every later failure of start: destroy the client, clean up.   *)
startFails ==
  /\ client' = "null" /\ lib' = lib - 1
  /\ main' = "stop"

startConnect ==
  /\ main = "auth"
  /\ \/ main' = "loop" /\ UNCHANGED <<client, lib>>
     \/ startFails
  /\ UNCHANGED <<loop, mutex, linked, subscribed, deaf, cb, losses, requestVars>>

(* mosquitto_loop_start: from now on there are callbacks.                    *)
startLoop ==
  /\ main = "loop"
  /\ \/ main' = "tcp" /\ loop' = TRUE /\ UNCHANGED <<client, lib>>
     \/ startFails /\ UNCHANGED loop
  /\ UNCHANGED <<mutex, linked, subscribed, deaf, cb, losses, requestVars>>

(* The constructors of TcpGatewayServer and HttpAdminServer throw when they  *)
(* cannot bind; then io.run.                                                 *)
openServers ==
  /\ main = "tcp"
  /\ main' \in {"run", "stop"}
  /\ UNCHANGED <<mqttVars, requestVars>>

(* An exception leaves a handler.  On the only worker main catches it; else   *)
(* it ends a thread, or finds worker threads that are not joined.  One is the*)
(* HTTP command for a device id that is not UTF-8, whose 409 throws as well. *)
HandlerThrows ==
  /\ main = "run"
  /\ CanRun \/ \E r \in HttpRequests \cap Busy : kind[r] = "illText"
  /\ main' = IF Workers = 1 THEN "stop" ELSE "aborted"
  /\ UNCHANGED <<mqttVars, requestVars>>

------------------------------------------------------------------------------
(* MqttBackend::stop, which holds client_mutex_ to its end.  It disconnects; *)
(* the thread may still hand over messages that it has read.                 *)
stop ==
  /\ main = "stop" /\ mutex = "free"
  /\ \/ /\ client = "null"
        /\ main' = "exited" /\ UNCHANGED <<mutex, linked>>
     \/ /\ client # "null"
        /\ mutex' = "main" /\ linked' = FALSE
        /\ main' = "join"
  /\ UNCHANGED <<client, lib, loop, subscribed, deaf, cb, losses, requestVars>>

(* Mutant: the thread is not waited for.                                     *)
loopStopNoJoin ==
  /\ main = "join"
  /\ loop' = FALSE /\ main' = "destroy"
  /\ UNCHANGED <<client, lib, mutex, linked, subscribed, deaf, cb, losses, requestVars>>

(* mosquitto_loop_stop cancels the thread and joins it.  A callback that     *)
(* waits for a mutex is not at a cancellation point.                         *)
loopStop ==
  /\ main = "join" /\ cb = "idle"
  /\ loop' = FALSE /\ main' = "destroy"
  /\ UNCHANGED <<client, lib, mutex, linked, subscribed, deaf, cb, losses, requestVars>>

(* Mutant: the library is not cleaned up.                                    *)
destroyNoCleanup ==
  /\ main = "destroy"
  /\ client' = "null" /\ mutex' = "free" /\ main' = "exited"
  /\ UNCHANGED <<lib, loop, linked, subscribed, deaf, cb, losses, requestVars>>

destroy ==
  /\ main = "destroy"
  /\ client' = "null" /\ lib' = lib - 1 /\ mutex' = "free" /\ main' = "exited"
  /\ UNCHANGED <<loop, linked, subscribed, deaf, cb, losses, requestVars>>

------------------------------------------------------------------------------
(* External: libmosquitto connects, reconnects, and calls back.              *)
Alive == loop /\ main # "aborted"

BrokerConnects ==
  /\ Alive /\ cb = "idle" /\ ~linked /\ main # "join"
  /\ linked' = TRUE /\ cb' = "connect"
  /\ UNCHANGED <<main, client, lib, loop, mutex, subscribed, deaf, losses, requestVars>>

(* The session is clean: the broker forgets the subscription.                *)
BrokerLost ==
  /\ Alive /\ linked /\ losses < MaxLosses
  /\ linked' = FALSE /\ subscribed' = FALSE /\ losses' = losses + 1
  /\ UNCHANGED <<main, client, lib, loop, mutex, deaf, cb, requestVars>>

(* Mutant: the subscription is made once.                                    *)
onConnectOnce ==
  /\ Alive /\ cb = "connect"
  /\ cb' = "idle"
  /\ subscribed' = (linked /\ losses = 0) /\ deaf' = FALSE
  /\ UNCHANGED <<main, client, lib, loop, mutex, linked, losses, requestVars>>

(* Mutant: it takes client_mutex_.                                           *)
onConnectLocked ==
  /\ Alive /\ cb = "connect" /\ mutex = "free"
  /\ cb' = "idle"
  /\ subscribed' = linked /\ deaf' = FALSE
  /\ UNCHANGED <<main, client, lib, loop, mutex, linked, losses, requestVars>>

(* onConnect subscribes; after a refusal of the broker or a failure it only  *)
(* logs.  The connection may be gone by then.                                *)
onConnect ==
  /\ Alive /\ cb = "connect"
  /\ cb' = "idle"
  /\ \/ subscribed' = linked /\ deaf' = FALSE
     \/ subscribed' = FALSE /\ deaf' = TRUE
  /\ UNCHANGED <<main, client, lib, loop, mutex, linked, losses, requestVars>>

(* handleCommandRequest refuses in the callback, or posts to io_.  There is  *)
(* always a dispatcher: main sets wake_manager before start.                 *)
handleCommandRequest(r) ==
  \/ /\ kind[r] = "noCmd"
     /\ cb' = r /\ stage' = [stage EXCEPT ![r] = "refusing"]
     /\ UNCHANGED events
  \/ /\ kind[r] = "command"
     /\ stage' = [stage EXCEPT ![r] = "posted"]
     /\ UNCHANGED <<cb, events>>

(* onMessage: a topic without a device is ignored, a bad text is refused.    *)
onMessage(r) ==
  /\ Alive /\ cb = "idle" /\ subscribed
  /\ stage[r] = "away"
  /\ \/ /\ kind[r] = "noDevice"
        /\ stage' = [stage EXCEPT ![r] = "ignored"] /\ UNCHANGED <<cb, events>>
     \/ /\ kind[r] \in {"badJson", "illText"}
        /\ cb' = r /\ stage' = [stage EXCEPT ![r] = "refusing"] /\ UNCHANGED events
     \/ handleCommandRequest(r)
  /\ UNCHANGED <<main, client, lib, loop, mutex, linked, subscribed, deaf, losses,
                 kind, sent, code>>

(* publishJson: without a client nothing happens, and a failure is logged.   *)
publishJson(r, status) ==
  /\ mutex = "free"
  /\ \/ client # "null" /\ events' = [events EXCEPT ![r] = Append(@, status)]
     \/ UNCHANGED events

(* The callback publishes the refusal and returns.                           *)
publishRefusal(r) ==
  /\ Alive /\ cb = r /\ kind[r] # "illText"
  /\ publishJson(r, "rejected")
  /\ cb' = "idle" /\ stage' = [stage EXCEPT ![r] = "answered"]
  /\ UNCHANGED <<main, client, lib, loop, mutex, linked, subscribed, deaf, losses,
                 kind, sent, code>>

(* The text of the parse error repeats bytes that payload.dump refuses: the  *)
(* exception leaves the catch clause, and the callback of a C library.       *)
refusalThrows(r) ==
  /\ Alive /\ cb = r /\ kind[r] = "illText"
  /\ mutex = "free" /\ client # "null"
  /\ main' = "aborted"
  /\ UNCHANGED <<mqttVars, requestVars>>

------------------------------------------------------------------------------
(* sendWake returns, or throws before anything was sent to the device.       *)
sendWake(r) ==
  \/ stage' = [stage EXCEPT ![r] = "dispatched"] /\ sent' = [sent EXCEPT ![r] = TRUE]
  \/ stage' = [stage EXCEPT ![r] = "thrown"] /\ UNCHANGED sent

(* The lambda that handleCommandRequest posted.                              *)
runPosted(r) ==
  /\ CanRun /\ stage[r] = "posted"
  /\ sendWake(r)
  /\ UNCHANGED <<main, mqttVars, kind, events, code>>

(* publishCommandEvent, at the end of sendWake or in the catch clause.       *)
answerMqtt(r) ==
  /\ main = "run" /\ r \in MqttRequests /\ r \in Busy
  /\ publishJson(r, IF sent[r] THEN "dispatched" ELSE "rejected")
  /\ stage' = [stage EXCEPT ![r] = "answered"]
  /\ UNCHANGED <<main, mqttVars, kind, sent, code>>

(* HttpAdminServer::accept and HttpSession::start, which reads up to the end *)
(* of the header and sets no deadline.                                       *)
acceptHttp(r) ==
  /\ CanRun /\ stage[r] = "away"
  /\ stage' = [stage EXCEPT ![r] = "reading"]
  /\ UNCHANGED <<main, mqttVars, kind, events, sent, code>>

(* External: the client sends the rest of the header, if it ever does.       *)
RequestComplete(r) ==
  /\ main = "run" /\ stage[r] = "reading"
  /\ stage' = [stage EXCEPT ![r] = "requested"]
  /\ UNCHANGED <<main, mqttVars, kind, events, sent, code>>

(* The connection ends before the request is complete.                       *)
readFails(r) ==
  /\ CanRun /\ stage[r] = "reading"
  /\ stage' = [stage EXCEPT ![r] = "dropped"]
  /\ UNCHANGED <<main, mqttVars, kind, events, sent, code>>

(* response: one asynchronous write, then the socket is closed.              *)
response(r, status) ==
  /\ code' = [code EXCEPT ![r] = Append(@, status)]
  /\ stage' = [stage EXCEPT ![r] = "writing"]

handleOnline(r) == response(r, 200) \/ response(r, 404)

(* Mutant: an unknown request gets no response.                              *)
handleHttpNoFallback(r) ==
  /\ CanRun /\ stage[r] = "requested"
  /\ \/ kind[r] = "online" /\ handleOnline(r) /\ UNCHANGED sent
     \/ kind[r] \in {"command", "illText"} /\ sendWake(r) /\ UNCHANGED code
  /\ UNCHANGED <<main, mqttVars, kind, events>>

(* HttpSession::handle.  A command goes on in handleCommand.                 *)
handleHttp(r) ==
  /\ CanRun /\ stage[r] = "requested"
  /\ \/ kind[r] = "online" /\ handleOnline(r) /\ UNCHANGED sent
     \/ kind[r] = "other" /\ response(r, 404) /\ UNCHANGED sent
     \/ kind[r] \in {"command", "illText"} /\ sendWake(r) /\ UNCHANGED code
  /\ UNCHANGED <<main, mqttVars, kind, events>>

(* Mutant: the answer does not depend on the exception.                      *)
handleCommandAlwaysSent(r) ==
  /\ main = "run" /\ r \in HttpRequests /\ r \in Busy
  /\ IF sent[r] THEN publishJson(r, "dispatched") ELSE UNCHANGED events
  /\ response(r, 200)
  /\ UNCHANGED <<main, mqttVars, kind, sent>>

(* handleCommand: the event at the end of sendWake and 200, or 409.  The     *)
(* response 200 repeats cmd: when that is not UTF-8, body.dump throws inside *)
(* the try block and a command that was sent is answered with 409.           *)
handleCommand(r) ==
  /\ main = "run" /\ r \in HttpRequests /\ r \in Busy
  /\ \/ /\ sent[r]
        /\ publishJson(r, "dispatched")
        /\ response(r, IF kind[r] = "illText" THEN 409 ELSE 200)
     \/ ~sent[r] /\ UNCHANGED events /\ response(r, 409)
  /\ UNCHANGED <<main, mqttVars, kind, sent>>

(* The write ends, with or without an error: a response is short, so it does *)
(* not wait for the client to read.                                          *)
onResponseWritten(r) ==
  /\ CanRun /\ stage[r] = "writing"
  /\ stage' = [stage EXCEPT ![r] = "answered"]
  /\ UNCHANGED <<main, mqttVars, kind, events, sent, code>>

------------------------------------------------------------------------------
MainStep ==
  \/ loadConfig \/ connectRedis \/ startNew \/ startConnect \/ startLoop \/ openServers
  \/ stop \/ loopStop \/ destroy

Callback ==
  onConnect \/ \E r \in MqttRequests : publishRefusal(r) \/ refusalThrows(r)

Handler(r) ==
  \/ answerMqtt(r) \/ handleCommand(r)
  \/ runPosted(r) \/ handleHttp(r) \/ onResponseWritten(r)

Next ==
  \/ MainStep \/ HandlerThrows
  \/ BrokerConnects \/ BrokerLost \/ Callback
  \/ \E r \in MqttRequests : onMessage(r)
  \/ \E r \in HttpRequests : acceptHttp(r) \/ RequestComplete(r) \/ readFails(r)
  \/ \E r \in Requests : Handler(r)

Spec == Init /\ [][Next]_vars

(* Threads run; a handler that is ready again and again gets a worker.  HTTP *)
(* clients need not send anything.                                           *)
FairSpec ==
  Spec /\ WF_vars(MainStep) /\ WF_vars(Callback)
       /\ \A r \in Requests : SF_vars(Handler(r))

------------------------------------------------------------------------------
TypeOK ==
  /\ main \in {"load", "redis", "new", "auth", "loop", "tcp", "run", "stop", "join",
               "destroy", "exited", "aborted"}
  /\ client \in {"null", "live"} /\ lib \in {0, 1} /\ loop \in BOOLEAN
  /\ mutex \in {"free", "main"} /\ linked \in BOOLEAN /\ subscribed \in BOOLEAN
  /\ deaf \in BOOLEAN /\ cb \in {"idle", "connect"} \cup MqttRequests
  /\ losses \in 0..MaxLosses
  /\ kind \in [Requests -> MqttKinds \cup HttpKinds]
  /\ stage \in [Requests -> {"away", "ignored", "refusing", "posted", "thrown",
                             "dispatched", "reading", "requested", "writing", "answered",
                             "dropped"}]
  /\ events \in [Requests -> Seq({"rejected", "dispatched"})]
  /\ sent \in [Requests -> BOOLEAN]
  /\ code \in [Requests -> Seq({200, 404, 409})]

(* main leaves nothing behind: on every way out after MqttBackend::start     *)
(* began, failures in the middle of start and a bind error included, the     *)
(* thread has ended, the client is destroyed and the library cleaned up.     *)
NothingLeft ==
  main = "exited" => ~loop /\ client = "null" /\ lib = 0 /\ mutex = "free"

(* onConnect and onMessage use client_, io_ and ctx_ without a lock: they     *)
(* never run when stop has destroyed the client or main has returned.        *)
CallbackHasClient == cb # "idle" => loop /\ client = "live" /\ main # "exited"

(* Every connection to the broker gets its subscription, reconnections       *)
(* included, unless onConnect could not make it.                             *)
LinkedMeansSubscribed == linked /\ cb # "connect" => subscribed \/ deaf

(* A request has at most one event and one response.  Dispatched, and 200 to  *)
(* a command, are said only of what sendWake has sent, rejected only of what *)
(* it has not; 409 is said of a command that was sent only when its cmd is   *)
(* not UTF-8 and could not be repeated in the response.                      *)
OneTrueAnswer ==
  \A r \in Requests :
    /\ Len(events[r]) <= 1 /\ Len(code[r]) <= 1
    /\ events[r] # <<>> => (events[r][1] = "dispatched") = sent[r]
    /\ code[r] = <<200>> /\ kind[r] # "online" => sent[r]
    /\ code[r] = <<409>> /\ sent[r] => kind[r] = "illText"

(* A request that has arrived as a whole is answered, unless the process     *)
(* ends: by a refusal, by an event or its failure, or by a response.         *)
ArrivedIsAnswered ==
  \A r \in Requests :
    (stage[r] \in {"refusing", "posted", "requested"})
      ~> (stage[r] = "answered" \/ Unwinding \/ Over)

(* stop comes to its end or the process is aborted meanwhile, except while a *)
(* callback is about to publish a refusal: that callback waits for           *)
(* client_mutex_, which stop holds while it waits for the callback's thread. *)
StopEnds ==
  (main = "stop") ~> (Over \/ (main = "join" /\ cb \in MqttRequests))

==============================================================================
