------------------------- MODULE CommandBridgeProofs -------------------------
(***************************************************************************)
(* The life of the MQTT client against the life of main, and the first     *)
(* answer to every request, for any number of requests, workers and lost   *)
(* connections.                                                            *)
(***************************************************************************)
EXTENDS CommandBridge, TLAPS

(* The types of the variables that the argument needs.                       *)
LifeType ==
  /\ main \in {"load", "redis", "new", "auth", "loop", "tcp", "run", "stop", "join",
               "destroy", "exited", "aborted"}
  /\ client \in {"null", "live"} /\ loop \in BOOLEAN /\ mutex \in {"free", "main"}
  /\ cb \in {"idle", "connect"} \cup MqttRequests

(* Where main is tells whether there is a client and whether its thread runs:*)
(* start makes the client before the thread, stop ends the thread before the *)
(* client, and no way leads past stop.                                       *)
Life ==
  /\ client = "live" => lib = 1
  /\ client = "null" => lib = 0
  /\ main \in {"load", "redis", "new", "exited"} => client = "null"
  /\ main \in {"auth", "loop", "join", "destroy"} => client = "live"
  /\ main \in {"auth", "loop", "destroy"} => loop = FALSE
  /\ client = "null" => loop = FALSE
  /\ mutex = "main" <=> main \in {"join", "destroy"}
  /\ cb # "idle" => loop = TRUE

LifeInv == LifeType /\ Life

(* LifeInv is inductive.                                                     *)
LEMMA LifeStep ==
  ASSUME LifeInv, [Next]_vars
  PROVE  LifeInv'
<1> USE DEF LifeInv, LifeType, Life
<1>1. CASE loadConfig
  BY <1>1 DEF loadConfig, mqttVars
<1>2. CASE connectRedis
  BY <1>2 DEF connectRedis, mqttVars
<1>3. CASE startNew
  <2>1. client = "null" /\ lib = 0 /\ loop = FALSE /\ mutex = "free" /\ cb = "idle"
    BY <1>3 DEF startNew
  <2>2. CASE main' = "auth" /\ client' = "live" /\ lib' = lib + 1
    <3>1. lib' = 1
      BY <2>1, <2>2
    <3> QED BY <1>3, <2>1, <2>2, <3>1 DEF startNew
  <2>3. CASE main' = "stop" /\ UNCHANGED <<client, lib>>
    BY <1>3, <2>1, <2>3 DEF startNew
  <2> QED BY <1>3, <2>2, <2>3 DEF startNew
<1>4. CASE startConnect
  <2>1. client = "live" /\ lib = 1 /\ loop = FALSE /\ mutex = "free" /\ cb = "idle"
    BY <1>4 DEF startConnect
  <2>2. CASE main' = "loop" /\ UNCHANGED <<client, lib>>
    BY <1>4, <2>1, <2>2 DEF startConnect
  <2>3. CASE startFails
    <3>1. lib' = 0
      BY <2>1, <2>3 DEF startFails
    <3> QED BY <1>4, <2>1, <2>3, <3>1 DEF startConnect, startFails
  <2> QED BY <1>4, <2>2, <2>3 DEF startConnect
<1>5. CASE startLoop
  <2>1. client = "live" /\ lib = 1 /\ loop = FALSE /\ mutex = "free" /\ cb = "idle"
    BY <1>5 DEF startLoop
  <2>2. CASE main' = "tcp" /\ loop' = TRUE /\ UNCHANGED <<client, lib>>
    BY <1>5, <2>1, <2>2 DEF startLoop
  <2>3. CASE startFails /\ UNCHANGED loop
    <3>1. lib' = 0
      BY <2>1, <2>3 DEF startFails
    <3> QED BY <1>5, <2>1, <2>3, <3>1 DEF startLoop, startFails
  <2> QED BY <1>5, <2>2, <2>3 DEF startLoop
<1>6. CASE openServers
  BY <1>6 DEF openServers, mqttVars
<1>7. CASE HandlerThrows
  BY <1>7 DEF HandlerThrows, mqttVars
<1>8. CASE stop
  BY <1>8 DEF stop
<1>9. CASE loopStop
  BY <1>9 DEF loopStop
<1>10. CASE destroy
  <2>1. lib = 1 /\ loop = FALSE /\ cb = "idle"
    BY <1>10 DEF destroy
  <2>2. lib' = 0
    BY <1>10, <2>1 DEF destroy
  <2> QED BY <1>10, <2>1, <2>2 DEF destroy
<1>11. CASE BrokerConnects
  BY <1>11 DEF BrokerConnects, Alive
<1>12. CASE BrokerLost
  BY <1>12 DEF BrokerLost
<1>13. CASE onConnect
  BY <1>13 DEF onConnect
<1>14. ASSUME NEW r \in MqttRequests, onMessage(r) PROVE LifeInv'
  BY <1>14 DEF onMessage, handleCommandRequest, Alive
<1>15. ASSUME NEW r \in MqttRequests, publishRefusal(r) PROVE LifeInv'
  BY <1>15 DEF publishRefusal
<1>16. ASSUME NEW r \in MqttRequests, refusalThrows(r) PROVE LifeInv'
  BY <1>16 DEF refusalThrows, mqttVars
<1>17. ASSUME UNCHANGED <<main, mqttVars>> PROVE LifeInv'
  BY <1>17 DEF mqttVars
<1>18. ASSUME NEW r \in Requests,
              Handler(r) \/ acceptHttp(r) \/ RequestComplete(r) \/ readFails(r)
       PROVE  UNCHANGED <<main, mqttVars>>
  BY <1>18 DEF Handler, answerMqtt, handleCommand, runPosted, handleHttp,
               onResponseWritten, acceptHttp, RequestComplete, readFails
<1>19. CASE UNCHANGED vars
  BY <1>17, <1>19 DEF vars
<1> HIDE DEF LifeInv, LifeType, Life
<1> QED
  BY <1>1, <1>2, <1>3, <1>4, <1>5, <1>6, <1>7, <1>8, <1>9, <1>10, <1>11, <1>12, <1>13,
     <1>14, <1>15, <1>16, <1>17, <1>18, <1>19 DEF Next, MainStep, Callback, Requests

(* LifeInv always holds.                                                     *)
LEMMA LifeAlways == Spec => []LifeInv
<1>1. Init => LifeInv
  BY DEF Init, LifeInv, LifeType, Life
<1>2. LifeInv /\ [Next]_vars => LifeInv'
  BY LifeStep
<1> QED BY <1>1, <1>2, PTL DEF Spec

(* Whatever fails in MqttBackend::start, in the constructors of the servers  *)
(* or in a handler: when main returns, the thread has ended, the client is   *)
(* destroyed and the library is cleaned up.                                  *)
THEOREM ExitIsClean == Spec => []NothingLeft
<1>1. LifeInv => NothingLeft
  BY DEF LifeInv, LifeType, Life, NothingLeft
<1> QED BY <1>1, LifeAlways, PTL

(* onConnect and onMessage, which take no lock, never meet a destroyed client*)
(* nor objects of main that are gone.                                        *)
THEOREM CallbacksAreSafe == Spec => []CallbackHasClient
<1>1. LifeInv => CallbackHasClient
  BY DEF LifeInv, LifeType, Life, CallbackHasClient
<1> QED BY <1>1, LifeAlways, PTL

(* Every connection to the broker is subscribed or its onConnect failed.     *)
THEOREM ConnectionsSubscribed == Spec => []LinkedMeansSubscribed
<1>1. Init => LinkedMeansSubscribed
  BY DEF Init, LinkedMeansSubscribed
<1>2. LinkedMeansSubscribed /\ [Next]_vars => LinkedMeansSubscribed'
  <2> SUFFICES ASSUME LinkedMeansSubscribed, [Next]_vars
               PROVE  LinkedMeansSubscribed'
    OBVIOUS
  <2> USE DEF LinkedMeansSubscribed
  <2>1. CASE stop
    BY <2>1 DEF stop
  <2>2. CASE BrokerConnects
    BY <2>2 DEF BrokerConnects
  <2>3. CASE BrokerLost
    BY <2>3 DEF BrokerLost
  <2>4. CASE onConnect
    BY <2>4 DEF onConnect
  <2>5. ASSUME NEW r \in MqttRequests, onMessage(r) PROVE LinkedMeansSubscribed'
    BY <2>5 DEF onMessage, handleCommandRequest
  <2>6. ASSUME NEW r \in MqttRequests, publishRefusal(r) PROVE LinkedMeansSubscribed'
    BY <2>6, BridgeAssumption DEF publishRefusal
  <2>7. ASSUME UNCHANGED <<linked, subscribed, deaf, cb>> PROVE LinkedMeansSubscribed'
    BY <2>7
  <2>8. ASSUME loadConfig \/ connectRedis \/ startNew \/ startConnect \/ startLoop
                 \/ openServers \/ HandlerThrows \/ loopStop \/ destroy
        PROVE  UNCHANGED <<linked, subscribed, deaf, cb>>
    BY <2>8 DEF loadConfig, connectRedis, startNew, startConnect, startLoop, openServers,
                HandlerThrows, loopStop, destroy, mqttVars
  <2>9. ASSUME NEW r \in Requests, \/ Handler(r) \/ acceptHttp(r) \/ RequestComplete(r)
                                   \/ readFails(r) \/ refusalThrows(r)
        PROVE  UNCHANGED <<linked, subscribed, deaf, cb>>
    BY <2>9 DEF Handler, answerMqtt, handleCommand, runPosted, handleHttp, refusalThrows,
                onResponseWritten, acceptHttp, RequestComplete, readFails, mqttVars
  <2>10. CASE UNCHANGED vars
    BY <2>10 DEF vars, mqttVars
  <2> HIDE DEF LinkedMeansSubscribed
  <2> QED
    BY <2>1, <2>2, <2>3, <2>4, <2>5, <2>6, <2>7, <2>8, <2>9, <2>10
       DEF Next, MainStep, Callback, Requests
<1> QED BY <1>1, <1>2, PTL DEF Spec

------------------------------------------------------------------------------
(* The first answer.  A request has none before its handler is at the answer,*)
(* and sent[r] is then settled.                                              *)
Early  == {"away", "ignored", "refusing", "posted", "reading", "requested", "thrown"}
Stages == Early \cup {"dispatched", "writing", "answered", "dropped"}

AnswerType ==
  /\ stage \in [Requests -> Stages]
  /\ sent \in [Requests -> BOOLEAN]
  /\ events \in [Requests -> {<<>>, <<"dispatched">>, <<"rejected">>}]
  /\ code \in [Requests -> {<<>>, <<200>>, <<404>>, <<409>>}]

Unanswered(r) == events[r] = <<>> /\ code[r] = <<>>

Truthful(r) ==
  /\ stage[r] \in Early => Unanswered(r) /\ ~sent[r]
  /\ stage[r] = "dispatched" => Unanswered(r) /\ sent[r]
  /\ events[r] = <<"dispatched">> => sent[r]
  /\ events[r] = <<"rejected">> => ~sent[r]
  /\ code[r] = <<200>> /\ kind[r] # "online" => sent[r]
  /\ code[r] = <<409>> /\ sent[r] => kind[r] = "illText"

(* The callback refuses a request that nobody else handles.                  *)
Refusing == cb \in MqttRequests => stage[cb] = "refusing"

AnswerInv == AnswerType /\ Refusing /\ \A r \in Requests : Truthful(r)

(* A step of one request leaves the others alone.                            *)
LEMMA OneRequest ==
  ASSUME AnswerInv, NEW r \in Requests, AnswerType', UNCHANGED kind,
         \A q \in Requests \ {r} : /\ stage'[q] = stage[q] /\ sent'[q] = sent[q]
                                   /\ events'[q] = events[q] /\ code'[q] = code[q],
         Refusing', Truthful(r)'
  PROVE  AnswerInv'
<1>1. ASSUME NEW q \in Requests, q # r
      PROVE  Truthful(q)'
  BY <1>1 DEF AnswerInv, Truthful, Unanswered
<1> QED BY <1>1 DEF AnswerInv

(* publishJson adds the first event, or nothing.                             *)
LEMMA FirstEvent ==
  ASSUME AnswerType, NEW r \in Requests, events[r] = <<>>,
         NEW status \in {"dispatched", "rejected"}, publishJson(r, status)
  PROVE  /\ events' \in [Requests -> {<<>>, <<"dispatched">>, <<"rejected">>}]
         /\ events'[r] \in {<<>>, <<status>>}
         /\ \A q \in Requests \ {r} : events'[q] = events[q]
<1>1. Append(events[r], status) = <<status>>
  OBVIOUS
<1>2. UNCHANGED events \/ events' = [events EXCEPT ![r] = <<status>>]
  BY <1>1 DEF publishJson
<1>3. <<status>> \in {<<>>, <<"dispatched">>, <<"rejected">>}
  OBVIOUS
<1> QED BY <1>2, <1>3 DEF AnswerType

(* response is called once, with no response before.                         *)
LEMMA FirstResponse ==
  ASSUME AnswerType, NEW r \in Requests, code[r] = <<>>,
         NEW status \in {200, 404, 409}, response(r, status)
  PROVE  /\ code' \in [Requests -> {<<>>, <<200>>, <<404>>, <<409>>}]
         /\ stage' \in [Requests -> Stages]
         /\ code'[r] = <<status>> /\ stage'[r] = "writing"
         /\ \A q \in Requests \ {r} : code'[q] = code[q] /\ stage'[q] = stage[q]
<1>1. Append(code[r], status) = <<status>>
  OBVIOUS
<1>2. code' = [code EXCEPT ![r] = <<status>>] /\ stage' = [stage EXCEPT ![r] = "writing"]
  BY <1>1 DEF response
<1>3. <<status>> \in {<<>>, <<200>>, <<404>>, <<409>>} /\ "writing" \in Stages
  BY DEF Stages
<1> QED BY <1>2, <1>3 DEF AnswerType

(* sendWake settles sent[r].                                                 *)
LEMMA Woken ==
  ASSUME AnswerType, NEW r \in Requests, sendWake(r)
  PROVE  /\ stage' \in [Requests -> Stages] /\ sent' \in [Requests -> BOOLEAN]
         /\ \/ stage'[r] = "dispatched" /\ sent'[r]
            \/ stage'[r] = "thrown" /\ sent'[r] = sent[r]
         /\ \A q \in Requests \ {r} : stage'[q] = stage[q] /\ sent'[q] = sent[q]
<1>1. CASE stage' = [stage EXCEPT ![r] = "dispatched"] /\ sent' = [sent EXCEPT ![r] = TRUE]
  BY <1>1 DEF AnswerType, Stages
<1>2. CASE stage' = [stage EXCEPT ![r] = "thrown"] /\ UNCHANGED sent
  BY <1>2 DEF AnswerType, Stages, Early
<1> QED BY <1>1, <1>2 DEF sendWake

(* AnswerInv is inductive.                                                   *)
LEMMA AnswerStep ==
  ASSUME AnswerInv, [Next]_vars
  PROVE  AnswerInv'
<1>0. AnswerType /\ Refusing /\ \A r \in Requests : Truthful(r)
  BY DEF AnswerInv
<1>i. "idle" \notin MqttRequests /\ "connect" \notin MqttRequests
  BY BridgeAssumption
<1>1. ASSUME NEW r \in MqttRequests, onMessage(r)
     PROVE  AnswerInv'
  <2> USE <1>0, <1>1 DEF onMessage, handleCommandRequest, AnswerType, Stages, Early
  <2>1. AnswerType'
    BY DEF Truthful, Unanswered, Requests
  <2>2. \A q \in Requests \ {r} : /\ stage'[q] = stage[q] /\ sent'[q] = sent[q]
                                /\ events'[q] = events[q] /\ code'[q] = code[q]
    OBVIOUS
  <2>3. Refusing'
    BY <1>i DEF Refusing, Requests
  <2>4. Truthful(r)'
    BY DEF Truthful, Unanswered, Refusing, Requests
  <2>5. r \in Requests /\ kind' = kind
    BY DEF Requests
  <2> HIDE <1>0, <1>1 DEF AnswerType, Stages, Early
  <2> QED BY <2>1, <2>2, <2>3, <2>4, <2>5, OneRequest
<1>2. ASSUME NEW r \in MqttRequests, publishRefusal(r)
     PROVE  AnswerInv'
  <2> USE <1>0, <1>2 DEF publishRefusal, AnswerType, Stages, Early
  <2>1. r \in Requests /\ kind' = kind /\ Unanswered(r)
    BY DEF Truthful, Unanswered, Refusing, Requests
  <2>2. /\ events' \in [Requests -> {<<>>, <<"dispatched">>, <<"rejected">>}]
        /\ events'[r] \in {<<>>, IF sent[r] THEN <<"dispatched">> ELSE <<"rejected">>}
        /\ \A q \in Requests \ {r} : events'[q] = events[q]
    BY <2>1, FirstEvent DEF Unanswered, Truthful, Refusing
  <2>3. AnswerType'
    BY <2>1, <2>2
  <2>4. \A q \in Requests \ {r} : /\ stage'[q] = stage[q] /\ sent'[q] = sent[q]
                                /\ events'[q] = events[q] /\ code'[q] = code[q]
    BY <2>2
  <2>5. Refusing'
    BY <1>i DEF Refusing, Requests
  <2>6. Truthful(r)'
    BY <2>1, <2>2 DEF Truthful, Unanswered, Refusing
  <2> HIDE <1>0, <1>2 DEF AnswerType, Stages, Early
  <2> QED BY <2>1, <2>3, <2>4, <2>5, <2>6, OneRequest
<1>3. ASSUME NEW r \in HttpRequests, acceptHttp(r)
     PROVE  AnswerInv'
  <2> USE <1>0, <1>3 DEF acceptHttp, mqttVars, AnswerType, Stages, Early
  <2>1. AnswerType'
    BY DEF Truthful, Unanswered, Requests
  <2>2. \A q \in Requests \ {r} : /\ stage'[q] = stage[q] /\ sent'[q] = sent[q]
                                /\ events'[q] = events[q] /\ code'[q] = code[q]
    OBVIOUS
  <2>3. Refusing'
    BY <1>i DEF Refusing, Requests
  <2>4. Truthful(r)'
    BY DEF Truthful, Unanswered, Refusing, Requests
  <2>5. r \in Requests /\ kind' = kind
    BY DEF Requests
  <2> HIDE <1>0, <1>3 DEF AnswerType, Stages, Early
  <2> QED BY <2>1, <2>2, <2>3, <2>4, <2>5, OneRequest
<1>4. ASSUME NEW r \in HttpRequests, readFails(r)
     PROVE  AnswerInv'
  <2> USE <1>0, <1>4 DEF readFails, mqttVars, AnswerType, Stages, Early
  <2>1. AnswerType'
    BY DEF Truthful, Unanswered, Requests
  <2>2. \A q \in Requests \ {r} : /\ stage'[q] = stage[q] /\ sent'[q] = sent[q]
                                /\ events'[q] = events[q] /\ code'[q] = code[q]
    OBVIOUS
  <2>3. Refusing'
    BY <1>i DEF Refusing, Requests
  <2>4. Truthful(r)'
    BY DEF Truthful, Unanswered, Refusing, Requests
  <2>5. r \in Requests /\ kind' = kind
    BY DEF Requests
  <2> HIDE <1>0, <1>4 DEF AnswerType, Stages, Early
  <2> QED BY <2>1, <2>2, <2>3, <2>4, <2>5, OneRequest
<1>5. ASSUME NEW r \in HttpRequests, RequestComplete(r)
     PROVE  AnswerInv'
  <2> USE <1>0, <1>5 DEF RequestComplete, mqttVars, AnswerType, Stages, Early
  <2>1. AnswerType'
    BY DEF Truthful, Unanswered, Requests
  <2>2. \A q \in Requests \ {r} : /\ stage'[q] = stage[q] /\ sent'[q] = sent[q]
                                /\ events'[q] = events[q] /\ code'[q] = code[q]
    OBVIOUS
  <2>3. Refusing'
    BY <1>i DEF Refusing, Requests
  <2>4. Truthful(r)'
    BY DEF Truthful, Unanswered, Refusing, Requests
  <2>5. r \in Requests /\ kind' = kind
    BY DEF Requests
  <2> HIDE <1>0, <1>5 DEF AnswerType, Stages, Early
  <2> QED BY <2>1, <2>2, <2>3, <2>4, <2>5, OneRequest
<1>6. ASSUME NEW r \in Requests, runPosted(r)
     PROVE  AnswerInv'
  <2>1. /\ sendWake(r) /\ UNCHANGED <<mqttVars, kind, events, code>>
        /\ stage[r] = "posted" /\ Unanswered(r) /\ ~sent[r]
    BY <1>0, <1>6 DEF runPosted, Truthful, Early
  <2>2. AnswerType'
    BY <1>0, <2>1, Woken DEF AnswerType
  <2>3. \A q \in Requests \ {r} : /\ stage'[q] = stage[q] /\ sent'[q] = sent[q]
                                /\ events'[q] = events[q] /\ code'[q] = code[q]
    BY <1>0, <2>1, Woken
  <2>4. Refusing'
    BY <1>0, <2>1, <2>3 DEF Refusing, Requests, mqttVars
  <2>5. Truthful(r)'
    BY <1>0, <2>1, Woken DEF Truthful, Unanswered, Early
  <2> QED BY <2>1, <2>2, <2>3, <2>4, <2>5, OneRequest
<1>7. ASSUME NEW r \in Requests, answerMqtt(r)
     PROVE  AnswerInv'
  <2> USE <1>0, <1>7 DEF answerMqtt, Busy, mqttVars, AnswerType, Stages, Early
  <2>1. r \in Requests /\ kind' = kind /\ Unanswered(r)
    BY DEF Truthful, Unanswered, Refusing, Requests
  <2>2. /\ events' \in [Requests -> {<<>>, <<"dispatched">>, <<"rejected">>}]
        /\ events'[r] \in {<<>>, IF sent[r] THEN <<"dispatched">> ELSE <<"rejected">>}
        /\ \A q \in Requests \ {r} : events'[q] = events[q]
    BY <2>1, FirstEvent DEF Unanswered, Truthful, Refusing
  <2>3. AnswerType'
    BY <2>1, <2>2
  <2>4. \A q \in Requests \ {r} : /\ stage'[q] = stage[q] /\ sent'[q] = sent[q]
                                /\ events'[q] = events[q] /\ code'[q] = code[q]
    BY <2>2
  <2>5. Refusing'
    BY <1>i DEF Refusing, Requests
  <2>6. Truthful(r)'
    BY <2>1, <2>2 DEF Truthful, Unanswered, Refusing
  <2> HIDE <1>0, <1>7 DEF AnswerType, Stages, Early
  <2> QED BY <2>1, <2>3, <2>4, <2>5, <2>6, OneRequest
<1>8. ASSUME NEW r \in Requests, handleCommand(r)
     PROVE  AnswerInv'
  <2>1. /\ stage[r] \in {"thrown", "dispatched"}
        /\ UNCHANGED <<mqttVars, kind, sent>>
        /\ Unanswered(r) /\ sent[r] = (stage[r] = "dispatched")
    BY <1>0, <1>8 DEF handleCommand, Busy, Requests, Truthful, Early, AnswerType
  <2> DEFINE status == IF sent[r] /\ kind[r] # "illText" THEN 200 ELSE 409
  <2>2. /\ response(r, status)
        /\ IF sent[r] THEN publishJson(r, "dispatched") ELSE UNCHANGED events
    BY <1>8 DEF handleCommand
  <2>3. /\ events' \in [Requests -> {<<>>, <<"dispatched">>, <<"rejected">>}]
        /\ events'[r] \in {<<>>, IF sent[r] THEN <<"dispatched">> ELSE <<"rejected">>}
        /\ \A q \in Requests \ {r} : events'[q] = events[q]
    <3>1. CASE sent[r]
      BY <1>0, <2>1, <2>2, <3>1, FirstEvent DEF Unanswered
    <3>2. CASE ~sent[r]
      BY <1>0, <2>1, <2>2, <3>2 DEF Unanswered, AnswerType
    <3> QED BY <3>1, <3>2
  <2>4. /\ code' \in [Requests -> {<<>>, <<200>>, <<404>>, <<409>>}]
        /\ stage' \in [Requests -> Stages]
        /\ code'[r] = <<status>> /\ stage'[r] = "writing"
        /\ \A q \in Requests \ {r} : code'[q] = code[q] /\ stage'[q] = stage[q]
    BY <1>0, <2>1, <2>2, FirstResponse DEF Unanswered
  <2>5. AnswerType'
    BY <1>0, <2>1, <2>3, <2>4 DEF AnswerType
  <2>6. Refusing'
    BY <1>0, <2>1, <2>4 DEF Refusing, Requests, mqttVars
  <2>7. Truthful(r)'
    BY <2>1, <2>3, <2>4 DEF Truthful, Early
  <2> QED BY <2>1, <2>3, <2>4, <2>5, <2>6, <2>7, OneRequest
<1>9. ASSUME NEW r \in Requests, handleHttp(r)
     PROVE  AnswerInv'
  <2>1. /\ stage[r] = "requested" /\ Unanswered(r) /\ ~sent[r]
        /\ UNCHANGED <<mqttVars, kind, events>>
    BY <1>0, <1>9 DEF handleHttp, Truthful, Early
  <2>2. CASE sendWake(r) /\ UNCHANGED code
    <3>1. AnswerType'
      BY <1>0, <2>1, <2>2, Woken DEF AnswerType
    <3>2. \A q \in Requests \ {r} : /\ stage'[q] = stage[q] /\ sent'[q] = sent[q]
                                  /\ events'[q] = events[q] /\ code'[q] = code[q]
      BY <1>0, <2>1, <2>2, Woken
    <3>3. Refusing'
      BY <1>0, <2>1, <3>2 DEF Refusing, Requests, mqttVars
    <3>4. Truthful(r)'
      BY <1>0, <2>1, <2>2, Woken DEF Truthful, Unanswered, Early
    <3> QED BY <2>1, <3>1, <3>2, <3>3, <3>4, OneRequest
  <2>3. ASSUME NEW status \in {200, 404}, response(r, status), UNCHANGED sent,
               status = 200 => kind[r] = "online"
        PROVE  AnswerInv'
    <3>1. AnswerType'
      BY <1>0, <2>1, <2>3, FirstResponse DEF AnswerType, Unanswered
    <3>2. \A q \in Requests \ {r} : /\ stage'[q] = stage[q] /\ sent'[q] = sent[q]
                                  /\ events'[q] = events[q] /\ code'[q] = code[q]
      BY <1>0, <2>1, <2>3, FirstResponse DEF Unanswered
    <3>3. Refusing'
      BY <1>0, <2>1, <3>2 DEF Refusing, Requests, mqttVars
    <3>4. Truthful(r)'
      BY <1>0, <2>1, <2>3, FirstResponse DEF Truthful, Unanswered, Early
    <3> QED BY <2>1, <2>3, <3>1, <3>2, <3>3, <3>4, OneRequest
  <2> QED BY <1>9, <2>2, <2>3 DEF handleHttp, handleOnline
<1>10. ASSUME NEW r \in Requests, onResponseWritten(r)
     PROVE  AnswerInv'
  <2> USE <1>0, <1>10 DEF onResponseWritten, mqttVars, AnswerType, Stages, Early
  <2>1. AnswerType'
    BY DEF Truthful, Unanswered, Requests
  <2>2. \A q \in Requests \ {r} : /\ stage'[q] = stage[q] /\ sent'[q] = sent[q]
                                /\ events'[q] = events[q] /\ code'[q] = code[q]
    OBVIOUS
  <2>3. Refusing'
    BY <1>i DEF Refusing, Requests
  <2>4. Truthful(r)'
    BY DEF Truthful, Unanswered, Refusing, Requests
  <2>5. r \in Requests /\ kind' = kind
    BY DEF Requests
  <2> HIDE <1>0, <1>10 DEF AnswerType, Stages, Early
  <2> QED BY <2>1, <2>2, <2>3, <2>4, <2>5, OneRequest
<1>11. ASSUME UNCHANGED requestVars, cb' \in {cb, "idle", "connect"}
      PROVE  AnswerInv'
  BY <1>0, <1>i, <1>11 DEF AnswerInv, AnswerType, Refusing, Truthful, Unanswered, requestVars
<1>12. ASSUME NEW r \in MqttRequests, refusalThrows(r)
       PROVE  AnswerInv'
  BY <1>11, <1>12 DEF refusalThrows, mqttVars
<1>13. ASSUME MainStep \/ HandlerThrows \/ BrokerConnects \/ BrokerLost \/ onConnect
                \/ UNCHANGED vars
       PROVE  UNCHANGED requestVars /\ cb' \in {cb, "idle", "connect"}
  BY <1>13 DEF MainStep, loadConfig, connectRedis, startNew, startConnect, startLoop, openServers,
               stop, loopStop, destroy, HandlerThrows, BrokerConnects, BrokerLost, onConnect,
               mqttVars, vars
<1> QED
  BY <1>1, <1>2, <1>3, <1>4, <1>5, <1>6, <1>7, <1>8, <1>9, <1>10, <1>11, <1>12, <1>13
     DEF Next, Callback, Handler

(* Nothing has arrived at the start.                                         *)
LEMMA AnswerInit == Init => AnswerInv
BY BridgeAssumption DEF Init, AnswerInv, AnswerType, Refusing, Truthful, Unanswered, Stages,
                        Early

(* A request gets at most one event and one response before it is retried.   *)
(* The event says what sendWake did with it; so does the response, save that *)
(* a command whose cmd is not UTF-8 may be sent and answered with 409.       *)
THEOREM FirstAnswersAreTrue == Spec => []OneTrueAnswer
<1>1. AnswerInv => OneTrueAnswer
  <2> SUFFICES ASSUME AnswerInv, NEW r \in Requests
               PROVE  /\ Len(events[r]) <= 1 /\ Len(code[r]) <= 1
                      /\ events[r] # <<>> => (events[r][1] = "dispatched") = sent[r]
                      /\ code[r] = <<200>> /\ kind[r] # "online" => sent[r]
                      /\ code[r] = <<409>> /\ sent[r] => kind[r] = "illText"
    BY DEF OneTrueAnswer
  <2>1. /\ events[r] \in {<<>>, <<"dispatched">>, <<"rejected">>}
        /\ code[r] \in {<<>>, <<200>>, <<404>>, <<409>>} /\ sent[r] \in BOOLEAN
    BY DEF AnswerInv, AnswerType
  <2>2. Truthful(r)
    BY DEF AnswerInv
  <2>3. Len(events[r]) <= 1 /\ Len(code[r]) <= 1
    <3>1. /\ Len(<<>>) = 0 /\ Len(<<"dispatched">>) = 1 /\ Len(<<"rejected">>) = 1
          /\ Len(<<200>>) = 1 /\ Len(<<404>>) = 1 /\ Len(<<409>>) = 1
      OBVIOUS
    <3>2. ASSUME NEW n, n = 0 \/ n = 1 PROVE n <= 1
      BY <3>2
    <3>3. Len(events[r]) = 0 \/ Len(events[r]) = 1
      BY <2>1, <3>1
    <3>4. Len(code[r]) = 0 \/ Len(code[r]) = 1
      BY <2>1, <3>1
    <3>5. Len(events[r]) <= 1
      BY <3>2, <3>3
    <3>6. Len(code[r]) <= 1
      BY <3>2, <3>4
    <3> QED BY <3>5, <3>6
  <2>4. events[r] # <<>> => (events[r][1] = "dispatched") = sent[r]
    BY <2>1, <2>2 DEF Truthful
  <2>5. /\ code[r] = <<200>> /\ kind[r] # "online" => sent[r]
        /\ code[r] = <<409>> /\ sent[r] => kind[r] = "illText"
    BY <2>2 DEF Truthful
  <2> QED BY <2>3, <2>4, <2>5
<1>2. AnswerInv /\ [Next]_vars => AnswerInv'
  BY AnswerStep
<1> QED BY AnswerInit, <1>1, <1>2, PTL DEF Spec

------------------------------------------------------------------------------
LinkType ==
  /\ linked \in BOOLEAN /\ subscribed \in BOOLEAN /\ deaf \in BOOLEAN
  /\ losses \in 0..MaxLosses
  /\ kind \in [Requests -> MqttKinds \cup HttpKinds]

(* The connection to the broker keeps its types.                             *)
LEMMA LinkStep ==
  ASSUME LinkType, [Next]_vars
  PROVE  LinkType'
<1>1. UNCHANGED kind
  BY DEF Next, MainStep, loadConfig, connectRedis, startNew, startConnect, startLoop,
         openServers, stop, loopStop, destroy, HandlerThrows, BrokerConnects, BrokerLost,
         Callback, onConnect, publishRefusal, refusalThrows, onMessage, acceptHttp,
         RequestComplete, readFails, Handler,
         answerMqtt, handleCommand, runPosted, handleHttp, onResponseWritten, requestVars, vars
<1>2. /\ linked' \in {linked, TRUE, FALSE}
      /\ subscribed' \in {subscribed, linked, FALSE}
      /\ deaf' \in {deaf, TRUE, FALSE}
      /\ losses' = losses \/ (losses < MaxLosses /\ losses' = losses + 1)
  BY DEF Next, MainStep, loadConfig, connectRedis, startNew, startConnect, startLoop,
         openServers, stop, loopStop, destroy, HandlerThrows, BrokerConnects, BrokerLost,
         Callback, onConnect, publishRefusal, refusalThrows, onMessage, acceptHttp,
         RequestComplete, readFails, Handler,
         answerMqtt, handleCommand, runPosted, handleHttp, onResponseWritten, mqttVars, vars
<1>3. losses' \in 0..MaxLosses
  BY <1>2, BridgeAssumption DEF LinkType
<1> QED BY <1>1, <1>2, <1>3 DEF LinkType

(* main, client, thread, callback and histories always have their types.     *)
THEOREM TypeCorrect == Spec => []TypeOK
<1>1. Init => LinkType /\ AnswerInv
  <2> SUFFICES ASSUME Init PROVE LinkType /\ AnswerInv
    OBVIOUS
  <2>1. 0 \in 0..MaxLosses
    BY BridgeAssumption
  <2>2. LinkType
    BY <2>1 DEF Init, LinkType
  <2> QED BY <2>2, AnswerInit
<1>2. LinkType /\ AnswerInv /\ [Next]_vars => (LinkType /\ AnswerInv)'
  BY LinkStep, AnswerStep
<1>3. LifeInv /\ LinkType /\ AnswerInv => TypeOK
  <2> SUFFICES ASSUME LifeInv, LinkType, AnswerInv PROVE TypeOK
    OBVIOUS
  <2>1. events \in [Requests -> Seq({"rejected", "dispatched"})]
    <3> DEFINE S == {<<>>, <<"dispatched">>, <<"rejected">>}
               T == Seq({"rejected", "dispatched"})
    <3>1. S \subseteq T
      OBVIOUS
    <3>2. events \in [Requests -> S]
      BY DEF AnswerInv, AnswerType
    <3> HIDE DEF S, T
    <3>3. events \in [Requests -> T]
      BY <3>1, <3>2
    <3> QED BY <3>3 DEF T
  <2>2. code \in [Requests -> Seq({200, 404, 409})]
    <3> DEFINE S == {<<>>, <<200>>, <<404>>, <<409>>}
               T == Seq({200, 404, 409})
    <3>1. S \subseteq T
      OBVIOUS
    <3>2. code \in [Requests -> S]
      BY DEF AnswerInv, AnswerType
    <3> HIDE DEF S, T
    <3>3. code \in [Requests -> T]
      BY <3>1, <3>2
    <3> QED BY <3>3 DEF T
  <2>3. /\ stage \in [Requests -> {"away", "ignored", "refusing", "posted", "thrown",
                                  "dispatched", "reading", "requested", "writing", "answered",
                                  "dropped"}]
        /\ sent \in [Requests -> BOOLEAN]
    BY DEF AnswerInv, AnswerType, Stages, Early
  <2>4. lib \in {0, 1}
    BY DEF LifeInv, LifeType, Life
  <2> QED BY <2>1, <2>2, <2>3, <2>4 DEF TypeOK, LifeInv, LifeType, LinkType
<1> QED BY <1>1, <1>2, <1>3, LifeAlways, PTL DEF Spec

==============================================================================
