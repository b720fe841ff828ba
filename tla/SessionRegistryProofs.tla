------------------------ MODULE SessionRegistryProofs ------------------------
(***************************************************************************)
(* Proofs about SessionRegistry for every set of devices and sessions and  *)
(* every idle timeout.  The first part holds for any number of workers and *)
(* any interleaving of handlers.  The second part is about one worker,     *)
(* where the backends follow the registry between any two handlers.        *)
(***************************************************************************)
EXTENDS SessionRegistry, FiniteSetTheorems, TLAPS

(* A chain that is cleaning up holds closing_.                               *)
CleanupHoldsClosing ==
  \A s \in Sessions : reader[s] \in OffSteps \/ writer[s] \in OffSteps => closing[s]

(* closing_ is only set when the socket is closed or about to be.            *)
ClosingCloses ==
  \A s \in Sessions :
    closing[s] => \/ sock[s] = "closed"
                  \/ reader[s] \in OffSteps
                  \/ writer[s] \in OffSteps

(* A read chain that has ended leaves a closed socket, or a write chain that *)
(* is about to close it.                                                     *)
EndedReader ==
  \A s \in Sessions :
    reader[s] = "ended" => sock[s] = "closed" \/ writer[s] \in OffSteps

(* Handlers that touch the entry of a device run for a device.               *)
WorksForDevice ==
  \A s \in Sessions :
    reader[s] \in {"login", "redis", "mqtt"} \cup OffSteps \/ writer[s] \in OffSteps
      => dev[s] # NoDevice

DropsDevices == NoDevice \notin dropping

IInv ==
  /\ TypeOK
  /\ RegisteredIsOnline
  /\ AnonymousIsNoDevice
  /\ OneCleanup
  /\ CleanupHoldsClosing
  /\ ClosingCloses
  /\ EndedReader
  /\ WorksForDevice
  /\ DropsDevices

------------------------------------------------------------------------------
(* The initial state satisfies the inductive invariant.                      *)
LEMMA InitIInv == Init => IInv
<1> SUFFICES ASSUME Init PROVE IInv
  OBVIOUS
<1>1. TypeOK
  BY SleepAssumption, IdleTimeoutAssumption DEF Init, TypeOK, Ids
<1>2. RegisteredIsOnline /\ AnonymousIsNoDevice /\ DropsDevices
  BY DEF Init, RegisteredIsOnline, AnonymousIsNoDevice, DropsDevices, HasKey, Ids
<1>3. OneCleanup /\ CleanupHoldsClosing /\ ClosingCloses /\ EndedReader /\ WorksForDevice
  BY DEF Init, OneCleanup, CleanupHoldsClosing, ClosingCloses, EndedReader,
         WorksForDevice, OffSteps
<1> QED BY <1>1, <1>2, <1>3 DEF IInv

(* Every step preserves the types.                                           *)
LEMMA TypeStep ==
  ASSUME TypeOK, [Next]_vars
  PROVE  TypeOK'
<1> USE SleepAssumption, IdleTimeoutAssumption DEF TypeOK, Ids, OffSteps
<1>1. ASSUME NEW s \in Sessions, Accept(s)
      PROVE  TypeOK'
  BY <1>1 DEF Accept, ctxVars, redisVars, backendVars, connVars
<1>2. ASSUME NEW s \in Sessions, readAutoDetect(s)
      PROVE  TypeOK'
  BY <1>2 DEF readAutoDetect, ctxVars, redisVars, backendVars, connVars
<1>3. ASSUME NEW s \in Sessions, NEW d \in Devices, NEW v \in DevStates, Login(s, d, v)
      PROVE  TypeOK'
  BY <1>3 DEF Login, Message, JsonOrLowPower, ctxVars, redisVars, backendVars, connVars
<1>4. ASSUME NEW s \in Sessions, registerOnlineState(s)
      PROVE  TypeOK'
  BY <1>4 DEF registerOnlineState, ctxVars, redisVars, backendVars, connVars
<1>5. ASSUME NEW s \in Sessions, NEW v \in DevStates, Heartbeat(s, v)
      PROVE  TypeOK'
  BY <1>5 DEF Heartbeat, Message, JsonOrLowPower, ctxVars, redisVars, backendVars, connVars
<1>6. ASSUME NEW s \in Sessions, updateRedisOnline(s)
      PROVE  TypeOK'
  BY <1>6 DEF updateRedisOnline, UpdateRedis, ctxVars, redisVars, backendVars, connVars
<1>7. ASSUME NEW s \in Sessions, publishDeviceState(s)
      PROVE  TypeOK'
  BY <1>7 DEF publishDeviceState, Send, ctxVars, redisVars, backendVars, connVars
<1>8. ASSUME NEW s \in Sessions, NEW v \in DevStates, HostState(s, v)
      PROVE  TypeOK'
  BY <1>8 DEF HostState, Message, Send, ctxVars, redisVars, backendVars, connVars
<1>9. ASSUME NEW s \in Sessions, OtherMessage(s)
      PROVE  TypeOK'
  BY <1>9 DEF OtherMessage, Message, Send, JsonOrLowPower, ctxVars, redisVars, backendVars, connVars
<1>10. ASSUME NEW s \in Sessions, RefusedFrame(s)
      PROVE  TypeOK'
  BY <1>10 DEF RefusedFrame, Message, ctxVars, redisVars, backendVars, connVars
<1>11. ASSUME NEW s \in Sessions, BadVersion(s)
      PROVE  TypeOK'
  BY <1>11 DEF BadVersion, Message, ctxVars, redisVars, backendVars, connVars
<1>12. ASSUME NEW s \in Sessions, ReadError(s)
      PROVE  TypeOK'
  BY <1>12 DEF ReadError, handleDisconnect, DisconnectContext, DisconnectSocket, AfterDisconnect, ctxVars, redisVars, backendVars, connVars
<1>13. ASSUME NEW s \in Sessions, ReaderRedisOffline(s)
      PROVE  TypeOK'
  BY <1>13 DEF ReaderRedisOffline, RedisOffline, ctxVars, redisVars, backendVars, connVars
<1>14. ASSUME NEW s \in Sessions, ReaderPublishOffline(s)
      PROVE  TypeOK'
  BY <1>14 DEF ReaderPublishOffline, PublishOffline, ctxVars, redisVars, backendVars, connVars
<1>15. ASSUME NEW s \in Sessions, WriteDone(s)
      PROVE  TypeOK'
  BY <1>15 DEF WriteDone, ctxVars, redisVars, backendVars, connVars
<1>16. ASSUME NEW s \in Sessions, WriteError(s)
      PROVE  TypeOK'
  BY <1>16 DEF WriteError, handleDisconnect, DisconnectContext, DisconnectSocket, AfterDisconnect, ctxVars, redisVars, backendVars, connVars
<1>17. ASSUME NEW s \in Sessions, WriterRedisOffline(s)
      PROVE  TypeOK'
  BY <1>17 DEF WriterRedisOffline, RedisOffline, ctxVars, redisVars, backendVars, connVars
<1>18. ASSUME NEW s \in Sessions, WriterPublishOffline(s)
      PROVE  TypeOK'
  BY <1>18 DEF WriterPublishOffline, PublishOffline, ctxVars, redisVars, backendVars, connVars
<1>19. ASSUME NEW d \in Devices, sendWake(d)
      PROVE  TypeOK'
  BY <1>19 DEF sendWake, Send, ctxVars, redisVars, backendVars, connVars
<1>20. CASE checkOffline
  BY <1>20 DEF checkOffline, Idle, ctxVars, redisVars, backendVars, connVars
<1>21. CASE DropKey
  BY <1>21 DEF DropKey, ctxVars, redisVars, backendVars, connVars
<1>22. ASSUME NEW s \in Sessions, Receive(s)
      PROVE  TypeOK'
  BY <1>22 DEF Receive, ctxVars, redisVars, backendVars, connVars
<1>23. ASSUME NEW s \in Sessions, PeerReset(s)
      PROVE  TypeOK'
  BY <1>23 DEF PeerReset, ctxVars, redisVars, backendVars, connVars
<1>24. CASE TimePasses
  BY <1>24 DEF TimePasses, ctxVars, redisVars, backendVars, connVars
<1>25. CASE UNCHANGED vars
  BY <1>25 DEF vars, ctxVars, redisVars, backendVars, connVars
<1> QED
  BY <1>1, <1>2, <1>3, <1>4, <1>5, <1>6, <1>7, <1>8, <1>9, <1>10, <1>11, <1>12, <1>13, <1>14, <1>15, <1>16, <1>17, <1>18, <1>19, <1>20, <1>21, <1>22, <1>23, <1>24, <1>25
  DEF Next, Continue, ReadHandler, HandleMessage, WriteHandler

(* What the two chains of a session know of each other through closing_ and  *)
(* the socket.                                                               *)
ChainInv == OneCleanup /\ CleanupHoldsClosing /\ ClosingCloses /\ EndedReader

LEMMA ChainStep ==
  ASSUME TypeOK, ChainInv, [Next]_vars
  PROVE  ChainInv'
<1> USE DEF TypeOK, ChainInv, OneCleanup, CleanupHoldsClosing, ClosingCloses,
            EndedReader, OffSteps
<1>1. ASSUME NEW s \in Sessions, Accept(s)
      PROVE  ChainInv'
  BY <1>1 DEF Accept, ctxVars, redisVars, backendVars, connVars
<1>2. ASSUME NEW s \in Sessions, readAutoDetect(s)
      PROVE  ChainInv'
  BY <1>2 DEF readAutoDetect, ctxVars, redisVars, backendVars, connVars
<1>3. ASSUME NEW s \in Sessions, NEW d \in Devices, NEW v \in DevStates, Login(s, d, v)
      PROVE  ChainInv'
  BY <1>3 DEF Login, Message, JsonOrLowPower, ctxVars, redisVars, backendVars, connVars
<1>4. ASSUME NEW s \in Sessions, registerOnlineState(s)
      PROVE  ChainInv'
  BY <1>4 DEF registerOnlineState, ctxVars, redisVars, backendVars, connVars
<1>5. ASSUME NEW s \in Sessions, NEW v \in DevStates, Heartbeat(s, v)
      PROVE  ChainInv'
  BY <1>5 DEF Heartbeat, Message, JsonOrLowPower, ctxVars, redisVars, backendVars, connVars
<1>6. ASSUME NEW s \in Sessions, updateRedisOnline(s)
      PROVE  ChainInv'
  BY <1>6 DEF updateRedisOnline, UpdateRedis, ctxVars, redisVars, backendVars, connVars
<1>7. ASSUME NEW s \in Sessions, publishDeviceState(s)
      PROVE  ChainInv'
  BY <1>7 DEF publishDeviceState, Send, ctxVars, redisVars, backendVars, connVars
<1>8. ASSUME NEW s \in Sessions, NEW v \in DevStates, HostState(s, v)
      PROVE  ChainInv'
  BY <1>8 DEF HostState, Message, Send, ctxVars, redisVars, backendVars, connVars
<1>9. ASSUME NEW s \in Sessions, OtherMessage(s)
      PROVE  ChainInv'
  BY <1>9 DEF OtherMessage, Message, Send, JsonOrLowPower, ctxVars, redisVars, backendVars, connVars
<1>10. ASSUME NEW s \in Sessions, RefusedFrame(s)
      PROVE  ChainInv'
  BY <1>10 DEF RefusedFrame, Message, ctxVars, redisVars, backendVars, connVars
<1>11. ASSUME NEW s \in Sessions, BadVersion(s)
      PROVE  ChainInv'
  BY <1>11 DEF BadVersion, Message, ctxVars, redisVars, backendVars, connVars
<1>12. ASSUME NEW s \in Sessions, ReadError(s)
      PROVE  ChainInv'
  BY <1>12 DEF ReadError, handleDisconnect, DisconnectContext, DisconnectSocket, AfterDisconnect, ctxVars, redisVars, backendVars, connVars
<1>13. ASSUME NEW s \in Sessions, ReaderRedisOffline(s)
      PROVE  ChainInv'
  BY <1>13 DEF ReaderRedisOffline, RedisOffline, ctxVars, redisVars, backendVars, connVars
<1>14. ASSUME NEW s \in Sessions, ReaderPublishOffline(s)
      PROVE  ChainInv'
  BY <1>14 DEF ReaderPublishOffline, PublishOffline, ctxVars, redisVars, backendVars, connVars
<1>15. ASSUME NEW s \in Sessions, WriteDone(s)
      PROVE  ChainInv'
  BY <1>15 DEF WriteDone, ctxVars, redisVars, backendVars, connVars
<1>16. ASSUME NEW s \in Sessions, WriteError(s)
      PROVE  ChainInv'
  BY <1>16 DEF WriteError, handleDisconnect, DisconnectContext, DisconnectSocket, AfterDisconnect, ctxVars, redisVars, backendVars, connVars
<1>17. ASSUME NEW s \in Sessions, WriterRedisOffline(s)
      PROVE  ChainInv'
  BY <1>17 DEF WriterRedisOffline, RedisOffline, ctxVars, redisVars, backendVars, connVars
<1>18. ASSUME NEW s \in Sessions, WriterPublishOffline(s)
      PROVE  ChainInv'
  BY <1>18 DEF WriterPublishOffline, PublishOffline, ctxVars, redisVars, backendVars, connVars
<1>19. ASSUME NEW d \in Devices, sendWake(d)
      PROVE  ChainInv'
  BY <1>19 DEF sendWake, Send, ctxVars, redisVars, backendVars, connVars
<1>20. CASE checkOffline
  BY <1>20 DEF checkOffline, Idle, ctxVars, redisVars, backendVars, connVars
<1>21. CASE DropKey
  BY <1>21 DEF DropKey, ctxVars, redisVars, backendVars, connVars
<1>22. ASSUME NEW s \in Sessions, Receive(s)
      PROVE  ChainInv'
  BY <1>22 DEF Receive, ctxVars, redisVars, backendVars, connVars
<1>23. ASSUME NEW s \in Sessions, PeerReset(s)
      PROVE  ChainInv'
  BY <1>23 DEF PeerReset, ctxVars, redisVars, backendVars, connVars
<1>24. CASE TimePasses
  BY <1>24 DEF TimePasses, ctxVars, redisVars, backendVars, connVars
<1>25. CASE UNCHANGED vars
  BY <1>25 DEF vars, ctxVars, redisVars, backendVars, connVars
<1> QED
  BY <1>1, <1>2, <1>3, <1>4, <1>5, <1>6, <1>7, <1>8, <1>9, <1>10, <1>11, <1>12, <1>13, <1>14, <1>15, <1>16, <1>17, <1>18, <1>19, <1>20, <1>21, <1>22, <1>23, <1>24, <1>25
  DEF Next, Continue, ReadHandler, HandleMessage, WriteHandler

(* What the maps of GatewayContext and the handlers that change them agree   *)
(* on.                                                                       *)
RegistryInv == RegisteredIsOnline /\ AnonymousIsNoDevice /\ WorksForDevice /\ DropsDevices

LEMMA RegistryStep ==
  ASSUME TypeOK, RegistryInv, [Next]_vars
  PROVE  RegistryInv'
<1> USE NoDeviceAssumption, NoSessionAssumption
    DEF TypeOK, RegistryInv, RegisteredIsOnline, AnonymousIsNoDevice, WorksForDevice,
        DropsDevices, HasKey, Ids, OffSteps
<1>1. ASSUME NEW s \in Sessions, Accept(s)
      PROVE  RegistryInv'
  BY <1>1 DEF Accept, ctxVars, redisVars, backendVars, connVars
<1>2. ASSUME NEW s \in Sessions, readAutoDetect(s)
      PROVE  RegistryInv'
  BY <1>2 DEF readAutoDetect, ctxVars, redisVars, backendVars, connVars
<1>3. ASSUME NEW s \in Sessions, NEW d \in Devices, NEW v \in DevStates, Login(s, d, v)
      PROVE  RegistryInv'
  BY <1>3 DEF Login, Message, JsonOrLowPower, ctxVars, redisVars, backendVars, connVars
<1>4. ASSUME NEW s \in Sessions, registerOnlineState(s)
      PROVE  RegistryInv'
  BY <1>4 DEF registerOnlineState, ctxVars, redisVars, backendVars, connVars
<1>5. ASSUME NEW s \in Sessions, NEW v \in DevStates, Heartbeat(s, v)
      PROVE  RegistryInv'
  BY <1>5 DEF Heartbeat, Message, JsonOrLowPower, ctxVars, redisVars, backendVars, connVars
<1>6. ASSUME NEW s \in Sessions, updateRedisOnline(s)
      PROVE  RegistryInv'
  BY <1>6 DEF updateRedisOnline, UpdateRedis, ctxVars, redisVars, backendVars, connVars
<1>7. ASSUME NEW s \in Sessions, publishDeviceState(s)
      PROVE  RegistryInv'
  BY <1>7 DEF publishDeviceState, Send, ctxVars, redisVars, backendVars, connVars
<1>8. ASSUME NEW s \in Sessions, NEW v \in DevStates, HostState(s, v)
      PROVE  RegistryInv'
  BY <1>8 DEF HostState, Message, Send, ctxVars, redisVars, backendVars, connVars
<1>9. ASSUME NEW s \in Sessions, OtherMessage(s)
      PROVE  RegistryInv'
  BY <1>9 DEF OtherMessage, Message, Send, JsonOrLowPower, ctxVars, redisVars, backendVars, connVars
<1>10. ASSUME NEW s \in Sessions, RefusedFrame(s)
      PROVE  RegistryInv'
  BY <1>10 DEF RefusedFrame, Message, ctxVars, redisVars, backendVars, connVars
<1>11. ASSUME NEW s \in Sessions, BadVersion(s)
      PROVE  RegistryInv'
  BY <1>11 DEF BadVersion, Message, ctxVars, redisVars, backendVars, connVars
<1>12. ASSUME NEW s \in Sessions, ReadError(s)
      PROVE  RegistryInv'
  BY <1>12 DEF ReadError, handleDisconnect, DisconnectContext, DisconnectSocket, AfterDisconnect, ctxVars, redisVars, backendVars, connVars
<1>13. ASSUME NEW s \in Sessions, ReaderRedisOffline(s)
      PROVE  RegistryInv'
  BY <1>13 DEF ReaderRedisOffline, RedisOffline, ctxVars, redisVars, backendVars, connVars
<1>14. ASSUME NEW s \in Sessions, ReaderPublishOffline(s)
      PROVE  RegistryInv'
  BY <1>14 DEF ReaderPublishOffline, PublishOffline, ctxVars, redisVars, backendVars, connVars
<1>15. ASSUME NEW s \in Sessions, WriteDone(s)
      PROVE  RegistryInv'
  BY <1>15 DEF WriteDone, ctxVars, redisVars, backendVars, connVars
<1>16. ASSUME NEW s \in Sessions, WriteError(s)
      PROVE  RegistryInv'
  BY <1>16 DEF WriteError, handleDisconnect, DisconnectContext, DisconnectSocket, AfterDisconnect, ctxVars, redisVars, backendVars, connVars
<1>17. ASSUME NEW s \in Sessions, WriterRedisOffline(s)
      PROVE  RegistryInv'
  BY <1>17 DEF WriterRedisOffline, RedisOffline, ctxVars, redisVars, backendVars, connVars
<1>18. ASSUME NEW s \in Sessions, WriterPublishOffline(s)
      PROVE  RegistryInv'
  BY <1>18 DEF WriterPublishOffline, PublishOffline, ctxVars, redisVars, backendVars, connVars
<1>19. ASSUME NEW d \in Devices, sendWake(d)
      PROVE  RegistryInv'
  BY <1>19 DEF sendWake, Send, ctxVars, redisVars, backendVars, connVars
<1>20. CASE checkOffline
  BY <1>20 DEF checkOffline, Idle, ctxVars, redisVars, backendVars, connVars
<1>21. CASE DropKey
  BY <1>21 DEF DropKey, ctxVars, redisVars, backendVars, connVars
<1>22. ASSUME NEW s \in Sessions, Receive(s)
      PROVE  RegistryInv'
  BY <1>22 DEF Receive, ctxVars, redisVars, backendVars, connVars
<1>23. ASSUME NEW s \in Sessions, PeerReset(s)
      PROVE  RegistryInv'
  BY <1>23 DEF PeerReset, ctxVars, redisVars, backendVars, connVars
<1>24. CASE TimePasses
  BY <1>24 DEF TimePasses, ctxVars, redisVars, backendVars, connVars
<1>25. CASE UNCHANGED vars
  BY <1>25 DEF vars, ctxVars, redisVars, backendVars, connVars
<1> QED
  BY <1>1, <1>2, <1>3, <1>4, <1>5, <1>6, <1>7, <1>8, <1>9, <1>10, <1>11, <1>12, <1>13, <1>14, <1>15, <1>16, <1>17, <1>18, <1>19, <1>20, <1>21, <1>22, <1>23, <1>24, <1>25
  DEF Next, Continue, ReadHandler, HandleMessage, WriteHandler

------------------------------------------------------------------------------
(* The inductive invariant holds in every reachable state.                   *)
THEOREM Invariance == Spec => []IInv
<1>1. IInv /\ [Next]_vars => IInv'
  <2> SUFFICES ASSUME IInv, [Next]_vars PROVE IInv'
    OBVIOUS
  <2>1. TypeOK /\ ChainInv /\ RegistryInv
    BY DEF IInv, ChainInv, RegistryInv
  <2>2. TypeOK' /\ ChainInv' /\ RegistryInv'
    BY <2>1, TypeStep, ChainStep, RegistryStep
  <2> QED BY <2>2 DEF IInv, ChainInv, RegistryInv
<1> QED BY <1>1, InitIInv, PTL DEF Spec

(* Maps, backends and chains always have their types.                        *)
THEOREM TypeCorrect == Spec => []TypeOK
<1>1. IInv => TypeOK
  BY DEF IInv
<1> QED BY <1>1, Invariance, PTL

(* No interleaving of registerOnlineState, handleDisconnect, checkOffline    *)
(* and sendWake leaves a session registered for an offline device.           *)
THEOREM RegisteredDevicesOnline == Spec => []RegisteredIsOnline
<1>1. IInv => RegisteredIsOnline
  BY DEF IInv
<1> QED BY <1>1, Invariance, PTL

(* What host_sleep and host_state store under the empty id stays without     *)
(* effect on sessions, Redis and MQTT.                                       *)
THEOREM AnonymousStaysOut == Spec => []AnonymousIsNoDevice
<1>1. IInv => AnonymousIsNoDevice
  BY DEF IInv
<1> QED BY <1>1, Invariance, PTL

(* closing_ admits one chain of a session to the cleanup.                    *)
THEOREM CleanupIsExclusive == Spec => []OneCleanup
<1>1. IInv => OneCleanup
  BY DEF IInv
<1> QED BY <1>1, Invariance, PTL

(* No session is destroyed with its socket open, whichever of handleDisconnect*)
(* and close() ended it, and whichever chain lost the race for closing_.     *)
THEOREM NoSocketLeak == Spec => []EndedIsClosed
<1>1. IInv => EndedIsClosed
  BY DEF IInv, EndedReader, EndedIsClosed, Expired, OffSteps
<1> QED BY <1>1, Invariance, PTL

------------------------------------------------------------------------------
(* One io worker.  What the single handler under way still owes: each fact   *)
(* about a device that holds between two handlers may be broken only while   *)
(* the handler that restores it is at one of its own steps.                  *)
Mid(s) == MidRead(s) \/ MidWrite(s)

OneHandler ==
  /\ \A s, t \in Sessions : Mid(s) /\ Mid(t) => s = t
  /\ \A s \in Sessions : ~(MidRead(s) /\ MidWrite(s))
  /\ dropping # {} => \A s \in Sessions : ~Mid(s)

(* A handler of device i has reached the given step.                         *)
ReaderAt(i, step)  == \E s \in Sessions : reader[s] = step /\ dev[s] = i
CleanupAt(i, step) ==
  \E s \in Sessions : (reader[s] = step \/ writer[s] = step) /\ dev[s] = i

(* A key outlives online only until setOffline or checkOffline's loop.       *)
KeyOwed ==
  \A i \in Ids : HasKey(i) => online[i] \/ i \in dropping \/ CleanupAt(i, "del")

(* The TTL runs out no earlier than the idle timeout: it is refreshed after  *)
(* the heartbeat's time stamp.                                               *)
FreshOwed ==
  \A i \in Ids : online[i] => redis_ttl[i] + age[i] >= IdleTimeout \/ ReaderAt(i, "redis")

AgreeOwed ==
  \A i \in Ids : HasKey(i) => mqtt[i] = redis_dev[i] \/ ReaderAt(i, "mqtt")

PublishOwed ==
  \A i \in Ids :
    online[i] => mqtt[i] \in DevStates \/ ReaderAt(i, "redis") \/ ReaderAt(i, "mqtt")

(* Nobody undoes, between two of its steps, what the handler has done.       *)
HandlerHolds ==
  \A s \in Sessions :
    /\ reader[s] \in {"redis", "mqtt"} => online[dev[s]]
    /\ reader[s] = "mqtt" => redis_dev[dev[s]] = copy[s]
    /\ reader[s] \in OffSteps \/ writer[s] \in OffSteps => ~online[dev[s]]
    /\ reader[s] = "pub" \/ writer[s] = "pub" => ~HasKey(dev[s])

DroppedIsOffline == \A i \in dropping : ~online[i]

Owed == 
  /\ KeyOwed /\ FreshOwed /\ AgreeOwed /\ PublishOwed
  /\ HandlerHolds /\ DroppedIsOffline

(* With one worker a handler starts only when none is under way.             *)
LEMMA SoleWorker ==
  ASSUME OneHandler, Workers = 1, CanRun
  PROVE  Quiet
<1> DEFINE R == {s \in Sessions : MidRead(s)}
           W == {s \in Sessions : MidWrite(s)}
<1>1. Cardinality(R) \in Nat /\ (Cardinality(R) = 0 => R = {})
  <2>1. R = {} \/ \E x \in Sessions : R = {x}
    BY DEF OneHandler, Mid
  <2>2. IsFiniteSet(R)
    BY <2>1, FS_EmptySet, FS_Singleton
  <2> QED BY <2>2, FS_CardinalityType, FS_EmptySet
<1>2. Cardinality(W) \in Nat /\ (Cardinality(W) = 0 => W = {})
  <2>1. W = {} \/ \E x \in Sessions : W = {x}
    BY DEF OneHandler, Mid
  <2>2. IsFiniteSet(W)
    BY <2>1, FS_EmptySet, FS_Singleton
  <2> QED BY <2>2, FS_CardinalityType, FS_EmptySet
<1>3. Cardinality(R) + Cardinality(W) + (IF dropping = {} THEN 0 ELSE 1) < 1
  BY DEF CanRun
<1> HIDE DEF R, W
<1>4. Cardinality(R) = 0 /\ Cardinality(W) = 0 /\ dropping = {}
  BY <1>1, <1>2, <1>3
<1> QED BY <1>1, <1>2, <1>4 DEF Quiet, R, W

(* A step that starts no handler and moves none keeps what is owed.          *)
LEMMA Undisturbed ==
  ASSUME Owed, OneHandler,
         UNCHANGED <<online, age, backendVars, dev, copy, dropping>>,
         \A s \in Sessions : /\ reader'[s] = reader[s] \/ (~MidRead(s) /\ ~MidRead(s)')
                             /\ writer'[s] = writer[s] \/ (~MidWrite(s) /\ ~MidWrite(s)')
  PROVE  Owed' /\ OneHandler'
<1> USE DEF MidRead, MidWrite, OffSteps, backendVars, redisVars
<1>1. OneHandler'
  BY DEF OneHandler, Mid
<1>2. \A i \in Ids : /\ ReaderAt(i, "redis")' <=> ReaderAt(i, "redis")
                     /\ ReaderAt(i, "mqtt")' <=> ReaderAt(i, "mqtt")
                     /\ CleanupAt(i, "del")' <=> CleanupAt(i, "del")
  BY DEF ReaderAt, CleanupAt
<1>3. KeyOwed' /\ FreshOwed' /\ AgreeOwed' /\ PublishOwed'
  BY <1>2 DEF Owed, KeyOwed, FreshOwed, AgreeOwed, PublishOwed, HasKey
<1>4. HandlerHolds' /\ DroppedIsOffline'
  BY DEF Owed, HandlerHolds, DroppedIsOffline, HasKey
<1> QED BY <1>1, <1>3, <1>4 DEF Owed

(* The one handler under way is that of s.                                   *)
LEMMA SoleHandler ==
  ASSUME OneHandler, NEW s \in Sessions, Mid(s)
  PROVE  /\ dropping = {}
         /\ \A t \in Sessions : t # s => ~MidRead(t) /\ ~MidWrite(t)
         /\ MidRead(s) => ~MidWrite(s)
BY DEF OneHandler, Mid

(* Every step leaves at most one handler under way.                          *)
LEMMA OneHandlerStep ==
  ASSUME TypeOK, OneHandler, Workers = 1, [Next]_vars
  PROVE  OneHandler'
<1> USE DEF TypeOK, Mid, MidRead, MidWrite, OffSteps
<1>1. ASSUME NEW s \in Sessions, Accept(s)
      PROVE  OneHandler'
  <2>1. Quiet
    BY <1>1, SoleWorker DEF Accept
  <2> QED BY <1>1, <2>1 DEF OneHandler, Quiet, Accept, connVars
<1>2. ASSUME NEW s \in Sessions, readAutoDetect(s)
      PROVE  OneHandler'
  <2>1. Quiet
    BY <1>2, SoleWorker DEF readAutoDetect
  <2> QED BY <1>2, <2>1 DEF OneHandler, Quiet, readAutoDetect, connVars
<1>3. ASSUME NEW s \in Sessions, NEW d \in Devices, NEW v \in DevStates, Login(s, d, v)
      PROVE  OneHandler'
  <2>1. Quiet
    BY <1>3, SoleWorker DEF Login, Message
  <2> QED BY <1>3, <2>1 DEF OneHandler, Quiet, Login, Message, connVars
<1>4. ASSUME NEW s \in Sessions, registerOnlineState(s)
      PROVE  OneHandler'
  BY <1>4 DEF OneHandler, registerOnlineState, connVars
<1>5. ASSUME NEW s \in Sessions, NEW v \in DevStates, Heartbeat(s, v)
      PROVE  OneHandler'
  <2>1. Quiet
    BY <1>5, SoleWorker DEF Heartbeat, Message
  <2> QED BY <1>5, <2>1 DEF OneHandler, Quiet, Heartbeat, Message, connVars
<1>6. ASSUME NEW s \in Sessions, updateRedisOnline(s)
      PROVE  OneHandler'
  BY <1>6 DEF OneHandler, updateRedisOnline, UpdateRedis, connVars
<1>7. ASSUME NEW s \in Sessions, publishDeviceState(s)
      PROVE  OneHandler'
  BY <1>7 DEF OneHandler, publishDeviceState, Send, connVars
<1>8. ASSUME NEW s \in Sessions, NEW v \in DevStates, HostState(s, v)
      PROVE  OneHandler'
  <2>1. Quiet
    BY <1>8, SoleWorker DEF HostState, Message
  <2> QED BY <1>8, <2>1 DEF OneHandler, Quiet, HostState, Message, Send, connVars
<1>9. ASSUME NEW s \in Sessions, OtherMessage(s)
      PROVE  OneHandler'
  <2>1. Quiet
    BY <1>9, SoleWorker DEF OtherMessage, Message
  <2> QED BY <1>9, <2>1 DEF OneHandler, Quiet, OtherMessage, Message, Send, connVars
<1>10. ASSUME NEW s \in Sessions, RefusedFrame(s)
      PROVE  OneHandler'
  <2>1. Quiet
    BY <1>10, SoleWorker DEF RefusedFrame, Message
  <2> QED BY <1>10, <2>1 DEF OneHandler, Quiet, RefusedFrame, Message, connVars
<1>11. ASSUME NEW s \in Sessions, BadVersion(s)
      PROVE  OneHandler'
  <2>1. Quiet
    BY <1>11, SoleWorker DEF BadVersion, Message
  <2> QED BY <1>11, <2>1 DEF OneHandler, Quiet, BadVersion, Message, connVars
<1>12. ASSUME NEW s \in Sessions, ReadError(s)
      PROVE  OneHandler'
  <2>1. Quiet
    BY <1>12, SoleWorker DEF ReadError
  <2> QED BY <1>12, <2>1 DEF OneHandler, Quiet, ReadError, AfterDisconnect, handleDisconnect, connVars
<1>13. ASSUME NEW s \in Sessions, ReaderRedisOffline(s)
      PROVE  OneHandler'
  BY <1>13 DEF OneHandler, ReaderRedisOffline, RedisOffline, connVars
<1>14. ASSUME NEW s \in Sessions, ReaderPublishOffline(s)
      PROVE  OneHandler'
  BY <1>14 DEF OneHandler, ReaderPublishOffline, PublishOffline, connVars
<1>15. ASSUME NEW s \in Sessions, WriteDone(s)
      PROVE  OneHandler'
  <2>1. Quiet
    BY <1>15, SoleWorker DEF WriteDone
  <2> QED BY <1>15, <2>1 DEF OneHandler, Quiet, WriteDone, connVars
<1>16. ASSUME NEW s \in Sessions, WriteError(s)
      PROVE  OneHandler'
  <2>1. Quiet
    BY <1>16, SoleWorker DEF WriteError
  <2> QED BY <1>16, <2>1 DEF OneHandler, Quiet, WriteError, AfterDisconnect, handleDisconnect, connVars
<1>17. ASSUME NEW s \in Sessions, WriterRedisOffline(s)
      PROVE  OneHandler'
  BY <1>17 DEF OneHandler, WriterRedisOffline, RedisOffline, connVars
<1>18. ASSUME NEW s \in Sessions, WriterPublishOffline(s)
      PROVE  OneHandler'
  BY <1>18 DEF OneHandler, WriterPublishOffline, PublishOffline, connVars
<1>19. ASSUME NEW d \in Devices, sendWake(d)
      PROVE  OneHandler'
  <2>1. Quiet
    BY <1>19, SoleWorker DEF sendWake
  <2> QED BY <1>19, <2>1 DEF OneHandler, Quiet, sendWake, Send, connVars
<1>20. ASSUME checkOffline
      PROVE  OneHandler'
  <2>1. Quiet
    BY <1>20, SoleWorker DEF checkOffline
  <2> QED BY <1>20, <2>1 DEF OneHandler, Quiet, checkOffline, connVars
<1>21. ASSUME DropKey
      PROVE  OneHandler'
  BY <1>21 DEF OneHandler, DropKey, connVars
<1>22. ASSUME NEW s \in Sessions, Receive(s)
      PROVE  OneHandler'
  BY <1>22 DEF OneHandler, Receive, connVars
<1>23. ASSUME NEW s \in Sessions, PeerReset(s)
      PROVE  OneHandler'
  BY <1>23 DEF OneHandler, PeerReset, connVars
<1>24. ASSUME TimePasses
      PROVE  OneHandler'
  BY <1>24 DEF OneHandler, TimePasses, connVars
<1>25. ASSUME UNCHANGED vars
      PROVE  OneHandler'
  BY <1>25 DEF OneHandler, vars, connVars
<1> QED
  BY <1>1, <1>2, <1>3, <1>4, <1>5, <1>6, <1>7, <1>8, <1>9, <1>10, <1>11, <1>12, <1>13, <1>14, <1>15, <1>16, <1>17, <1>18, <1>19, <1>20, <1>21, <1>22, <1>23, <1>24, <1>25
  DEF Next, Continue, ReadHandler, HandleMessage, WriteHandler

(* Every step keeps what the handler under way owes.                         *)
LEMMA OwedStep ==
  ASSUME TypeOK, OneHandler, Owed, Workers = 1, [Next]_vars
  PROVE  Owed'
<1> USE DEF TypeOK, MidRead, MidWrite, OffSteps, ctxVars, backendVars, redisVars, connVars
<1>1. ASSUME NEW s \in Sessions, Accept(s)
      PROVE  Owed'
  BY <1>1, Undisturbed DEF Accept
<1>2. ASSUME NEW s \in Sessions, readAutoDetect(s)
      PROVE  Owed'
  BY <1>2, Undisturbed DEF readAutoDetect
<1>3. ASSUME NEW s \in Sessions, NEW d \in Devices, NEW v \in DevStates, Login(s, d, v)
      PROVE  Owed'
  <2>1. Quiet
    BY <1>3, SoleWorker DEF Login, Message
  <2>2. KeyOwed'
    BY <1>3, <2>1 DEF Owed, KeyOwed, HandlerHolds, DroppedIsOffline, CleanupAt, HasKey, Mid, OneHandler, Quiet, Login, Message
  <2>3. FreshOwed'
    BY <1>3, <2>1 DEF Owed, FreshOwed, HandlerHolds, DroppedIsOffline, ReaderAt, HasKey, Mid, OneHandler, Quiet, Login, Message
  <2>4. AgreeOwed'
    BY <1>3, <2>1 DEF Owed, AgreeOwed, HandlerHolds, DroppedIsOffline, ReaderAt, HasKey, Mid, OneHandler, Quiet, Login, Message
  <2>5. PublishOwed'
    BY <1>3, <2>1 DEF Owed, PublishOwed, HandlerHolds, DroppedIsOffline, ReaderAt, HasKey, Mid, OneHandler, Quiet, Login, Message
  <2>6. HandlerHolds' /\ DroppedIsOffline'
    BY <1>3, <2>1 DEF Owed, HandlerHolds, DroppedIsOffline, HasKey, Mid, OneHandler, Quiet, Login, Message
  <2> QED BY <2>2, <2>3, <2>4, <2>5, <2>6 DEF Owed
<1>4. ASSUME NEW s \in Sessions, registerOnlineState(s)
      PROVE  Owed'
  <2>1. dropping = {} /\ \A t \in Sessions : t # s => ~MidRead(t) /\ ~MidWrite(t)
    BY <1>4, SoleHandler DEF Mid, registerOnlineState
  <2>2. KeyOwed'
    BY <1>4, <2>1 DEF Owed, KeyOwed, HandlerHolds, DroppedIsOffline, CleanupAt, HasKey, Mid, OneHandler, registerOnlineState
  <2>3. FreshOwed'
    BY <1>4, <2>1 DEF Owed, FreshOwed, HandlerHolds, DroppedIsOffline, ReaderAt, HasKey, Mid, OneHandler, registerOnlineState
  <2>4. AgreeOwed'
    BY <1>4, <2>1 DEF Owed, AgreeOwed, HandlerHolds, DroppedIsOffline, ReaderAt, HasKey, Mid, OneHandler, registerOnlineState
  <2>5. PublishOwed'
    BY <1>4, <2>1 DEF Owed, PublishOwed, HandlerHolds, DroppedIsOffline, ReaderAt, HasKey, Mid, OneHandler, registerOnlineState
  <2>6. HandlerHolds' /\ DroppedIsOffline'
    BY <1>4, <2>1 DEF Owed, HandlerHolds, DroppedIsOffline, HasKey, Mid, OneHandler, registerOnlineState
  <2> QED BY <2>2, <2>3, <2>4, <2>5, <2>6 DEF Owed
<1>5. ASSUME NEW s \in Sessions, NEW v \in DevStates, Heartbeat(s, v)
      PROVE  Owed'
  <2>1. Quiet
    BY <1>5, SoleWorker DEF Heartbeat, Message
  <2>2. KeyOwed'
    BY <1>5, <2>1 DEF Owed, KeyOwed, HandlerHolds, DroppedIsOffline, CleanupAt, HasKey, Mid, OneHandler, Quiet, Heartbeat, Message
  <2>3. FreshOwed'
    BY <1>5, <2>1 DEF Owed, FreshOwed, HandlerHolds, DroppedIsOffline, ReaderAt, HasKey, Mid, OneHandler, Quiet, Heartbeat, Message
  <2>4. AgreeOwed'
    BY <1>5, <2>1 DEF Owed, AgreeOwed, HandlerHolds, DroppedIsOffline, ReaderAt, HasKey, Mid, OneHandler, Quiet, Heartbeat, Message
  <2>5. PublishOwed'
    BY <1>5, <2>1 DEF Owed, PublishOwed, HandlerHolds, DroppedIsOffline, ReaderAt, HasKey, Mid, OneHandler, Quiet, Heartbeat, Message
  <2>6. HandlerHolds' /\ DroppedIsOffline'
    BY <1>5, <2>1 DEF Owed, HandlerHolds, DroppedIsOffline, HasKey, Mid, OneHandler, Quiet, Heartbeat, Message
  <2> QED BY <2>2, <2>3, <2>4, <2>5, <2>6 DEF Owed
<1>6. ASSUME NEW s \in Sessions, updateRedisOnline(s)
      PROVE  Owed'
  <2>1. dropping = {} /\ \A t \in Sessions : t # s => ~MidRead(t) /\ ~MidWrite(t)
    BY <1>6, SoleHandler DEF Mid, updateRedisOnline, UpdateRedis
  <2>2. KeyOwed'
    BY <1>6, <2>1 DEF Owed, KeyOwed, HandlerHolds, DroppedIsOffline, CleanupAt, HasKey, Mid, OneHandler, updateRedisOnline, UpdateRedis
  <2>3. FreshOwed'
    <3> SUFFICES ASSUME NEW i \in Ids, online[i], i # dev[s]
                 PROVE  redis_ttl[i] + age[i] >= IdleTimeout
      BY <1>6, IdleTimeoutAssumption DEF FreshOwed, updateRedisOnline, UpdateRedis
    <3>1. ~ReaderAt(i, "redis")
      BY <1>6, <2>1 DEF ReaderAt, updateRedisOnline, UpdateRedis
    <3> QED BY <3>1 DEF Owed, FreshOwed
  <2>4. AgreeOwed'
    BY <1>6, <2>1 DEF Owed, AgreeOwed, HandlerHolds, DroppedIsOffline, ReaderAt, HasKey, Mid, OneHandler, updateRedisOnline, UpdateRedis
  <2>5. PublishOwed'
    BY <1>6, <2>1 DEF Owed, PublishOwed, HandlerHolds, DroppedIsOffline, ReaderAt, HasKey, Mid, OneHandler, updateRedisOnline, UpdateRedis
  <2>6. HandlerHolds' /\ DroppedIsOffline'
    BY <1>6, <2>1 DEF Owed, HandlerHolds, DroppedIsOffline, HasKey, Mid, OneHandler, updateRedisOnline, UpdateRedis
  <2> QED BY <2>2, <2>3, <2>4, <2>5, <2>6 DEF Owed
<1>7. ASSUME NEW s \in Sessions, publishDeviceState(s)
      PROVE  Owed'
  <2>1. dropping = {} /\ \A t \in Sessions : t # s => ~MidRead(t) /\ ~MidWrite(t)
    BY <1>7, SoleHandler DEF Mid, publishDeviceState
  <2>2. KeyOwed'
    BY <1>7, <2>1 DEF Owed, KeyOwed, HandlerHolds, DroppedIsOffline, CleanupAt, HasKey, Mid, OneHandler, publishDeviceState, Send
  <2>3. FreshOwed'
    BY <1>7, <2>1 DEF Owed, FreshOwed, HandlerHolds, DroppedIsOffline, ReaderAt, HasKey, Mid, OneHandler, publishDeviceState, Send
  <2>4. AgreeOwed'
    BY <1>7, <2>1 DEF Owed, AgreeOwed, HandlerHolds, DroppedIsOffline, ReaderAt, HasKey, Mid, OneHandler, publishDeviceState, Send
  <2>5. PublishOwed'
    BY <1>7, <2>1 DEF Owed, PublishOwed, HandlerHolds, DroppedIsOffline, ReaderAt, HasKey, Mid, OneHandler, publishDeviceState, Send
  <2>6. HandlerHolds' /\ DroppedIsOffline'
    BY <1>7, <2>1 DEF Owed, HandlerHolds, DroppedIsOffline, HasKey, Mid, OneHandler, publishDeviceState, Send
  <2> QED BY <2>2, <2>3, <2>4, <2>5, <2>6 DEF Owed
<1>8. ASSUME NEW s \in Sessions, NEW v \in DevStates, HostState(s, v)
      PROVE  Owed'
  BY <1>8, Undisturbed DEF HostState, Message, Send
<1>9. ASSUME NEW s \in Sessions, OtherMessage(s)
      PROVE  Owed'
  BY <1>9, Undisturbed DEF OtherMessage, Message, Send
<1>10. ASSUME NEW s \in Sessions, RefusedFrame(s)
      PROVE  Owed'
  BY <1>10, Undisturbed DEF RefusedFrame, Message
<1>11. ASSUME NEW s \in Sessions, BadVersion(s)
      PROVE  Owed'
  BY <1>11, Undisturbed DEF BadVersion, Message
<1>12. ASSUME NEW s \in Sessions, ReadError(s)
      PROVE  Owed'
  <2>1. Quiet
    BY <1>12, SoleWorker DEF ReadError
  <2>2. KeyOwed'
    BY <1>12, <2>1 DEF Owed, KeyOwed, HandlerHolds, DroppedIsOffline, CleanupAt, HasKey, Mid, OneHandler, Quiet, ReadError, AfterDisconnect, handleDisconnect, DisconnectContext
  <2>3. FreshOwed'
    BY <1>12, <2>1 DEF Owed, FreshOwed, HandlerHolds, DroppedIsOffline, ReaderAt, HasKey, Mid, OneHandler, Quiet, ReadError, AfterDisconnect, handleDisconnect, DisconnectContext
  <2>4. AgreeOwed'
    BY <1>12, <2>1 DEF Owed, AgreeOwed, HandlerHolds, DroppedIsOffline, ReaderAt, HasKey, Mid, OneHandler, Quiet, ReadError, AfterDisconnect, handleDisconnect, DisconnectContext
  <2>5. PublishOwed'
    <3>1. \A i \in Ids : online[i] => mqtt[i] \in DevStates
      BY <2>1 DEF Owed, PublishOwed, ReaderAt, Quiet
    <3>2. mqtt' = mqtt /\ \A i \in Ids : online'[i] => online[i]
      BY <1>12 DEF ReadError, handleDisconnect, DisconnectContext
    <3> QED BY <3>1, <3>2 DEF PublishOwed
  <2>6. HandlerHolds' /\ DroppedIsOffline'
    BY <1>12, <2>1 DEF Owed, HandlerHolds, DroppedIsOffline, HasKey, Mid, OneHandler, Quiet, ReadError, AfterDisconnect, handleDisconnect, DisconnectContext
  <2> QED BY <2>2, <2>3, <2>4, <2>5, <2>6 DEF Owed
<1>13. ASSUME NEW s \in Sessions, ReaderRedisOffline(s)
      PROVE  Owed'
  <2>1. dropping = {} /\ \A t \in Sessions : t # s => ~MidRead(t) /\ ~MidWrite(t)
    BY <1>13, SoleHandler DEF Mid, ReaderRedisOffline
  <2>2. KeyOwed'
    BY <1>13, <2>1 DEF Owed, KeyOwed, HandlerHolds, DroppedIsOffline, CleanupAt, HasKey, Mid, OneHandler, ReaderRedisOffline, RedisOffline
  <2>3. FreshOwed'
    BY <1>13, <2>1 DEF Owed, FreshOwed, HandlerHolds, DroppedIsOffline, ReaderAt, HasKey, Mid, OneHandler, ReaderRedisOffline, RedisOffline
  <2>4. AgreeOwed'
    BY <1>13, <2>1 DEF Owed, AgreeOwed, HandlerHolds, DroppedIsOffline, ReaderAt, HasKey, Mid, OneHandler, ReaderRedisOffline, RedisOffline
  <2>5. PublishOwed'
    BY <1>13, <2>1 DEF Owed, PublishOwed, HandlerHolds, DroppedIsOffline, ReaderAt, HasKey, Mid, OneHandler, ReaderRedisOffline, RedisOffline
  <2>6. HandlerHolds' /\ DroppedIsOffline'
    BY <1>13, <2>1 DEF Owed, HandlerHolds, DroppedIsOffline, HasKey, Mid, OneHandler, ReaderRedisOffline, RedisOffline
  <2> QED BY <2>2, <2>3, <2>4, <2>5, <2>6 DEF Owed
<1>14. ASSUME NEW s \in Sessions, ReaderPublishOffline(s)
      PROVE  Owed'
  <2>1. dropping = {} /\ \A t \in Sessions : t # s => ~MidRead(t) /\ ~MidWrite(t)
    BY <1>14, SoleHandler DEF Mid, ReaderPublishOffline
  <2>2. KeyOwed'
    BY <1>14, <2>1 DEF Owed, KeyOwed, HandlerHolds, DroppedIsOffline, CleanupAt, HasKey, Mid, OneHandler, ReaderPublishOffline, PublishOffline
  <2>3. FreshOwed'
    BY <1>14, <2>1 DEF Owed, FreshOwed, HandlerHolds, DroppedIsOffline, ReaderAt, HasKey, Mid, OneHandler, ReaderPublishOffline, PublishOffline
  <2>4. AgreeOwed'
    BY <1>14, <2>1 DEF Owed, AgreeOwed, HandlerHolds, DroppedIsOffline, ReaderAt, HasKey, Mid, OneHandler, ReaderPublishOffline, PublishOffline
  <2>5. PublishOwed'
    BY <1>14, <2>1 DEF Owed, PublishOwed, HandlerHolds, DroppedIsOffline, ReaderAt, HasKey, Mid, OneHandler, ReaderPublishOffline, PublishOffline
  <2>6. HandlerHolds' /\ DroppedIsOffline'
    BY <1>14, <2>1 DEF Owed, HandlerHolds, DroppedIsOffline, HasKey, Mid, OneHandler, ReaderPublishOffline, PublishOffline
  <2> QED BY <2>2, <2>3, <2>4, <2>5, <2>6 DEF Owed
<1>15. ASSUME NEW s \in Sessions, WriteDone(s)
      PROVE  Owed'
  BY <1>15, Undisturbed DEF WriteDone
<1>16. ASSUME NEW s \in Sessions, WriteError(s)
      PROVE  Owed'
  <2>1. Quiet
    BY <1>16, SoleWorker DEF WriteError
  <2>2. KeyOwed'
    BY <1>16, <2>1 DEF Owed, KeyOwed, HandlerHolds, DroppedIsOffline, CleanupAt, HasKey, Mid, OneHandler, Quiet, WriteError, AfterDisconnect, handleDisconnect, DisconnectContext
  <2>3. FreshOwed'
    BY <1>16, <2>1 DEF Owed, FreshOwed, HandlerHolds, DroppedIsOffline, ReaderAt, HasKey, Mid, OneHandler, Quiet, WriteError, AfterDisconnect, handleDisconnect, DisconnectContext
  <2>4. AgreeOwed'
    BY <1>16, <2>1 DEF Owed, AgreeOwed, HandlerHolds, DroppedIsOffline, ReaderAt, HasKey, Mid, OneHandler, Quiet, WriteError, AfterDisconnect, handleDisconnect, DisconnectContext
  <2>5. PublishOwed'
    <3>1. \A i \in Ids : online[i] => mqtt[i] \in DevStates
      BY <2>1 DEF Owed, PublishOwed, ReaderAt, Quiet
    <3>2. mqtt' = mqtt /\ \A i \in Ids : online'[i] => online[i]
      BY <1>16 DEF WriteError, handleDisconnect, DisconnectContext
    <3> QED BY <3>1, <3>2 DEF PublishOwed
  <2>6. HandlerHolds' /\ DroppedIsOffline'
    BY <1>16, <2>1 DEF Owed, HandlerHolds, DroppedIsOffline, HasKey, Mid, OneHandler, Quiet, WriteError, AfterDisconnect, handleDisconnect, DisconnectContext
  <2> QED BY <2>2, <2>3, <2>4, <2>5, <2>6 DEF Owed
<1>17. ASSUME NEW s \in Sessions, WriterRedisOffline(s)
      PROVE  Owed'
  <2>1. dropping = {} /\ \A t \in Sessions : t # s => ~MidRead(t) /\ ~MidWrite(t)
    BY <1>17, SoleHandler DEF Mid, WriterRedisOffline
  <2>2. KeyOwed'
    BY <1>17, <2>1 DEF Owed, KeyOwed, HandlerHolds, DroppedIsOffline, CleanupAt, HasKey, Mid, OneHandler, WriterRedisOffline, RedisOffline
  <2>3. FreshOwed'
    BY <1>17, <2>1 DEF Owed, FreshOwed, HandlerHolds, DroppedIsOffline, ReaderAt, HasKey, Mid, OneHandler, WriterRedisOffline, RedisOffline
  <2>4. AgreeOwed'
    BY <1>17, <2>1 DEF Owed, AgreeOwed, HandlerHolds, DroppedIsOffline, ReaderAt, HasKey, Mid, OneHandler, WriterRedisOffline, RedisOffline
  <2>5. PublishOwed'
    BY <1>17, <2>1 DEF Owed, PublishOwed, HandlerHolds, DroppedIsOffline, ReaderAt, HasKey, Mid, OneHandler, WriterRedisOffline, RedisOffline
  <2>6. HandlerHolds' /\ DroppedIsOffline'
    BY <1>17, <2>1 DEF Owed, HandlerHolds, DroppedIsOffline, HasKey, Mid, OneHandler, WriterRedisOffline, RedisOffline
  <2> QED BY <2>2, <2>3, <2>4, <2>5, <2>6 DEF Owed
<1>18. ASSUME NEW s \in Sessions, WriterPublishOffline(s)
      PROVE  Owed'
  <2>1. dropping = {} /\ \A t \in Sessions : t # s => ~MidRead(t) /\ ~MidWrite(t)
    BY <1>18, SoleHandler DEF Mid, WriterPublishOffline
  <2>2. KeyOwed'
    BY <1>18, <2>1 DEF Owed, KeyOwed, HandlerHolds, DroppedIsOffline, CleanupAt, HasKey, Mid, OneHandler, WriterPublishOffline, PublishOffline
  <2>3. FreshOwed'
    BY <1>18, <2>1 DEF Owed, FreshOwed, HandlerHolds, DroppedIsOffline, ReaderAt, HasKey, Mid, OneHandler, WriterPublishOffline, PublishOffline
  <2>4. AgreeOwed'
    BY <1>18, <2>1 DEF Owed, AgreeOwed, HandlerHolds, DroppedIsOffline, ReaderAt, HasKey, Mid, OneHandler, WriterPublishOffline, PublishOffline
  <2>5. PublishOwed'
    BY <1>18, <2>1 DEF Owed, PublishOwed, HandlerHolds, DroppedIsOffline, ReaderAt, HasKey, Mid, OneHandler, WriterPublishOffline, PublishOffline
  <2>6. HandlerHolds' /\ DroppedIsOffline'
    BY <1>18, <2>1 DEF Owed, HandlerHolds, DroppedIsOffline, HasKey, Mid, OneHandler, WriterPublishOffline, PublishOffline
  <2> QED BY <2>2, <2>3, <2>4, <2>5, <2>6 DEF Owed
<1>19. ASSUME NEW d \in Devices, sendWake(d)
      PROVE  Owed'
  BY <1>19, Undisturbed DEF sendWake, Send
<1>20. ASSUME checkOffline
      PROVE  Owed'
  <2>1. Quiet
    BY <1>20, SoleWorker DEF checkOffline
  <2>2. KeyOwed'
    BY <1>20, <2>1 DEF Owed, KeyOwed, HandlerHolds, DroppedIsOffline, CleanupAt, HasKey, Mid, OneHandler, Quiet, checkOffline
  <2>3. FreshOwed'
    BY <1>20, <2>1 DEF Owed, FreshOwed, HandlerHolds, DroppedIsOffline, ReaderAt, HasKey, Mid, OneHandler, Quiet, checkOffline
  <2>4. AgreeOwed'
    BY <1>20, <2>1 DEF Owed, AgreeOwed, HandlerHolds, DroppedIsOffline, ReaderAt, HasKey, Mid, OneHandler, Quiet, checkOffline
  <2>5. PublishOwed'
    BY <1>20, <2>1 DEF Owed, PublishOwed, HandlerHolds, DroppedIsOffline, ReaderAt, HasKey, Mid, OneHandler, Quiet, checkOffline
  <2>6. HandlerHolds' /\ DroppedIsOffline'
    <3>1. HandlerHolds'
      BY <1>20, <2>1 DEF HandlerHolds, Quiet, checkOffline
    <3>2. DroppedIsOffline'
      BY <1>20 DEF DroppedIsOffline, Idle, checkOffline
    <3> QED BY <3>1, <3>2
  <2> QED BY <2>2, <2>3, <2>4, <2>5, <2>6 DEF Owed
<1>21. ASSUME DropKey
      PROVE  Owed'
  <2>1. KeyOwed'
    BY <1>21 DEF Owed, KeyOwed, HandlerHolds, DroppedIsOffline, CleanupAt, HasKey, Mid, OneHandler, DropKey
  <2>2. FreshOwed'
    BY <1>21 DEF Owed, FreshOwed, HandlerHolds, DroppedIsOffline, ReaderAt, HasKey, Mid, OneHandler, DropKey
  <2>3. AgreeOwed'
    BY <1>21 DEF Owed, AgreeOwed, HandlerHolds, DroppedIsOffline, ReaderAt, HasKey, Mid, OneHandler, DropKey
  <2>4. PublishOwed'
    BY <1>21 DEF Owed, PublishOwed, HandlerHolds, DroppedIsOffline, ReaderAt, HasKey, Mid, OneHandler, DropKey
  <2>5. HandlerHolds' /\ DroppedIsOffline'
    BY <1>21 DEF Owed, HandlerHolds, DroppedIsOffline, HasKey, Mid, OneHandler, DropKey
  <2> QED BY <2>1, <2>2, <2>3, <2>4, <2>5 DEF Owed
<1>22. ASSUME NEW s \in Sessions, Receive(s)
      PROVE  Owed'
  BY <1>22, Undisturbed DEF Receive
<1>23. ASSUME NEW s \in Sessions, PeerReset(s)
      PROVE  Owed'
  BY <1>23, Undisturbed DEF PeerReset
<1>24. ASSUME TimePasses
      PROVE  Owed'
  <2>1. KeyOwed'
    BY <1>24 DEF Owed, KeyOwed, HandlerHolds, DroppedIsOffline, CleanupAt, HasKey, Mid, OneHandler, TimePasses
  <2>2. FreshOwed'
    <3> SUFFICES ASSUME NEW i \in Ids, online[i], ~ReaderAt(i, "redis")
                 PROVE  redis_ttl'[i] + age'[i] >= IdleTimeout
      BY <1>24 DEF FreshOwed, ReaderAt, TimePasses
    <3>1. redis_ttl[i] + age[i] >= IdleTimeout
      BY DEF Owed, FreshOwed
    <3>2. /\ redis_ttl'[i] = IF redis_ttl[i] > 0 THEN redis_ttl[i] - 1 ELSE redis_ttl[i]
          /\ age'[i] = IF age[i] <= IdleTimeout THEN age[i] + 1 ELSE age[i]
      BY <1>24 DEF TimePasses
    <3>3. redis_ttl[i] \in 0..IdleTimeout /\ age[i] \in 0..(IdleTimeout + 1)
      OBVIOUS
    <3> QED BY <3>1, <3>2, <3>3, IdleTimeoutAssumption
  <2>3. AgreeOwed'
    BY <1>24 DEF Owed, AgreeOwed, HandlerHolds, DroppedIsOffline, ReaderAt, HasKey, Mid, OneHandler, TimePasses
  <2>4. PublishOwed'
    BY <1>24 DEF Owed, PublishOwed, HandlerHolds, DroppedIsOffline, ReaderAt, HasKey, Mid, OneHandler, TimePasses
  <2>5. HandlerHolds' /\ DroppedIsOffline'
    BY <1>24 DEF Owed, HandlerHolds, DroppedIsOffline, HasKey, Mid, OneHandler, TimePasses
  <2> QED BY <2>1, <2>2, <2>3, <2>4, <2>5 DEF Owed
<1>25. ASSUME UNCHANGED vars
      PROVE  Owed'
  BY <1>25, Undisturbed DEF vars
<1> QED
  BY <1>1, <1>2, <1>3, <1>4, <1>5, <1>6, <1>7, <1>8, <1>9, <1>10, <1>11, <1>12, <1>13, <1>14, <1>15, <1>16, <1>17, <1>18, <1>19, <1>20, <1>21, <1>22, <1>23, <1>24, <1>25
  DEF Next, Continue, ReadHandler, HandleMessage, WriteHandler


(* At the start nobody owes anything.                                        *)
LEMMA InitOwed == Init => OneHandler /\ Owed
<1> SUFFICES ASSUME Init PROVE OneHandler /\ Owed
  OBVIOUS
<1> USE DEF Init
<1>1. OneHandler
  BY DEF OneHandler, Mid, MidRead, MidWrite, OffSteps
<1>2. KeyOwed /\ FreshOwed /\ AgreeOwed /\ PublishOwed
  BY DEF KeyOwed, FreshOwed, AgreeOwed, PublishOwed, HasKey
<1>3. HandlerHolds /\ DroppedIsOffline
  BY DEF HandlerHolds, DroppedIsOffline, OffSteps
<1> QED BY <1>1, <1>2, <1>3 DEF Owed

(* With one io worker, what is broken between two steps of a handler is what *)
(* that handler is about to restore: nothing interleaves with it.            *)
THEOREM OneWorkerInvariance ==
  ASSUME Workers = 1
  PROVE  Spec => [](OneHandler /\ Owed)
<1>1. TypeOK /\ (OneHandler /\ Owed) /\ [Next]_vars => (OneHandler /\ Owed)'
  BY OneHandlerStep, OwedStep
<1> QED BY <1>1, InitOwed, TypeCorrect, PTL DEF Spec

(* Between two handlers of the one worker a device with a Redis key is       *)
(* online: checkOffline and handleDisconnect delete the key of every device  *)
(* they take offline before another handler can run.                         *)
THEOREM KeysAreOfOnlineDevices ==
  ASSUME Workers = 1
  PROVE  Spec => []RedisKeyMeansOnline
<1>1. Owed => RedisKeyMeansOnline
  BY DEF Owed, KeyOwed, RedisKeyMeansOnline, Quiet, CleanupAt, MidRead, MidWrite,
         OffSteps, Ids
<1> QED BY <1>1, OneWorkerInvariance, PTL

(* ... a device that was heard from within the TTL still has its key: SETEX  *)
(* runs after the time stamp of the heartbeat, so the key outlives the age.  *)
THEOREM HeardDevicesHaveKeys ==
  ASSUME Workers = 1
  PROVE  Spec => []FreshDeviceHasKey
<1>1. TypeOK /\ Owed => FreshDeviceHasKey
  <2> SUFFICES ASSUME TypeOK, Owed, Quiet, NEW d \in Devices, online[d], age[d] < IdleTimeout
               PROVE  HasKey(d)
    BY DEF FreshDeviceHasKey
  <2>1. redis_ttl[d] + age[d] >= IdleTimeout
    BY DEF Owed, FreshOwed, Quiet, ReaderAt, MidRead, Ids
  <2>2. redis_ttl[d] \in 0..IdleTimeout /\ age[d] \in 0..(IdleTimeout + 1)
    BY DEF TypeOK, Ids
  <2> QED BY <2>1, <2>2, IdleTimeoutAssumption DEF HasKey
<1> QED BY <1>1, OneWorkerInvariance, TypeCorrect, PTL

(* ... and Redis and MQTT hold the same dev_state for it: both are written   *)
(* from the copy that the handler took.                                      *)
THEOREM BackendsHoldTheSame ==
  ASSUME Workers = 1
  PROVE  Spec => []BackendsAgree
<1>1. Owed => BackendsAgree
  BY DEF Owed, AgreeOwed, BackendsAgree, Quiet, ReaderAt, MidRead, Ids
<1> QED BY <1>1, OneWorkerInvariance, PTL

(* ... and the retained MQTT state of an online device is never "offline":   *)
(* whoever published that has taken the device offline under the mutex.      *)
THEOREM OnlineDevicesArePublished ==
  ASSUME Workers = 1
  PROVE  Spec => []OnlineIsPublished
<1>1. Owed => OnlineIsPublished
  BY DEF Owed, PublishOwed, OnlineIsPublished, Quiet, ReaderAt, MidRead, Ids
<1> QED BY <1>1, OneWorkerInvariance, PTL

==============================================================================
