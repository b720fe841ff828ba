------------------------------ MODULE AuthExchange ------------------------------
(***************************************************************************)
(* How a low-power device proves who it is and is woken later: AUTH_REQ    *)
(* and the end of a connection in DeviceSession, the WAKEUP frame of       *)
(* WakeManager::sendLowPowerWake, the ciphers and signatures of            *)
(* LowPowerProtocol, all on top of RedisStore.  Each handler stops where   *)
(* it waits for Redis, so other handlers, the server, the network and a    *)
(* crash of the gateway come in between.                                   *)
(*                                                                         *)
(* A cipher text is the record of what was encrypted and under which key,  *)
(* a digest the record of its key and text; base64 and JSON lose nothing   *)
(* and are left out.  Decryption under another key fails, with an          *)
(* exception or with text that is no JSON.                                 *)
(***************************************************************************)
EXTENDS RedisStore, Integers

CONSTANTS
  Devices,       \* device ids
  Secrets,       \* local keys, and the default secret of the configuration
  State,         \* a JSON text in Redis
  First16,       \* the first 16 bytes of each string
  Crc32,         \* the CRC-32 of each string
  DefaultSecret, \* dev_default_secret
  DeviceKey,     \* the key each device has in its firmware
  MaxOpen,       \* bound: connections at a time
  MaxFaults,     \* bound: crashes and losses of the connection to Redis
  Owner,         \* the device at the other end of each connection
  InitialData,   \* what Redis may hold when the gateway starts
  MaxRequests,   \* bound: AUTH_REQs per connection
  Sessions,      \* connections
  Backend,       \* the handler of a wake request
  NoSession      \* no entry in ctx_.sessions

ASSUME KeysAssumption ==
  Keys = {"index", "local_key", "online", "pending_wake"} \X Values
ASSUME ValuesAssumption ==
  /\ Devices \cup Secrets \cup {State} \subseteq Values
  /\ DefaultSecret \in Secrets
ASSUME CallersAssumption ==
  Callers = Sessions \cup {Backend} /\ Backend \notin Sessions
ASSUME NoSessionAssumption == NoSession \notin Sessions
ASSUME DeviceKeyAssumption == DeviceKey \in [Devices -> Secrets]
ASSUME OwnerAssumption == Owner \in [Sessions -> Devices]
ASSUME BoundsAssumption == MaxRequests \in Nat /\ MaxOpen \in Nat /\ MaxFaults \in Nat
ASSUME InitialDataAssumption ==
  /\ InitialData \subseteq [Keys -> Values \cup {Nil}]
  /\ \A f \in InitialData : \A k \in {"online", "pending_wake"} \X Values : f[k] = Nil

VARIABLES
  \* the devices
  random,        \* the number of AUTH_REQs on each connection, and the random
                 \* of the last
  got,           \* the AUTH_RESPs it has received
  frames,        \* checksums of the WAKEUP frames it has received
  \* DeviceSession
  conn,          \* "new", "open" or "closed"
  pc,            \* where its handler is: "read" is waiting for a frame
  req,           \* the AuthPayload being handled
  id,            \* the local variable device_id
  local_key,     \* the local variable local_key
  device_id,     \* device_id_, Nil before the login
  registered,    \* ctx_.sessions
  \* WakeManager
  wake,          \* the sendLowPowerWake under way
  \* history
  faults,        \* crashes and losses of the connection to Redis
  rekeyed        \* a local key has been changed while the gateway runs

deviceVars  == <<random, got, frames>>
sessionVars == <<conn, pc, req, id, local_key, device_id, registered>>
vars        == <<redisVars, deviceVars, sessionVars, wake, faults, rekeyed>>

------------------------------------------------------------------------------
(* LowPowerProtocol.                                                         *)
normalizeAes128Key(k) == First16[k]

aes128CbcPkcs7Encrypt(k, plain) == [under |-> normalizeAes128Key(k), plain |-> plain]

(* A set with the plain text, or none.                                       *)
aes128CbcPkcs7Decrypt(k, cipher) ==
  IF cipher.under = normalizeAes128Key(k) THEN {cipher.plain} ELSE {}

hmacSha256Base64(k, text) == [key |-> k, text |-> text]

(* The value of the first item of that name, or none.                        *)
getAuthField(authorization, name) ==
  {authorization[i][2] :
     i \in {j \in DOMAIN authorization :
              /\ authorization[j][1] = name
              /\ \A k \in 1..(j - 1) : authorization[k][1] # name}}

(* A request with its time and random, or none when one is missing.         *)
parseAuthRequestJson(json) ==
  {[time |-> t, random |-> r, signature |-> json.signature] :
     t \in getAuthField(json.authorization, "time"),
     r \in getAuthField(json.authorization, "random")}

(* Mutant: the device id is not part of what is signed.                      *)
verifyAuthRequestAnyId(r, devid, k) ==
  /\ r.signature.key = k
  /\ r.signature.text[2] = r.time /\ r.signature.text[3] = r.random

verifyAuthRequest(r, devid, k) ==
  r.signature = hmacSha256Base64(k, <<devid, r.time, r.random>>)

(* The time and the random of either side are the number of the request.     *)
Authorization(n) == <<<<"time", n>>, <<"random", n>>>>

(* Mutant: the cipher's form of the key is used for the signature too.       *)
buildAuthResponseShortKey(devid, k, n) ==
  [devid |-> aes128CbcPkcs7Encrypt(k, devid),
   data  |-> aes128CbcPkcs7Encrypt(k,
     [random        |-> n,
      authorization |-> Authorization(n),
      signature     |-> hmacSha256Base64(normalizeAes128Key(k), <<devid, n, n>>)])]

buildAuthResponse(devid, k, n) ==
  [devid |-> aes128CbcPkcs7Encrypt(k, devid),
   data  |-> aes128CbcPkcs7Encrypt(k,
     [random        |-> n,
      authorization |-> Authorization(n),
      signature     |-> hmacSha256Base64(k, <<devid, n, n>>)])]

makeWakeupFrame(k) == Crc32[k]

(* External: the n-th AUTH_REQ of device d, complete or without its random.  *)
DeviceRequest(d, n, complete) ==
  [devid |-> d,
   data  |-> aes128CbcPkcs7Encrypt(DeviceKey[d],
     [authorization |-> IF complete THEN Authorization(n) ELSE <<<<"time", n>>>>,
      signature     |-> hmacSha256Base64(DeviceKey[d], <<d, n, n>>)])]

(* External: whether an AUTH_RESP proves to device d that it comes from a    *)
(* gateway with its key and answers its n-th request.                        *)
DeviceAccepts(d, n, response) ==
  /\ d \in aes128CbcPkcs7Decrypt(DeviceKey[d], response.devid)
  /\ \E json \in aes128CbcPkcs7Decrypt(DeviceKey[d], response.data) :
       /\ json.random = n
       /\ \E r \in parseAuthRequestJson(json) : verifyAuthRequest(r, d, DeviceKey[d])

------------------------------------------------------------------------------
(* The commands of RedisStore that the handlers use.                         *)
getDeviceIdByEncryptedId(d) == getRaw(<<"index", d>>)
getLocalKey(d)              == getRaw(<<"local_key", d>>)
setOffline(d)               == delRaw(<<"online", d>>)
savePendingWake(d)          == setex(<<"pending_wake", d>>, State)

(* Mutant: SET in place of SETEX.                                            *)
setOnlineForGood(d) == setRaw(<<"online", d>>, State)

setOnline(d) == setex(<<"online", d>>, State)

NoRequest == [devid |-> Nil]

NoWake == [at |-> "idle"]

Init ==
  /\ RedisInit
  /\ data \in InitialData
  /\ random = [s \in Sessions |-> 0]
  /\ got = [s \in Sessions |-> {}]
  /\ frames = [s \in Sessions |-> {}]
  /\ conn = [s \in Sessions |-> "new"]
  /\ pc = [s \in Sessions |-> "read"]
  /\ req = [s \in Sessions |-> NoRequest]
  /\ id = [s \in Sessions |-> Nil]
  /\ local_key = [s \in Sessions |-> Nil]
  /\ device_id = [s \in Sessions |-> Nil]
  /\ registered = [d \in Devices |-> NoSession]
  /\ wake = NoWake
  /\ faults = 0
  /\ rekeyed = FALSE

------------------------------------------------------------------------------
UnchangedLocals == UNCHANGED <<req, id, local_key>>

Accept(s) ==
  /\ conn[s] = "new"
  /\ Cardinality({r \in Sessions : conn[r] # "new" /\ pc[r] # "ended"}) < MaxOpen
  /\ conn' = [conn EXCEPT ![s] = "open"]
  /\ UnchangedLocals
  /\ UNCHANGED <<redisVars, deviceVars, pc, device_id, registered, wake, faults, rekeyed>>

(* close() in a handler that gives up: the next read fails.                  *)
Refuse(s) ==
  /\ conn' = [conn EXCEPT ![s] = "closed"]
  /\ pc' = [pc EXCEPT ![s] = "read"]
  /\ UnchangedLocals
  /\ UNCHANGED <<redisVars, deviceVars, device_id, registered, wake, faults, rekeyed>>

(* handleLowPowerAuthReq: the lookup of the device id,                       *)
handleLowPowerAuthReq(s, complete) ==
  /\ conn[s] = "open" /\ pc[s] = "read" /\ random[s] < MaxRequests
  /\ random' = [random EXCEPT ![s] = @ + 1]
  /\ req' = [req EXCEPT ![s] = DeviceRequest(Owner[s], random'[s], complete)]
  /\ Call(s, getDeviceIdByEncryptedId(req'[s].devid))
  /\ pc' = [pc EXCEPT ![s] = "index"]
  /\ UNCHANGED <<got, frames, conn, id, local_key, device_id, registered, wake,
                 faults, rekeyed>>

(* the lookup of its key,                                                    *)
UnknownDevice(s) ==
  /\ pc[s] = "index" /\ Idle(s) /\ result[s] = Nil
  /\ Refuse(s)

resolveLocalKey(s) ==
  /\ pc[s] = "index" /\ Idle(s) /\ result[s] # Nil
  /\ id' = [id EXCEPT ![s] = result[s]]
  /\ Call(s, getLocalKey(result[s]))
  /\ pc' = [pc EXCEPT ![s] = "key"]
  /\ UNCHANGED <<deviceVars, conn, req, local_key, device_id, registered, wake, faults, rekeyed>>

(* decryption and verification with the key found, or else the default (an   *)
(* IV that is not of 16 bytes fails like a wrong key),                       *)
FoundKey(s) == IF result[s] = Nil THEN DefaultSecret ELSE result[s]

Verified(s, k) ==
  \E json \in aes128CbcPkcs7Decrypt(k, req[s].data) :
    \E r \in parseAuthRequestJson(json) : verifyAuthRequest(r, id[s], k)

SignatureFailed(s) ==
  /\ pc[s] = "key" /\ Idle(s) /\ ~Verified(s, FoundKey(s))
  /\ Refuse(s)

(* the registration up to setOnline,                                         *)
registerOnlineState(s) ==
  /\ pc[s] = "key" /\ Idle(s) /\ Verified(s, FoundKey(s))
  /\ local_key' = [local_key EXCEPT ![s] = FoundKey(s)]
  /\ device_id' = [device_id EXCEPT ![s] = id[s]]
  /\ registered' = [registered EXCEPT ![id[s]] = s]
  /\ Call(s, setOnline(id[s]))
  /\ pc' = [pc EXCEPT ![s] = "online"]
  /\ UNCHANGED <<deviceVars, conn, req, id, wake, faults, rekeyed>>

(* and the answer, with the random of the request.                           *)
SendAuthResp(s) ==
  /\ pc[s] = "online" /\ Idle(s)
  /\ \E json \in aes128CbcPkcs7Decrypt(local_key[s], req[s].data) :
       \E r \in parseAuthRequestJson(json) :
         got' = IF conn[s] = "open"
                THEN [got EXCEPT ![s] =
                        @ \cup {buildAuthResponse(device_id[s], local_key[s], r.random)}]
                ELSE got
  /\ pc' = [pc EXCEPT ![s] = "read"]
  /\ req' = [req EXCEPT ![s] = NoRequest]
  /\ id' = [id EXCEPT ![s] = Nil]
  /\ local_key' = [local_key EXCEPT ![s] = Nil]
  /\ UNCHANGED <<redisVars, random, frames, conn, device_id, registered, wake, faults, rekeyed>>

(* handleDisconnect after a failed read.                                     *)
handleDisconnect(s) ==
  /\ conn[s] = "closed" /\ pc[s] = "read"
  /\ IF device_id[s] = Nil
     THEN /\ pc' = [pc EXCEPT ![s] = "ended"]
          /\ UNCHANGED <<redisVars, registered>>
     ELSE /\ registered' = [registered EXCEPT ![device_id[s]] = NoSession]
          /\ Call(s, setOffline(device_id[s]))
          /\ pc' = [pc EXCEPT ![s] = "offline"]
  /\ UnchangedLocals
  /\ UNCHANGED <<deviceVars, conn, device_id, wake, faults, rekeyed>>

Disconnected(s) ==
  /\ pc[s] = "offline" /\ Idle(s)
  /\ pc' = [pc EXCEPT ![s] = "ended"]
  /\ UnchangedLocals
  /\ UNCHANGED <<redisVars, deviceVars, conn, device_id, registered, wake, faults, rekeyed>>

------------------------------------------------------------------------------
(* sendLowPowerWake for a device with a session: the lookup of the key,      *)
Alive(s) == pc[s] # "ended"

sendLowPowerWake(d) ==
  /\ wake.at = "idle"
  /\ registered[d] # NoSession /\ Alive(registered[d])
  /\ wake' = [at |-> "key", device |-> d, session |-> registered[d]]
  /\ Call(Backend, getLocalKey(d))
  /\ UNCHANGED <<deviceVars, sessionVars, faults, rekeyed>>

LocalKeyNotFound ==
  /\ wake.at = "key" /\ Idle(Backend) /\ result[Backend] = Nil
  /\ wake' = NoWake
  /\ UNCHANGED <<redisVars, deviceVars, sessionVars, faults, rekeyed>>

(* the pending_wake key,                                                     *)
LocalKeyFound ==
  /\ wake.at = "key" /\ Idle(Backend) /\ result[Backend] # Nil
  /\ wake' = [at |-> "pending", session |-> wake.session,
              frame |-> makeWakeupFrame(result[Backend])]
  /\ Call(Backend, savePendingWake(wake.device))
  /\ UNCHANGED <<deviceVars, sessionVars, faults, rekeyed>>

(* and the frame.                                                            *)
SendWakeup ==
  /\ wake.at = "pending" /\ Idle(Backend)
  /\ frames' = IF conn[wake.session] = "open"
               THEN [frames EXCEPT ![wake.session] = @ \cup {wake.frame}] ELSE frames
  /\ wake' = NoWake
  /\ UNCHANGED <<redisVars, random, got, sessionVars, faults, rekeyed>>

------------------------------------------------------------------------------
(* The process ends and main runs again.                                     *)
CrashAndRestart ==
  /\ faults < MaxFaults
  /\ \E s \in Sessions : conn[s] # "new" /\ pc[s] # "ended"
  /\ connect
  /\ conn' = [s \in Sessions |-> IF conn[s] = "new" THEN "new" ELSE "closed"]
  /\ pc' = [s \in Sessions |-> IF conn[s] = "new" THEN "read" ELSE "ended"]
  /\ req' = [s \in Sessions |-> NoRequest]
  /\ id' = [s \in Sessions |-> Nil]
  /\ local_key' = [s \in Sessions |-> Nil]
  /\ device_id' = [s \in Sessions |-> Nil]
  /\ registered' = [d \in Devices |-> NoSession]
  /\ wake' = NoWake
  /\ faults' = faults + 1
  /\ UNCHANGED <<deviceVars, rekeyed>>

(* External: a connection breaks, or the handler of a bad frame closes it;    *)
(* local keys are provisioned.                                               *)
ConnectionLost(s) ==
  /\ conn[s] = "open"
  /\ conn' = [conn EXCEPT ![s] = "closed"]
  /\ UnchangedLocals
  /\ UNCHANGED <<redisVars, deviceVars, pc, device_id, registered, wake, faults, rekeyed>>

setLocalKeyForDev(d, k) ==
  /\ ~rekeyed
  /\ rekeyed' = TRUE
  /\ Provision(<<"local_key", d>>, k)
  /\ UNCHANGED <<deviceVars, sessionVars, wake, faults>>

RedisLost ==
  /\ faults < MaxFaults
  /\ LinkLost
  /\ faults' = faults + 1
  /\ UNCHANGED <<deviceVars, sessionVars, wake, rekeyed>>

RedisStep ==
  /\ Server \/ \E c \in Callers : Return(c)
  /\ UNCHANGED <<deviceVars, sessionVars, wake, faults, rekeyed>>

------------------------------------------------------------------------------
Handler(s) ==
  \/ \E complete \in BOOLEAN : handleLowPowerAuthReq(s, complete)
  \/ UnknownDevice(s) \/ resolveLocalKey(s)
  \/ SignatureFailed(s) \/ registerOnlineState(s) \/ SendAuthResp(s)
  \/ handleDisconnect(s) \/ Disconnected(s)

WakeHandler ==
  \/ \E d \in Devices : sendLowPowerWake(d)
  \/ LocalKeyNotFound \/ LocalKeyFound \/ SendWakeup

Next ==
  \/ \E s \in Sessions : Accept(s) \/ Handler(s) \/ ConnectionLost(s)
  \/ WakeHandler
  \/ CrashAndRestart
  \/ \E d \in Devices, k \in Secrets : setLocalKeyForDev(d, k)
  \/ RedisLost \/ RedisStep

Spec == Init /\ [][Next]_vars

------------------------------------------------------------------------------
(* A connection is only ever registered as the device at its other end,      *)
(* whatever replies of other callers a handler has taken for its own and     *)
(* whatever the index in Redis says: the signature covers the device id.     *)
IdentityIsOwn ==
  /\ \A s \in Sessions : device_id[s] \in {Nil, Owner[s]}
  /\ \A d \in Devices : registered[d] # NoSession => Owner[registered[d]] = d

(* Every AUTH_RESP that a device gets is one it can decrypt, and is signed   *)
(* for it and for one of its requests, even when its key is changed in Redis *)
(* between the request and the answer.                                       *)
AnswersAreAccepted ==
  \A s \in Sessions : \A response \in got[s] :
    \E n \in 1..random[s] : DeviceAccepts(Owner[s], n, response)

(* A WAKEUP frame has the checksum of the key the device has logged in with, *)
(* also when the lookup for the login failed and the default secret was      *)
(* used: after the failure no lookup for a wake succeeds.                    *)
WakeupMatchesKey ==
  ~rekeyed /\ ~overlapped =>
    \A s \in Sessions : frames[s] \subseteq {makeWakeupFrame(DeviceKey[Owner[s]])}

(* What a crashed process, an ended connection or a command that was thought *)
(* lost leaves in Redis about a device has a TTL.                            *)
LeftoversExpire ==
  \A k \in {"online", "pending_wake"} \X Values : data[k] # Nil => k \in volatile

==============================================================================
