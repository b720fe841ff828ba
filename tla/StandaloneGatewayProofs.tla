------------------------ MODULE StandaloneGatewayProofs ------------------------
(***************************************************************************)
(* Proofs about StandaloneGateway for every set of devices and connections *)
(* and every idle timeout.                                                 *)
(***************************************************************************)
EXTENDS StandaloneGateway, TLAPS

(* A socket is read from as long as it is open.                              *)
OpenIsRead ==
  \A s \in Sessions : sock[s] \in {"open", "reset"} => reader[s] = "reading"

(* Nothing is known of a connection before it is accepted.                   *)
FreshIsUnknown ==
  \A s \in Sessions :
    sock[s] = "free" => reader[s] = "free" /\ \A d \in Devices : s \notin logins[d]

(* A connection gets its id, and an entry its connection, by logging in.     *)
EntriesLoggedIn ==
  \A d \in Devices, s \in Sessions : sessions[d] = s \/ dev[s] = d => s \in logins[d]

(* A read chain that ends erases the entry of its device, and no line of the *)
(* connection can bring it back.                                             *)
EndedIsErased ==
  \A d \in Devices, s \in Sessions :
    reader[s] = "ended" /\ sessions[d] = s => dev[s] # d

ConnInv == OpenIsRead /\ FreshIsUnknown

IInv ==
  /\ TypeOK
  /\ ConnInv
  /\ EntriesLoggedIn
  /\ EndedIsErased
  /\ RoutableIsOnline
  /\ OnlyReconnectsHide

------------------------------------------------------------------------------
(* The initial state satisfies the inductive invariant.                      *)
LEMMA InitIInv == Init => IInv
<1> SUFFICES ASSUME Init PROVE IInv
  OBVIOUS
<1> USE NoDeviceAssumption, NoSessionAssumption, IdleTimeoutAssumption DEF Init
<1>1. TypeOK
  BY DEF TypeOK
<1>2. ConnInv
  BY DEF ConnInv, OpenIsRead, FreshIsUnknown
<1>3. EntriesLoggedIn /\ EndedIsErased
  BY DEF EntriesLoggedIn, EndedIsErased
<1>4. RoutableIsOnline /\ OnlyReconnectsHide
  BY DEF RoutableIsOnline, OnlyReconnectsHide
<1> QED BY <1>1, <1>2, <1>3, <1>4 DEF IInv

(* A read that completes and a line that is queued keep their types.          *)
LEMMA ReadLineType ==
  ASSUME TypeOK, NEW s \in Sessions, ReadLine(s)
  PROVE  inbuf' \in [Sessions -> BOOLEAN]
<1>1. CASE inbuf' = inbuf
  BY <1>1 DEF TypeOK
<1>2. CASE inbuf' = [inbuf EXCEPT ![s] = FALSE]
  BY <1>2 DEF TypeOK
<1> QED BY <1>1, <1>2 DEF ReadLine

LEMMA SendJsonType ==
  ASSUME TypeOK, NEW s \in Sessions, send_json(s)
  PROVE  writer' \in [Sessions -> {"empty", "one", "more", "stuck"}]
BY DEF TypeOK, send_json

(* Every step preserves the types.                                           *)
LEMMA TypeStep ==
  ASSUME TypeOK, [Next]_vars
  PROVE  TypeOK'
<1> USE NoDeviceAssumption, NoSessionAssumption, IdleTimeoutAssumption
     DEF TypeOK, stateVars, connVars
<1>1. ASSUME NEW s \in Sessions, do_accept(s)
      PROVE  TypeOK'
  BY <1>1 DEF do_accept
<1>2. ASSUME NEW s \in Sessions, NEW d \in Devices, handle_login(s, d)
      PROVE  TypeOK'
  BY <1>2, ReadLineType, SendJsonType DEF handle_login
<1>3. ASSUME NEW s \in Sessions, handle_heartbeat(s)
      PROVE  TypeOK'
  BY <1>3, ReadLineType, SendJsonType DEF handle_heartbeat
<1>4. ASSUME NEW s \in Sessions, OtherLine(s)
      PROVE  TypeOK'
  BY <1>4, ReadLineType, SendJsonType DEF OtherLine
<1>5. ASSUME NEW s \in Sessions, ReadError(s)
      PROVE  TypeOK'
  BY <1>5 DEF ReadError, handle_disconnect
<1>6. ASSUME NEW s \in Sessions, WriteDone(s)
      PROVE  TypeOK'
  BY <1>6 DEF WriteDone
<1>7. ASSUME NEW s \in Sessions, WriteError(s)
      PROVE  TypeOK'
  BY <1>7 DEF WriteError, handle_disconnect
<1>8. ASSUME NEW s \in Sessions, Receive(s)
      PROVE  TypeOK'
  BY <1>8 DEF Receive
<1>9. ASSUME NEW s \in Sessions, PeerReset(s)
      PROVE  TypeOK'
  BY <1>9 DEF PeerReset
<1>10. ASSUME NEW d \in Devices, handle_post_wake(d)
      PROVE  TypeOK'
  BY <1>10 DEF handle_post_wake, Routable, send_json
<1>11. ASSUME NEW d \in Devices, handle_post_wakeExpired(d)
      PROVE  TypeOK'
  BY <1>11 DEF handle_post_wakeExpired, Expired
<1>12. CASE check_offline_devices
  BY <1>12 DEF check_offline_devices, Idle, Locked, Expired
<1>13. CASE TimePasses
  BY <1>13 DEF TimePasses
<1>14. CASE Fatal
  BY <1>14 DEF Fatal
<1>15. CASE UNCHANGED vars
  BY <1>15 DEF vars
<1> QED
  BY <1>1, <1>2, <1>3, <1>4, <1>5, <1>6, <1>7, <1>8, <1>9, <1>10, <1>11, <1>12, <1>13, <1>14, <1>15
  DEF Next, ReadHandler, WriteHandler, HttpHandler

(* The life of a connection.                                                 *)
LEMMA ConnStep ==
  ASSUME TypeOK, ConnInv, [Next]_vars
  PROVE  ConnInv'
<1> USE NoDeviceAssumption, NoSessionAssumption, IdleTimeoutAssumption
     DEF TypeOK, ConnInv, OpenIsRead, FreshIsUnknown, stateVars, connVars
<1>1. ASSUME NEW s \in Sessions, do_accept(s)
      PROVE  ConnInv'
  BY <1>1 DEF do_accept
<1>2. ASSUME NEW s \in Sessions, NEW d \in Devices, handle_login(s, d)
      PROVE  ConnInv'
  BY <1>2 DEF handle_login, ReadLine, send_json
<1>3. ASSUME NEW s \in Sessions, handle_heartbeat(s)
      PROVE  ConnInv'
  BY <1>3 DEF handle_heartbeat, ReadLine, send_json
<1>4. ASSUME NEW s \in Sessions, OtherLine(s)
      PROVE  ConnInv'
  BY <1>4 DEF OtherLine, ReadLine, send_json
<1>5. ASSUME NEW s \in Sessions, ReadError(s)
      PROVE  ConnInv'
  BY <1>5 DEF ReadError, handle_disconnect
<1>6. ASSUME NEW s \in Sessions, WriteDone(s)
      PROVE  ConnInv'
  BY <1>6 DEF WriteDone
<1>7. ASSUME NEW s \in Sessions, WriteError(s)
      PROVE  ConnInv'
  BY <1>7 DEF WriteError, handle_disconnect
<1>8. ASSUME NEW s \in Sessions, Receive(s)
      PROVE  ConnInv'
  BY <1>8 DEF Receive
<1>9. ASSUME NEW s \in Sessions, PeerReset(s)
      PROVE  ConnInv'
  BY <1>9 DEF PeerReset
<1>10. ASSUME NEW d \in Devices, handle_post_wake(d)
      PROVE  ConnInv'
  BY <1>10 DEF handle_post_wake, Routable, send_json
<1>11. ASSUME NEW d \in Devices, handle_post_wakeExpired(d)
      PROVE  ConnInv'
  BY <1>11 DEF handle_post_wakeExpired, Expired
<1>12. CASE check_offline_devices
  BY <1>12 DEF check_offline_devices, Idle, Locked, Expired
<1>13. CASE TimePasses
  BY <1>13 DEF TimePasses
<1>14. CASE Fatal
  BY <1>14 DEF Fatal
<1>15. CASE UNCHANGED vars
  BY <1>15 DEF vars
<1> QED
  BY <1>1, <1>2, <1>3, <1>4, <1>5, <1>6, <1>7, <1>8, <1>9, <1>10, <1>11, <1>12, <1>13, <1>14, <1>15
  DEF Next, ReadHandler, WriteHandler, HttpHandler

(* Entries and ids come from logins.                                         *)
LEMMA LoggedInStep ==
  ASSUME TypeOK, EntriesLoggedIn, [Next]_vars
  PROVE  EntriesLoggedIn'
<1> USE NoDeviceAssumption, NoSessionAssumption, IdleTimeoutAssumption
     DEF TypeOK, EntriesLoggedIn, stateVars, connVars
<1>1. ASSUME NEW s \in Sessions, do_accept(s)
      PROVE  EntriesLoggedIn'
  BY <1>1 DEF do_accept
<1>2. ASSUME NEW s \in Sessions, NEW d \in Devices, handle_login(s, d)
      PROVE  EntriesLoggedIn'
  BY <1>2 DEF handle_login, ReadLine, send_json
<1>3. ASSUME NEW s \in Sessions, handle_heartbeat(s)
      PROVE  EntriesLoggedIn'
  BY <1>3 DEF handle_heartbeat, ReadLine, send_json
<1>4. ASSUME NEW s \in Sessions, OtherLine(s)
      PROVE  EntriesLoggedIn'
  BY <1>4 DEF OtherLine, ReadLine, send_json
<1>5. ASSUME NEW s \in Sessions, ReadError(s)
      PROVE  EntriesLoggedIn'
  BY <1>5 DEF ReadError, handle_disconnect
<1>6. ASSUME NEW s \in Sessions, WriteDone(s)
      PROVE  EntriesLoggedIn'
  BY <1>6 DEF WriteDone
<1>7. ASSUME NEW s \in Sessions, WriteError(s)
      PROVE  EntriesLoggedIn'
  BY <1>7 DEF WriteError, handle_disconnect
<1>8. ASSUME NEW s \in Sessions, Receive(s)
      PROVE  EntriesLoggedIn'
  BY <1>8 DEF Receive
<1>9. ASSUME NEW s \in Sessions, PeerReset(s)
      PROVE  EntriesLoggedIn'
  BY <1>9 DEF PeerReset
<1>10. ASSUME NEW d \in Devices, handle_post_wake(d)
      PROVE  EntriesLoggedIn'
  BY <1>10 DEF handle_post_wake, Routable, send_json
<1>11. ASSUME NEW d \in Devices, handle_post_wakeExpired(d)
      PROVE  EntriesLoggedIn'
  BY <1>11 DEF handle_post_wakeExpired, Expired
<1>12. CASE check_offline_devices
  BY <1>12 DEF check_offline_devices, Idle, Locked, Expired
<1>13. CASE TimePasses
  BY <1>13 DEF TimePasses
<1>14. CASE Fatal
  BY <1>14 DEF Fatal
<1>15. CASE UNCHANGED vars
  BY <1>15 DEF vars
<1> QED
  BY <1>1, <1>2, <1>3, <1>4, <1>5, <1>6, <1>7, <1>8, <1>9, <1>10, <1>11, <1>12, <1>13, <1>14, <1>15
  DEF Next, ReadHandler, WriteHandler, HttpHandler

(* After the read chain has ended nothing registers the connection.          *)
LEMMA ErasedStep ==
  ASSUME TypeOK, ConnInv, EndedIsErased, [Next]_vars
  PROVE  EndedIsErased'
<1> USE NoDeviceAssumption, NoSessionAssumption, IdleTimeoutAssumption
     DEF TypeOK, ConnInv, FreshIsUnknown, EndedIsErased, stateVars, connVars
<1>1. ASSUME NEW s \in Sessions, do_accept(s)
      PROVE  EndedIsErased'
  BY <1>1 DEF do_accept
<1>2. ASSUME NEW s \in Sessions, NEW d \in Devices, handle_login(s, d)
      PROVE  EndedIsErased'
  BY <1>2 DEF handle_login, ReadLine, send_json
<1>3. ASSUME NEW s \in Sessions, handle_heartbeat(s)
      PROVE  EndedIsErased'
  BY <1>3 DEF handle_heartbeat, ReadLine, send_json
<1>4. ASSUME NEW s \in Sessions, OtherLine(s)
      PROVE  EndedIsErased'
  BY <1>4 DEF OtherLine, ReadLine, send_json
<1>5. ASSUME NEW s \in Sessions, ReadError(s)
      PROVE  EndedIsErased'
  BY <1>5 DEF ReadError, handle_disconnect
<1>6. ASSUME NEW s \in Sessions, WriteDone(s)
      PROVE  EndedIsErased'
  BY <1>6 DEF WriteDone
<1>7. ASSUME NEW s \in Sessions, WriteError(s)
      PROVE  EndedIsErased'
  BY <1>7 DEF WriteError, handle_disconnect
<1>8. ASSUME NEW s \in Sessions, Receive(s)
      PROVE  EndedIsErased'
  BY <1>8 DEF Receive
<1>9. ASSUME NEW s \in Sessions, PeerReset(s)
      PROVE  EndedIsErased'
  BY <1>9 DEF PeerReset
<1>10. ASSUME NEW d \in Devices, handle_post_wake(d)
      PROVE  EndedIsErased'
  BY <1>10 DEF handle_post_wake, Routable, send_json
<1>11. ASSUME NEW d \in Devices, handle_post_wakeExpired(d)
      PROVE  EndedIsErased'
  BY <1>11 DEF handle_post_wakeExpired, Expired
<1>12. CASE check_offline_devices
  BY <1>12 DEF check_offline_devices, Idle, Locked, Expired
<1>13. CASE TimePasses
  BY <1>13 DEF TimePasses
<1>14. CASE Fatal
  BY <1>14 DEF Fatal
<1>15. CASE UNCHANGED vars
  BY <1>15 DEF vars
<1> QED
  BY <1>1, <1>2, <1>3, <1>4, <1>5, <1>6, <1>7, <1>8, <1>9, <1>10, <1>11, <1>12, <1>13, <1>14, <1>15
  DEF Next, ReadHandler, WriteHandler, HttpHandler

(* Whoever takes a device offline erases its entry, and a login does both.   *)
LEMMA OnlineStep ==
  ASSUME TypeOK, RoutableIsOnline, [Next]_vars
  PROVE  RoutableIsOnline'
<1> USE NoDeviceAssumption, NoSessionAssumption, IdleTimeoutAssumption
     DEF TypeOK, RoutableIsOnline, handle_get_online, stateVars, connVars
<1>1. ASSUME NEW s \in Sessions, do_accept(s)
      PROVE  RoutableIsOnline'
  BY <1>1 DEF do_accept
<1>2. ASSUME NEW s \in Sessions, NEW d \in Devices, handle_login(s, d)
      PROVE  RoutableIsOnline'
  BY <1>2 DEF handle_login, ReadLine, send_json
<1>3. ASSUME NEW s \in Sessions, handle_heartbeat(s)
      PROVE  RoutableIsOnline'
  BY <1>3 DEF handle_heartbeat, ReadLine, send_json
<1>4. ASSUME NEW s \in Sessions, OtherLine(s)
      PROVE  RoutableIsOnline'
  BY <1>4 DEF OtherLine, ReadLine, send_json
<1>5. ASSUME NEW s \in Sessions, ReadError(s)
      PROVE  RoutableIsOnline'
  BY <1>5 DEF ReadError, handle_disconnect
<1>6. ASSUME NEW s \in Sessions, WriteDone(s)
      PROVE  RoutableIsOnline'
  BY <1>6 DEF WriteDone
<1>7. ASSUME NEW s \in Sessions, WriteError(s)
      PROVE  RoutableIsOnline'
  BY <1>7 DEF WriteError, handle_disconnect
<1>8. ASSUME NEW s \in Sessions, Receive(s)
      PROVE  RoutableIsOnline'
  BY <1>8 DEF Receive
<1>9. ASSUME NEW s \in Sessions, PeerReset(s)
      PROVE  RoutableIsOnline'
  BY <1>9 DEF PeerReset
<1>10. ASSUME NEW d \in Devices, handle_post_wake(d)
      PROVE  RoutableIsOnline'
  BY <1>10 DEF handle_post_wake, Routable, send_json
<1>11. ASSUME NEW d \in Devices, handle_post_wakeExpired(d)
      PROVE  RoutableIsOnline'
  BY <1>11 DEF handle_post_wakeExpired, Expired
<1>12. CASE check_offline_devices
  BY <1>12 DEF check_offline_devices, Idle, Locked, Expired
<1>13. CASE TimePasses
  BY <1>13 DEF TimePasses
<1>14. CASE Fatal
  BY <1>14 DEF Fatal
<1>15. CASE UNCHANGED vars
  BY <1>15 DEF vars
<1> QED
  BY <1>1, <1>2, <1>3, <1>4, <1>5, <1>6, <1>7, <1>8, <1>9, <1>10, <1>11, <1>12, <1>13, <1>14, <1>15
  DEF Next, ReadHandler, WriteHandler, HttpHandler

(* Only a connection that logged in as the device, or the timeout that closes *)
(* its connection, takes the entry of a device away.                         *)
LEMMA HideStep ==
  ASSUME TypeOK, ConnInv, EntriesLoggedIn, OnlyReconnectsHide, [Next]_vars
  PROVE  OnlyReconnectsHide'
<1> USE NoDeviceAssumption, NoSessionAssumption, IdleTimeoutAssumption
     DEF TypeOK, ConnInv, OpenIsRead, FreshIsUnknown, EntriesLoggedIn,
         OnlyReconnectsHide, stateVars, connVars
<1>1. ASSUME NEW s \in Sessions, do_accept(s)
      PROVE  OnlyReconnectsHide'
  BY <1>1 DEF do_accept
<1>2. ASSUME NEW s \in Sessions, NEW d \in Devices, handle_login(s, d)
      PROVE  OnlyReconnectsHide'
  <2> SUFFICES ASSUME NEW e \in Devices, NEW r \in Sessions,
                      sock'[r] = "open", logins'[e] = {r}
               PROVE  sessions'[e] = r
    BY DEF OnlyReconnectsHide
  <2>1. CASE e = d
    <3>1. logins' = [logins EXCEPT ![d] = logins[d] \cup {s}]
      BY <1>2 DEF handle_login
    <3>2. sessions' = [sessions EXCEPT ![d] = s]
      BY <1>2 DEF handle_login
    <3>3. r = s
      BY <2>1, <3>1
    <3> QED
      BY <2>1, <3>2, <3>3
  <2>2. CASE e # d
    BY <1>2, <2>2 DEF handle_login
  <2> QED
    BY <2>1, <2>2
<1>3. ASSUME NEW s \in Sessions, handle_heartbeat(s)
      PROVE  OnlyReconnectsHide'
  BY <1>3 DEF handle_heartbeat, ReadLine, send_json
<1>4. ASSUME NEW s \in Sessions, OtherLine(s)
      PROVE  OnlyReconnectsHide'
  BY <1>4 DEF OtherLine, ReadLine, send_json
<1>5. ASSUME NEW s \in Sessions, ReadError(s)
      PROVE  OnlyReconnectsHide'
  BY <1>5 DEF ReadError, handle_disconnect
<1>6. ASSUME NEW s \in Sessions, WriteDone(s)
      PROVE  OnlyReconnectsHide'
  BY <1>6 DEF WriteDone
<1>7. ASSUME NEW s \in Sessions, WriteError(s)
      PROVE  OnlyReconnectsHide'
  BY <1>7 DEF WriteError, handle_disconnect
<1>8. ASSUME NEW s \in Sessions, Receive(s)
      PROVE  OnlyReconnectsHide'
  BY <1>8 DEF Receive
<1>9. ASSUME NEW s \in Sessions, PeerReset(s)
      PROVE  OnlyReconnectsHide'
  BY <1>9 DEF PeerReset
<1>10. ASSUME NEW d \in Devices, handle_post_wake(d)
      PROVE  OnlyReconnectsHide'
  BY <1>10 DEF handle_post_wake, Routable, send_json
<1>11. ASSUME NEW d \in Devices, handle_post_wakeExpired(d)
      PROVE  OnlyReconnectsHide'
  BY <1>11 DEF handle_post_wakeExpired, Expired
<1>12. CASE check_offline_devices
  BY <1>12 DEF check_offline_devices, Idle, Locked, Expired
<1>13. CASE TimePasses
  BY <1>13 DEF TimePasses
<1>14. CASE Fatal
  BY <1>14 DEF Fatal
<1>15. CASE UNCHANGED vars
  BY <1>15 DEF vars
<1> QED
  BY <1>1, <1>2, <1>3, <1>4, <1>5, <1>6, <1>7, <1>8, <1>9, <1>10, <1>11, <1>12, <1>13, <1>14, <1>15
  DEF Next, ReadHandler, WriteHandler, HttpHandler

------------------------------------------------------------------------------
(* The inductive invariant holds in every reachable state.                   *)
LEMMA Invariance == Spec => []IInv
<1>1. Init => IInv
  BY InitIInv
<1>2. ASSUME IInv, [Next]_vars PROVE IInv'
  BY <1>2, TypeStep, ConnStep, LoggedInStep, ErasedStep, OnlineStep, HideStep DEF IInv
<1> QED
  BY <1>1, <1>2, PTL DEF Spec

(* Every variable keeps its type.                                            *)
THEOREM TypeCorrect == Spec => []TypeOK
<1>1. IInv => TypeOK
  BY DEF IInv
<1> QED
  BY <1>1, Invariance, PTL

(* The two HTTP calls agree: a device POST .../wake finds an entry for is    *)
(* one that GET .../online calls online.                                     *)
THEOREM RoutableDevicesAreOnline == Spec => []RoutableIsOnline
<1>1. IInv => RoutableIsOnline
  BY DEF IInv
<1> QED
  BY <1>1, Invariance, PTL

(* Only a second connection of the same device hides one that is open.       *)
THEOREM ReconnectsAloneHide == Spec => []OnlyReconnectsHide
<1>1. IInv => OnlyReconnectsHide
  BY DEF IInv
<1> QED
  BY <1>1, Invariance, PTL

(* An entry whose connection is gone belongs to an id that the connection    *)
(* has exchanged for another by logging in again.                            *)
THEOREM DeadEntriesAreRenamed == Spec => []DeadEntryWasRenamed
<1>1. IInv => DeadEntryWasRenamed
  BY DEF IInv, EndedIsErased, DeadEntryWasRenamed, Expired
<1> QED
  BY <1>1, Invariance, PTL

==============================================================================
