----------------------------- MODULE DeviceStream -----------------------------
(***************************************************************************)
(* The incoming side of one DeviceSession: how readAutoDetect, readJsonLine*)
(* and readLowPowerHeader / readLowPowerPayload cut the bytes of a TCP     *)
(* stream, which arrive in pieces of any size, into messages.              *)
(*                                                                         *)
(* A device speaks one protocol.  A message of a JSON device is a line     *)
(* body, sent with "\n" or "\r\n"; one of a low-power device is a frame,   *)
(* which may have a version the gateway does not know.                     *)
(***************************************************************************)
EXTENDS LowPowerProtocol

CONSTANTS
  LBrace, NL, CR,   \* the bytes '{', '\n' and '\r'
  Lines,            \* bodies of JSON lines a device may send
  Frames,           \* frames a low-power device may send
  MaxMessages       \* bound: messages a device sends

ASSUME BytesAssumption ==
  /\ LBrace \in Byte /\ NL \in Byte /\ CR \in Byte
  /\ VERSION_1 \notin {LBrace, NL, CR} /\ NL # CR
ASSUME MaxMessagesAssumption == MaxMessages \in Nat
ASSUME LinesAssumption ==
  \A l \in Lines : /\ l \in Seq(Byte)
                   /\ \A i \in DOMAIN l : l[i] # NL /\ l[i] # CR
                   /\ l # <<>> => l[1] = LBrace
ASSUME FramesAssumption ==
  \A f \in Frames : /\ f \in Frame
                    /\ f.size = Len(f.payload) /\ f.size < Base * Base
                    /\ f.version # LBrace

VARIABLES
  kind,       \* what the device speaks: "json" or "lowpower"
  sent,       \* history: messages the device has sent that are not empty
  count,      \* history: messages the device has sent
  net,        \* bytes under way
  arrived,    \* bytes in the socket and in read_buffer_, not yet consumed
  phase,      \* the read that is pending: "detect", "line", "header", "payload",
              \* or "ended"
  header,     \* the header whose payload is being read
  handled,    \* history: messages given to handleJsonMessage, handleLowPowerFrame
  authed,     \* whether an AUTH_REQ has set device_id_
  socket      \* "open", "reset" by the device, "closed" by the gateway

vars == <<kind, sent, count, net, arrived, phase, header, handled, authed, socket>>

NoHeader == [version |-> 0, type |-> 0, flag |-> 0, size |-> 0]

Init ==
  /\ kind \in {"json", "lowpower"}
  /\ sent = <<>> /\ count = 0
  /\ net = <<>> /\ arrived = <<>>
  /\ phase = "detect" /\ header = NoHeader
  /\ handled = <<>> /\ authed = FALSE /\ socket = "open"

------------------------------------------------------------------------------
(* External: the device and the network.                                     *)
SendLine(l, end) ==
  /\ kind = "json" /\ count < MaxMessages /\ socket = "open"
  /\ count' = count + 1
  /\ sent' = IF l = <<>> THEN sent ELSE Append(sent, l)
  /\ net' = net \o l \o end
  /\ UNCHANGED <<kind, arrived, phase, header, handled, authed, socket>>

SendFrame(f) ==
  /\ kind = "lowpower" /\ count < MaxMessages /\ socket = "open"
  /\ count' = count + 1
  /\ sent' = Append(sent, f)
  /\ net' = net \o encodeFrame(f)
  /\ UNCHANGED <<kind, arrived, phase, header, handled, authed, socket>>

Arrive ==
  /\ net # <<>> /\ socket = "open"
  /\ arrived' = Append(arrived, Head(net))
  /\ net' = Tail(net)
  /\ UNCHANGED <<kind, sent, count, phase, header, handled, authed, socket>>

PeerReset ==
  /\ socket = "open"
  /\ socket' = "reset"
  /\ UNCHANGED <<kind, sent, count, net, arrived, phase, header, handled, authed>>

(* handleDisconnect on the write chain of the session.                       *)
WriterCloses ==
  /\ socket # "closed"
  /\ socket' = "closed"
  /\ UNCHANGED <<kind, sent, count, net, arrived, phase, header, handled, authed>>

------------------------------------------------------------------------------
Drop(s, n) == SubSeq(s, n + 1, Len(s))

(* A read completes with n bytes; after a reset it may still.                *)
Ready(p, n) == phase = p /\ socket # "closed" /\ Len(arrived) >= n

(* readAutoDetect: the first byte is peeked at, not consumed.                *)
readAutoDetect ==
  /\ Ready("detect", 1)
  /\ \/ /\ Head(arrived) = LBrace
        /\ phase' = "line" /\ UNCHANGED socket
     \/ /\ Head(arrived) = VERSION_1
        /\ phase' = "header" /\ UNCHANGED socket
     \/ /\ Head(arrived) \notin {LBrace, VERSION_1}
        /\ phase' = "ended" /\ socket' = "closed"
  /\ UNCHANGED <<kind, sent, count, net, arrived, header, handled, authed>>

(* The position of the delimiter that async_read_until finds.                *)
LineEnds == {i \in DOMAIN arrived : arrived[i] = NL}

FirstLineEnd == CHOOSE i \in LineEnds : \A j \in LineEnds : i <= j

StripCR(l) == IF l # <<>> /\ l[Len(l)] = CR THEN SubSeq(l, 1, Len(l) - 1) ELSE l

(* Mutant: the read is not started again after an empty line.                *)
readJsonLineNoRearm ==
  /\ phase = "line" /\ LineEnds # {}
  /\ LET line == StripCR(SubSeq(arrived, 1, FirstLineEnd - 1)) IN
       IF line = <<>> THEN phase' = "ended" /\ UNCHANGED handled
       ELSE handled' = Append(handled, line) /\ UNCHANGED phase
  /\ arrived' = Drop(arrived, FirstLineEnd)
  /\ UNCHANGED <<kind, sent, count, net, header, authed, socket>>

(* readJsonLine: empty lines are skipped, the rest of the buffer stays.  A    *)
(* line that is already in read_buffer_ is handled on a closed socket, too.  *)
readJsonLine ==
  /\ phase = "line" /\ LineEnds # {}
  /\ LET line == StripCR(SubSeq(arrived, 1, FirstLineEnd - 1)) IN
       handled' = IF line = <<>> THEN handled ELSE Append(handled, line)
  /\ arrived' = Drop(arrived, FirstLineEnd)
  /\ UNCHANGED <<kind, sent, count, net, phase, header, authed, socket>>

(* AUTH_REQ: a payload that does not parse closes the socket, and so do the  *)
(* lookup of the device, the cipher and the signature when they fail.        *)
handleLowPowerAuthReq(f) ==
  \/ authed' = TRUE /\ parseAuthPayloadLV(f.payload) # {} /\ UNCHANGED socket
  \/ socket' = "closed" /\ UNCHANGED authed

(* HEARTBEAT: only after AUTH_REQ, and only without flag and payload.        *)
handleLowPowerHeartbeat(f) ==
  /\ socket' = IF authed /\ f.flag = 0 /\ f.size = 0 THEN socket ELSE "closed"
  /\ UNCHANGED authed

(* handleLowPowerFrame, then the next header is read.                        *)
handleLowPowerFrame(h, payload) ==
  LET f == [version |-> h.version, type |-> h.type, flag |-> h.flag, size |-> h.size,
            payload |-> payload] IN
  /\ handled' = Append(handled, f)
  /\ \/ f.type = AUTH_REQ /\ handleLowPowerAuthReq(f)
     \/ f.type = HEARTBEAT /\ handleLowPowerHeartbeat(f)
     \/ f.type \notin {AUTH_REQ, HEARTBEAT} /\ UNCHANGED <<authed, socket>>
  /\ phase' = "header"

HeaderOf(b) == [version |-> b[1], type |-> b[2], flag |-> b[3], size |-> readU16BE(b, 4)]

readLowPowerHeader ==
  /\ Ready("header", HEADER_SIZE)
  /\ LET h == HeaderOf(arrived) IN
       /\ header' = h
       /\ \/ /\ h.version # VERSION_1
             /\ socket' = "closed" /\ phase' = "ended"
             /\ UNCHANGED <<handled, authed>>
          \/ /\ h.version = VERSION_1 /\ h.size = 0
             /\ handleLowPowerFrame(h, <<>>)
          \/ /\ h.version = VERSION_1 /\ h.size > 0
             /\ phase' = "payload"
             /\ UNCHANGED <<handled, authed, socket>>
  /\ arrived' = Drop(arrived, HEADER_SIZE)
  /\ UNCHANGED <<kind, sent, count, net>>

(* Mutant: a payload is taken before all of it has arrived.                  *)
readLowPowerPayloadSome ==
  /\ Ready("payload", 1)
  /\ LET n == IF Len(arrived) < header.size THEN Len(arrived) ELSE header.size IN
       /\ handleLowPowerFrame(header, SubSeq(arrived, 1, n))
       /\ arrived' = Drop(arrived, n)
  /\ UNCHANGED <<kind, sent, count, net, header>>

readLowPowerPayload ==
  /\ Ready("payload", header.size)
  /\ handleLowPowerFrame(header, SubSeq(arrived, 1, header.size))
  /\ arrived' = Drop(arrived, header.size)
  /\ UNCHANGED <<kind, sent, count, net, header>>

(* A read ends with an error.                                                *)
ReadError ==
  /\ phase # "ended" /\ socket # "open"
  /\ phase' = "ended" /\ socket' = "closed"
  /\ UNCHANGED <<kind, sent, count, net, arrived, header, handled, authed>>

------------------------------------------------------------------------------
Read == readAutoDetect \/ readJsonLine \/ readLowPowerHeader \/ readLowPowerPayload

(* The session is over.                                                      *)
Resting == phase = "ended" /\ UNCHANGED vars

Next ==
  \/ \E l \in Lines, end \in {<<NL>>, <<CR, NL>>} : SendLine(l, end)
  \/ \E f \in Frames : SendFrame(f)
  \/ Arrive \/ PeerReset \/ WriterCloses
  \/ Read \/ ReadError
  \/ Resting

Spec == Init /\ [][Next]_vars

(* The network delivers, and the io workers run read handlers that are ready.*)
FairSpec == Spec /\ WF_vars(Arrive) /\ WF_vars(Read)

------------------------------------------------------------------------------
TypeOK ==
  /\ kind \in {"json", "lowpower"}
  /\ sent \in Seq(Lines) \cup Seq(Frames)
  /\ count \in 0..MaxMessages
  /\ net \in Seq(Byte) /\ arrived \in Seq(Byte)
  /\ phase \in {"detect", "line", "header", "payload", "ended"}
  /\ header \in [version : Byte, type : Byte, flag : Byte, size : 0..(Base * Base - 1)]
  /\ Len(handled) <= MaxMessages
  /\ authed \in BOOLEAN /\ socket \in {"open", "reset", "closed"}

(* The reader never loses the boundaries of messages: what it hands to the   *)
(* handlers is what the device sent, in order and complete, however the      *)
(* bytes were cut into segments and whatever bytes the payloads hold.        *)
InSync ==
  /\ Len(handled) <= Len(sent)
  /\ handled = SubSeq(sent, 1, Len(handled))

(* Nothing that has arrived is left waiting for more bytes: every message    *)
(* the device sent is handled, unless the connection ends.                   *)
EveryMessageHandled ==
  \A k \in 1..MaxMessages :
    (Len(sent) >= k) ~> (Len(handled) >= k \/ socket # "open")

(* What the gateway accepts has one encoding: parseFrame takes a handled     *)
(* frame for itself, and a payload that parseAuthPayloadLV accepts is, to    *)
(* its last byte, the one that buildAuthPayloadLV makes of its fields.       *)
AcceptedIsCanonical ==
  kind = "lowpower" =>
    \A i \in DOMAIN handled :
      /\ parseFrame(encodeFrame(handled[i])) = {handled[i]}
      /\ \A a \in parseAuthPayloadLV(handled[i].payload) :
           buildAuthPayloadLV(a.iv, a.devid, a.data) = handled[i].payload

==============================================================================
