--------------------------- MODULE LowPowerProtocol ---------------------------
(***************************************************************************)
(* The framing of the low-power protocol: pure functions on byte strings.  *)
(* A byte has Base values (256 in the code), so that lengths, which take   *)
(* two bytes, wrap at Base * Base.  A std::optional is a set with at most  *)
(* one element.  The ciphers and digests inside the payload are left out.  *)
(***************************************************************************)
EXTENDS Integers, Sequences

CONSTANT Base      \* number of values of a uint8_t

ASSUME BaseAssumption == Base \in Nat /\ Base >= 2

Byte == 0..(Base - 1)

HEADER_SIZE == 5
VERSION_1 == 1

AUTH_REQ == 0
HEARTBEAT == 2

(* Conversion of a size to uint16_t.                                         *)
U16(n) == n % (Base * Base)

readU16BE(p, i) == p[i] * Base + p[i + 1]

writeU16BE(v) == <<v \div Base, v % Base>>

Frame == [version : Byte, type : Byte, flag : Byte, size : Nat, payload : Seq(Byte)]

makeFrame(type, flag, payload) ==
  [version |-> VERSION_1, type |-> type, flag |-> flag,
   size |-> U16(Len(payload)), payload |-> payload]

encodeFrame(f) ==
  <<f.version, f.type, f.flag>> \o writeU16BE(U16(Len(f.payload))) \o f.payload

parseFrame(data) ==
  IF Len(data) < HEADER_SIZE \/ Len(data) # HEADER_SIZE + readU16BE(data, 4) THEN {}
  ELSE {[version |-> data[1], type |-> data[2], flag |-> data[3],
         size |-> readU16BE(data, 4),
         payload |-> SubSeq(data, HEADER_SIZE + 1, Len(data))]}

------------------------------------------------------------------------------
(* The payload of AUTH_REQ and AUTH_RESP: three lengths, then three fields.  *)
buildAuthPayloadLV(iv, devid, data) ==
  writeU16BE(U16(Len(iv))) \o writeU16BE(U16(Len(devid))) \o writeU16BE(U16(Len(data)))
    \o iv \o devid \o data

(* Mutant: the payload may be longer than its fields.                        *)
parseAuthPayloadLVLoose(p) ==
  IF Len(p) < 6 THEN {}
  ELSE LET i == readU16BE(p, 1)
           d == readU16BE(p, 3)
           n == readU16BE(p, 5)
       IN  IF Len(p) < 6 + i + d + n THEN {}
           ELSE {[iv |-> SubSeq(p, 7, 6 + i),
                  devid |-> SubSeq(p, 7 + i, 6 + i + d),
                  data |-> SubSeq(p, 7 + i + d, 6 + i + d + n)]}

parseAuthPayloadLV(p) ==
  IF Len(p) < 6 THEN {}
  ELSE LET i == readU16BE(p, 1)
           d == readU16BE(p, 3)
           n == readU16BE(p, 5)
       IN  IF Len(p) # 6 + i + d + n THEN {}
           ELSE {[iv |-> SubSeq(p, 7, 6 + i),
                  devid |-> SubSeq(p, 7 + i, 6 + i + d),
                  data |-> SubSeq(p, 7 + i + d, 6 + i + d + n)]}

------------------------------------------------------------------------------
(* encodeFrame and parseFrame: a frame comes back as it was, and one that    *)
(* is too long for its length field is refused, never taken for another.     *)
FrameIntact(type, flag, payload) ==
  parseFrame(encodeFrame(makeFrame(type, flag, payload))) =
    IF Len(payload) < Base * Base THEN {makeFrame(type, flag, payload)} ELSE {}

(* The same for buildAuthPayloadLV and parseAuthPayloadLV.                   *)
AuthIntact(iv, devid, data) ==
  parseAuthPayloadLV(buildAuthPayloadLV(iv, devid, data)) =
    IF \A f \in {iv, devid, data} : Len(f) < Base * Base
    THEN {[iv |-> iv, devid |-> devid, data |-> data]} ELSE {}

==============================================================================
