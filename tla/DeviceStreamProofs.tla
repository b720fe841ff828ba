-------------------------- MODULE DeviceStreamProofs --------------------------
(***************************************************************************)
(* The bytes a device sends and the messages the gateway makes of them.    *)
(*                                                                         *)
(* First the framing (LowPowerProtocol): encoding and parsing are inverse  *)
(* up to the limit of the length fields, and beyond it parsing refuses.    *)
(* Then the reader (DeviceStream): however the bytes arrive, it hands over *)
(* what the device sent.  The invariant names the whole stream b, where    *)
(* each message ends in it (c), and where the reader stands (off); every   *)
(* fact about bytes is one about a position of b, so that consuming,       *)
(* arriving and sending change off or the length of b and nothing else.    *)
(***************************************************************************)
EXTENDS DeviceStream, SequenceTheorems, TLAPS

------------------------------------------------------------------------------
(* The framing.                                                              *)

(* What is lost by a division is its remainder.                              *)
LEMMA DivMod ==
  ASSUME NEW v \in Nat
  PROVE  /\ v \div Base \in Nat /\ v % Base \in Nat
         /\ (v \div Base) * Base + (v % Base) = v
  BY BaseAssumption

(* A size that fits a uint16_t is kept; one that does not gets smaller.      *)
LEMMA U16Range ==
  ASSUME NEW n \in Nat
  PROVE  /\ U16(n) \in Nat
         /\ n < Base * Base => U16(n) = n
         /\ n >= Base * Base => U16(n) < n
  BY BaseAssumption DEF U16

(* writeU16BE appends two numbers, and readU16BE reads them back wherever    *)
(* they stand.                                                               *)
LEMMA U16RoundTrip ==
  ASSUME NEW v \in Nat
  PROVE  /\ writeU16BE(v) \in Seq(Nat) /\ Len(writeU16BE(v)) = 2
         /\ writeU16BE(v)[1] * Base + writeU16BE(v)[2] = v
  BY DivMod DEF writeU16BE

(* A sequence made of three parts.                                           *)
LEMMA ThreeParts ==
  \A s, t, u \in Seq(Nat) :
    /\ s \o t \o u \in Seq(Nat)
    /\ Len(s \o t \o u) = Len(s) + Len(t) + Len(u)
    /\ \A i \in 1..Len(s) : (s \o t \o u)[i] = s[i]
    /\ \A i \in 1..Len(t) : (s \o t \o u)[Len(s) + i] = t[i]
    /\ SubSeq(s \o t \o u, Len(s) + Len(t) + 1, Len(s) + Len(t) + Len(u)) = u
  OBVIOUS

(* The bytes of an encoded frame.                                            *)
LEMMA EncodedFrame ==
  ASSUME NEW t \in Byte, NEW g \in Byte, NEW p \in Seq(Byte),
         NEW d, d = encodeFrame(makeFrame(t, g, p))
  PROVE  /\ d \in Seq(Nat) /\ Len(d) = HEADER_SIZE + Len(p)
         /\ d[1] = VERSION_1 /\ d[2] = t /\ d[3] = g
         /\ readU16BE(d, 4) = U16(Len(p))
         /\ SubSeq(d, HEADER_SIZE + 1, Len(d)) = p
<1> DEFINE h == <<VERSION_1, t, g>>
           w == writeU16BE(U16(Len(p)))
<1>1. d = h \o w \o p
  BY DEF encodeFrame, makeFrame
<1>2. h \in Seq(Nat) /\ Len(h) = 3 /\ p \in Seq(Nat) /\ Len(p) \in Nat
  BY BaseAssumption DEF Byte, VERSION_1
<1>3. w \in Seq(Nat) /\ Len(w) = 2 /\ w[1] * Base + w[2] = U16(Len(p))
  BY <1>2, U16Range, U16RoundTrip
<1>4. h[1] = VERSION_1 /\ h[2] = t /\ h[3] = g
  OBVIOUS
<1> HIDE DEF h, w
<1>5. /\ d \in Seq(Nat) /\ Len(d) = Len(h) + Len(w) + Len(p)
      /\ \A i \in 1..Len(h) : d[i] = h[i]
      /\ \A i \in 1..Len(w) : d[Len(h) + i] = w[i]
      /\ SubSeq(d, Len(h) + Len(w) + 1, Len(h) + Len(w) + Len(p)) = p
  <2>1. PICK x \in Seq(Nat), y \in Seq(Nat), z \in Seq(Nat) : x = h /\ y = w /\ z = p
    BY <1>2, <1>3
  <2>2. /\ x \o y \o z \in Seq(Nat)
        /\ Len(x \o y \o z) = Len(x) + Len(y) + Len(z)
        /\ \A i \in 1..Len(x) : (x \o y \o z)[i] = x[i]
        /\ \A i \in 1..Len(y) : (x \o y \o z)[Len(x) + i] = y[i]
        /\ SubSeq(x \o y \o z, Len(x) + Len(y) + 1, Len(x) + Len(y) + Len(z)) = z
    BY ThreeParts
  <2>3. d = x \o y \o z
    BY <1>1, <2>1
  <2> QED BY <2>1, <2>2, <2>3, Zenon
<1>6. d[1] = h[1] /\ d[2] = h[2] /\ d[3] = h[3] /\ d[4] = w[1] /\ d[5] = w[2]
  BY <1>2, <1>3, <1>5
<1>7. Len(d) = 5 + Len(p) /\ SubSeq(d, 6, 5 + Len(p)) = p
  BY <1>2, <1>3, <1>5
<1>8. readU16BE(d, 4) = U16(Len(p))
  <2>1. readU16BE(d, 4) = d[4] * Base + d[5]
    BY DEF readU16BE
  <2> QED BY <1>3, <1>6, <2>1, Zenon
<1>9. d[1] = VERSION_1 /\ d[2] = t /\ d[3] = g
  BY <1>4, <1>6
<1>10. Len(d) = HEADER_SIZE + Len(p) /\ SubSeq(d, HEADER_SIZE + 1, Len(d)) = p
  <2>1. HEADER_SIZE = 5 /\ HEADER_SIZE + 1 = 6
    BY DEF HEADER_SIZE
  <2> QED BY <1>7, <2>1
<1> QED BY <1>5, <1>8, <1>9, <1>10, Zenon

(* parseFrame gives back what encodeFrame was given, and refuses a frame     *)
(* whose payload is too long for the length field.                           *)
THEOREM FrameRoundTrip ==
  ASSUME NEW t \in Byte, NEW g \in Byte, NEW p \in Seq(Byte)
  PROVE  FrameIntact(t, g, p)
<1> DEFINE d == encodeFrame(makeFrame(t, g, p))
<1>1. /\ d \in Seq(Nat) /\ Len(d) = HEADER_SIZE + Len(p)
      /\ d[1] = VERSION_1 /\ d[2] = t /\ d[3] = g
      /\ readU16BE(d, 4) = U16(Len(p))
      /\ SubSeq(d, HEADER_SIZE + 1, Len(d)) = p
  BY EncodedFrame
<1>2. Len(p) \in Nat
  OBVIOUS
<1> HIDE DEF d
<1>3. ~(Len(d) < HEADER_SIZE)
  BY <1>1, <1>2 DEF HEADER_SIZE
<1>4. CASE Len(p) < Base * Base
  <2>1. U16(Len(p)) = Len(p)
    BY <1>2, <1>4, U16Range
  <2>2. parseFrame(d) = {makeFrame(t, g, p)}
    BY <1>1, <1>3, <2>1 DEF parseFrame, makeFrame
  <2> QED BY <1>4, <2>2 DEF FrameIntact, d
<1>5. CASE ~(Len(p) < Base * Base)
  <2>1. U16(Len(p)) \in Nat /\ U16(Len(p)) < Len(p)
    BY <1>2, <1>5, U16Range, BaseAssumption
  <2>2. parseFrame(d) = {}
    BY <1>1, <1>2, <2>1 DEF parseFrame, HEADER_SIZE
  <2> QED BY <1>5, <2>2 DEF FrameIntact, d
<1> QED BY <1>4, <1>5

(* Lengths of which none grows and one gets smaller do not add up.           *)
LEMMA SmallerSum ==
  ASSUME NEW a \in Nat, NEW b \in Nat, NEW c \in Nat,
         NEW x \in Nat, NEW y \in Nat, NEW z \in Nat,
         x <= a, y <= b, z <= c, x < a \/ y < b \/ z < c
  PROVE  6 + a + b + c # 6 + x + y + z
  OBVIOUS

(* The payload d is a header of three lengths, then the three fields.        *)
AuthBytes(d, iv, devid, data) ==
  /\ d = buildAuthPayloadLV(iv, devid, data)
  /\ Len(d) = 6 + Len(iv) + Len(devid) + Len(data)
  /\ readU16BE(d, 1) = U16(Len(iv)) /\ readU16BE(d, 3) = U16(Len(devid))
  /\ readU16BE(d, 5) = U16(Len(data))
  /\ SubSeq(d, 7, 6 + Len(iv)) = iv
  /\ SubSeq(d, 7 + Len(iv), 6 + Len(iv) + Len(devid)) = devid
  /\ SubSeq(d, 7 + Len(iv) + Len(devid), 6 + Len(iv) + Len(devid) + Len(data)) = data

(* That is what buildAuthPayloadLV makes.                                    *)
LEMMA EncodedAuth ==
  ASSUME NEW iv \in Seq(Nat), NEW devid \in Seq(Nat), NEW data \in Seq(Nat)
  PROVE  \E d \in Seq(Nat) : AuthBytes(d, iv, devid, data)
<1>1. U16(Len(iv)) \in Nat /\ U16(Len(devid)) \in Nat /\ U16(Len(data)) \in Nat
  BY U16Range
<1>2. PICK x \in Seq(Nat) : /\ x = writeU16BE(U16(Len(iv))) /\ Len(x) = 2
                            /\ x[1] * Base + x[2] = U16(Len(iv))
  BY <1>1, U16RoundTrip
<1>3. PICK y \in Seq(Nat) : /\ y = writeU16BE(U16(Len(devid))) /\ Len(y) = 2
                            /\ y[1] * Base + y[2] = U16(Len(devid))
  BY <1>1, U16RoundTrip
<1>4. PICK z \in Seq(Nat) : /\ z = writeU16BE(U16(Len(data))) /\ Len(z) = 2
                            /\ z[1] * Base + z[2] = U16(Len(data))
  BY <1>1, U16RoundTrip
<1>5. /\ x \o y \o z \in Seq(Nat) /\ Len(x \o y \o z) = Len(x) + Len(y) + Len(z)
      /\ \A i \in 1..Len(x) : (x \o y \o z)[i] = x[i]
      /\ \A i \in 1..Len(y) : (x \o y \o z)[Len(x) + i] = y[i]
      /\ \A i \in 1..Len(z) : (x \o y \o z)[Len(x) + Len(y) + i] = z[i]
  OBVIOUS
<1>6. PICK h \in Seq(Nat) :
        /\ h = x \o y \o z /\ Len(h) = Len(x) + Len(y) + Len(z)
        /\ \A i \in 1..Len(x) : h[i] = x[i]
        /\ \A i \in 1..Len(y) : h[Len(x) + i] = y[i]
        /\ \A i \in 1..Len(z) : h[Len(x) + Len(y) + i] = z[i]
  BY <1>5, Zenon
<1>7. Len(h) = 6
  BY <1>2, <1>3, <1>4, <1>6
<1>8. /\ h[1] = x[1] /\ h[2] = x[2] /\ h[3] = y[1] /\ h[4] = y[2]
      /\ h[5] = z[1] /\ h[6] = z[2]
  BY <1>2, <1>3, <1>4, <1>6
<1>9. /\ h \o iv \o devid \o data \in Seq(Nat)
      /\ Len(h \o iv \o devid \o data) = Len(h) + Len(iv) + Len(devid) + Len(data)
      /\ \A i \in 1..Len(h) : (h \o iv \o devid \o data)[i] = h[i]
      /\ SubSeq(h \o iv \o devid \o data, Len(h) + 1, Len(h) + Len(iv)) = iv
      /\ SubSeq(h \o iv \o devid \o data, Len(h) + Len(iv) + 1,
                Len(h) + Len(iv) + Len(devid)) = devid
      /\ SubSeq(h \o iv \o devid \o data, Len(h) + Len(iv) + Len(devid) + 1,
                Len(h) + Len(iv) + Len(devid) + Len(data)) = data
  <2>1. /\ h \o iv \o devid \o data \in Seq(Nat)
        /\ Len(h \o iv \o devid \o data) = Len(h) + Len(iv) + Len(devid) + Len(data)
        /\ \A i \in 1..Len(h) : (h \o iv \o devid \o data)[i] = h[i]
    OBVIOUS
  <2>2. SubSeq(h \o iv \o devid \o data, Len(h) + 1, Len(h) + Len(iv)) = iv
    OBVIOUS
  <2>3. SubSeq(h \o iv \o devid \o data, Len(h) + Len(iv) + 1,
               Len(h) + Len(iv) + Len(devid)) = devid
    OBVIOUS
  <2>4. SubSeq(h \o iv \o devid \o data, Len(h) + Len(iv) + Len(devid) + 1,
               Len(h) + Len(iv) + Len(devid) + Len(data)) = data
    OBVIOUS
  <2> QED BY <2>1, <2>2, <2>3, <2>4, Zenon
<1>10. PICK d \in Seq(Nat) :
         /\ d = h \o iv \o devid \o data
         /\ Len(d) = Len(h) + Len(iv) + Len(devid) + Len(data)
         /\ \A i \in 1..Len(h) : d[i] = h[i]
         /\ SubSeq(d, Len(h) + 1, Len(h) + Len(iv)) = iv
         /\ SubSeq(d, Len(h) + Len(iv) + 1, Len(h) + Len(iv) + Len(devid)) = devid
         /\ SubSeq(d, Len(h) + Len(iv) + Len(devid) + 1,
                   Len(h) + Len(iv) + Len(devid) + Len(data)) = data
  BY <1>9, Zenon
<1>11. d = buildAuthPayloadLV(iv, devid, data)
  BY <1>2, <1>3, <1>4, <1>6, <1>10, Zenon DEF buildAuthPayloadLV
<1> DEFINE L == Len(h)
<1>a. /\ Len(d) = L + Len(iv) + Len(devid) + Len(data)
      /\ \A i \in 1..L : d[i] = h[i]
      /\ SubSeq(d, L + 1, L + Len(iv)) = iv
      /\ SubSeq(d, L + Len(iv) + 1, L + Len(iv) + Len(devid)) = devid
      /\ SubSeq(d, L + Len(iv) + Len(devid) + 1,
                L + Len(iv) + Len(devid) + Len(data)) = data
  BY <1>10, Zenon
<1>b. L = 6
  BY <1>7
<1> HIDE DEF L
<1>12. /\ d[1] = h[1] /\ d[2] = h[2] /\ d[3] = h[3] /\ d[4] = h[4]
       /\ d[5] = h[5] /\ d[6] = h[6]
  BY <1>a, <1>b
<1>13. /\ readU16BE(d, 1) = U16(Len(iv)) /\ readU16BE(d, 3) = U16(Len(devid))
       /\ readU16BE(d, 5) = U16(Len(data))
  <2>1. /\ x[1] * Base + x[2] = U16(Len(iv)) /\ y[1] * Base + y[2] = U16(Len(devid))
        /\ z[1] * Base + z[2] = U16(Len(data))
    BY <1>2, <1>3, <1>4, Zenon
  <2>2. /\ readU16BE(d, 1) = x[1] * Base + x[2] /\ readU16BE(d, 3) = y[1] * Base + y[2]
        /\ readU16BE(d, 5) = z[1] * Base + z[2]
    BY <1>8, <1>12 DEF readU16BE
  <2> QED BY <2>1, <2>2, Zenon
<1>14. Len(iv) \in Nat /\ Len(devid) \in Nat /\ Len(data) \in Nat
  OBVIOUS
<1>15. /\ Len(d) = 6 + Len(iv) + Len(devid) + Len(data)
       /\ SubSeq(d, 7, 6 + Len(iv)) = iv
  BY <1>a, <1>b, <1>14
<1>16. SubSeq(d, 7 + Len(iv), 6 + Len(iv) + Len(devid)) = devid
  BY <1>a, <1>b, <1>14
<1>17. SubSeq(d, 7 + Len(iv) + Len(devid),
              6 + Len(iv) + Len(devid) + Len(data)) = data
  BY <1>a, <1>b, <1>14
<1>18. AuthBytes(d, iv, devid, data)
  BY <1>11, <1>13, <1>15, <1>16, <1>17, Zenon DEF AuthBytes
<1> QED BY <1>18

(* Parsing such a payload gives the fields back, or nothing.                 *)
LEMMA AuthFieldsIntact ==
  ASSUME NEW iv \in Seq(Nat), NEW devid \in Seq(Nat), NEW data \in Seq(Nat)
  PROVE  AuthIntact(iv, devid, data)
<1>1. Len(iv) \in Nat /\ Len(devid) \in Nat /\ Len(data) \in Nat
  OBVIOUS
<1>d. PICK d \in Seq(Nat) : AuthBytes(d, iv, devid, data)
  BY EncodedAuth
<1>2. /\ d = buildAuthPayloadLV(iv, devid, data)
      /\ Len(d) = 6 + Len(iv) + Len(devid) + Len(data)
      /\ readU16BE(d, 1) = U16(Len(iv)) /\ readU16BE(d, 3) = U16(Len(devid))
      /\ readU16BE(d, 5) = U16(Len(data))
      /\ SubSeq(d, 7, 6 + Len(iv)) = iv
      /\ SubSeq(d, 7 + Len(iv), 6 + Len(iv) + Len(devid)) = devid
      /\ SubSeq(d, 7 + Len(iv) + Len(devid), 6 + Len(iv) + Len(devid) + Len(data)) = data
  BY <1>d, Zenon DEF AuthBytes
<1>3. PICK i \in Nat, n \in Nat, m \in Nat : i = Len(iv) /\ n = Len(devid) /\ m = Len(data)
  BY <1>1
<1>4. /\ U16(i) \in Nat /\ U16(n) \in Nat /\ U16(m) \in Nat
      /\ i < Base * Base => U16(i) = i
      /\ n < Base * Base => U16(n) = n
      /\ m < Base * Base => U16(m) = m
  BY U16Range
<1>5. /\ i >= Base * Base => U16(i) < i
      /\ n >= Base * Base => U16(n) < n
      /\ m >= Base * Base => U16(m) < m
  BY U16Range
<1>6. ~(Len(d) < 6)
  BY <1>1, <1>2
<1>7. CASE i < Base * Base /\ n < Base * Base /\ m < Base * Base
  <2>1. U16(Len(iv)) = Len(iv) /\ U16(Len(devid)) = Len(devid) /\ U16(Len(data)) = Len(data)
    BY <1>3, <1>4, <1>7
  <2>2. parseAuthPayloadLV(d) = {[iv |-> iv, devid |-> devid, data |-> data]}
    BY <1>2, <1>6, <2>1 DEF parseAuthPayloadLV
  <2> QED BY <1>2, <1>3, <1>7, <2>2 DEF AuthIntact
<1>8. CASE ~(i < Base * Base /\ n < Base * Base /\ m < Base * Base)
  <2>1. /\ U16(i) <= i /\ U16(n) <= n /\ U16(m) <= m
        /\ U16(i) < i \/ U16(n) < n \/ U16(m) < m
    BY <1>4, <1>5, <1>8, BaseAssumption
  <2>2. 6 + i + n + m # 6 + U16(i) + U16(n) + U16(m)
    BY <1>4, <2>1, SmallerSum
  <2>3. Len(d) # 6 + U16(Len(iv)) + U16(Len(devid)) + U16(Len(data))
    BY <1>2, <1>3, <2>2
  <2>4. parseAuthPayloadLV(d) = {}
    BY <1>2, <1>6, <2>3 DEF parseAuthPayloadLV
  <2> QED BY <1>2, <1>3, <1>8, <2>4 DEF AuthIntact
<1> QED BY <1>7, <1>8

(* parseAuthPayloadLV gives back the fields that buildAuthPayloadLV was      *)
(* given, and refuses a payload with a field too long for its length.        *)
THEOREM AuthRoundTrip ==
  ASSUME NEW iv \in Seq(Byte), NEW devid \in Seq(Byte), NEW data \in Seq(Byte)
  PROVE  AuthIntact(iv, devid, data)
<1>1. iv \in Seq(Nat) /\ devid \in Seq(Nat) /\ data \in Seq(Nat)
  BY BaseAssumption DEF Byte
<1> QED BY <1>1, AuthFieldsIntact

------------------------------------------------------------------------------
(* The reader.                                                               *)

(* What a device of each kind sends.                                         *)
Messages(kd) == IF kd = "json" THEN Lines ELSE Frames

(* A line is delivered unless it is empty.                                   *)
Skipped(kd, m) == kd = "json" /\ m = <<>>

Deliver(kd, ms, m) == IF Skipped(kd, m) THEN ms ELSE Append(ms, m)

Shape ==
  /\ kind \in {"json", "lowpower"} /\ count \in 0..MaxMessages
  /\ sent \in Seq(Messages(kind)) /\ handled \in Seq(Messages(kind))
  /\ net \in Seq(Byte) /\ arrived \in Seq(Byte)
  /\ phase \in {"detect", "line", "header", "payload", "ended"}
  /\ header \in [version : Byte, type : Byte, flag : Byte, size : 0..(Base * Base - 1)]
  /\ authed \in BOOLEAN /\ socket \in {"open", "reset", "closed"}
  /\ Len(sent) <= count

(* h is how ms begins.                                                       *)
Begins(h, ms) ==
  /\ Len(h) <= Len(ms)
  /\ \A i \in 1..Len(h) : h[i] = ms[i]

(* InSync, element by element.                                               *)
Prefix == Begins(handled, sent)

(* The bytes of b after position from, up to to, are those of one message.   *)
WireLine(b, from, to, l) ==
  /\ \A i \in 1..Len(l) : b[from + i] = l[i]
  /\ \/ to = from + Len(l) + 1
     \/ to = from + Len(l) + 2 /\ b[from + Len(l) + 1] = CR
  /\ b[to] = NL

WireFrame(b, from, to, f) ==
  /\ to = from + 5 + Len(f.payload)
  /\ b[from + 1] = f.version /\ b[from + 2] = f.type /\ b[from + 3] = f.flag
  /\ b[from + 4] * Base + b[from + 5] = f.size
  /\ \A i \in 1..Len(f.payload) : b[from + 5 + i] = f.payload[i]

Wire(kd, b, from, to, m) ==
  /\ kd = "json" => WireLine(b, from, to, m)
  /\ kd = "lowpower" => WireFrame(b, from, to, m)

Typed(kd, n, ms, b, w, c, e) ==
  /\ kd \in {"json", "lowpower"} /\ n \in Nat /\ ms \in Seq(Messages(kd))
  /\ b \in Seq(Byte) /\ w \in [1..n -> Messages(kd)]
  /\ c \in [0..n -> Nat] /\ e \in [0..n -> Nat]

(* s is what is sent for m.                                                  *)
Encodes(kd, s, m) ==
  m \in Messages(kd) /\ s \in Seq(Byte) /\ Len(s) > 0 /\ Wire(kd, s, 0, Len(s), m)

(* b is all that a device of kind kd has sent: n messages, w[k] from c[k - 1] *)
(* to c[k], after which e[k] messages that are not empty, those of ms, have  *)
(* been sent.                                                                *)
Cut(kd, n, ms, b, w, c, e) ==
  /\ c[0] = 0 /\ c[n] = Len(b) /\ e[0] = 0 /\ e[n] = Len(ms)
  /\ \A k \in 1..n :
       /\ c[k - 1] < c[k] /\ c[k] <= Len(b) /\ Wire(kd, b, c[k - 1], c[k], w[k])
       /\ e[k] <= Len(ms)
       /\ Skipped(kd, w[k]) => e[k] = e[k - 1]
       /\ ~Skipped(kd, w[k]) => e[k] = e[k - 1] + 1 /\ ms[e[k]] = w[k]

(* a is what b holds after off.                                              *)
Holds(b, off, a) == \A i \in 1..Len(a) : a[i] = b[off + i]

(* The bytes of b after off: first those that have arrived, then those under *)
(* way.                                                                      *)
Rest(b, off, first, then) ==
  /\ off + Len(first) + Len(then) = Len(b)
  /\ Holds(b, off, first) /\ Holds(b, off + Len(first), then)

(* The reader has handled k messages and stands at the start of the next, or *)
(* behind its header.                                                        *)
Reading(w, c, e, k, off) ==
  /\ Len(handled) = e[k]
  /\ phase \in {"detect", "line", "header"} => off = c[k]
  /\ phase = "payload" =>
       /\ k < count /\ off = c[k] + 5
       /\ header = [version |-> w[k + 1].version, type |-> w[k + 1].type,
                    flag |-> w[k + 1].flag, size |-> w[k + 1].size]
  /\ phase = "detect" => k = 0
  /\ phase = "line" => kind = "json"
  /\ phase \in {"header", "payload"} => kind = "lowpower"

Stream ==
  \E b, w, c, e :
    /\ Typed(kind, count, sent, b, w, c, e) /\ Cut(kind, count, sent, b, w, c, e)
    /\ \E k \in 0..count, off \in Nat :
         Rest(b, off, arrived, net) /\ Reading(w, c, e, k, off)

IInv == Shape /\ Prefix /\ (phase # "ended" => Stream)

------------------------------------------------------------------------------
(* What is left when n bytes are consumed.                                   *)
LEMMA DropBytes ==
  ASSUME NEW s \in Seq(Byte), NEW n \in 0..Len(s)
  PROVE  /\ Drop(s, n) \in Seq(Byte) /\ Len(Drop(s, n)) = Len(s) - n
         /\ \A i \in 1..(Len(s) - n) : Drop(s, n)[i] = s[n + i]
<1>1. Len(s) \in Nat /\ \A i \in (n + 1)..Len(s) : s[i] \in Byte
  OBVIOUS
<1>2. /\ SubSeq(s, n + 1, Len(s)) \in Seq(Byte)
      /\ Len(SubSeq(s, n + 1, Len(s))) =
           IF n + 1 <= Len(s) THEN Len(s) - (n + 1) + 1 ELSE 0
      /\ \A i \in 1..(Len(s) - (n + 1) + 1) :
           SubSeq(s, n + 1, Len(s))[i] = s[n + 1 + i - 1]
  BY <1>1, SubSeqProperties
<1> QED BY <1>1, <1>2 DEF Drop

(* Consuming n bytes moves the reader on by n.                               *)
LEMMA Consume ==
  ASSUME NEW b \in Seq(Byte), NEW off \in Nat, NEW a \in Seq(Byte), NEW t \in Seq(Byte),
         Rest(b, off, a, t), NEW n \in 0..Len(a)
  PROVE  Rest(b, off + n, Drop(a, n), t)
<1>1. Len(a) \in Nat /\ Len(t) \in Nat /\ Len(b) \in Nat /\ n \in Nat
  OBVIOUS
<1>d. /\ Len(Drop(a, n)) = Len(a) - n
      /\ \A i \in 1..(Len(a) - n) : Drop(a, n)[i] = a[n + i]
  BY DropBytes, Zenon
<1>2. PICK d : /\ d = Drop(a, n) /\ Len(d) = Len(a) - n
               /\ \A i \in 1..(Len(a) - n) : d[i] = a[n + i]
  BY <1>d, Zenon
<1>l. off + Len(a) + Len(t) = Len(b)
  BY DEF Rest, Holds
<1>m. Len(d) = Len(a) - n
  BY <1>2
<1>3. off + n + Len(d) + Len(t) = Len(b)
  <2>1. PICK p \in Nat, q \in Nat, z \in Nat : p = Len(a) /\ q = Len(t) /\ z = Len(b)
    BY <1>1
  <2>2. Len(d) = p - n /\ off + p + q = z
    BY <1>m, <1>l, <2>1
  <2>3. off + n + (p - n) + q = z
    BY <2>2
  <2> QED BY <2>1, <2>2, <2>3
<1>4. ASSUME NEW i \in 1..Len(d)
      PROVE  d[i] = b[off + n + i]
  <2>1. n + i \in 1..Len(a) /\ d[i] = a[n + i]
    BY <1>1, <1>2
  <2>2. d[i] = b[off + (n + i)]
    BY <2>1 DEF Rest, Holds
  <2>3. off + (n + i) = off + n + i
    BY <1>1
  <2> QED BY <2>2, <2>3
<1>5. ASSUME NEW i \in 1..Len(t)
      PROVE  t[i] = b[off + n + Len(d) + i]
  <2>1. off + n + Len(d) + i = off + Len(a) + i
    BY <1>1, <1>m
  <2> QED BY <2>1 DEF Rest, Holds
<1> QED BY <1>2, <1>3, <1>4, <1>5 DEF Rest, Holds

(* A byte that arrives was the first of those under way.                     *)
LEMMA ArriveRest ==
  ASSUME NEW b \in Seq(Byte), NEW off \in Nat, NEW a \in Seq(Byte), NEW t \in Seq(Byte),
         Rest(b, off, a, t), t # <<>>
  PROVE  /\ Append(a, Head(t)) \in Seq(Byte) /\ Tail(t) \in Seq(Byte)
         /\ Rest(b, off, Append(a, Head(t)), Tail(t))
<1>1. /\ Len(a) \in Nat /\ Len(t) \in Nat /\ Len(b) \in Nat /\ Len(t) > 0
      /\ Head(t) = t[1] /\ Head(t) \in Byte
  OBVIOUS
<1>d. /\ Append(a, Head(t)) \in Seq(Byte) /\ Len(Append(a, Head(t))) = Len(a) + 1
      /\ \A i \in 1..Len(a) : Append(a, Head(t))[i] = a[i]
      /\ Append(a, Head(t))[Len(a) + 1] = t[1]
  BY <1>1, AppendProperties
<1>u. /\ Tail(t) \in Seq(Byte) /\ Len(Tail(t)) = Len(t) - 1
      /\ \A i \in 1..(Len(t) - 1) : Tail(t)[i] = t[i + 1]
  BY HeadTailProperties
<1>2. PICK d \in Seq(Byte) :
        /\ d = Append(a, Head(t)) /\ Len(d) = Len(a) + 1
        /\ \A i \in 1..Len(a) : d[i] = a[i]
        /\ d[Len(a) + 1] = t[1]
  BY <1>d, Zenon
<1>3. PICK u \in Seq(Byte) :
        /\ u = Tail(t) /\ Len(u) = Len(t) - 1
        /\ \A i \in 1..(Len(t) - 1) : u[i] = t[i + 1]
  BY <1>u, Zenon
<1>4. off + Len(d) + Len(u) = Len(b)
  BY <1>1, <1>2, <1>3 DEF Rest, Holds
<1>5. ASSUME NEW i \in 1..Len(d) PROVE d[i] = b[off + i]
  <2>1. CASE i <= Len(a)
    BY <1>1, <1>2, <2>1 DEF Rest, Holds
  <2>2. CASE i = Len(a) + 1
    <3>1. t[1] = b[off + Len(a) + 1]
      BY <1>1 DEF Rest, Holds
    <3>2. off + Len(a) + 1 = off + (Len(a) + 1)
      BY <1>1
    <3> QED BY <1>2, <2>2, <3>1, <3>2
  <2> QED BY <1>1, <1>2, <2>1, <2>2
<1>6. ASSUME NEW i \in 1..Len(u) PROVE u[i] = b[off + Len(d) + i]
  <2>1. i + 1 \in 1..Len(t) /\ u[i] = t[i + 1]
    BY <1>1, <1>3
  <2>2. t[i + 1] = b[off + Len(a) + (i + 1)]
    BY <2>1 DEF Rest, Holds
  <2>3. off + Len(a) + (i + 1) = off + Len(d) + i
    BY <1>1, <1>2
  <2> QED BY <2>1, <2>2, <2>3
<1>7. Rest(b, off, d, u)
  BY <1>4, <1>5, <1>6 DEF Rest, Holds
<1> QED BY <1>2, <1>3, <1>7

(* The next message is there as soon as one byte is.                         *)
LEMMA NextMessage ==
  ASSUME NEW kd, NEW n \in Nat, NEW ms, NEW b \in Seq(Byte), NEW w,
         NEW c \in [0..n -> Nat], NEW e, Cut(kd, n, ms, b, w, c, e),
         NEW a \in Seq(Byte), NEW t \in Seq(Byte), NEW k \in 0..n,
         Rest(b, c[k], a, t), Len(a) > 0
  PROVE  /\ k < n /\ k + 1 \in 1..n
         /\ c[k] < c[k + 1] /\ Wire(kd, b, c[k], c[k + 1], w[k + 1])
<1>1. Len(b) \in Nat /\ Len(a) \in Nat /\ Len(t) \in Nat /\ c[k] \in Nat
  OBVIOUS
<1>2. c[k] < Len(b)
  BY <1>1 DEF Rest, Holds
<1>3. k # n
  BY <1>1, <1>2 DEF Cut
<1>4. k + 1 \in 1..n /\ (k + 1) - 1 = k
  BY <1>3
<1> QED BY <1>1, <1>4 DEF Cut

(* m is the next of ms after the first x, unless it is empty, and y are      *)
(* delivered with it.                                                        *)
Entry(kd, ms, m, x, y) ==
  /\ m \in Messages(kd) /\ x \in Nat /\ y \in Nat /\ y <= Len(ms)
  /\ Skipped(kd, m) => y = x
  /\ ~Skipped(kd, m) => y = x + 1 /\ ms[y] = m

(* The message after the first k.                                            *)
LEMMA NextEntry ==
  ASSUME NEW kd, NEW n, NEW ms, NEW b, NEW w, NEW c, NEW e,
         Typed(kd, n, ms, b, w, c, e), Cut(kd, n, ms, b, w, c, e), NEW k \in 0..n, k < n
  PROVE  Entry(kd, ms, w[k + 1], e[k], e[k + 1])
<1>1. /\ n \in Nat /\ w \in [1..n -> Messages(kd)] /\ e \in [0..n -> Nat]
  BY DEF Typed
<1>2. k + 1 \in 1..n /\ (k + 1) - 1 = k /\ e[k] \in Nat /\ e[k + 1] \in Nat
  BY <1>1
<1>3. /\ e[k + 1] <= Len(ms)
      /\ Skipped(kd, w[k + 1]) => e[k + 1] = e[k]
      /\ ~Skipped(kd, w[k + 1]) => e[k + 1] = e[k] + 1 /\ ms[e[k + 1]] = w[k + 1]
  BY <1>2 DEF Cut
<1>4. w[k + 1] \in Messages(kd)
  BY <1>1, <1>2
<1> QED BY <1>2, <1>3, <1>4, Zenon DEF Entry

(* It is handled.                                                            *)
LEMMA Handle ==
  ASSUME NEW kd, NEW ms \in Seq(Messages(kd)), NEW h \in Seq(Messages(kd)), Begins(h, ms),
         NEW m \in Messages(kd), NEW y \in Nat, y <= Len(ms),
         Skipped(kd, m) => y = Len(h),
         ~Skipped(kd, m) => y = Len(h) + 1 /\ ms[y] = m
  PROVE  /\ Deliver(kd, h, m) \in Seq(Messages(kd))
         /\ Len(Deliver(kd, h, m)) = y
         /\ Begins(Deliver(kd, h, m), ms)
<1>1. CASE Skipped(kd, m)
  BY <1>1 DEF Deliver
<1>2. CASE ~Skipped(kd, m)
  <2>1. PICK g : g = Append(h, m) /\ g = Deliver(kd, h, m)
    BY <1>2 DEF Deliver
  <2>2. /\ Append(h, m) \in Seq(Messages(kd)) /\ Len(Append(h, m)) = Len(h) + 1
        /\ \A i \in 1..Len(h) : Append(h, m)[i] = h[i]
        /\ Append(h, m)[Len(h) + 1] = m
    BY AppendProperties
  <2>3. /\ g \in Seq(Messages(kd)) /\ Len(g) = Len(h) + 1
        /\ \A i \in 1..Len(h) : g[i] = h[i]
        /\ g[Len(h) + 1] = m
    BY <2>1, <2>2
  <2>4. ASSUME NEW i \in 1..Len(g) PROVE g[i] = ms[i]
    <3>1. CASE i \in 1..Len(h)
      BY <2>3, <3>1 DEF Begins
    <3>2. CASE i = Len(h) + 1
      BY <1>2, <2>3, <3>2
    <3> QED BY <2>3, <3>1, <3>2
  <2>5. Len(g) = y /\ Len(g) <= Len(ms)
    BY <1>2, <2>3
  <2> QED BY <2>1, <2>3, <2>4, <2>5 DEF Begins
<1> QED BY <1>1, <1>2

(* Where a message is read only depends on its bytes.                        *)
LEMMA WireShift ==
  ASSUME NEW kd \in {"json", "lowpower"}, NEW m \in Messages(kd), NEW b, NEW b2,
         NEW d \in Nat, NEW from \in Nat, NEW to \in Nat,
         Wire(kd, b, from, to, m),
         \A i \in (from + 1)..to : b2[d + i] = b[i]
  PROVE  Wire(kd, b2, d + from, d + to, m)
<1>1. CASE kd = "json"
  <2>1. m \in Seq(Byte) /\ Len(m) \in Nat
    BY <1>1, LinesAssumption DEF Messages
  <2>2. WireLine(b, from, to, m)
    BY <1>1 DEF Wire
  <2>3. to \in (from + 1)..to /\ to > from + Len(m)
    BY <2>1, <2>2 DEF WireLine
  <2>4. ASSUME NEW i \in 1..Len(m) PROVE b2[d + from + i] = m[i]
    <3>1. from + i \in (from + 1)..to /\ d + (from + i) = d + from + i
      BY <2>1, <2>3
    <3> QED BY <2>2, <3>1 DEF WireLine
  <2>5. b2[d + to] = NL
    BY <2>2, <2>3 DEF WireLine
  <2>6. CASE to = from + Len(m) + 1
    <3>1. d + to = d + from + Len(m) + 1
      BY <2>1, <2>6
    <3> QED BY <1>1, <2>4, <2>5, <3>1 DEF Wire, WireLine
  <2>7. CASE to = from + Len(m) + 2 /\ b[from + Len(m) + 1] = CR
    <3>1. d + to = d + from + Len(m) + 2
      BY <2>1, <2>7
    <3>2. /\ from + Len(m) + 1 \in (from + 1)..to
          /\ d + (from + Len(m) + 1) = d + from + Len(m) + 1
      BY <2>1, <2>7
    <3>3. b2[d + from + Len(m) + 1] = CR
      BY <2>7, <3>2
    <3> QED BY <1>1, <2>4, <2>5, <3>1, <3>3 DEF Wire, WireLine
  <2> QED BY <2>2, <2>6, <2>7 DEF WireLine
<1>2. CASE kd = "lowpower"
  <2>1. m.payload \in Seq(Byte) /\ Len(m.payload) \in Nat
    BY <1>2, FramesAssumption DEF Messages, Frame
  <2>2. WireFrame(b, from, to, m)
    BY <1>2 DEF Wire
  <2>n. PICK n \in Nat : n = Len(m.payload)
    BY <2>1
  <2>3. to = from + 5 + n
    BY <2>2, <2>n DEF WireFrame
  <2>4. ASSUME NEW i \in 1..5 PROVE b2[d + from + i] = b[from + i]
    <3>1. from + i \in (from + 1)..to /\ d + (from + i) = d + from + i
      BY <2>3
    <3> QED BY <3>1
  <2>5. ASSUME NEW i \in 1..Len(m.payload) PROVE b2[d + from + 5 + i] = m.payload[i]
    <3>1. /\ from + 5 + i \in (from + 1)..to
          /\ d + (from + 5 + i) = d + from + 5 + i
      BY <2>n, <2>3
    <3> QED BY <2>2, <3>1 DEF WireFrame
  <2>6. d + to = d + from + 5 + n
    BY <2>3
  <2>7. /\ b2[d + from + 1] = m.version /\ b2[d + from + 2] = m.type
        /\ b2[d + from + 3] = m.flag
        /\ b2[d + from + 4] * Base + b2[d + from + 5] = m.size
    BY <2>2, <2>4 DEF WireFrame
  <2> QED BY <1>2, <2>n, <2>5, <2>6, <2>7 DEF Wire, WireFrame
<1> QED BY <1>1, <1>2

(* A message sent: b grows by its bytes, w, c and e by an element.            *)
Push(f, n, x) == [i \in DOMAIN f \cup {n + 1} |-> IF i = n + 1 THEN x ELSE f[i]]

(* b with s behind it, byte by byte.                                         *)
LEMMA ExtendBytes ==
  ASSUME NEW b \in Seq(Byte), NEW s \in Seq(Byte)
  PROVE  /\ b \o s \in Seq(Byte) /\ Len(b \o s) = Len(b) + Len(s)
         /\ \A i \in 1..Len(b) : (b \o s)[i] = b[i]
         /\ \A i \in 1..Len(s) : (b \o s)[Len(b) + i] = s[i]
<1>1. Len(b) \in Nat /\ Len(s) \in Nat
  OBVIOUS
<1>2. /\ b \o s \in Seq(Byte) /\ Len(b \o s) = Len(b) + Len(s)
      /\ \A i \in 1 .. Len(b) + Len(s) : (b \o s)[i] =
            IF i <= Len(b) THEN b[i] ELSE s[i - Len(b)]
  BY ConcatProperties
<1>3. ASSUME NEW i \in 1..Len(b) PROVE (b \o s)[i] = b[i]
  BY <1>1, <1>2
<1>4. ASSUME NEW i \in 1..Len(s) PROVE (b \o s)[Len(b) + i] = s[i]
  <2>1. /\ Len(b) + i \in 1 .. Len(b) + Len(s) /\ ~(Len(b) + i <= Len(b))
        /\ (Len(b) + i) - Len(b) = i
    BY <1>1
  <2> QED BY <1>2, <2>1
<1> QED BY <1>2, <1>3, <1>4

(* The rest of the stream grows by what is sent.                             *)
LEMMA ExtendRest ==
  ASSUME NEW b \in Seq(Byte), NEW off \in Nat, NEW a \in Seq(Byte), NEW t \in Seq(Byte),
         Rest(b, off, a, t), NEW s \in Seq(Byte)
  PROVE  Rest(b \o s, off, a, t \o s)
<1>1. Len(a) \in Nat /\ Len(t) \in Nat /\ Len(b) \in Nat /\ Len(s) \in Nat
  OBVIOUS
<1>b. /\ Len(b \o s) = Len(b) + Len(s)
      /\ \A i \in 1..Len(b) : (b \o s)[i] = b[i]
      /\ \A i \in 1..Len(s) : (b \o s)[Len(b) + i] = s[i]
  BY ExtendBytes, Zenon
<1>t. /\ Len(t \o s) = Len(t) + Len(s)
      /\ \A i \in 1..Len(t) : (t \o s)[i] = t[i]
      /\ \A i \in 1..Len(s) : (t \o s)[Len(t) + i] = s[i]
  BY ExtendBytes, Zenon
<1>2. PICK d : /\ d = b \o s /\ Len(d) = Len(b) + Len(s)
               /\ \A i \in 1..Len(b) : d[i] = b[i]
               /\ \A i \in 1..Len(s) : d[Len(b) + i] = s[i]
  BY <1>b, Zenon
<1>3. PICK u : /\ u = t \o s /\ Len(u) = Len(t) + Len(s)
               /\ \A i \in 1..Len(t) : u[i] = t[i]
               /\ \A i \in 1..Len(s) : u[Len(t) + i] = s[i]
  BY <1>t, Zenon
<1>4. off + Len(a) + Len(t) = Len(b)
  BY DEF Rest, Holds
<1>l. Len(d) = Len(b) + Len(s) /\ Len(u) = Len(t) + Len(s)
  BY <1>2, <1>3, Zenon
<1>n. PICK la \in Nat, lt \in Nat, lb \in Nat, ls \in Nat :
        la = Len(a) /\ lt = Len(t) /\ lb = Len(b) /\ ls = Len(s)
  BY <1>1
<1>o. off + la + lt = lb
  BY <1>4, <1>n
<1>5. off + Len(a) + Len(u) = Len(d)
  <2>1. off + la + (lt + ls) = lb + ls
    BY <1>o
  <2> QED BY <1>l, <1>n, <2>1, Zenon
<1>6. ASSUME NEW i \in 1..Len(a) PROVE a[i] = d[off + i]
  <2>1. off + i \in 1..Len(b)
    BY <1>1, <1>4
  <2> QED BY <1>2, <2>1 DEF Rest, Holds
<1>7. ASSUME NEW i \in 1..Len(u) PROVE u[i] = d[off + Len(a) + i]
  <2>1. CASE i <= Len(t)
    <3>1. off + Len(a) + i \in 1..Len(b) /\ i \in 1..Len(t)
      BY <1>1, <1>4, <2>1
    <3> QED BY <1>2, <1>3, <3>1 DEF Rest, Holds
  <2>2. CASE ~(i <= Len(t))
    <3>1. PICK j \in 1..Len(s) : i = Len(t) + j
      <4>1. i - Len(t) \in 1..Len(s) /\ i = Len(t) + (i - Len(t))
        BY <1>1, <1>l, <2>2
      <4> QED BY <4>1
    <3>i. i = Len(t) + j
      BY <3>1
    <3>2. off + Len(a) + i = Len(b) + j
      <4>1. j \in Nat
        BY <1>n
      <4>2. off + la + (lt + j) = lb + j
        BY <1>o, <4>1
      <4> QED BY <1>n, <3>i, <4>2, Zenon
    <3> QED BY <1>2, <1>3, <3>1, <3>2
  <2> QED BY <2>1, <2>2
<1>8. Rest(d, off, a, u)
  BY <1>5, <1>6, <1>7 DEF Rest, Holds
<1> QED BY <1>2, <1>3, <1>8

(* The first n messages and where they end stay as they were.                *)
Extends(n, w, c, e, w2, c2, e2) ==
  /\ \A i \in 1..n : w2[i] = w[i]
  /\ \A i \in 0..n : c2[i] = c[i] /\ e2[i] = e[i]

(* A message that is sent is one piece more of the stream.                   *)
LEMMA ExtendCut ==
  ASSUME NEW kd, NEW n, NEW ms, NEW b, NEW w, NEW c, NEW e,
         Typed(kd, n, ms, b, w, c, e), Cut(kd, n, ms, b, w, c, e),
         NEW m, NEW s, Encodes(kd, s, m), NEW ms2, ms2 = Deliver(kd, ms, m)
  PROVE  \E w2, c2, e2 :
           /\ Typed(kd, n + 1, ms2, b \o s, w2, c2, e2)
           /\ Cut(kd, n + 1, ms2, b \o s, w2, c2, e2)
           /\ Extends(n, w, c, e, w2, c2, e2)
<1>0. /\ kd \in {"json", "lowpower"} /\ n \in Nat
      /\ m \in Messages(kd) /\ n + 1 \in Nat
  BY DEF Typed, Encodes
<1>w. w \in [1..n -> Messages(kd)]
  BY DEF Typed
<1>c. c \in [0..n -> Nat] /\ e \in [0..n -> Nat]
  BY DEF Typed
<1>1. PICK lb \in Nat, ls \in Nat, lm \in Nat :
        lb = Len(b) /\ ls = Len(s) /\ lm = Len(ms) /\ ls > 0
  BY DEF Typed, Encodes
<1>b. /\ b \o s \in Seq(Byte) /\ Len(b \o s) = Len(b) + Len(s)
      /\ \A i \in 1..Len(b) : (b \o s)[i] = b[i]
      /\ \A i \in 1..Len(s) : (b \o s)[Len(b) + i] = s[i]
  <2>1. b \in Seq(Byte) /\ s \in Seq(Byte)
    BY DEF Typed, Encodes
  <2> QED BY <2>1, ExtendBytes, Zenon
<1>2. PICK b2 \in Seq(Byte), top \in Nat :
        /\ b2 = b \o s /\ Len(b2) = top /\ top = lb + ls
        /\ \A i \in 1..lb : b2[i] = b[i]
        /\ \A i \in 1..ls : b2[lb + i] = s[i]
  <2>1. lb + ls \in Nat
    OBVIOUS
  <2> QED BY <1>b, <1>1, <2>1, Zenon
<1>t. lb < top /\ lb <= top
  BY <1>1, <1>2
<1>3. PICK lm2 \in Nat :
        /\ ms2 \in Seq(Messages(kd)) /\ lm2 = Len(ms2) /\ lm <= lm2
        /\ Skipped(kd, m) => lm2 = lm
        /\ ~Skipped(kd, m) => lm2 = lm + 1 /\ ms2[lm2] = m
        /\ \A i \in 1..lm : ms2[i] = ms[i]
  <2>0. ms \in Seq(Messages(kd))
    BY DEF Typed
  <2>1. CASE Skipped(kd, m)
    BY <1>1, <2>0, <2>1 DEF Deliver
  <2>2. CASE ~Skipped(kd, m)
    <3>1. ms2 = Append(ms, m)
      BY <2>2 DEF Deliver
    <3>2. /\ Len(Append(ms, m)) = lm + 1 /\ Append(ms, m)[lm + 1] = m
          /\ Append(ms, m) \in Seq(Messages(kd))
          /\ \A i \in 1..lm : Append(ms, m)[i] = ms[i]
      BY <1>0, <1>1, <2>0, AppendProperties
    <3>3. lm + 1 \in Nat /\ lm <= lm + 1
      OBVIOUS
    <3> QED BY <2>2, <3>1, <3>2, <3>3
  <2> QED BY <2>1, <2>2
<1>5. PICK w2 \in [1..(n + 1) -> Messages(kd)] :
        w2[n + 1] = m /\ \A i \in 1..n : w2[i] = w[i]
  <2>1. /\ Push(w, n, m) \in [1..(n + 1) -> Messages(kd)] /\ Push(w, n, m)[n + 1] = m
        /\ \A i \in 1..n : Push(w, n, m)[i] = w[i]
    <3>1. /\ (1..n) \cup {n + 1} = 1..(n + 1) /\ n + 1 \notin 1..n
      BY <1>0
    <3> QED BY <1>0, <1>w, <3>1 DEF Push
  <2> QED BY <2>1, Zenon
<1>6. PICK c2 \in [0..(n + 1) -> Nat] :
        c2[n + 1] = top /\ \A i \in 0..n : c2[i] = c[i]
  <2>1. /\ Push(c, n, top) \in [0..(n + 1) -> Nat] /\ Push(c, n, top)[n + 1] = top
        /\ \A i \in 0..n : Push(c, n, top)[i] = c[i]
    <3>1. /\ (0..n) \cup {n + 1} = 0..(n + 1) /\ n + 1 \notin 0..n
      BY <1>0
    <3> QED BY <1>0, <1>c, <3>1 DEF Push
  <2> QED BY <2>1, Zenon
<1>7. PICK e2 \in [0..(n + 1) -> Nat] :
        e2[n + 1] = lm2 /\ \A i \in 0..n : e2[i] = e[i]
  <2>1. /\ Push(e, n, lm2) \in [0..(n + 1) -> Nat] /\ Push(e, n, lm2)[n + 1] = lm2
        /\ \A i \in 0..n : Push(e, n, lm2)[i] = e[i]
    <3>1. /\ (0..n) \cup {n + 1} = 0..(n + 1) /\ n + 1 \notin 0..n
      BY <1>0
    <3> QED BY <1>0, <1>c, <3>1 DEF Push
  <2> QED BY <2>1, Zenon
<1>8. ASSUME NEW k \in 1..(n + 1)
      PROVE  /\ c2[k - 1] < c2[k] /\ c2[k] <= top /\ Wire(kd, b2, c2[k - 1], c2[k], w2[k])
             /\ e2[k] <= lm2
             /\ Skipped(kd, w2[k]) => e2[k] = e2[k - 1]
             /\ ~Skipped(kd, w2[k]) => e2[k] = e2[k - 1] + 1 /\ ms2[e2[k]] = w2[k]
  <2>1. CASE k \in 1..n
    <3>1. /\ k - 1 \in 0..n /\ k \in 0..n
          /\ w2[k] = w[k] /\ c2[k] = c[k] /\ c2[k - 1] = c[k - 1]
          /\ e2[k] = e[k] /\ e2[k - 1] = e[k - 1] /\ w[k] \in Messages(kd)
          /\ c[k] \in Nat /\ c[k - 1] \in Nat /\ e[k] \in Nat /\ e[k - 1] \in Nat
      BY <1>0, <1>w, <1>c, <1>5, <1>6, <1>7, <2>1
    <3>2. /\ c[k - 1] < c[k] /\ c[k] <= lb /\ Wire(kd, b, c[k - 1], c[k], w[k])
          /\ e[k] <= lm
          /\ Skipped(kd, w[k]) => e[k] = e[k - 1]
          /\ ~Skipped(kd, w[k]) => e[k] = e[k - 1] + 1 /\ ms[e[k]] = w[k]
      BY <1>1, <2>1 DEF Cut
    <3>i. PICK from \in Nat, to \in Nat : from = c[k - 1] /\ to = c[k]
      BY <3>1
    <3>3. \A i \in (c[k - 1] + 1)..c[k] : b2[0 + i] = b[i]
      <4>1. \A i \in (from + 1)..to : i \in 1..lb /\ 0 + i = i
        BY <3>i, <3>2
      <4> QED BY <1>2, <3>i, <4>1
    <3>4. 0 + c[k - 1] = c[k - 1] /\ 0 + c[k] = c[k] /\ 0 \in Nat
      BY <3>i
    <3>5. Wire(kd, b2, 0 + c[k - 1], 0 + c[k], w[k])
      BY <1>0, <3>1, <3>2, <3>3, <3>4, WireShift
    <3>6. c[k] <= top /\ e[k] <= lm2
      <4>1. lm <= lm2
        BY <1>3
      <4> QED BY <1>t, <3>1, <3>2, <4>1
    <3>7. ~Skipped(kd, w[k]) => ms2[e[k]] = w[k]
      <4>1. ~Skipped(kd, w[k]) => e[k] \in 1..lm
        BY <3>1, <3>2
      <4> QED BY <1>3, <3>2, <4>1
    <3> QED BY <3>1, <3>2, <3>4, <3>5, <3>6, <3>7
  <2>2. CASE k = n + 1
    <3>1. /\ k - 1 = n /\ n \in 0..n
          /\ w2[k] = m /\ c2[k] = top /\ c2[k - 1] = c[n]
          /\ e2[k] = lm2 /\ e2[k - 1] = e[n]
      BY <1>0, <1>5, <1>6, <1>7, <2>2
    <3>2. c[n] = lb /\ e[n] = lm
      BY <1>1 DEF Cut
    <3>3. 0 + 1 = 1 /\ lb + 0 = lb /\ 0 \in Nat
      BY <1>1
    <3>4. \A i \in (0 + 1)..ls : b2[lb + i] = s[i]
      BY <1>2, <3>3
    <3>5. Wire(kd, s, 0, ls, m)
      BY <1>1 DEF Encodes
    <3>6. Wire(kd, b2, lb + 0, lb + ls, m)
      BY <1>0, <3>3, <3>4, <3>5, WireShift
    <3>7. Wire(kd, b2, lb, top, m)
      BY <1>2, <3>3, <3>6, Zenon
    <3>8. lb < top /\ top <= top /\ lm2 <= lm2
      BY <1>t
    <3>9. /\ Skipped(kd, m) => lm2 = lm
          /\ ~Skipped(kd, m) => lm2 = lm + 1 /\ ms2[lm2] = m
      BY <1>3
    <3> QED BY <3>1, <3>2, <3>7, <3>8, <3>9
  <2>3. k \in 1..n \/ k = n + 1
    BY <1>0
  <2> QED BY <2>1, <2>2, <2>3
<1>9. c2[0] = 0 /\ e2[0] = 0
  <2>1. 0 \in 0..n /\ c[0] = 0 /\ e[0] = 0
    BY <1>0 DEF Cut
  <2> QED BY <1>6, <1>7, <2>1
<1>10. Cut(kd, n + 1, ms2, b2, w2, c2, e2)
  <2>1. Len(b2) = top /\ Len(ms2) = lm2
    BY <1>2, <1>3
  <2>2. c2[n + 1] = top /\ e2[n + 1] = lm2
    BY <1>6, <1>7
  <2> QED BY <1>8, <1>9, <2>1, <2>2 DEF Cut
<1>11. Typed(kd, n + 1, ms2, b2, w2, c2, e2)
  BY <1>0, <1>2, <1>3 DEF Typed
<1>12. b2 = b \o s
  BY <1>2
<1>13. /\ Typed(kd, n + 1, ms2, b \o s, w2, c2, e2)
       /\ Cut(kd, n + 1, ms2, b \o s, w2, c2, e2)
  BY <1>10, <1>11, <1>12, Zenon
<1>14. Extends(n, w, c, e, w2, c2, e2)
  BY <1>5, <1>6, <1>7 DEF Extends
<1> QED BY <1>13, <1>14

(* What SendLine puts on the wire.                                           *)
LEMMA EncodedLine ==
  ASSUME NEW l \in Lines, NEW end \in {<<NL>>, <<CR, NL>>}
  PROVE  Encodes("json", l \o end, l)
<1>1. l \in Seq(Byte) /\ Len(l) \in Nat
  BY LinesAssumption
<1>2. /\ end \in Seq(Byte)
      /\ \/ Len(end) = 1 /\ end[1] = NL
         \/ Len(end) = 2 /\ end[1] = CR /\ end[2] = NL
  <2>1. CASE end = <<NL>>
    BY <2>1, BytesAssumption
  <2>2. CASE end = <<CR, NL>>
    BY <2>2, BytesAssumption
  <2> QED BY <2>1, <2>2
<1>3. PICK s \in Seq(Byte) : /\ s = l \o end /\ Len(s) = Len(l) + Len(end)
                             /\ \A i \in 1..Len(l) : s[i] = l[i]
                             /\ \A i \in 1..Len(end) : s[Len(l) + i] = end[i]
  <2>1. /\ l \o end \in Seq(Byte) /\ Len(l \o end) = Len(l) + Len(end)
        /\ \A i \in 1..Len(l) : (l \o end)[i] = l[i]
        /\ \A i \in 1..Len(end) : (l \o end)[Len(l) + i] = end[i]
    BY <1>1, <1>2, ExtendBytes, Zenon
  <2> QED BY <2>1, Zenon
<1>4. PICK n \in Nat : n = Len(l)
  BY <1>1
<1>5. \A i \in 1..n : s[0 + i] = l[i]
  BY <1>3, <1>4
<1>6. CASE Len(end) = 1 /\ end[1] = NL
  <2>1. Len(s) = n + 1 /\ s[n + 1] = NL
    BY <1>3, <1>4, <1>6
  <2>2. Len(s) = 0 + n + 1 /\ Len(s) > 0
    BY <2>1
  <2>3. WireLine(s, 0, Len(s), l)
    BY <1>4, <1>5, <2>1, <2>2 DEF WireLine
  <2> QED BY <1>3, <2>2, <2>3 DEF Encodes, Wire, Messages
<1>7. CASE Len(end) = 2 /\ end[1] = CR /\ end[2] = NL
  <2>1. Len(s) = n + 2 /\ s[n + 1] = CR /\ s[n + 2] = NL
    BY <1>3, <1>4, <1>7
  <2>2. Len(s) = 0 + n + 2 /\ Len(s) > 0 /\ 0 + n + 1 = n + 1
    BY <2>1
  <2>3. WireLine(s, 0, Len(s), l)
    BY <1>4, <1>5, <2>1, <2>2 DEF WireLine
  <2> QED BY <1>3, <2>2, <2>3 DEF Encodes, Wire, Messages
<1> QED BY <1>2, <1>6, <1>7

(* What the assumption on the frames of a device says of one of them.        *)
LEMMA FrameProperties ==
  ASSUME NEW f \in Frames
  PROVE  /\ f = [version |-> f.version, type |-> f.type, flag |-> f.flag,
                 size |-> f.size, payload |-> f.payload]
         /\ f.version \in Byte /\ f.type \in Byte /\ f.flag \in Byte
         /\ f.payload \in Seq(Byte) /\ f.size = Len(f.payload)
         /\ f.size \in Nat /\ f.size < Base * Base /\ f.version # LBrace
<1>1. f \in Frame
  BY FramesAssumption
<1>2. /\ f = [version |-> f.version, type |-> f.type, flag |-> f.flag,
              size |-> f.size, payload |-> f.payload]
      /\ f.version \in Byte /\ f.type \in Byte /\ f.flag \in Byte
      /\ f.payload \in Seq(Byte) /\ f.size \in Nat
  BY <1>1 DEF Frame
<1>3. f.size = Len(f.payload) /\ f.size < Base * Base /\ f.version # LBrace
  BY FramesAssumption
<1> QED BY <1>2, <1>3

(* The two bytes of a length that fits.                                      *)
LEMMA LengthBytes ==
  ASSUME NEW v \in Nat, v < Base * Base
  PROVE  /\ v \div Base \in Byte /\ v % Base \in Byte
         /\ (v \div Base) * Base + (v % Base) = v
         /\ U16(v) = v
<1>1. Base \in Nat /\ Base >= 2
  BY BaseAssumption
<1>2. /\ v \div Base \in Nat /\ v % Base \in 0..(Base - 1)
      /\ (v \div Base) * Base + (v % Base) = v
  BY <1>1
<1>3. PICK q \in Nat, r \in Nat : q = v \div Base /\ r = v % Base /\ q * Base + r = v
  BY <1>2
<1>4. q < Base
  <2>1. q >= Base => q * Base >= Base * Base
    BY <1>1
  <2>2. q * Base \in Nat /\ Base * Base \in Nat
    BY <1>1
  <2> QED BY <1>1, <1>3, <2>1, <2>2
<1>5. Base * Base \in Nat /\ v % (Base * Base) = v
  BY <1>1
<1> QED BY <1>1, <1>2, <1>3, <1>4, <1>5 DEF Byte, U16

(* What SendFrame puts on the wire.                                          *)
LEMMA EncodedBytes ==
  ASSUME NEW f \in Frames
  PROVE  Encodes("lowpower", encodeFrame(f), f)
<1>1. /\ f.version \in Byte /\ f.type \in Byte /\ f.flag \in Byte
      /\ f.payload \in Seq(Byte) /\ f.size = Len(f.payload)
      /\ f.size \in Nat /\ f.size < Base * Base
  BY FrameProperties
<1>2. PICK q \in Byte, r \in Byte : q = f.size \div Base /\ r = f.size % Base
                                 /\ q * Base + r = f.size /\ U16(f.size) = f.size
  BY <1>1, LengthBytes
<1>3. PICK p \in Seq(Byte), n \in Nat : p = f.payload /\ n = Len(p)
  BY <1>1
<1>4. PICK h \in Seq(Byte) :
        /\ h = <<f.version, f.type, f.flag>> \o <<q, r>> /\ Len(h) = 5
        /\ h[1] = f.version /\ h[2] = f.type /\ h[3] = f.flag /\ h[4] = q /\ h[5] = r
  <2>1. PICK v \in Byte, t \in Byte, g \in Byte : v = f.version /\ t = f.type /\ g = f.flag
    BY <1>1
  <2> DEFINE x == <<v, t, g, q, r>>
  <2>2. x \in Seq(Byte) /\ Len(x) = 5
    OBVIOUS
  <2>3. x[1] = v /\ x[2] = t /\ x[3] = g /\ x[4] = q /\ x[5] = r
    OBVIOUS
  <2>4. x = <<v, t, g>> \o <<q, r>>
    OBVIOUS
  <2> HIDE DEF x
  <2> QED BY <2>1, <2>2, <2>3, <2>4
<1>5. PICK s \in Seq(Byte) : /\ s = h \o p /\ Len(s) = Len(h) + Len(p)
                             /\ \A i \in 1..Len(h) : s[i] = h[i]
                             /\ \A i \in 1..Len(p) : s[Len(h) + i] = p[i]
  <2>1. /\ h \o p \in Seq(Byte) /\ Len(h \o p) = Len(h) + Len(p)
        /\ \A i \in 1..Len(h) : (h \o p)[i] = h[i]
        /\ \A i \in 1..Len(p) : (h \o p)[Len(h) + i] = p[i]
    BY ExtendBytes, Zenon
  <2> QED BY <2>1, Zenon
<1>6. s = encodeFrame(f)
  BY <1>1, <1>2, <1>3, <1>4, <1>5 DEF encodeFrame, writeU16BE
<1>7. Len(s) = 5 + n /\ Len(s) > 0
  BY <1>3, <1>4, <1>5
<1>8. /\ s[1] = f.version /\ s[2] = f.type /\ s[3] = f.flag /\ s[4] = q /\ s[5] = r
  BY <1>4, <1>5
<1>9. \A i \in 1..n : s[5 + i] = p[i]
  BY <1>3, <1>4, <1>5
<1>10. /\ 0 + 1 = 1 /\ 0 + 2 = 2 /\ 0 + 3 = 3 /\ 0 + 4 = 4 /\ 0 + 5 = 5
  OBVIOUS
<1>11. WireFrame(s, 0, Len(s), f)
  BY <1>2, <1>3, <1>7, <1>8, <1>9, <1>10 DEF WireFrame
<1> QED BY <1>6, <1>7, <1>11 DEF Encodes, Wire, Messages

(* The n bytes at the start of a are the line l.                             *)
FirstLine(a, n, l) ==
  /\ n \in 1..Len(a) /\ a[n] = NL
  /\ \A i \in 1..(n - 1) : a[i] # NL
  /\ StripCR(SubSeq(a, 1, n - 1)) = l

(* The first line end that has arrived is that of the next line, and what is *)
(* before it, without "\r", is the body of the line.                         *)
LEMMA ReadLine ==
  ASSUME NEW l \in Lines, NEW b, NEW from \in Nat, NEW to \in Nat, WireLine(b, from, to, l),
         NEW a \in Seq(Byte), Holds(b, from, a), NEW j \in 1..Len(a), a[j] = NL
  PROVE  \E n \in Nat : to = from + n /\ FirstLine(a, n, l)
<1>1. /\ l \in Seq(Byte) /\ Len(l) \in Nat
      /\ \A i \in 1..Len(l) : l[i] # NL /\ l[i] # CR
  BY LinesAssumption
<1>2. PICK m \in Nat, k \in Nat : m = Len(l) /\ k = Len(a)
  BY <1>1
<1>a. \A i \in 1..k : a[i] = b[from + i]
  BY <1>2 DEF Holds
<1>3. \A i \in 1..m : b[from + i] = l[i]
  BY <1>2 DEF WireLine
<1>4. PICK n \in Nat : /\ to = from + n /\ b[from + n] = NL
                       /\ n = m + 1 \/ (n = m + 2 /\ b[from + (m + 1)] = CR)
  <2>1. b[to] = NL
    BY DEF WireLine
  <2>2. CASE to = from + Len(l) + 1
    <3>1. to = from + (m + 1)
      BY <1>2, <2>2
    <3> QED BY <2>1, <3>1
  <2>3. CASE to = from + Len(l) + 2 /\ b[from + Len(l) + 1] = CR
    <3>1. to = from + (m + 2) /\ from + Len(l) + 1 = from + (m + 1)
      BY <1>2, <2>3
    <3>2. b[from + (m + 2)] = NL /\ b[from + (m + 1)] = CR /\ m + 2 \in Nat
      BY <2>1, <2>3, <3>1
    <3> QED BY <3>1, <3>2
  <2> QED BY <2>2, <2>3 DEF WireLine
<1>n. n \in (m + 1)..(m + 2)
  BY <1>4
<1>5. ASSUME NEW i \in 1..(n - 1), i <= k
      PROVE  a[i] # NL
  <2>1. i \in 1..k
    BY <1>5
  <2>2. a[i] = b[from + i]
    BY <1>a, <2>1
  <2>3. CASE i \in 1..m
    BY <1>1, <1>2, <1>3, <2>2, <2>3
  <2>4. CASE i = m + 1
    <3>1. n # m + 1
      BY <2>4
    <3>2. a[i] = CR
      BY <1>4, <2>2, <2>4, <3>1
    <3> QED BY <3>2, BytesAssumption
  <2> QED BY <1>n, <2>3, <2>4
<1>6. n <= j /\ n \in 1..k
  <2>1. j \in 1..k
    BY <1>2
  <2>2. ~(j \in 1..(n - 1))
    BY <1>5, <2>1
  <2> QED BY <1>n, <2>1, <2>2
<1>7. a[n] = NL
  <2>1. n \in 1..k
    BY <1>6
  <2>2. a[n] = b[from + n]
    BY <1>a, <2>1
  <2>3. b[from + n] = NL
    BY <1>4, Zenon
  <2> QED BY <2>2, <2>3
<1>8. PICK x \in Seq(Byte) : /\ x = SubSeq(a, 1, n - 1) /\ Len(x) = n - 1
                            /\ \A i \in 1..(n - 1) : x[i] = a[i]
  <2>1. n - 1 \in Nat /\ n - 1 <= Len(a)
    BY <1>2, <1>6
  <2>2. /\ SubSeq(a, 1, n - 1) \in Seq(Byte) /\ Len(SubSeq(a, 1, n - 1)) = n - 1
        /\ \A i \in 1..(n - 1) : SubSeq(a, 1, n - 1)[i] = a[i]
    BY <2>1
  <2> QED BY <2>2, Zenon
<1>9. \A i \in 1..m : i \in 1..(n - 1) /\ i \in 1..k
  BY <1>n, <1>6
<1>10. \A i \in 1..m : x[i] = l[i]
  BY <1>a, <1>3, <1>8, <1>9
<1>s. StripCR(x) = l
  <2>1. CASE n = m + 1
    <3>1. Len(x) = m
      BY <1>8, <2>1
    <3>2. x = l
      BY <1>1, <1>2, <1>10, <3>1, SeqEqual
    <3>3. l = <<>> \/ l[Len(l)] # CR
      BY <1>1
    <3> QED BY <3>2, <3>3 DEF StripCR
  <2>2. CASE n = m + 2
    <3>1. Len(x) = m + 1
      BY <1>8, <2>2
    <3>2. m + 1 \in 1..(n - 1) /\ m + 1 \in 1..k /\ n # m + 1
      BY <1>6, <2>2
    <3>3. x[m + 1] = CR
      <4>1. x[m + 1] = b[from + (m + 1)]
        BY <1>a, <1>8, <3>2
      <4> QED BY <1>4, <3>2, <4>1
    <3>4. x # <<>>
      BY <3>1
    <3>5. StripCR(x) = SubSeq(x, 1, m)
      BY <3>1, <3>3, <3>4 DEF StripCR
    <3>6. /\ SubSeq(x, 1, m) \in Seq(Byte) /\ Len(SubSeq(x, 1, m)) = m
          /\ \A i \in 1..m : SubSeq(x, 1, m)[i] = x[i]
      BY <3>1
    <3>7. SubSeq(x, 1, m) = l
      BY <1>1, <1>2, <1>10, <3>6, SeqEqual
    <3> QED BY <3>5, <3>7
  <2> QED BY <1>4, <2>1, <2>2
<1>b. \A i \in 1..(n - 1) : a[i] # NL
  BY <1>5, <1>6
<1>c. n \in 1..Len(a) /\ to = from + n /\ StripCR(SubSeq(a, 1, n - 1)) = l
  <2>1. x = SubSeq(a, 1, n - 1) /\ k = Len(a)
    BY <1>2, <1>8
  <2>2. to = from + n
    BY <1>4, Zenon
  <2>3. n \in 1..k
    BY <1>6
  <2> QED BY <1>s, <2>1, <2>2, <2>3
<1>d. FirstLine(a, n, l)
  BY <1>7, <1>b, <1>c DEF FirstLine
<1> QED BY <1>c, <1>d

(* Five bytes are the header of the next frame.                              *)
LEMMA ReadHeader ==
  ASSUME NEW f \in Frames, NEW b, NEW from \in Nat, NEW to, WireFrame(b, from, to, f),
         NEW a \in Seq(Byte), Holds(b, from, a), Len(a) >= 5
  PROVE  HeaderOf(a) = [version |-> f.version, type |-> f.type, flag |-> f.flag,
                        size |-> f.size]
<1>1. Len(a) \in Nat
  OBVIOUS
<1>2. /\ a[1] = b[from + 1] /\ a[2] = b[from + 2] /\ a[3] = b[from + 3]
      /\ a[4] = b[from + 4] /\ a[5] = b[from + 5]
  BY <1>1 DEF Holds
<1>3. readU16BE(a, 4) = f.size
  BY <1>2 DEF readU16BE, WireFrame
<1> QED BY <1>2, <1>3 DEF HeaderOf, WireFrame

(* As many bytes as the header says are the payload.                         *)
LEMMA ReadPayload ==
  ASSUME NEW f \in Frames, NEW b, NEW from \in Nat, NEW to, WireFrame(b, from, to, f),
         NEW off, off = from + 5, NEW a \in Seq(Byte), Holds(b, off, a),
         Len(a) >= f.size
  PROVE  SubSeq(a, 1, f.size) = f.payload /\ to = from + 5 + f.size
<1>1. f.payload \in Seq(Byte) /\ f.size = Len(f.payload) /\ f.size \in Nat
  BY FrameProperties
<1>2. PICK n \in Nat, p \in Seq(Byte) : n = f.size /\ p = f.payload /\ n = Len(p)
  BY <1>1
<1>3. Len(a) \in Nat /\ n <= Len(a)
  BY <1>2
<1>4. /\ SubSeq(a, 1, n) \in Seq(Byte) /\ Len(SubSeq(a, 1, n)) = n
      /\ \A i \in 1..n : SubSeq(a, 1, n)[i] = a[i]
  BY <1>3
<1>5. \A i \in 1..n : a[i] = p[i]
  BY <1>2, <1>3 DEF WireFrame, Holds
<1>6. SubSeq(a, 1, n) = p
  BY <1>2, <1>4, <1>5, SeqEqual
<1>7. to = from + 5 + n
  BY <1>2 DEF WireFrame
<1> QED BY <1>2, <1>6, <1>7

------------------------------------------------------------------------------
(* What the device sends makes the stream longer.                            *)
LEMMA SendStream ==
  ASSUME Shape, Stream, NEW m, NEW s, Encodes(kind, s, m),
         net' = net \o s, count' = count + 1,
         sent' = Deliver(kind, sent, m),
         UNCHANGED <<kind, arrived, phase, header, handled>>
  PROVE  Stream'
<1>1. PICK b, w, c, e :
        /\ Typed(kind, count, sent, b, w, c, e) /\ Cut(kind, count, sent, b, w, c, e)
        /\ \E k \in 0..count, off \in Nat :
             Rest(b, off, arrived, net) /\ Reading(w, c, e, k, off)
  BY DEF Stream
<1>2. PICK k \in 0..count, off \in Nat :
        Rest(b, off, arrived, net) /\ Reading(w, c, e, k, off)
  BY <1>1
<1>3. PICK w2, c2, e2 :
        /\ Typed(kind, count + 1, sent', b \o s, w2, c2, e2)
        /\ Cut(kind, count + 1, sent', b \o s, w2, c2, e2)
        /\ Extends(count, w, c, e, w2, c2, e2)
  BY <1>1, ExtendCut
<1>4. Rest(b \o s, off, arrived, net \o s)
  <2>1. b \in Seq(Byte) /\ s \in Seq(Byte) /\ arrived \in Seq(Byte) /\ net \in Seq(Byte)
    BY <1>1 DEF Typed, Encodes, Shape
  <2> QED BY <1>2, <2>1, ExtendRest
<1>5. Reading(w2, c2, e2, k, off)'
  <2>1. /\ Len(handled) = e[k]
        /\ phase \in {"detect", "line", "header"} => off = c[k]
        /\ phase = "payload" =>
             /\ k < count /\ off = c[k] + 5
             /\ header = [version |-> w[k + 1].version, type |-> w[k + 1].type,
                          flag |-> w[k + 1].flag, size |-> w[k + 1].size]
        /\ phase = "detect" => k = 0
        /\ phase = "line" => kind = "json"
        /\ phase \in {"header", "payload"} => kind = "lowpower"
    BY <1>2 DEF Reading
  <2>2. c2[k] = c[k] /\ e2[k] = e[k]
    BY <1>3 DEF Extends
  <2>3. k < count => w2[k + 1] = w[k + 1] /\ k < count + 1
    <3>1. k < count => k + 1 \in 1..count /\ k < count + 1
      BY DEF Shape
    <3> QED BY <1>3, <3>1 DEF Extends
  <2> QED BY <2>1, <2>2, <2>3 DEF Reading
<1>6. k \in 0..count'
  BY DEF Shape
<1>7. /\ Typed(kind', count', sent', b \o s, w2, c2, e2)
      /\ Cut(kind', count', sent', b \o s, w2, c2, e2)
      /\ Rest(b \o s, off, arrived', net')
  BY <1>3, <1>4
<1> QED BY <1>5, <1>6, <1>7 DEF Stream

(* What SendLine and SendFrame leave as it was, and that sent is kept.       *)
LEMMA SendShape ==
  ASSUME Shape, Prefix, NEW m, NEW s, Encodes(kind, s, m), count < MaxMessages,
         net' = net \o s, count' = count + 1,
         sent' = Deliver(kind, sent, m),
         UNCHANGED <<kind, arrived, phase, header, handled, authed, socket>>
  PROVE  Shape' /\ Prefix'
<1>1. /\ sent \in Seq(Messages(kind)) /\ m \in Messages(kind)
      /\ net \in Seq(Byte) /\ s \in Seq(Byte) /\ Len(sent) <= count
      /\ count \in Nat /\ Len(sent) \in Nat
  BY DEF Shape, Encodes
<1>2. net' \in Seq(Byte)
  BY <1>1, ExtendBytes
<1>3. count' \in 0..MaxMessages
  BY <1>1, MaxMessagesAssumption
<1>4. /\ sent' \in Seq(Messages(kind)) /\ Len(sent') <= count + 1 /\ Len(sent) <= Len(sent')
      /\ \A i \in 1..Len(sent) : sent'[i] = sent[i]
  <2>1. CASE Skipped(kind, m)
    <3>1. sent' = sent
      BY <2>1 DEF Deliver
    <3> QED BY <1>1, <3>1
  <2>2. CASE ~Skipped(kind, m)
    <3>1. sent' = Append(sent, m)
      BY <2>2 DEF Deliver
    <3>2. /\ Append(sent, m) \in Seq(Messages(kind)) /\ Len(Append(sent, m)) = Len(sent) + 1
          /\ \A i \in 1..Len(sent) : Append(sent, m)[i] = sent[i]
      BY <1>1, AppendProperties
    <3> QED BY <1>1, <3>1, <3>2
  <2> QED BY <2>1, <2>2
<1>5. Shape'
  BY <1>2, <1>3, <1>4 DEF Shape
<1>6. Prefix'
  <2>1. Len(handled) <= Len(sent) /\ Len(handled) \in Nat
    BY DEF Prefix, Begins, Shape
  <2>2. Len(sent') \in Nat
    BY <1>4
  <2>3. Len(handled') <= Len(sent')
    BY <1>1, <1>4, <2>1, <2>2
  <2>4. ASSUME NEW i \in 1..Len(handled') PROVE handled'[i] = sent'[i]
    <3>1. i \in 1..Len(handled) /\ i \in 1..Len(sent)
      BY <1>1, <2>1
    <3> QED BY <1>4, <3>1 DEF Prefix, Begins
  <2> QED BY <2>3, <2>4 DEF Prefix, Begins
<1> QED BY <1>5, <1>6

(* A byte arrives.                                                           *)
LEMMA ArriveStep ==
  ASSUME IInv, Arrive
  PROVE  IInv'
<1>1. /\ net # <<>> /\ arrived' = Append(arrived, Head(net)) /\ net' = Tail(net)
      /\ UNCHANGED <<kind, sent, count, phase, header, handled, authed, socket>>
      /\ Shape /\ Prefix
  BY DEF Arrive, IInv
<1>2. arrived \in Seq(Byte) /\ net \in Seq(Byte)
  BY <1>1 DEF Shape
<1>3. arrived' \in Seq(Byte) /\ net' \in Seq(Byte)
  BY <1>1, <1>2, AppendProperties, HeadTailProperties
<1>4. Shape' /\ Prefix'
  BY <1>1, <1>3 DEF Shape, Prefix
<1>5. ASSUME Stream PROVE Stream'
  <2>1. PICK b, w, c, e :
          /\ Typed(kind, count, sent, b, w, c, e) /\ Cut(kind, count, sent, b, w, c, e)
          /\ \E k \in 0..count, off \in Nat :
               Rest(b, off, arrived, net) /\ Reading(w, c, e, k, off)
    BY <1>5 DEF Stream
  <2>2. PICK k \in 0..count, off \in Nat :
          Rest(b, off, arrived, net) /\ Reading(w, c, e, k, off)
    BY <2>1
  <2>3. b \in Seq(Byte)
    BY <2>1 DEF Typed
  <2>4. Rest(b, off, arrived', net')
    BY <1>1, <1>2, <2>2, <2>3, ArriveRest
  <2>5. Reading(w, c, e, k, off)'
    BY <1>1, <2>2 DEF Reading
  <2>6. /\ Typed(kind', count', sent', b, w, c, e) /\ Cut(kind', count', sent', b, w, c, e)
        /\ k \in 0..count'
    BY <1>1, <2>1
  <2> QED BY <2>4, <2>5, <2>6 DEF Stream
<1> QED BY <1>1, <1>4, <1>5 DEF IInv

(* A step that only changes the socket, or ends the reader.                  *)
LEMMA QuietStep ==
  ASSUME IInv, UNCHANGED <<kind, sent, count, net, arrived, header, handled, authed>>,
         phase' \in {phase, "ended"}, socket' \in {"open", "reset", "closed"}
  PROVE  IInv'
<1>1. Shape' /\ Prefix'
  BY DEF IInv, Shape, Prefix
<1>2. CASE phase' = "ended"
  BY <1>1, <1>2 DEF IInv
<1>3. CASE phase' = phase
  <2>1. Stream => Stream'
    BY <1>3 DEF Stream, Reading
  <2> QED BY <1>1, <1>3, <2>1 DEF IInv
<1> QED BY <1>2, <1>3

(* The first byte of a message says what the device speaks.                  *)
LEMMA FirstByte ==
  ASSUME NEW kd, NEW m \in Messages(kd), NEW b, NEW from \in Nat, NEW to \in Nat,
         Wire(kd, b, from, to, m)
  PROVE  /\ kd = "lowpower" => b[from + 1] # LBrace
         /\ kd = "json" => b[from + 1] # VERSION_1
<1>1. CASE kd = "lowpower"
  <2>1. m \in Frames /\ b[from + 1] = m.version
    BY <1>1 DEF Messages, Wire, WireFrame
  <2> QED BY <1>1, <2>1, FrameProperties
<1>2. CASE kd = "json"
  <2>1. /\ m \in Lines /\ WireLine(b, from, to, m)
    BY <1>2 DEF Messages, Wire
  <2>2. m \in Seq(Byte) /\ Len(m) \in Nat /\ (m # <<>> => m[1] = LBrace)
    BY <2>1, LinesAssumption
  <2>3. CASE m # <<>>
    <3>1. 1 \in 1..Len(m)
      BY <2>2, <2>3
    <3>2. b[from + 1] = LBrace
      BY <2>1, <2>2, <2>3, <3>1 DEF WireLine
    <3> QED BY <1>2, <3>2, BytesAssumption
  <2>4. CASE m = <<>>
    <3>1. Len(m) = 0
      BY <2>4
    <3>2. \/ to = from + 1 /\ b[to] = NL
          \/ b[from + 1] = CR
      <4>1. from + Len(m) + 1 = from + 1
        BY <3>1
      <4> QED BY <2>1, <4>1 DEF WireLine
    <3> QED BY <1>2, <3>2, BytesAssumption
  <2> QED BY <2>3, <2>4
<1> QED BY <1>1, <1>2

(* readAutoDetect: the protocol it settles for is the one the device         *)
(* speaks.                                                                   *)
LEMMA DetectStep ==
  ASSUME IInv, readAutoDetect
  PROVE  IInv'
<1>1. /\ phase = "detect" /\ Len(arrived) >= 1
      /\ UNCHANGED <<kind, sent, count, net, arrived, header, handled, authed>>
      /\ \/ Head(arrived) = LBrace /\ phase' = "line" /\ socket' = socket
         \/ Head(arrived) = VERSION_1 /\ phase' = "header" /\ socket' = socket
         \/ phase' = "ended" /\ socket' = "closed"
  BY DEF readAutoDetect, Ready
<1>2. Shape /\ Prefix /\ Stream
  BY <1>1 DEF IInv
<1>3. CASE phase' = "ended"
  BY <1>1, <1>2, <1>3, QuietStep DEF Shape
<1>4. CASE phase' # "ended"
  <2>1. PICK b, w, c, e :
          /\ Typed(kind, count, sent, b, w, c, e) /\ Cut(kind, count, sent, b, w, c, e)
          /\ \E k \in 0..count, off \in Nat :
               Rest(b, off, arrived, net) /\ Reading(w, c, e, k, off)
    BY <1>2 DEF Stream
  <2>2. PICK k \in 0..count, off \in Nat :
          Rest(b, off, arrived, net) /\ Reading(w, c, e, k, off)
    BY <2>1
  <2>3. off = c[k]
    BY <1>1, <2>2 DEF Reading
  <2>4. /\ b \in Seq(Byte) /\ count \in Nat /\ w \in [1..count -> Messages(kind)]
        /\ c \in [0..count -> Nat] /\ arrived \in Seq(Byte) /\ net \in Seq(Byte)
        /\ kind \in {"json", "lowpower"}
    BY <1>2, <2>1 DEF Typed, Shape
  <2>5. Len(arrived) > 0
    BY <1>1, <2>4
  <2>6. k + 1 \in 1..count /\ Wire(kind, b, c[k], c[k + 1], w[k + 1])
    BY <2>1, <2>2, <2>3, <2>4, <2>5, NextMessage
  <2>7. w[k + 1] \in Messages(kind) /\ c[k] \in Nat /\ c[k + 1] \in Nat
    BY <2>4, <2>6
  <2>8. Head(arrived) = b[c[k] + 1]
    <3>1. 1 \in 1..Len(arrived) /\ Head(arrived) = arrived[1]
      BY <2>4, <2>5
    <3> QED BY <2>2, <2>3, <3>1 DEF Rest, Holds
  <2>9. /\ phase' = "line" => kind = "json"
        /\ phase' = "header" => kind = "lowpower"
    BY <1>1, <2>4, <2>6, <2>7, <2>8, FirstByte
  <2>10. Reading(w, c, e, k, off)'
    BY <1>1, <1>4, <2>2, <2>9 DEF Reading
  <2>11. Stream'
    BY <1>1, <2>1, <2>2, <2>10 DEF Stream
  <2>12. Shape' /\ Prefix'
    BY <1>1, <1>2 DEF Shape, Prefix
  <2> QED BY <2>11, <2>12 DEF IInv
<1> QED BY <1>3, <1>4

(* A message that is complete is handed over, and the reader stands at the   *)
(* start of the next.                                                        *)
LEMMA HandOver ==
  ASSUME Shape, Prefix, NEW b, NEW w, NEW c, NEW e,
         Typed(kind, count, sent, b, w, c, e), Cut(kind, count, sent, b, w, c, e),
         NEW k \in 0..count, k < count, NEW off \in Nat, Rest(b, off, arrived, net),
         Len(handled) = e[k], NEW n \in 0..Len(arrived), c[k + 1] = off + n,
         arrived' = Drop(arrived, n),
         handled' = Deliver(kind, handled, w[k + 1]),
         phase' = IF kind = "json" THEN "line" ELSE "header",
         UNCHANGED <<kind, sent, count, net>>,
         header' \in [version : Byte, type : Byte, flag : Byte, size : 0..(Base * Base - 1)],
         authed' \in BOOLEAN, socket' \in {"open", "reset", "closed"}
  PROVE  IInv'
<1>1. /\ b \in Seq(Byte) /\ count \in Nat /\ sent \in Seq(Messages(kind))
      /\ w \in [1..count -> Messages(kind)] /\ e \in [0..count -> Nat]
      /\ handled \in Seq(Messages(kind)) /\ arrived \in Seq(Byte) /\ net \in Seq(Byte)
      /\ kind \in {"json", "lowpower"}
  BY DEF Typed, Shape
<1>2. Begins(handled, sent)
  BY DEF Prefix
<1>3. PICK m, y : /\ m = w[k + 1] /\ y = e[k + 1] /\ m \in Messages(kind) /\ y \in Nat
                  /\ y <= Len(sent) /\ (Skipped(kind, m) => y = Len(handled))
                  /\ (~Skipped(kind, m) => y = Len(handled) + 1 /\ sent[y] = m)
  <2>1. Entry(kind, sent, w[k + 1], e[k], e[k + 1])
    BY NextEntry
  <2>2. Len(handled) = e[k]
    OBVIOUS
  <2> QED BY <2>1, <2>2, Zenon DEF Entry
<1>4. /\ handled' \in Seq(Messages(kind)) /\ Len(handled') = e[k + 1]
      /\ Begins(handled', sent)
  <2>1. /\ Deliver(kind, handled, m) \in Seq(Messages(kind))
        /\ Len(Deliver(kind, handled, m)) = y
        /\ Begins(Deliver(kind, handled, m), sent)
    <3>1. /\ sent \in Seq(Messages(kind)) /\ handled \in Seq(Messages(kind))
          /\ Begins(handled, sent) /\ m \in Messages(kind) /\ y \in Nat /\ y <= Len(sent)
          /\ (Skipped(kind, m) => y = Len(handled))
          /\ (~Skipped(kind, m) => y = Len(handled) + 1 /\ sent[y] = m)
      BY <1>1, <1>2, <1>3, Zenon
    <3> QED BY <3>1, Handle, Zenon
  <2>2. handled' = Deliver(kind, handled, m)
    BY <1>3
  <2> QED BY <1>3, <2>1, <2>2
<1>5. arrived' \in Seq(Byte) /\ Rest(b, off + n, arrived', net')
  BY <1>1, DropBytes, Consume
<1>6. Prefix'
  BY <1>3, <1>4 DEF Prefix
<1>7. Shape'
  BY <1>3, <1>4, <1>5 DEF Shape
<1>8. k + 1 \in 0..count' /\ off + n \in Nat
  BY <1>1
<1>9. Reading(w, c, e, k + 1, off + n)'
  BY <1>1, <1>3, <1>4 DEF Reading
<1>10. Stream'
  BY <1>5, <1>8, <1>9 DEF Stream
<1> QED BY <1>6, <1>7, <1>10 DEF IInv

(* readJsonLine: the first line end is that of the line the reader stands    *)
(* at.                                                                       *)
LEMMA LineStep ==
  ASSUME IInv, readJsonLine
  PROVE  IInv'
<1>1. /\ phase = "line" /\ LineEnds # {}
      /\ UNCHANGED <<kind, sent, count, net, phase, header, authed, socket>>
      /\ arrived' = Drop(arrived, FirstLineEnd)
  BY DEF readJsonLine
<1>2. Shape /\ Prefix /\ Stream
  BY <1>1 DEF IInv
<1>3. PICK b, w, c, e :
        /\ Typed(kind, count, sent, b, w, c, e) /\ Cut(kind, count, sent, b, w, c, e)
        /\ \E k \in 0..count, off \in Nat :
             Rest(b, off, arrived, net) /\ Reading(w, c, e, k, off)
  BY <1>2 DEF Stream
<1>4. PICK k \in 0..count, off \in Nat :
        Rest(b, off, arrived, net) /\ Reading(w, c, e, k, off)
  BY <1>3
<1>5. off = c[k] /\ kind = "json" /\ Len(handled) = e[k]
  BY <1>1, <1>4 DEF Reading
<1>6. /\ b \in Seq(Byte) /\ count \in Nat /\ w \in [1..count -> Messages(kind)]
      /\ c \in [0..count -> Nat] /\ arrived \in Seq(Byte) /\ net \in Seq(Byte)
  BY <1>2, <1>3 DEF Typed, Shape
<1>7. PICK j \in 1..Len(arrived) : arrived[j] = NL
  BY <1>1, <1>6 DEF LineEnds
<1>8. Len(arrived) > 0
  BY <1>6, <1>7
<1>9. /\ k < count /\ k + 1 \in 1..count
      /\ Wire(kind, b, c[k], c[k + 1], w[k + 1])
  BY <1>3, <1>4, <1>5, <1>6, <1>8, NextMessage
<1>10. /\ w[k + 1] \in Lines /\ c[k] \in Nat /\ c[k + 1] \in Nat
       /\ WireLine(b, c[k], c[k + 1], w[k + 1])
  BY <1>5, <1>6, <1>9 DEF Messages, Wire
<1>11. PICK l \in Lines, from \in Nat, to \in Nat :
         /\ l = w[k + 1] /\ from = c[k] /\ to = c[k + 1]
         /\ WireLine(b, from, to, l) /\ Holds(b, from, arrived)
  BY <1>4, <1>5, <1>10 DEF Rest
<1>n. PICK n \in Nat : to = from + n /\ FirstLine(arrived, n, l)
  <2>1. PICK a \in Seq(Byte) : a = arrived
    BY <1>6
  <2>2. /\ WireLine(b, from, to, l) /\ Holds(b, from, a)
        /\ j \in 1..Len(a) /\ a[j] = NL
    BY <1>7, <1>11, <2>1
  <2>3. \E n \in Nat : to = from + n /\ FirstLine(a, n, l)
    BY <2>2, ReadLine
  <2> QED BY <2>1, <2>3
<1>12. /\ n \in 1..Len(arrived) /\ c[k + 1] = c[k] + n /\ arrived[n] = NL
       /\ \A i \in 1..(n - 1) : arrived[i] # NL
       /\ StripCR(SubSeq(arrived, 1, n - 1)) = w[k + 1]
  BY <1>11, <1>n DEF FirstLine
<1>13. FirstLineEnd = n
  <2>1. n \in LineEnds
    BY <1>6, <1>12 DEF LineEnds
  <2>2. \A i \in LineEnds : i \in Nat /\ n <= i
    <3> SUFFICES ASSUME NEW i \in LineEnds PROVE i \in Nat /\ n <= i
      OBVIOUS
    <3>1. i \in 1..Len(arrived) /\ arrived[i] = NL
      BY DEF LineEnds
    <3>2. i \in Nat /\ n \in Nat /\ i \notin 1..(n - 1)
      BY <1>6, <1>12, <3>1
    <3> QED BY <3>1, <3>2
  <2>3. \A i \in LineEnds : (\A q \in LineEnds : i <= q) => i = n
    BY <2>1, <2>2
  <2> QED BY <2>1, <2>2, <2>3 DEF FirstLineEnd
<1>14. handled' = Deliver(kind, handled, w[k + 1])
  BY <1>5, <1>12, <1>13 DEF readJsonLine, Deliver, Skipped
<1>15. /\ arrived' = Drop(arrived, n) /\ n \in 0..Len(arrived) /\ c[k + 1] = off + n
       /\ phase' = IF kind = "json" THEN "line" ELSE "header"
  BY <1>1, <1>5, <1>12, <1>13
<1>16. /\ header' \in [version : Byte, type : Byte, flag : Byte, size : 0..(Base * Base - 1)]
       /\ authed' \in BOOLEAN /\ socket' \in {"open", "reset", "closed"}
  BY <1>1, <1>2 DEF Shape
<1> QED BY <1>1, <1>2, <1>3, <1>4, <1>5, <1>9, <1>14, <1>15, <1>16, HandOver

(* What handleLowPowerFrame does to the session.                             *)
LEMMA FrameHandled ==
  ASSUME Shape, NEW h, NEW p, handleLowPowerFrame(h, p)
  PROVE  /\ handled' = Append(handled, [version |-> h.version, type |-> h.type,
                                        flag |-> h.flag, size |-> h.size, payload |-> p])
         /\ phase' = "header" /\ authed' \in BOOLEAN
         /\ socket' \in {"open", "reset", "closed"}
<1> DEFINE f == [version |-> h.version, type |-> h.type, flag |-> h.flag,
                 size |-> h.size, payload |-> p]
<1>1. /\ handled' = Append(handled, f) /\ phase' = "header"
      /\ \/ handleLowPowerAuthReq(f)
         \/ handleLowPowerHeartbeat(f)
         \/ UNCHANGED <<authed, socket>>
  BY DEF handleLowPowerFrame
<1> HIDE DEF f
<1>2. authed \in BOOLEAN /\ socket \in {"open", "reset", "closed"}
  BY DEF Shape
<1>3. handleLowPowerAuthReq(f) =>
        authed' \in BOOLEAN /\ socket' \in {"open", "reset", "closed"}
  BY <1>2 DEF handleLowPowerAuthReq
<1>4. handleLowPowerHeartbeat(f) =>
        authed' \in BOOLEAN /\ socket' \in {"open", "reset", "closed"}
  BY <1>2 DEF handleLowPowerHeartbeat
<1>5. authed' \in BOOLEAN /\ socket' \in {"open", "reset", "closed"}
  BY <1>1, <1>2, <1>3, <1>4
<1> QED BY <1>1, <1>5 DEF f

(* readLowPowerHeader: the five bytes are the header of the next frame.      *)
LEMMA HeaderStep ==
  ASSUME IInv, readLowPowerHeader
  PROVE  IInv'
<1>1. /\ phase = "header" /\ Len(arrived) >= 5
      /\ UNCHANGED <<kind, sent, count, net>>
      /\ arrived' = Drop(arrived, 5) /\ header' = HeaderOf(arrived)
  BY DEF readLowPowerHeader, Ready, HEADER_SIZE
<1>2. Shape /\ Prefix /\ Stream
  BY <1>1 DEF IInv
<1>3. PICK b, w, c, e :
        /\ Typed(kind, count, sent, b, w, c, e) /\ Cut(kind, count, sent, b, w, c, e)
        /\ \E k \in 0..count, off \in Nat :
             Rest(b, off, arrived, net) /\ Reading(w, c, e, k, off)
  BY <1>2 DEF Stream
<1>4. PICK k \in 0..count, off \in Nat :
        Rest(b, off, arrived, net) /\ Reading(w, c, e, k, off)
  BY <1>3
<1>5. off = c[k] /\ kind = "lowpower" /\ Len(handled) = e[k]
  BY <1>1, <1>4 DEF Reading
<1>6. /\ b \in Seq(Byte) /\ count \in Nat /\ w \in [1..count -> Messages(kind)]
      /\ c \in [0..count -> Nat] /\ arrived \in Seq(Byte) /\ net \in Seq(Byte)
  BY <1>2, <1>3 DEF Typed, Shape
<1>7. Len(arrived) > 0 /\ 5 \in 0..Len(arrived)
  BY <1>1, <1>6
<1>8. /\ k < count /\ k + 1 \in 1..count
      /\ Wire(kind, b, c[k], c[k + 1], w[k + 1])
  BY <1>3, <1>4, <1>5, <1>6, <1>7, NextMessage
<1>9. PICK f \in Frames, from \in Nat, to \in Nat :
        /\ f = w[k + 1] /\ from = c[k] /\ to = c[k + 1] /\ from = off
        /\ WireFrame(b, from, to, f) /\ Holds(b, from, arrived)
  BY <1>4, <1>5, <1>6, <1>8 DEF Messages, Wire, Rest
<1>10. header' = [version |-> f.version, type |-> f.type, flag |-> f.flag, size |-> f.size]
  BY <1>1, <1>6, <1>9, ReadHeader
<1>11. /\ f.version \in Byte /\ f.type \in Byte /\ f.flag \in Byte
       /\ f.payload \in Seq(Byte) /\ f.size = Len(f.payload)
       /\ f.size \in Nat /\ f.size < Base * Base
       /\ f = [version |-> f.version, type |-> f.type, flag |-> f.flag,
               size |-> f.size, payload |-> f.payload]
  BY FrameProperties
<1>12. header' \in [version : Byte, type : Byte, flag : Byte, size : 0..(Base * Base - 1)]
  <2>1. f.size \in 0..(Base * Base - 1)
    BY <1>11, BaseAssumption
  <2> QED BY <1>10, <1>11, <2>1
<1>13. arrived' \in Seq(Byte) /\ Rest(b, off + 5, arrived', net')
  BY <1>1, <1>4, <1>6, <1>7, DropBytes, Consume
<1>14. CASE /\ socket' = "closed" /\ phase' = "ended" /\ UNCHANGED <<handled, authed>>
  <2>1. Shape'
    BY <1>1, <1>2, <1>12, <1>13, <1>14 DEF Shape
  <2>2. Prefix'
    BY <1>1, <1>2, <1>14 DEF Prefix
  <2> QED BY <1>14, <2>1, <2>2 DEF IInv
<1>15. CASE f.size = 0 /\ handleLowPowerFrame(HeaderOf(arrived), <<>>)
  <2>1. /\ handled' = Append(handled, [version |-> f.version, type |-> f.type,
                                       flag |-> f.flag, size |-> f.size, payload |-> <<>>])
        /\ phase' = "header" /\ authed' \in BOOLEAN
        /\ socket' \in {"open", "reset", "closed"}
    BY <1>1, <1>2, <1>10, <1>15, FrameHandled
  <2>2. f.payload = <<>>
    <3>1. PICK p \in Seq(Byte) : p = f.payload
      BY <1>11
    <3>2. Len(p) = 0
      BY <1>11, <1>15, <3>1
    <3> QED BY <3>1, <3>2, EmptySeq
  <2>3. handled' = Append(handled, w[k + 1])
    BY <1>9, <1>11, <2>1, <2>2
  <2>4. handled' = Deliver(kind, handled, w[k + 1])
    BY <1>5, <2>3 DEF Deliver, Skipped
  <2>5. c[k + 1] = off + 5
    BY <1>9, <1>11, <1>15 DEF WireFrame
  <2>6. phase' = IF kind = "json" THEN "line" ELSE "header"
    BY <1>5, <2>1
  <2> QED BY <1>1, <1>2, <1>3, <1>4, <1>5, <1>7, <1>8, <1>12, <2>1, <2>4, <2>5, <2>6, HandOver
<1>16. CASE phase' = "payload" /\ UNCHANGED <<handled, authed, socket>>
  <2>1. Shape'
    BY <1>1, <1>2, <1>12, <1>13, <1>16 DEF Shape
  <2>2. Prefix'
    BY <1>1, <1>2, <1>16 DEF Prefix
  <2>3. Reading(w, c, e, k, off + 5)'
    BY <1>1, <1>5, <1>8, <1>9, <1>10, <1>16 DEF Reading
  <2>4. off + 5 \in Nat
    OBVIOUS
  <2>5. Stream'
    BY <1>1, <1>3, <1>13, <2>3, <2>4 DEF Stream
  <2> QED BY <2>1, <2>2, <2>5 DEF IInv
<1>17. HeaderOf(arrived).size = f.size
  BY <1>1, <1>10
<1> QED BY <1>14, <1>15, <1>16, <1>17 DEF readLowPowerHeader

(* readLowPowerPayload: what follows is the payload of that frame.           *)
LEMMA PayloadStep ==
  ASSUME IInv, readLowPowerPayload
  PROVE  IInv'
<1>1. /\ phase = "payload" /\ Len(arrived) >= header.size
      /\ UNCHANGED <<kind, sent, count, net, header>>
      /\ arrived' = Drop(arrived, header.size)
      /\ handleLowPowerFrame(header, SubSeq(arrived, 1, header.size))
  BY DEF readLowPowerPayload, Ready
<1>2. Shape /\ Prefix /\ Stream
  BY <1>1 DEF IInv
<1>3. PICK b, w, c, e :
        /\ Typed(kind, count, sent, b, w, c, e) /\ Cut(kind, count, sent, b, w, c, e)
        /\ \E k \in 0..count, off \in Nat :
             Rest(b, off, arrived, net) /\ Reading(w, c, e, k, off)
  BY <1>2 DEF Stream
<1>4. PICK k \in 0..count, off \in Nat :
        Rest(b, off, arrived, net) /\ Reading(w, c, e, k, off)
  BY <1>3
<1>5. /\ off = c[k] + 5 /\ kind = "lowpower" /\ Len(handled) = e[k] /\ k < count
      /\ header = [version |-> w[k + 1].version, type |-> w[k + 1].type,
                   flag |-> w[k + 1].flag, size |-> w[k + 1].size]
  BY <1>1, <1>4 DEF Reading
<1>6. /\ count \in Nat /\ w \in [1..count -> Messages(kind)]
      /\ c \in [0..count -> Nat] /\ arrived \in Seq(Byte)
  BY <1>2, <1>3 DEF Typed, Shape
<1>7. k + 1 \in 1..count /\ (k + 1) - 1 = k
  BY <1>5, <1>6
<1>8. Wire(kind, b, c[k], c[k + 1], w[k + 1])
  BY <1>3, <1>7 DEF Cut
<1>9. PICK f \in Frames, from \in Nat, to \in Nat :
        /\ f = w[k + 1] /\ from = c[k] /\ to = c[k + 1] /\ off = from + 5
        /\ WireFrame(b, from, to, f) /\ Holds(b, off, arrived)
  <2>1. w[k + 1] \in Frames /\ c[k] \in Nat /\ c[k + 1] \in Nat
    BY <1>5, <1>6, <1>7 DEF Messages
  <2>2. WireFrame(b, c[k], c[k + 1], w[k + 1])
    BY <1>5, <1>8 DEF Wire
  <2>3. Holds(b, off, arrived)
    BY <1>4 DEF Rest
  <2> QED BY <1>5, <2>1, <2>2, <2>3
<1>10. /\ f.size \in Nat
       /\ f = [version |-> f.version, type |-> f.type, flag |-> f.flag,
               size |-> f.size, payload |-> f.payload]
  BY FrameProperties
<1>11. header = [version |-> f.version, type |-> f.type, flag |-> f.flag, size |-> f.size]
  BY <1>5, <1>9
<1>s. header.size = f.size /\ Len(arrived) >= f.size
  BY <1>1, <1>11
<1>12. SubSeq(arrived, 1, f.size) = f.payload /\ to = from + 5 + f.size
  <2>1. PICK a \in Seq(Byte) : a = arrived
    BY <1>6
  <2>2. /\ WireFrame(b, from, to, f) /\ Holds(b, off, a) /\ Len(a) >= f.size
        /\ off = from + 5
    BY <1>9, <1>s, <2>1
  <2>3. SubSeq(a, 1, f.size) = f.payload /\ to = from + 5 + f.size
    BY <2>2, ReadPayload
  <2> QED BY <2>1, <2>3
<1>h. handleLowPowerFrame(header, f.payload)
  BY <1>1, <1>s, <1>12
<1>13. /\ handled' = Append(handled, [version |-> f.version, type |-> f.type,
                                      flag |-> f.flag, size |-> f.size,
                                      payload |-> f.payload])
       /\ phase' = "header" /\ authed' \in BOOLEAN
       /\ socket' \in {"open", "reset", "closed"}
  <2>1. /\ header.version = f.version /\ header.type = f.type
        /\ header.flag = f.flag /\ header.size = f.size
    BY <1>11
  <2> QED BY <1>2, <1>h, <2>1, FrameHandled
<1>14. handled' = Append(handled, w[k + 1])
  BY <1>9, <1>10, <1>13
<1>15. handled' = Deliver(kind, handled, w[k + 1])
  BY <1>5, <1>14 DEF Deliver, Skipped
<1>16. c[k + 1] = off + f.size /\ f.size \in 0..Len(arrived) /\ arrived' = Drop(arrived, f.size)
  BY <1>1, <1>6, <1>9, <1>10, <1>11, <1>12
<1>17. phase' = IF kind = "json" THEN "line" ELSE "header"
  BY <1>5, <1>13
<1>18. header' \in [version : Byte, type : Byte, flag : Byte, size : 0..(Base * Base - 1)]
  BY <1>1, <1>2 DEF Shape
<1> QED BY <1>1, <1>2, <1>3, <1>4, <1>5, <1>13, <1>15, <1>16, <1>17, <1>18, HandOver

(* A JSON device sends a line.                                               *)
LEMMA SendLineStep ==
  ASSUME IInv, NEW l \in Lines, NEW end \in {<<NL>>, <<CR, NL>>}, SendLine(l, end)
  PROVE  IInv'
<1>1. /\ kind = "json" /\ count < MaxMessages /\ count' = count + 1
      /\ sent' = (IF l = <<>> THEN sent ELSE Append(sent, l))
      /\ net' = net \o l \o end
      /\ UNCHANGED <<kind, arrived, phase, header, handled, authed, socket>>
  BY DEF SendLine
<1>2. PICK s : s = l \o end
  OBVIOUS
<1>3. Encodes(kind, s, l)
  BY <1>1, <1>2, EncodedLine
<1>4. net' = net \o s
  <2>1. net \in Seq(Byte) /\ l \in Seq(Byte) /\ end \in Seq(Byte)
    <3>1. NL \in Byte /\ CR \in Byte
      BY BytesAssumption
    <3>2. <<NL>> \in Seq(Byte) /\ <<CR, NL>> \in Seq(Byte)
      BY <3>1
    <3>3. net \in Seq(Byte) /\ l \in Seq(Byte)
      BY LinesAssumption DEF IInv, Shape
    <3> QED BY <3>2, <3>3
  <2>2. (net \o l) \o end = net \o (l \o end)
    BY <2>1, ConcatAssociative
  <2> QED BY <1>1, <1>2, <2>2
<1>5. sent' = Deliver(kind, sent, l)
  BY <1>1 DEF Deliver, Skipped
<1>6. Shape' /\ Prefix'
  BY <1>1, <1>3, <1>4, <1>5, SendShape DEF IInv
<1>7. phase' # "ended" => Stream'
  BY <1>1, <1>3, <1>4, <1>5, SendStream DEF IInv
<1> QED BY <1>6, <1>7 DEF IInv

(* A low-power device sends a frame.                                         *)
LEMMA SendFrameStep ==
  ASSUME IInv, NEW f \in Frames, SendFrame(f)
  PROVE  IInv'
<1>1. /\ kind = "lowpower" /\ count < MaxMessages /\ count' = count + 1
      /\ sent' = Append(sent, f) /\ net' = net \o encodeFrame(f)
      /\ UNCHANGED <<kind, arrived, phase, header, handled, authed, socket>>
  BY DEF SendFrame
<1>2. PICK s : s = encodeFrame(f)
  OBVIOUS
<1>3. Encodes(kind, s, f) /\ net' = net \o s
  BY <1>1, <1>2, EncodedBytes
<1>4. sent' = Deliver(kind, sent, f)
  BY <1>1 DEF Deliver, Skipped
<1>5. Shape' /\ Prefix'
  BY <1>1, <1>3, <1>4, SendShape DEF IInv
<1>6. phase' # "ended" => Stream'
  BY <1>1, <1>3, <1>4, SendStream DEF IInv
<1> QED BY <1>5, <1>6 DEF IInv

(* Nothing has been sent.                                                    *)
LEMMA InitIInv == Init => IInv
<1> SUFFICES ASSUME Init PROVE IInv
  OBVIOUS
<1>1. /\ kind \in {"json", "lowpower"} /\ sent = <<>> /\ count = 0 /\ net = <<>>
      /\ arrived = <<>> /\ phase = "detect" /\ header = NoHeader /\ handled = <<>>
      /\ authed = FALSE /\ socket = "open"
  BY DEF Init
<1>2. header \in [version : Byte, type : Byte, flag : Byte, size : 0..(Base * Base - 1)]
  <2>1. 0 \in Byte /\ 0 \in 0..(Base * Base - 1)
    BY BaseAssumption DEF Byte
  <2> QED BY <1>1, <2>1 DEF NoHeader
<1>3. Shape /\ Prefix
  <2>1. Len(sent) = 0 /\ Len(handled) = 0
    BY <1>1
  <2>2. count \in 0..MaxMessages
    BY <1>1, MaxMessagesAssumption
  <2>3. /\ sent \in Seq(Messages(kind)) /\ handled \in Seq(Messages(kind))
        /\ net \in Seq(Byte) /\ arrived \in Seq(Byte)
    BY <1>1, EmptySeq
  <2>4. Len(sent) <= count
    BY <1>1, <2>1
  <2>5. Shape
    BY <1>1, <1>2, <2>2, <2>3, <2>4 DEF Shape
  <2>6. Prefix
    BY <1>1, <2>1 DEF Prefix, Begins
  <2> QED BY <2>5, <2>6
<1> DEFINE w == [i \in 1..0 |-> 0]
           c == [i \in 0..0 |-> 0]
<1>4. Typed(kind, count, sent, <<>>, w, c, c)
  BY <1>1 DEF Typed
<1>5. Cut(kind, count, sent, <<>>, w, c, c)
  <2>1. c[0] = 0 /\ Len(<<>>) = 0 /\ Len(sent) = 0
    BY <1>1
  <2> HIDE DEF c, w
  <2> QED BY <1>1, <2>1 DEF Cut
<1>6. Rest(<<>>, 0, arrived, net)
  BY <1>1 DEF Rest, Holds
<1>7. Reading(w, c, c, 0, 0)
  <2>1. c[0] = 0 /\ Len(handled) = 0
    BY <1>1
  <2> HIDE DEF c, w
  <2> QED BY <1>1, <2>1 DEF Reading
<1>8. 0 \in 0..count /\ 0 \in Nat
  BY <1>1
<1> HIDE DEF c, w
<1>9. Stream
  BY <1>4, <1>5, <1>6, <1>7, <1>8 DEF Stream
<1> QED BY <1>3, <1>9 DEF IInv

(* Every action keeps the invariant.                                         *)
LEMMA NextIInv == IInv /\ [Next]_vars => IInv'
<1> SUFFICES ASSUME IInv, [Next]_vars PROVE IInv'
  OBVIOUS
<1> USE DEF Read
<1>1. ASSUME NEW l \in Lines, NEW end \in {<<NL>>, <<CR, NL>>}, SendLine(l, end) PROVE IInv'
  BY <1>1, SendLineStep
<1>2. ASSUME NEW f \in Frames, SendFrame(f) PROVE IInv'
  BY <1>2, SendFrameStep
<1>3. CASE Arrive
  BY <1>3, ArriveStep
<1>4. CASE PeerReset
  BY <1>4, QuietStep DEF PeerReset
<1>5. CASE WriterCloses
  BY <1>5, QuietStep DEF WriterCloses
<1>6. CASE readAutoDetect
  BY <1>6, DetectStep
<1>7. CASE readJsonLine
  BY <1>7, LineStep
<1>8. CASE readLowPowerHeader
  BY <1>8, HeaderStep
<1>9. CASE readLowPowerPayload
  BY <1>9, PayloadStep
<1>10. CASE ReadError
  BY <1>10, QuietStep DEF ReadError
<1>11. CASE UNCHANGED vars
  <2>1. socket \in {"open", "reset", "closed"}
    BY DEF IInv, Shape
  <2> QED BY <1>11, <2>1, QuietStep DEF vars
<1> QED BY <1>1, <1>2, <1>3, <1>4, <1>5, <1>6, <1>7, <1>8, <1>9, <1>10, <1>11
        DEF Next, Resting

(* The invariant of the reader.                                              *)
THEOREM Invariance == Spec => []IInv
<1> QED BY InitIInv, NextIInv, PTL DEF Spec

(* Type correctness: nothing that is handed over was not sent, so that       *)
(* MaxMessages bounds it, too.                                               *)
THEOREM TypeCorrect == Spec => []TypeOK
<1>1. IInv => TypeOK
  <2> SUFFICES ASSUME IInv PROVE TypeOK
    OBVIOUS
  <2>1. Shape /\ Begins(handled, sent)
    BY DEF IInv, Prefix
  <2>2. sent \in Seq(Lines) \cup Seq(Frames)
    BY <2>1 DEF Shape, Messages
  <2>3. Len(handled) <= MaxMessages
    <3>1. Len(handled) <= Len(sent) /\ Len(sent) <= count /\ count \in 0..MaxMessages
      BY <2>1 DEF Begins, Shape
    <3>2. Len(handled) \in Nat /\ Len(sent) \in Nat
      BY <2>1 DEF Shape
    <3> QED BY <3>1, <3>2, MaxMessagesAssumption
  <2> QED BY <2>1, <2>2, <2>3 DEF TypeOK, Shape
<1> QED BY <1>1, Invariance, PTL

(* readJsonLine, readLowPowerHeader and readLowPowerPayload hand over what   *)
(* the device sent, in order and complete, for all lines and frames, however *)
(* the bytes arrive.                                                         *)
THEOREM ReaderStaysInSync == Spec => []InSync
<1>1. IInv => InSync
  <2> SUFFICES ASSUME IInv PROVE InSync
    OBVIOUS
  <2>1. /\ Len(handled) <= Len(sent) /\ \A i \in 1..Len(handled) : handled[i] = sent[i]
        /\ handled \in Seq(Messages(kind)) /\ sent \in Seq(Messages(kind))
    BY DEF IInv, Shape, Prefix, Begins
  <2>2. PICK S : S = Messages(kind)
    OBVIOUS
  <2>3. PICK n \in Nat : n = Len(handled)
    BY <2>1
  <2>4. /\ SubSeq(sent, 1, n) \in Seq(S) /\ Len(SubSeq(sent, 1, n)) = n
        /\ \A i \in 1..n : SubSeq(sent, 1, n)[i] = sent[i]
    BY <2>1, <2>2, <2>3
  <2>5. handled \in Seq(S) /\ \A i \in 1..n : handled[i] = SubSeq(sent, 1, n)[i]
    BY <2>1, <2>2, <2>3, <2>4
  <2>6. handled = SubSeq(sent, 1, n)
    BY <2>3, <2>4, <2>5, SeqEqual
  <2> QED BY <2>1, <2>3, <2>6 DEF InSync
<1> QED BY <1>1, Invariance, PTL

(* A number of two bytes has these two bytes.                                *)
LEMMA BytesOfNumber ==
  ASSUME NEW q \in Byte, NEW r \in Byte
  PROVE  /\ q * Base + r \in Nat /\ q * Base + r < Base * Base
         /\ (q * Base + r) \div Base = q /\ (q * Base + r) % Base = r
<1>1. Base \in Nat /\ Base >= 2 /\ q \in Nat /\ r \in Nat /\ q <= Base - 1 /\ r <= Base - 1
  BY BaseAssumption DEF Byte
<1>2. PICK v \in Nat : v = q * Base + r
  BY <1>1
<1>3. PICK a \in Nat, s \in 0..(Base - 1) : /\ a = v \div Base /\ s = v % Base
                                         /\ a * Base + s = v
  BY <1>1
<1>4. a = q
  <2>1. CASE a >= q + 1
    <3>1. a * Base >= (q + 1) * Base
      BY <1>1, <2>1
    <3>2. (q + 1) * Base = q * Base + Base
      BY <1>1
    <3>3. a * Base \in Nat /\ q * Base \in Nat
      BY <1>1
    <3> QED BY <1>1, <1>2, <1>3, <3>1, <3>2, <3>3
  <2>2. CASE q >= a + 1
    <3>1. q * Base >= (a + 1) * Base
      BY <1>1, <2>2
    <3>2. (a + 1) * Base = a * Base + Base
      BY <1>1
    <3>3. a * Base \in Nat /\ q * Base \in Nat
      BY <1>1
    <3> QED BY <1>1, <1>2, <1>3, <3>1, <3>2, <3>3
  <2> QED BY <1>1, <2>1, <2>2
<1>5. s = r
  <2>1. q * Base \in Nat
    BY <1>1
  <2> QED BY <1>1, <1>2, <1>3, <1>4, <2>1
<1>6. v < Base * Base
  <2>1. q * Base <= (Base - 1) * Base
    BY <1>1
  <2>2. (Base - 1) * Base = Base * Base - Base
    BY <1>1
  <2>3. q * Base \in Nat /\ Base * Base \in Nat
    BY <1>1
  <2> QED BY <1>1, <1>2, <2>1, <2>2, <2>3
<1> QED BY <1>2, <1>3, <1>4, <1>5, <1>6

(* The two bytes of p at i, written again.                                   *)
LEMMA WrittenAgain ==
  ASSUME NEW p \in Seq(Byte), NEW i \in 1..(Len(p) - 1)
  PROVE  /\ readU16BE(p, i) \in Nat
         /\ writeU16BE(U16(readU16BE(p, i))) = SubSeq(p, i, i + 1)
<1>1. PICK q \in Byte, r \in Byte : q = p[i] /\ r = p[i + 1]
  OBVIOUS
<1>2. PICK v \in Nat : /\ v = q * Base + r /\ v < Base * Base
                      /\ v \div Base = q /\ v % Base = r
  BY BytesOfNumber
<1>3. readU16BE(p, i) = v /\ U16(v) = v
  BY <1>1, <1>2, LengthBytes DEF readU16BE
<1>4. SubSeq(p, i, i + 1) = <<q, r>>
  <2>1. /\ i \in Int /\ i + 1 \in Int /\ i <= i + 1 /\ i + 1 - i + 1 = 2
        /\ i + 1 - 1 = i /\ i + 2 - 1 = i + 1
    OBVIOUS
  <2>2. \A j \in i..(i + 1) : p[j] \in Byte
    OBVIOUS
  <2>3. /\ SubSeq(p, i, i + 1) \in Seq(Byte)
        /\ Len(SubSeq(p, i, i + 1)) = IF i <= i + 1 THEN i + 1 - i + 1 ELSE 0
        /\ \A j \in 1..(i + 1 - i + 1) : SubSeq(p, i, i + 1)[j] = p[i + j - 1]
    BY <2>1, <2>2, SubSeqProperties
  <2>4. PICK t \in Seq(Byte) : t = SubSeq(p, i, i + 1) /\ Len(t) = 2 /\ t[1] = q /\ t[2] = r
    <3>1. SubSeq(p, i, i + 1)[1] = q /\ SubSeq(p, i, i + 1)[2] = r
      BY <1>1, <2>1, <2>3
    <3> QED BY <2>1, <2>3, <3>1
  <2>5. t = <<t[1], t[2]>>
    <3>1. <<t[1], t[2]>> \in Seq(Byte) /\ Len(<<t[1], t[2]>>) = 2
      BY <2>4
    <3>2. \A j \in 1..2 : t[j] = <<t[1], t[2]>>[j]
      OBVIOUS
    <3> QED BY <2>4, <3>1, <3>2, SeqEqual
  <2> QED BY <2>4, <2>5
<1> QED BY <1>2, <1>3, <1>4 DEF writeU16BE

(* A payload that parseAuthPayloadLV accepts is the one that                 *)
(* buildAuthPayloadLV makes of its fields.                                   *)
THEOREM AcceptedPayloadIsCanonical ==
  ASSUME NEW p \in Seq(Byte), NEW a \in parseAuthPayloadLV(p)
  PROVE  buildAuthPayloadLV(a.iv, a.devid, a.data) = p
<1>1. Len(p) \in Nat /\ Len(p) >= 6
  BY DEF parseAuthPayloadLV
<1>2. PICK i \in Nat, d \in Nat, n \in Nat :
        /\ i = readU16BE(p, 1) /\ d = readU16BE(p, 3) /\ n = readU16BE(p, 5)
        /\ writeU16BE(U16(i)) = SubSeq(p, 1, 2)
        /\ writeU16BE(U16(d)) = SubSeq(p, 3, 4)
        /\ writeU16BE(U16(n)) = SubSeq(p, 5, 6)
  <2>1. 1 \in 1..(Len(p) - 1) /\ 3 \in 1..(Len(p) - 1) /\ 5 \in 1..(Len(p) - 1)
    BY <1>1
  <2>2. 1 + 1 = 2 /\ 3 + 1 = 4 /\ 5 + 1 = 6
    OBVIOUS
  <2> QED BY <2>1, <2>2, WrittenAgain
<1>3. /\ Len(p) = 6 + i + d + n
      /\ a = [iv |-> SubSeq(p, 7, 6 + i), devid |-> SubSeq(p, 7 + i, 6 + i + d),
              data |-> SubSeq(p, 7 + i + d, 6 + i + d + n)]
  BY <1>1, <1>2 DEF parseAuthPayloadLV
<1>4. PICK x \in Seq(Byte), y \in Seq(Byte), z \in Seq(Byte) :
        /\ x = SubSeq(p, 7, 6 + i) /\ y = SubSeq(p, 7 + i, 6 + i + d)
        /\ z = SubSeq(p, 7 + i + d, 6 + i + d + n)
        /\ Len(x) = i /\ Len(y) = d /\ Len(z) = n
  <2>1. SubSeq(p, 7, 6 + i) \in Seq(Byte) /\ Len(SubSeq(p, 7, 6 + i)) = i
    BY <1>3
  <2>2. SubSeq(p, 7 + i, 6 + i + d) \in Seq(Byte) /\ Len(SubSeq(p, 7 + i, 6 + i + d)) = d
    BY <1>3
  <2>3. /\ SubSeq(p, 7 + i + d, 6 + i + d + n) \in Seq(Byte)
        /\ Len(SubSeq(p, 7 + i + d, 6 + i + d + n)) = n
    BY <1>3
  <2> QED BY <2>1, <2>2, <2>3, Zenon
<1>5. buildAuthPayloadLV(a.iv, a.devid, a.data) =
        SubSeq(p, 1, 2) \o SubSeq(p, 3, 4) \o SubSeq(p, 5, 6) \o x \o y \o z
  <2>1. a.iv = x /\ a.devid = y /\ a.data = z
    BY <1>3, <1>4
  <2> QED BY <1>2, <1>4, <2>1 DEF buildAuthPayloadLV
<1>6. SubSeq(p, 1, 2) \o SubSeq(p, 3, 4) = SubSeq(p, 1, 4)
  BY <1>1, ConcatAdjacentSubSeq
<1>7. SubSeq(p, 1, 4) \o SubSeq(p, 5, 6) = SubSeq(p, 1, 6)
  BY <1>1, ConcatAdjacentSubSeq
<1>8. SubSeq(p, 1, 6) \o x = SubSeq(p, 1, 6 + i)
  BY <1>1, <1>3, <1>4, ConcatAdjacentSubSeq
<1>9. SubSeq(p, 1, 6 + i) \o y = SubSeq(p, 1, 6 + i + d)
  BY <1>1, <1>3, <1>4, ConcatAdjacentSubSeq
<1>10. SubSeq(p, 1, 6 + i + d) \o z = SubSeq(p, 1, 6 + i + d + n)
  <2>1. PICK k \in Nat : k = 6 + i + d
    OBVIOUS
  <2>2. /\ k + 1 = 7 + i + d /\ k + n = 6 + i + d + n
        /\ 1 \in 1..(Len(p) + 1) /\ k \in (1 - 1)..Len(p) /\ k + n \in k..Len(p)
    BY <1>3, <2>1
  <2>3. SubSeq(p, 1, k) \o SubSeq(p, k + 1, k + n) = SubSeq(p, 1, k + n)
    BY <2>2, ConcatAdjacentSubSeq
  <2> QED BY <1>4, <2>1, <2>2, <2>3
<1>11. SubSeq(p, 1, 6 + i + d + n) = p
  BY <1>3, SubSeqFull
<1> QED BY <1>5, <1>6, <1>7, <1>8, <1>9, <1>10, <1>11

(* A frame that the device may send is the only one that its encoding is     *)
(* taken for.                                                                *)
LEMMA FrameParsed ==
  ASSUME NEW f \in Frames
  PROVE  parseFrame(encodeFrame(f)) = {f}
<1>1. PICK s \in Seq(Byte) : s = encodeFrame(f) /\ WireFrame(s, 0, Len(s), f)
  BY EncodedBytes DEF Encodes, Wire
<1>2. /\ f.payload \in Seq(Byte) /\ f.size = Len(f.payload) /\ f.size \in Nat
      /\ f = [version |-> f.version, type |-> f.type, flag |-> f.flag,
              size |-> f.size, payload |-> f.payload]
  BY FrameProperties
<1>3. PICK p \in Seq(Byte), n \in Nat : p = f.payload /\ n = Len(p) /\ n = f.size
  BY <1>2
<1>4. /\ Len(s) = 5 + n /\ s[1] = f.version /\ s[2] = f.type /\ s[3] = f.flag
      /\ s[4] * Base + s[5] = n /\ \A i \in 1..n : s[5 + i] = p[i]
  <2>1. 0 + 1 = 1 /\ 0 + 2 = 2 /\ 0 + 3 = 3 /\ 0 + 4 = 4 /\ 0 + 5 = 5
    OBVIOUS
  <2> QED BY <1>1, <1>3, <2>1 DEF WireFrame
<1>5. readU16BE(s, 4) = n
  BY <1>4 DEF readU16BE
<1>6. SubSeq(s, 6, Len(s)) = p
  <2>1. /\ SubSeq(s, 6, Len(s)) \in Seq(Byte) /\ Len(SubSeq(s, 6, Len(s))) = n
        /\ \A i \in 1..n : SubSeq(s, 6, Len(s))[i] = s[5 + i]
    <3>1. /\ Len(s) \in Int /\ 6 \in Int /\ Len(s) - 6 + 1 = n
          /\ (6 <= Len(s) => Len(s) - 6 + 1 = n) /\ (~(6 <= Len(s)) => n = 0)
          /\ \A i \in 1..n : 6 + i - 1 = 5 + i
      BY <1>4
    <3>2. \A i \in 6..Len(s) : s[i] \in Byte
      OBVIOUS
    <3>3. /\ SubSeq(s, 6, Len(s)) \in Seq(Byte)
          /\ Len(SubSeq(s, 6, Len(s))) = IF 6 <= Len(s) THEN Len(s) - 6 + 1 ELSE 0
          /\ \A i \in 1..(Len(s) - 6 + 1) : SubSeq(s, 6, Len(s))[i] = s[6 + i - 1]
      BY <3>1, <3>2, SubSeqProperties
    <3> QED BY <3>1, <3>3
  <2>2. \A i \in 1..n : SubSeq(s, 6, Len(s))[i] = p[i]
    BY <1>4, <2>1
  <2> QED BY <1>3, <2>1, <2>2, SeqEqual
<1>7. ~(Len(s) < 5) /\ Len(s) = 5 + readU16BE(s, 4)
  BY <1>4, <1>5
<1>8. parseFrame(s) = {[version |-> s[1], type |-> s[2], flag |-> s[3],
                        size |-> readU16BE(s, 4), payload |-> SubSeq(s, 6, Len(s))]}
  BY <1>7 DEF parseFrame, HEADER_SIZE
<1> QED BY <1>1, <1>2, <1>3, <1>4, <1>5, <1>6, <1>8

(* What the gateway accepts has one encoding: every frame that               *)
(* handleLowPowerFrame is given is the one parseFrame takes its bytes for,   *)
(* and a payload accepted in AUTH_REQ is the one built of its fields.        *)
THEOREM OneEncoding == Spec => []AcceptedIsCanonical
<1>1. IInv => AcceptedIsCanonical
  <2> SUFFICES ASSUME IInv, kind = "lowpower", NEW i \in DOMAIN handled
               PROVE  /\ parseFrame(encodeFrame(handled[i])) = {handled[i]}
                      /\ \A a \in parseAuthPayloadLV(handled[i].payload) :
                           buildAuthPayloadLV(a.iv, a.devid, a.data) = handled[i].payload
    BY DEF AcceptedIsCanonical
  <2>1. handled[i] \in Frames
    BY DEF IInv, Shape, Messages
  <2>2. handled[i].payload \in Seq(Byte)
    BY <2>1, FrameProperties
  <2> QED BY <2>1, <2>2, FrameParsed, AcceptedPayloadIsCanonical
<1> QED BY <1>1, Invariance, PTL
===============================================================================
