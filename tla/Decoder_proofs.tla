--------------------------- MODULE Decoder_proofs ----------------------------
(***************************************************************************)
(* Theorems about Decoder, for every stream of bytes, every way to split it *)
(* over calls, every size of the buffer and every checksum function: its    *)
(* types, and that exactly the frames of the stream are delivered.          *)
(***************************************************************************)
EXTENDS Decoder, SequenceTheorems, TLAPS

DecoderType == [state : States, data : Seq(Byte), xor : Byte, callback : BOOLEAN]

(* What the proofs need of the constants.                                   *)
LEMMA DecoderConstants ==
  /\ MaxDataLen \in Nat /\ MaxDataLen > 3
  /\ Inputs \subseteq Byte /\ Lengths \subseteq Nat \ {0}
  /\ IndexRange \in Nat /\ IndexRange > 0 /\ MaxStream \in Nat
BY MaxDataLenAssumption, DecoderAssumption DEF MaxDataLenAssumption, DecoderAssumption

LEMMA Characters ==
  /\ HEAD \in Byte /\ TAIL \in Byte /\ HEAD # TAIL
  /\ ~IsHexChar(HEAD) /\ ~IsHexChar(TAIL)
BY DEF HEAD, TAIL, Byte, IsHexChar

(* What a byte does to the decoder.                                         *)
LEMMA StepCases ==
  ASSUME NEW d \in DecoderType, NEW b \in Byte
  PROVE  /\ b = HEAD => Step(d, b) = [d EXCEPT !.state = "HEAD", !.data = <<HEAD>>]
         /\ b = TAIL /\ d.state = "DATA" => Step(d, b) = Store(d, "TAIL", b)
         /\ IsHexChar(b) /\ d.state \in {"HEAD", "DATA"} => Step(d, b) = Store(d, "DATA", b)
         /\ IsHexChar(b) /\ d.state = "TAIL" =>
              Step(d, b) = [d EXCEPT !.state = "XOR", !.xor = b]
         /\ \/ b = TAIL /\ d.state # "DATA"
            \/ IsHexChar(b) /\ d.state \notin {"HEAD", "DATA", "TAIL"}
            \/ ~(b = HEAD \/ b = TAIL \/ IsHexChar(b))
            => Step(d, b) = [d EXCEPT !.state = "IDLE"]
BY Characters DEF Step

LEMMA Restarted ==
  ASSUME NEW d \in DecoderType
  PROVE  LET e == [d EXCEPT !.state = "HEAD", !.data = <<HEAD>>]
         IN  e \in DecoderType /\ e.state = "HEAD" /\ e.data = <<HEAD>>
<1>1. ASSUME NEW q \in Seq(Byte)
      PROVE  LET e == [d EXCEPT !.state = "HEAD", !.data = q]
             IN  e \in DecoderType /\ e.state = "HEAD" /\ e.data = q
  BY DEF DecoderType, States
<1>2. <<HEAD>> \in Seq(Byte)
  BY Characters
<1> QED
  BY <1>1, <1>2

LEMMA Idle ==
  ASSUME NEW d \in DecoderType
  PROVE  LET e == [d EXCEPT !.state = "IDLE"]
         IN  e \in DecoderType /\ e.state = "IDLE" /\ e.data = d.data
BY DEF DecoderType, States

LEMMA Stored ==
  ASSUME NEW d \in DecoderType, NEW b \in Byte, NEW next \in {"DATA", "TAIL"}
  PROVE  LET e == Store(d, next, b)
         IN  /\ e \in DecoderType
             /\ Len(d.data) < MaxDataLen => e.state = next /\ e.data = Append(d.data, b)
             /\ ~(Len(d.data) < MaxDataLen) => e.state = "OVERRUN" /\ e.data = d.data
<1>1. d.data \in Seq(Byte)
  BY DEF DecoderType
<1>2. Append(d.data, b) \in Seq(Byte)
  BY <1>1, AppendProperties
<1> QED
  BY <1>1, <1>2 DEF DecoderType, States, Store

-----------------------------------------------------------------------------
(* What is stored                                                           *)

(* In every state but IDLE and OVERRUN data is the beginning of a frame, as  *)
(* far as that state has come.                                              *)
DataShape ==
  LET n == Len(decoder.data)
  IN  /\ decoder.state \in {"HEAD", "DATA", "TAIL", "XOR"} => n >= 1 /\ decoder.data[1] = HEAD
      /\ decoder.state = "HEAD" => n = 1
      /\ decoder.state = "DATA" =>
           n >= 2 /\ \A k \in 2 .. n : IsHexChar(decoder.data[k])
      /\ decoder.state \in {"TAIL", "XOR"} =>
           /\ n >= 3 /\ decoder.data[n] = TAIL
           /\ \A k \in 2 .. n - 1 : IsHexChar(decoder.data[k])
      /\ decoder.state = "XOR" => IsHexChar(decoder.xor)

(* A step of the state machine keeps it.                                    *)
LEMMA ShapeKept ==
  ASSUME decoder \in DecoderType, Len(decoder.data) <= MaxDataLen, DataShape, NEW b \in Byte,
         decoder' = Step(decoder, b)
  PROVE  /\ decoder' \in DecoderType /\ Len(decoder'.data) <= MaxDataLen
         /\ DataShape'
<1>0. decoder.data \in Seq(Byte) /\ Len(decoder.data) \in Nat /\ decoder.state \in States
  BY DEF DecoderType
<1>1. CASE b = HEAD
  <2>1. decoder' \in DecoderType /\ decoder'.state = "HEAD" /\ decoder'.data = <<HEAD>>
    BY <1>1, StepCases, Restarted
  <2> QED
    BY <2>1, DecoderConstants DEF DataShape
<1>2. ASSUME NEW next \in {"DATA", "TAIL"}, decoder' = Store(decoder, next, b),
             next = "TAIL" => b = TAIL /\ decoder.state = "DATA",
             next = "DATA" => IsHexChar(b) /\ decoder.state \in {"HEAD", "DATA"}
      PROVE  /\ decoder' \in DecoderType /\ Len(decoder'.data) <= MaxDataLen
             /\ DataShape'
  <2> DEFINE n == Len(decoder.data)
  <2>1. CASE n < MaxDataLen
    <3>1. decoder' \in DecoderType /\ decoder'.state = next
          /\ decoder'.data = Append(decoder.data, b)
      BY <1>2, <2>1, Stored
    <3>2. /\ Len(decoder'.data) = n + 1 /\ decoder'.data[n + 1] = b
          /\ \A k \in 1 .. n : decoder'.data[k] = decoder.data[k]
      BY <1>0, <3>1, AppendProperties
    <3>3. /\ n >= 1 /\ decoder.data[1] = HEAD
          /\ \A k \in 2 .. n : IsHexChar(decoder.data[k])
          /\ next = "TAIL" => n >= 2
      BY <1>0, <1>2 DEF DataShape
    <3> QED
      BY <1>0, <1>2, <2>1, <3>1, <3>2, <3>3, DecoderConstants DEF DataShape
  <2>2. CASE ~(n < MaxDataLen)
    <3>1. decoder' \in DecoderType /\ decoder'.state = "OVERRUN" /\ decoder'.data = decoder.data
      BY <1>2, <2>2, Stored
    <3> QED
      BY <3>1 DEF DataShape
  <2> QED
    BY <2>1, <2>2
<1>3. CASE b = TAIL /\ decoder.state = "DATA"
  BY <1>2, <1>3, StepCases
<1>4. CASE IsHexChar(b) /\ decoder.state \in {"HEAD", "DATA"}
  BY <1>2, <1>4, StepCases
<1>5. CASE IsHexChar(b) /\ decoder.state = "TAIL"
  <2>1. decoder' \in DecoderType /\ decoder'.state = "XOR" /\ decoder'.data = decoder.data
        /\ decoder'.xor = b
    <3>1. decoder' = [decoder EXCEPT !.state = "XOR", !.xor = b]
      BY <1>5, StepCases
    <3> QED
      BY <3>1 DEF DecoderType, States
  <2> QED
    BY <1>5, <2>1 DEF DataShape
<1>6. CASE \/ b = TAIL /\ decoder.state # "DATA"
           \/ IsHexChar(b) /\ decoder.state \notin {"HEAD", "DATA", "TAIL"}
           \/ ~(b = HEAD \/ b = TAIL \/ IsHexChar(b))
  <2>1. decoder' \in DecoderType /\ decoder'.state = "IDLE" /\ decoder'.data = decoder.data
    BY <1>6, StepCases, Idle
  <2> QED
    BY <2>1 DEF DataShape
<1> QED
  BY <1>1, <1>3, <1>4, <1>5, <1>6

(* The payload of a frame is a sequence of bytes.                           *)
LEMMA PayloadType ==
  ASSUME decoder \in DecoderType, DataShape, decoder.state = "XOR"
  PROVE  Payload(decoder) \in Seq(Byte)
<1> DEFINE n == Len(decoder.data)
           s == SubSeq(decoder.data, 2, n - 1)
           value(k) == 16 * HexValue(s[2 * k - 1]) + HexValue(s[2 * k])
<1>1. decoder.data \in Seq(Byte) /\ n \in Nat /\ n >= 3
      /\ \A k \in 2 .. n - 1 : IsHexChar(decoder.data[k])
  BY DEF DecoderType, DataShape
<1>2. /\ s \in Seq(Byte) /\ Len(s) = n - 2
      /\ \A k \in 1 .. n - 2 : s[k] = decoder.data[k + 1]
  BY <1>1, SubSeqProperties
<1>3. \A k \in 1 .. n - 2 : IsHexChar(s[k])
  <2> HIDE DEF s
  <2> QED
    BY <1>1, <1>2
<1>4. ASSUME NEW c, IsHexChar(c) PROVE HexValue(c) \in 0 .. 15
  BY <1>4 DEF IsHexChar, HexValue
<1>5. /\ Len(s) \div 2 \in Nat
      /\ \A k \in 1 .. Len(s) \div 2 : 2 * k \in 1 .. n - 2 /\ 2 * k - 1 \in 1 .. n - 2
  <2>1. \A m \in Nat : /\ m \div 2 \in Nat
                       /\ \A k \in 1 .. m \div 2 : 2 * k \in 1 .. m /\ 2 * k - 1 \in 1 .. m
    OBVIOUS
  <2>2. n - 2 \in Nat
    BY <1>1
  <2> QED
    BY <1>2, <2>1, <2>2
<1>6. \A k \in 1 .. Len(s) \div 2 : value(k) \in Byte
  <2> HIDE DEF s
  <2>1. ASSUME NEW k \in 1 .. Len(s) \div 2 PROVE value(k) \in Byte
    <3>1. HexValue(s[2 * k - 1]) \in 0 .. 15 /\ HexValue(s[2 * k]) \in 0 .. 15
      BY <1>3, <1>4, <1>5
    <3>2. \A x, y \in 0 .. 15 : 16 * x + y \in Byte
      BY DEF Byte
    <3> QED
      BY <3>1, <3>2
  <2> QED
    BY <2>1
<1>7. Payload(decoder) = [k \in 1 .. Len(s) \div 2 |-> value(k)]
  BY DEF Payload, HexStrToBytes
<1> HIDE DEF s, value
<1> QED
  BY <1>5, <1>6, <1>7, IsASeq

-----------------------------------------------------------------------------
DecoderShape == TypeOK /\ DataShape

LEMMA DecoderShapeInit == ASSUME Init PROVE DecoderShape
<1>1. InitDecoder \in DecoderType /\ InitDecoder.data = << >> /\ InitDecoder.state = "IDLE"
  BY DEF InitDecoder, DecoderType, States, Byte
<1>2. decoder = InitDecoder
  BY DEF Init
<1>3. DataShape
  BY <1>1, <1>2 DEF DataShape
<1> QED
  BY <1>1, <1>2, <1>3, DecoderConstants DEF Init, DecoderShape, TypeOK, DecoderType

(* A byte is processed.                                                     *)
LEMMA ByteShape ==
  ASSUME DecoderShape, NEW b \in Inputs, ProcessByte(b)
  PROVE  DecoderShape'
<1>0. b \in Byte
  BY DecoderConstants
<1>1. decoder' \in DecoderType /\ Len(decoder'.data) <= MaxDataLen /\ DataShape'
  BY <1>0, ShapeKept DEF DecoderShape, TypeOK, ProcessByte, DecoderType
<1>2. delivered' \in Seq(Byte)
  <2>1. CASE CheckXor(decoder, b)
    <3>1. Payload(decoder) \in Seq(Byte)
      BY <2>1, PayloadType DEF CheckXor, DecoderShape, TypeOK, DecoderType
    <3>2. delivered' = Payload(decoder) \/ delivered' = << >>
      BY Zenon DEF ProcessByte
    <3>3. << >> \in Seq(Byte)
      OBVIOUS
    <3> QED
      BY <3>1, <3>2, <3>3
  <2>2. CASE ~CheckXor(decoder, b)
    <3>1. delivered' = << >>
      BY <2>2 DEF ProcessByte
    <3> QED
      BY <3>1
  <2> QED
    BY <2>1, <2>2
<1>3. buf' \in Seq(Byte)
  <2>1. buf \in Seq(Byte) /\ Append(buf, b) \in Seq(Byte)
    BY <1>0, AppendProperties DEF DecoderShape, TypeOK
  <2>2. buf' = buf \/ buf' = Append(buf, b)
    BY DEF ProcessByte
  <2> QED
    BY <2>1, <2>2
<1>4. stream' \in Seq(Byte) /\ Len(stream') <= MaxStream
  <2>1. stream \in Seq(Byte) /\ Append(stream, b) \in Seq(Byte)
        /\ Len(Append(stream, b)) = Len(stream) + 1 /\ Len(stream) <= MaxStream
    BY <1>0, AppendProperties DEF DecoderShape, TypeOK
  <2>2. (stream' = stream) \/ (Len(stream) < MaxStream /\ stream' = Append(stream, b))
    BY DEF ProcessByte
  <2> QED
    BY <2>1, <2>2, DecoderConstants
<1>5. i' \in 0 .. IndexRange - 1 /\ len' \in Lengths \union {0} /\ ret' \in {"OK", "ERROR"}
  BY DecoderConstants DEF DecoderShape, TypeOK, ProcessByte
<1> QED
  BY <1>1, <1>2, <1>3, <1>4, <1>5 DEF DecoderShape, TypeOK, DecoderType

(* Every other step.                                                        *)
LEMMA CallShape ==
  ASSUME DecoderShape,
         (\E n \in Lengths : ProcessCall(n)) \/ ProcessReturn \/ UNCHANGED vars
  PROVE  DecoderShape'
<1>1. UNCHANGED <<decoder, delivered, stream>> /\ (buf' = buf \/ buf' = << >>)
  BY DEF ProcessCall, ProcessReturn, vars
<1>2. buf' \in Seq(Byte)
  <2>1. buf \in Seq(Byte) /\ << >> \in Seq(Byte)
    BY DEF DecoderShape, TypeOK
  <2> QED
    BY <1>1, <2>1
<1>3. i' \in 0 .. IndexRange - 1 /\ len' \in Lengths \union {0} /\ ret' \in {"OK", "ERROR"}
  BY DecoderConstants DEF DecoderShape, TypeOK, ProcessCall, ProcessReturn, vars
<1> QED
  BY <1>1, <1>2, <1>3 DEF DecoderShape, TypeOK, DataShape

LEMMA SetShape ==
  ASSUME DecoderShape, SetCallback \/ ResetDecoder
  PROVE  DecoderShape'
<1>1. decoder' \in DecoderType /\ Len(decoder'.data) <= MaxDataLen /\ DataShape'
  <2>1. CASE SetCallback
    <3>1. decoder \in DecoderType
      BY DEF DecoderShape, TypeOK, DecoderType
    <3>2. ASSUME NEW S, NEW d \in [state : States, data : Seq(Byte), xor : Byte, callback : S],
                 NEW c \in S
          PROVE  LET e == [d EXCEPT !.callback = c]
                 IN  /\ e \in [state : States, data : Seq(Byte), xor : Byte, callback : S]
                     /\ e.state = d.state /\ e.data = d.data /\ e.xor = d.xor
      OBVIOUS
    <3>3. TRUE \in BOOLEAN
      OBVIOUS
    <3>4. decoder' = [decoder EXCEPT !.callback = TRUE]
      BY <2>1 DEF SetCallback
    <3>5. decoder' \in DecoderType /\ decoder'.state = decoder.state
          /\ decoder'.data = decoder.data /\ decoder'.xor = decoder.xor
      BY <3>1, <3>2, <3>3, <3>4, Zenon DEF DecoderType
    <3> QED
      BY <3>5 DEF DecoderShape, TypeOK, DataShape
  <2>2. CASE ResetDecoder
    <3>1. InitDecoder \in DecoderType /\ InitDecoder.data = << >> /\ InitDecoder.state = "IDLE"
      BY DEF InitDecoder, DecoderType, States, Byte
    <3>2. decoder' = InitDecoder
      BY <2>2 DEF ResetDecoder
    <3> QED
      BY <3>1, <3>2, DecoderConstants DEF DataShape
  <2> QED
    BY <2>1, <2>2
<1>2. UNCHANGED <<len, i, ret, buf>> /\ delivered' = << >> /\ (stream' = stream \/ stream' = << >>)
  BY DEF SetCallback, ResetDecoder
<1>3. stream' \in Seq(Byte) /\ Len(stream') <= MaxStream /\ delivered' \in Seq(Byte)
  <2>1. << >> \in Seq(Byte) /\ Len(<< >>) <= MaxStream
    BY DecoderConstants
  <2>2. stream \in Seq(Byte) /\ Len(stream) <= MaxStream
    BY DEF DecoderShape, TypeOK
  <2> QED
    BY <1>2, <2>1, <2>2
<1> QED
  BY <1>1, <1>2, <1>3 DEF DecoderShape, TypeOK, DecoderType

LEMMA DecoderShapeStep == ASSUME DecoderShape, [Next]_vars PROVE DecoderShape'
BY ByteShape, CallShape, SetShape DEF Next, Process

(* Types of the decoder and of the loop of comm_protocol_decoder_process,   *)
(* and that nothing is stored beyond the buffer, whatever bytes arrive.      *)
THEOREM DecoderTypeCorrect == Spec => []TypeOK
<1>1. Init => DecoderShape
  BY DecoderShapeInit
<1>2. DecoderShape /\ [Next]_vars => DecoderShape'
  BY DecoderShapeStep
<1>3. DecoderShape => TypeOK
  BY DEF DecoderShape
<1> QED
  BY <1>1, <1>2, <1>3, PTL DEF Spec

-----------------------------------------------------------------------------
(* Decoder and stream                                                       *)

Ends(s, f) == Len(f) <= Len(s) /\ \A k \in 1 .. Len(f) : s[Len(s) - Len(f) + k] = f[k]

(* The last m bytes of s are a '@' and digits; a frame up to its '*'; up to *)
(* the first digit of the checksum.                                         *)
InData(s, m) ==
  /\ m \in 1 .. Len(s) /\ s[Len(s) - m + 1] = HEAD
  /\ \A k \in Len(s) - m + 2 .. Len(s) : IsHexChar(s[k])
InTail(s, m) ==
  /\ m \in 3 .. Len(s) /\ s[Len(s) - m + 1] = HEAD /\ s[Len(s)] = TAIL
  /\ \A k \in Len(s) - m + 2 .. Len(s) - 1 : IsHexChar(s[k])
InXor(s, m) ==
  /\ m \in 4 .. Len(s) /\ s[Len(s) - m + 1] = HEAD /\ s[Len(s) - 1] = TAIL
  /\ IsHexChar(s[Len(s)])
  /\ \A k \in Len(s) - m + 2 .. Len(s) - 2 : IsHexChar(s[k])

(* What is stored is what the stream ends with,                             *)
DataIsStream ==
  Len(stream) < MaxStream =>
    /\ decoder.state \in {"HEAD", "DATA", "TAIL"} => Ends(stream, decoder.data)
    /\ decoder.state = "XOR" => Ends(stream, Append(decoder.data, decoder.xor))
(* and a stream that ends with the beginning of a frame has brought the     *)
(* decoder into the state for it.                                           *)
StreamIsData ==
  Len(stream) < MaxStream /\ decoder.state # "OVERRUN" =>
    \A m \in 1 .. Len(stream) :
      /\ InData(stream, m) =>
           decoder.state \in {"HEAD", "DATA"} /\ Len(decoder.data) = m
      /\ InTail(stream, m) => decoder.state = "TAIL" /\ Len(decoder.data) = m
      /\ InXor(stream, m) => decoder.state = "XOR" /\ Len(decoder.data) = m - 1

LEMMA EndsAppend ==
  ASSUME NEW s \in Seq(Byte), NEW f \in Seq(Byte), NEW b \in Byte, Ends(s, f)
  PROVE  Ends(Append(s, b), Append(f, b))
<1> DEFINE n == Len(s)  m == Len(f)  t == Append(s, b)  g == Append(f, b)
<1>1. Len(t) = n + 1 /\ t[n + 1] = b /\ \A k \in 1 .. n : t[k] = s[k]
  BY AppendProperties
<1>2. Len(g) = m + 1 /\ g[m + 1] = b /\ \A k \in 1 .. m : g[k] = f[k]
  BY AppendProperties
<1>3. n \in Nat /\ m \in Nat /\ m <= n /\ \A k \in 1 .. m : s[n - m + k] = f[k]
  BY DEF Ends
<1> HIDE DEF n, m, t, g
<1>4. ASSUME NEW k \in 1 .. m + 1
      PROVE  t[n + 1 - (m + 1) + k] = g[k]
  <2>1. CASE k = m + 1
    <3>1. n + 1 - (m + 1) + k = n + 1
      BY <1>3, <2>1
    <3> QED
      BY <1>1, <1>2, <2>1, <3>1
  <2>2. CASE k \in 1 .. m
    <3>1. n + 1 - (m + 1) + k = n - m + k /\ n - m + k \in 1 .. n
      BY <1>3, <2>2
    <3>2. t[n - m + k] = s[n - m + k] /\ s[n - m + k] = f[k] /\ g[k] = f[k]
      BY <1>1, <1>2, <1>3, <2>2, <3>1
    <3> QED
      BY <3>1, <3>2
  <2>3. k = m + 1 \/ k \in 1 .. m
    BY <1>3
  <2> QED
    BY <2>1, <2>2, <2>3
<1>5. Len(g) <= Len(t) /\ \A k \in 1 .. Len(g) : t[Len(t) - Len(g) + k] = g[k]
  <2>1. Len(t) = n + 1 /\ Len(g) = m + 1 /\ m + 1 <= n + 1
    BY <1>1, <1>2, <1>3
  <2>2. ASSUME NEW k \in 1 .. Len(g) PROVE t[Len(t) - Len(g) + k] = g[k]
    <3>1. k \in 1 .. m + 1
      BY <2>1
    <3>2. t[n + 1 - (m + 1) + k] = g[k]
      BY <1>4, <3>1
    <3>3. Len(t) - Len(g) + k = n + 1 - (m + 1) + k
      BY <1>3, <2>1, <3>1
    <3> QED
      BY <3>2, <3>3
  <2>3. Len(g) <= Len(t)
    BY <2>1, Zenon
  <2> QED
    BY <2>2, <2>3
<1>6. Ends(t, g)
  BY <1>5 DEF Ends
<1> QED
  BY <1>6 DEF t, g

(* The beginnings of frames grow with the stream.                           *)
LEMMA InAppend ==
  ASSUME NEW s \in Seq(Byte), NEW b \in Byte, NEW m \in Nat
  PROVE  /\ InData(Append(s, b), m) =>
              \/ b = HEAD /\ m = 1
              \/ IsHexChar(b) /\ m - 1 \in 1 .. Len(s) /\ InData(s, m - 1)
         /\ InTail(Append(s, b), m) =>
              b = TAIL /\ m >= 3 /\ m - 1 \in 1 .. Len(s) /\ InData(s, m - 1)
         /\ InXor(Append(s, b), m) =>
              IsHexChar(b) /\ m - 1 \in 1 .. Len(s) /\ InTail(s, m - 1)
<1> DEFINE n == Len(s)  t == Append(s, b)
<1>1. /\ n \in Nat /\ Len(t) = n + 1 /\ t[n + 1] = b
      /\ \A k \in 1 .. n : t[k] = s[k]
  BY AppendProperties
<1> HIDE DEF t
<1>2. ASSUME InData(t, m), m # 1
      PROVE  IsHexChar(b) /\ m - 1 \in 1 .. n /\ InData(s, m - 1)
  <2>1. /\ m - 1 \in 1 .. n /\ t[n + 1 - m + 1] = HEAD
        /\ \A k \in n + 1 - m + 2 .. n + 1 : IsHexChar(t[k])
    BY <1>1, <1>2 DEF InData
  <2>2. IsHexChar(b)
    BY <1>1, <2>1
  <2>3. n + 1 - m + 1 = n - (m - 1) + 1 /\ n + 1 - m + 1 \in 1 .. n
    BY <1>1, <2>1
  <2>4. ASSUME NEW k \in n - (m - 1) + 2 .. n PROVE IsHexChar(s[k])
    <3>1. k \in 1 .. n /\ k \in n + 1 - m + 2 .. n + 1
      BY <1>1, <2>1
    <3> QED
      BY <1>1, <2>1, <3>1
  <2> QED
    BY <1>1, <2>1, <2>2, <2>3, <2>4 DEF InData
<1>3. ASSUME InData(t, m), m = 1 PROVE b = HEAD
  BY <1>1, <1>3 DEF InData
<1>4. ASSUME InTail(t, m)
      PROVE  b = TAIL /\ m >= 3 /\ m - 1 \in 1 .. n /\ InData(s, m - 1)
  <2>1. /\ m >= 3 /\ m - 1 \in 1 .. n /\ t[n + 1 - m + 1] = HEAD /\ t[n + 1] = TAIL
        /\ \A k \in n + 1 - m + 2 .. n : IsHexChar(t[k])
    BY <1>1, <1>4 DEF InTail
  <2>2. n + 1 - m + 1 = n - (m - 1) + 1 /\ n + 1 - m + 1 \in 1 .. n
    BY <1>1, <2>1
  <2>3. ASSUME NEW k \in n - (m - 1) + 2 .. n PROVE IsHexChar(s[k])
    <3>1. k \in 1 .. n /\ k \in n + 1 - m + 2 .. n
      BY <1>1, <2>1
    <3> QED
      BY <1>1, <2>1, <3>1
  <2> QED
    BY <1>1, <2>1, <2>2, <2>3 DEF InData
<1>5. ASSUME InXor(t, m)
      PROVE  IsHexChar(b) /\ m - 1 \in 1 .. n /\ InTail(s, m - 1)
  <2>1. /\ m - 1 \in 3 .. n /\ t[n + 1 - m + 1] = HEAD /\ t[n] = TAIL /\ IsHexChar(t[n + 1])
        /\ \A k \in n + 1 - m + 2 .. n - 1 : IsHexChar(t[k])
    BY <1>1, <1>5 DEF InXor
  <2>2. n + 1 - m + 1 = n - (m - 1) + 1 /\ n + 1 - m + 1 \in 1 .. n
    BY <1>1, <2>1
  <2>3. ASSUME NEW k \in n - (m - 1) + 2 .. n - 1 PROVE IsHexChar(s[k])
    <3>1. k \in 1 .. n /\ k \in n + 1 - m + 2 .. n - 1
      BY <1>1, <2>1
    <3> QED
      BY <1>1, <2>1, <3>1
  <2> QED
    BY <1>1, <2>1, <2>2, <2>3 DEF InTail
<1> QED
  BY <1>2, <1>3, <1>4, <1>5 DEF t

(* What a step of the state machine can come to.                            *)
LEMMA Outcomes ==
  ASSUME decoder \in DecoderType, NEW b \in Byte, decoder' = Step(decoder, b)
  PROVE  \/ b = HEAD /\ decoder'.state = "HEAD" /\ decoder'.data = <<HEAD>>
         \/ /\ b = TAIL /\ decoder.state = "DATA"
            /\ decoder'.state = "TAIL" /\ decoder'.data = Append(decoder.data, b)
         \/ /\ IsHexChar(b) /\ decoder.state \in {"HEAD", "DATA"}
            /\ decoder'.state = "DATA" /\ decoder'.data = Append(decoder.data, b)
         \/ /\ IsHexChar(b) /\ decoder.state = "TAIL"
            /\ decoder'.state = "XOR" /\ decoder'.data = decoder.data /\ decoder'.xor = b
         \/ decoder'.state = "OVERRUN"
         \/ /\ \/ b = TAIL /\ decoder.state # "DATA"
               \/ IsHexChar(b) /\ decoder.state \notin {"HEAD", "DATA", "TAIL"}
               \/ ~(b = HEAD \/ b = TAIL \/ IsHexChar(b))
            /\ decoder'.state = "IDLE"
<1>1. CASE b = HEAD
  BY <1>1, StepCases, Restarted
<1>2. ASSUME NEW next \in {"DATA", "TAIL"}, decoder' = Store(decoder, next, b)
      PROVE  \/ decoder'.state = "OVERRUN"
             \/ decoder'.state = next /\ decoder'.data = Append(decoder.data, b)
  BY <1>2, Stored
<1>3. CASE b = TAIL /\ decoder.state = "DATA"
  BY <1>2, <1>3, StepCases
<1>4. CASE IsHexChar(b) /\ decoder.state \in {"HEAD", "DATA"}
  BY <1>2, <1>4, StepCases
<1>5. CASE IsHexChar(b) /\ decoder.state = "TAIL"
  <2>1. decoder' = [decoder EXCEPT !.state = "XOR", !.xor = b]
    BY <1>5, StepCases
  <2>2. decoder'.state = "XOR" /\ decoder'.data = decoder.data /\ decoder'.xor = b
    BY <2>1 DEF DecoderType, States
  <2> QED
    BY <1>5, <2>2
<1>6. CASE \/ b = TAIL /\ decoder.state # "DATA"
           \/ IsHexChar(b) /\ decoder.state \notin {"HEAD", "DATA", "TAIL"}
           \/ ~(b = HEAD \/ b = TAIL \/ IsHexChar(b))
  <2>1. decoder'.state = "IDLE"
    BY <1>6, StepCases, Idle
  <2> QED
    BY <1>6, <2>1
<1> QED
  BY <1>1, <1>3, <1>4, <1>5, <1>6

(* A byte joins stream and decoder.                                         *)
LEMMA ByteStream ==
  ASSUME DecoderShape, DataIsStream, StreamIsData, NEW b \in Inputs, ProcessByte(b)
  PROVE  DataIsStream' /\ StreamIsData'
<1>0. /\ b \in Byte /\ decoder \in DecoderType /\ stream \in Seq(Byte)
      /\ decoder.data \in Seq(Byte) /\ decoder.xor \in Byte /\ Len(stream) \in Nat
      /\ decoder.state # "OVERRUN" /\ decoder' = Step(decoder, b)
  BY DecoderConstants DEF DecoderShape, TypeOK, DecoderType, ProcessByte
<1>1. CASE ~(Len(stream) < MaxStream)
  <2>1. stream' = stream
    BY <1>1 DEF ProcessByte
  <2> QED
    BY <1>1, <2>1 DEF DataIsStream, StreamIsData
<1>2. CASE Len(stream) < MaxStream
  <2>1. stream' = Append(stream, b)
    BY <1>2 DEF ProcessByte
  <2>2. /\ Len(stream') = Len(stream) + 1 /\ stream'[Len(stream) + 1] = b
    BY <1>0, <2>1, AppendProperties
  <2>3. DataIsStream'
    <3>1. CASE b = HEAD /\ decoder'.state = "HEAD" /\ decoder'.data = <<HEAD>>
      <4>1. Ends(stream', <<HEAD>>)
        BY <1>0, <2>2, <3>1 DEF Ends
      <4> QED
        BY <3>1, <4>1 DEF DataIsStream
    <3>2. CASE /\ decoder.state \in {"HEAD", "DATA"} /\ decoder'.state \in {"DATA", "TAIL"}
               /\ decoder'.data = Append(decoder.data, b)
      <4>1. Ends(stream, decoder.data)
        BY <1>2, <3>2 DEF DataIsStream
      <4>2. Ends(stream', decoder'.data)
        BY <1>0, <2>1, <3>2, <4>1, EndsAppend
      <4> QED
        BY <3>2, <4>2 DEF DataIsStream
    <3>3. CASE /\ decoder.state = "TAIL" /\ decoder'.state = "XOR"
               /\ decoder'.data = decoder.data /\ decoder'.xor = b
      <4>1. Ends(stream, decoder.data)
        BY <1>2, <3>3 DEF DataIsStream
      <4>2. Ends(stream', Append(decoder'.data, decoder'.xor))
        BY <1>0, <2>1, <3>3, <4>1, EndsAppend
      <4> QED
        BY <3>3, <4>2 DEF DataIsStream
    <3>4. CASE decoder'.state \in {"OVERRUN", "IDLE"}
      BY <3>4 DEF DataIsStream
    <3> QED
      BY <1>0, <3>1, <3>2, <3>3, <3>4, Outcomes
  <2>4. StreamIsData'
    <3>0. SUFFICES ASSUME decoder'.state # "OVERRUN", NEW m \in 1 .. Len(stream')
                   PROVE  /\ InData(stream', m) =>
                               decoder'.state \in {"HEAD", "DATA"} /\ Len(decoder'.data) = m
                          /\ InTail(stream', m) =>
                               decoder'.state = "TAIL" /\ Len(decoder'.data) = m
                          /\ InXor(stream', m) =>
                               decoder'.state = "XOR" /\ Len(decoder'.data) = m - 1
      BY DEF StreamIsData
    <3>1. m \in Nat /\ \A k \in 1 .. Len(stream) :
            /\ InData(stream, k) =>
                 decoder.state \in {"HEAD", "DATA"} /\ Len(decoder.data) = k
            /\ InTail(stream, k) => decoder.state = "TAIL" /\ Len(decoder.data) = k
      BY <1>0, <1>2 DEF StreamIsData
    <3>2. Len(Append(decoder.data, b)) = Len(decoder.data) + 1
      BY <1>0, AppendProperties
    <3>3. ASSUME InData(stream', m)
          PROVE  decoder'.state \in {"HEAD", "DATA"} /\ Len(decoder'.data) = m
      <4>1. \/ b = HEAD /\ m = 1
            \/ IsHexChar(b) /\ m - 1 \in 1 .. Len(stream) /\ InData(stream, m - 1)
        BY <1>0, <2>1, <3>1, <3>3, InAppend
      <4>2. CASE b = HEAD /\ m = 1
        <5>1. decoder'.state = "HEAD" /\ decoder'.data = <<HEAD>>
          BY <1>0, <3>0, <4>2, Outcomes, Characters
        <5> QED
          BY <4>2, <5>1
      <4>3. CASE IsHexChar(b) /\ m - 1 \in 1 .. Len(stream) /\ InData(stream, m - 1)
        <5>1. decoder.state \in {"HEAD", "DATA"} /\ Len(decoder.data) = m - 1
          BY <3>1, <4>3
        <5>2. decoder'.state = "DATA" /\ decoder'.data = Append(decoder.data, b)
          BY <1>0, <3>0, <4>3, <5>1, Outcomes, Characters
        <5> QED
          BY <3>1, <3>2, <5>1, <5>2
      <4> QED
        BY <4>1, <4>2, <4>3
    <3>4. ASSUME InTail(stream', m)
          PROVE  decoder'.state = "TAIL" /\ Len(decoder'.data) = m
      <4>1. b = TAIL /\ m >= 3 /\ m - 1 \in 1 .. Len(stream) /\ InData(stream, m - 1)
        BY <1>0, <2>1, <3>1, <3>4, InAppend
      <4>2. decoder.state \in {"HEAD", "DATA"} /\ Len(decoder.data) = m - 1
        BY <3>1, <4>1
      <4>3. decoder.state = "DATA"
        <5>1. Len(decoder.data) # 1
          BY <3>1, <4>1, <4>2
        <5>2. decoder.state = "HEAD" => Len(decoder.data) = 1
          BY DEF DecoderShape, DataShape
        <5> QED
          BY <4>2, <5>1, <5>2
      <4>4. decoder'.state = "TAIL" /\ decoder'.data = Append(decoder.data, b)
        BY <1>0, <3>0, <4>1, <4>3, Outcomes, Characters
      <4> QED
        BY <3>1, <3>2, <4>2, <4>4
    <3>5. ASSUME InXor(stream', m)
          PROVE  decoder'.state = "XOR" /\ Len(decoder'.data) = m - 1
      <4>1. IsHexChar(b) /\ m - 1 \in 1 .. Len(stream) /\ InTail(stream, m - 1)
        BY <1>0, <2>1, <3>1, <3>5, InAppend
      <4>2. decoder.state = "TAIL" /\ Len(decoder.data) = m - 1
        BY <3>1, <4>1
      <4>3. decoder'.state = "XOR" /\ decoder'.data = decoder.data
        BY <1>0, <3>0, <4>1, <4>2, Outcomes, Characters
      <4> QED
        BY <4>2, <4>3
    <3> QED
      BY <3>3, <3>4, <3>5
  <2> QED
    BY <2>3, <2>4
<1> QED
  BY <1>1, <1>2

LEMMA StreamStep ==
  ASSUME DecoderShape, DataIsStream, StreamIsData, [Next]_vars
  PROVE  DataIsStream' /\ StreamIsData'
<1>1. CASE \E b \in Inputs : ProcessByte(b)
  BY <1>1, ByteStream
<1>2. CASE ResetDecoder
  <2>1. decoder'.state = "IDLE" /\ Len(stream') = 0
    BY <1>2 DEF ResetDecoder, InitDecoder
  <2> QED
    BY <2>1 DEF DataIsStream, StreamIsData
<1>3. CASE SetCallback
  <2>1. stream' = stream /\ decoder' = [decoder EXCEPT !.callback = TRUE]
    BY <1>3 DEF SetCallback
  <2>2. decoder'.state = decoder.state /\ decoder'.data = decoder.data
        /\ decoder'.xor = decoder.xor
    BY <2>1 DEF DecoderShape, TypeOK
  <2> QED
    BY <2>1, <2>2 DEF DataIsStream, StreamIsData
<1>4. CASE UNCHANGED <<decoder, stream>>
  BY <1>4 DEF DataIsStream, StreamIsData
<1> QED
  BY <1>1, <1>2, <1>3, <1>4 DEF Next, Process, ProcessCall, ProcessReturn, vars

-----------------------------------------------------------------------------
(* The frame a stream ends with                                             *)

LEMMA SuffixEnds ==
  ASSUME NEW s \in Seq(Byte), NEW f \in Suffixes(s)
  PROVE  f \in Seq(Byte) /\ Ends(s, f)
<1> DEFINE n == Len(s)
<1>1. n \in Nat /\ \A k \in 1 .. n : s[k] \in Byte
  OBVIOUS
<1>2. CASE f = << >>
  BY <1>1, <1>2 DEF Ends
<1>3. ASSUME NEW l \in 1 .. n, f = SubSeq(s, l, n)
      PROVE  f \in Seq(Byte) /\ Ends(s, f)
  <2>1. /\ f \in Seq(Byte) /\ Len(f) = n - l + 1
        /\ \A k \in 1 .. n - l + 1 : f[k] = s[l + k - 1]
    BY <1>1, <1>3, SubSeqProperties
  <2>2. ASSUME NEW k \in 1 .. Len(f) PROVE s[n - Len(f) + k] = f[k]
    <3>1. k \in 1 .. n - l + 1 /\ n - Len(f) + k = l + k - 1
      BY <1>1, <2>1
    <3> QED
      BY <2>1, <3>1
  <2> QED
    BY <1>1, <2>1, <2>2 DEF Ends
<1> QED
  BY <1>2, <1>3 DEF Suffixes

LEMMA EndsSuffix ==
  ASSUME NEW s \in Seq(Byte), NEW f \in Seq(Byte), Ends(s, f)
  PROVE  f \in Suffixes(s)
<1> DEFINE n == Len(s)  m == Len(f)  l == n - m + 1
<1>1. n \in Nat /\ m \in Nat /\ m <= n /\ \A k \in 1 .. n : s[k] \in Byte
  BY DEF Ends
<1>2. CASE m = 0
  BY <1>2 DEF Suffixes
<1>3. CASE m # 0
  <2> DEFINE g == SubSeq(s, l, n)
  <2>1. l \in 1 .. n
    BY <1>1, <1>3
  <2>2. n - l + 1 = m
    BY <1>1
  <2>3. /\ g \in Seq(Byte) /\ Len(g) = m
        /\ \A k \in 1 .. m : g[k] = s[l + k - 1]
    <3>1. \A k \in l .. n : s[k] \in Byte
      BY <1>1, <2>1
    <3> HIDE DEF l, n, m
    <3>2. l \in Int /\ n \in Int /\ l <= n
      BY <1>1, <2>1
    <3>3. /\ SubSeq(s, l, n) \in Seq(Byte) /\ Len(SubSeq(s, l, n)) = n - l + 1
          /\ \A k \in 1 .. n - l + 1 : SubSeq(s, l, n)[k] = s[l + k - 1]
      BY <3>1, <3>2, SubSeqProperties
    <3> QED
      BY <2>2, <3>3
  <2>4. ASSUME NEW k \in 1 .. m PROVE g[k] = f[k]
    <3>1. n - m + k = l + k - 1
      BY <1>1
    <3>2. s[n - m + k] = f[k]
      BY DEF Ends
    <3> QED
      BY <2>3, <3>1, <3>2
  <2> HIDE DEF g
  <2>5. f = g
    BY <2>3, <2>4, SeqEqual
  <2> QED
    BY <2>1, <2>5 DEF g, Suffixes
<1> QED
  BY <1>2, <1>3

LEMMA EndsUnique ==
  ASSUME NEW s \in Seq(Byte), NEW f \in Seq(Byte), NEW g \in Seq(Byte),
         Ends(s, f), Ends(s, g), Len(f) = Len(g)
  PROVE  f = g
<1>1. \A k \in 1 .. Len(f) : f[k] = g[k]
  BY DEF Ends
<1> QED
  BY <1>1, SeqEqual

(* What is stored in XOR and the byte that comes then.                      *)
Completed(d, b) == Append(Append(d.data, d.xor), b)

LEMMA CompletedParts ==
  ASSUME NEW d \in DecoderType, NEW b \in Byte
  PROVE  LET n == Len(d.data)
             f == Completed(d, b)
         IN  /\ n \in Nat /\ f \in Seq(Byte) /\ Len(f) = n + 2
             /\ \A k \in 1 .. n : f[k] = d.data[k]
             /\ f[n + 1] = d.xor /\ f[n + 2] = b
             /\ SubSeq(f, 1, n) = d.data
<1> DEFINE n == Len(d.data)  g == Append(d.data, d.xor)  f == Completed(d, b)
<1>1. d.data \in Seq(Byte) /\ d.xor \in Byte /\ n \in Nat
  BY DEF DecoderType
<1>2. /\ g \in Seq(Byte) /\ Len(g) = n + 1 /\ g[n + 1] = d.xor
      /\ \A k \in 1 .. n : g[k] = d.data[k]
  BY <1>1, AppendProperties
<1>3. /\ f \in Seq(Byte) /\ Len(f) = Len(g) + 1 /\ f[Len(g) + 1] = b
      /\ \A k \in 1 .. Len(g) : f[k] = g[k]
  BY <1>2, AppendProperties DEF Completed
<1> HIDE DEF f, g
<1>4. /\ Len(f) = n + 2 /\ \A k \in 1 .. n : f[k] = d.data[k]
      /\ f[n + 1] = d.xor /\ f[n + 2] = b
  BY <1>1, <1>2, <1>3
<1>5. SubSeq(f, 1, n) = d.data
  <2> DEFINE h == SubSeq(f, 1, n)
  <2>1. /\ h \in Seq(Byte) /\ Len(h) = n
        /\ \A k \in 1 .. n : h[k] = f[k]
    <3>1. \A k \in 1 .. n : f[k] \in Byte
      BY <1>1, <1>4
    <3> QED
      BY <1>1, <3>1, SubSeqProperties
  <2> HIDE DEF h
  <2>2. \A k \in 1 .. Len(h) : h[k] = d.data[k]
    BY <1>4, <2>1
  <2>3. h = d.data
    BY <1>1, <2>1, <2>2, SeqEqual
  <2> QED
    BY <2>3 DEF h
<1> QED
  BY <1>1, <1>3, <1>4, <1>5 DEF f

Completes(b) == CheckXor(decoder, b) /\ EvenData(decoder)

LEMMA Parity ==
  ASSUME NEW k \in Nat, k >= 3, (k - 2) % 2 = 0
  PROVE  k >= 4 /\ (k + 2) % 2 = 0
OBVIOUS

(* A byte that completes a frame for the decoder completes one.             *)
LEMMA CompletedIsFrame ==
  ASSUME DecoderShape, DataIsStream, Len(stream) < MaxStream, NEW b \in Byte, Completes(b)
  PROVE  /\ IsFrame(Completed(decoder, b))
         /\ Completed(decoder, b) \in Suffixes(Append(stream, b))
<1> DEFINE n == Len(decoder.data)  f == Completed(decoder, b)
<1>1. /\ decoder \in DecoderType /\ decoder.data \in Seq(Byte) /\ decoder.xor \in Byte
      /\ stream \in Seq(Byte) /\ decoder.state = "XOR" /\ IsHexChar(b)
      /\ HexChars(CalXor(decoder.data)) = <<decoder.xor, b>> /\ (n - 2) % 2 = 0
  BY DEF DecoderShape, TypeOK, DecoderType, Completes, CheckXor, EvenData
<1>2. /\ n \in Nat /\ f \in Seq(Byte) /\ Len(f) = n + 2
      /\ \A k \in 1 .. n : f[k] = decoder.data[k]
      /\ f[n + 1] = decoder.xor /\ f[n + 2] = b
      /\ SubSeq(f, 1, n) = decoder.data
  BY <1>1, CompletedParts
<1>3. /\ n >= 3 /\ decoder.data[1] = HEAD /\ decoder.data[n] = TAIL
      /\ \A k \in 2 .. n - 1 : IsHexChar(decoder.data[k])
      /\ IsHexChar(decoder.xor)
  BY <1>1 DEF DecoderShape, DataShape
<1>4. f \in Suffixes(Append(stream, b))
  <2>1. Append(decoder.data, decoder.xor) \in Seq(Byte) /\ Append(stream, b) \in Seq(Byte)
    BY <1>1, AppendProperties
  <2>2. Ends(stream, Append(decoder.data, decoder.xor))
    BY <1>1 DEF DataIsStream
  <2>3. Ends(Append(stream, b), f)
    BY <1>1, <2>1, <2>2, EndsAppend DEF Completed
  <2> QED
    BY <1>2, <2>1, <2>3, EndsSuffix
<1> HIDE DEF f, n
<1>5. Len(f) >= 6 /\ Len(f) % 2 = 0 /\ Len(f) - 2 = n /\ Len(f) - 1 = n + 1
  <2>1. n >= 4 /\ (n + 2) % 2 = 0
    BY <1>1, <1>2, <1>3, Parity
  <2>2. Len(f) = n + 2
    BY <1>2
  <2>3. Len(f) % 2 = 0
    BY <2>1, <2>2, Zenon
  <2>4. n \in Nat
    BY <1>2
  <2> QED
    BY <2>1, <2>2, <2>3, <2>4
<1>6. f[1] = HEAD /\ f[Len(f) - 2] = TAIL
  BY <1>2, <1>3, <1>5
<1>7. ASSUME NEW k \in (2 .. Len(f)) \ {Len(f) - 2} PROVE IsHexChar(f[k])
  <2>1. k \in 2 .. n - 1 \/ k = n + 1 \/ k = n + 2
    BY <1>2, <1>5
  <2>2. CASE k \in 2 .. n - 1
    <3>1. k \in 1 .. n
      BY <1>2, <2>2
    <3>2. f[k] = decoder.data[k]
      BY <1>2, <3>1
    <3>3. IsHexChar(decoder.data[k])
      BY <1>3, <2>2
    <3> QED
      BY <3>2, <3>3
  <2>3. CASE k = n + 1 \/ k = n + 2
    BY <1>1, <1>2, <1>3, <2>3
  <2> QED
    BY <2>1, <2>2, <2>3
<1>8. <<f[Len(f) - 1], f[Len(f)]>> = HexChars(CalXor(SubSeq(f, 1, Len(f) - 2)))
  BY <1>1, <1>2, <1>5
<1>9. IsFrame(f)
  BY <1>5, <1>6, <1>7, <1>8 DEF IsFrame
<1> QED
  BY <1>4, <1>9 DEF f

(* A frame the stream ends with is complete for the decoder, and what it    *)
(* has stored.                                                              *)
LEMMA FrameIsCompleted ==
  ASSUME DecoderShape, DataIsStream, StreamIsData, decoder.state # "OVERRUN",
         Len(stream) < MaxStream, NEW b \in Byte,
         NEW f \in Suffixes(Append(stream, b)), IsFrame(f)
  PROVE  Completes(b) /\ f = Completed(decoder, b)
<1> DEFINE n == Len(stream)  m == Len(f)  t == Append(stream, b)
<1>1. /\ decoder \in DecoderType /\ decoder.data \in Seq(Byte) /\ decoder.xor \in Byte
      /\ stream \in Seq(Byte)
  BY DEF DecoderShape, TypeOK, DecoderType
<1>2. t \in Seq(Byte) /\ n \in Nat /\ Len(t) = n + 1 /\ t[n + 1] = b
      /\ \A k \in 1 .. n : t[k] = stream[k]
  BY <1>1, AppendProperties
<1> HIDE DEF t
<1>3. f \in Seq(Byte) /\ Ends(t, f) /\ m \in Nat
  <2>1. f \in Suffixes(t)
    BY DEF t
  <2>2. f \in Seq(Byte) /\ Ends(t, f)
    BY <1>2, <2>1, SuffixEnds
  <2> QED
    BY <2>2
<1>4. /\ m >= 6 /\ m <= n + 1 /\ m % 2 = 0
      /\ f[1] = HEAD /\ f[m - 2] = TAIL
      /\ \A k \in (2 .. m) \ {m - 2} : IsHexChar(f[k])
      /\ <<f[m - 1], f[m]>> = HexChars(CalXor(SubSeq(f, 1, m - 2)))
      /\ \A k \in 1 .. m : t[n + 1 - m + k] = f[k]
  BY <1>2, <1>3 DEF Ends, IsFrame
<1> HIDE DEF n, m
<1>5. ASSUME NEW k \in 1 .. m - 1 PROVE stream[n + 1 - m + k] = f[k]
  <2>1. n + 1 - m + k \in 1 .. n /\ k \in 1 .. m
    BY <1>2, <1>3, <1>4
  <2> QED
    BY <1>2, <1>4, <2>1
<1>6. InXor(stream, m - 1)
  <2>1. stream[n - (m - 1) + 1] = HEAD
    <3>1. n - (m - 1) + 1 = n + 1 - m + 1 /\ 1 \in 1 .. m - 1
      BY <1>2, <1>3, <1>4
    <3> QED
      BY <1>4, <1>5, <3>1
  <2>2. stream[n - 1] = TAIL
    <3>1. n - 1 = n + 1 - m + (m - 2) /\ m - 2 \in 1 .. m - 1
      BY <1>2, <1>3, <1>4
    <3> QED
      BY <1>4, <1>5, <3>1
  <2>3. IsHexChar(stream[n])
    <3>1. n = n + 1 - m + (m - 1) /\ m - 1 \in 1 .. m - 1
          /\ m - 1 \in (2 .. m) \ {m - 2}
      BY <1>2, <1>3, <1>4
    <3> QED
      BY <1>4, <1>5, <3>1
  <2>4. ASSUME NEW k \in n - (m - 1) + 2 .. n - 2 PROVE IsHexChar(stream[k])
    <3> DEFINE j == k - (n + 1 - m)
    <3>1. k = n + 1 - m + j /\ j \in 1 .. m - 1 /\ j \in (2 .. m) \ {m - 2}
      BY <1>2, <1>3, <1>4
    <3> HIDE DEF j
    <3> QED
      BY <1>4, <1>5, <3>1
  <2>5. m - 1 \in 4 .. n
    BY <1>2, <1>3, <1>4
  <2> QED
    BY <2>1, <2>2, <2>3, <2>4, <2>5 DEF InXor, n
<1>7. decoder.state = "XOR" /\ Len(decoder.data) = m - 2
  <2>1. m - 1 \in 1 .. n /\ m - 1 - 1 = m - 2
    BY <1>2, <1>3, <1>4
  <2> QED
    BY <1>6, <2>1 DEF StreamIsData, n
<1> DEFINE g == Completed(decoder, b)
<1>8. /\ g \in Seq(Byte) /\ Len(g) = m /\ g[m - 1] = decoder.xor /\ g[m] = b
      /\ SubSeq(g, 1, m - 2) = decoder.data
  <2>1. m - 2 + 1 = m - 1 /\ m - 2 + 2 = m
    BY <1>3
  <2> QED
    BY <1>1, <1>7, <2>1, CompletedParts
<1>9. f = g
  <2>1. Append(decoder.data, decoder.xor) \in Seq(Byte)
    BY <1>1, AppendProperties
  <2>2. Ends(stream, Append(decoder.data, decoder.xor))
    BY <1>7 DEF DataIsStream
  <2>3. Ends(t, g)
    BY <1>1, <2>1, <2>2, EndsAppend DEF Completed, t
  <2>4. Len(f) = Len(g)
    BY <1>8 DEF m
  <2> HIDE DEF g
  <2> QED
    BY <1>2, <1>3, <1>8, <2>3, <2>4, EndsUnique
<1> HIDE DEF g
<1>10. CheckXor(decoder, b)
  <2>1. m \in (2 .. m) \ {m - 2}
    BY <1>3, <1>4
  <2>2. IsHexChar(b)
    BY <1>4, <1>8, <1>9, <2>1
  <2>3. HexChars(CalXor(decoder.data)) = <<decoder.xor, b>>
    BY <1>4, <1>8, <1>9
  <2> QED
    BY <1>7, <2>2, <2>3 DEF CheckXor
<1>11. EvenData(decoder)
  <2>1. (m - 2 - 2) % 2 = 0
    BY <1>3, <1>4
  <2> QED
    BY <1>7, <2>1 DEF EvenData
<1> QED
  BY <1>9, <1>10, <1>11 DEF Completes, g

LEMMA CompletedPayload ==
  ASSUME DecoderShape, NEW b \in Byte, Completes(b)
  PROVE  LET f == Completed(decoder, b)
         IN  /\ HexStrToBytes(SubSeq(f, 2, Len(f) - 3)) = Payload(decoder)
             /\ Payload(decoder) # << >>
<1> DEFINE n == Len(decoder.data)  f == Completed(decoder, b)
           s == SubSeq(decoder.data, 2, n - 1)
<1>1. /\ decoder \in DecoderType /\ decoder.data \in Seq(Byte)
      /\ decoder.state = "XOR" /\ (n - 2) % 2 = 0
  BY DEF DecoderShape, TypeOK, DecoderType, Completes, CheckXor, EvenData
<1>2. /\ n \in Nat /\ Len(f) = n + 2 /\ f \in Seq(Byte)
      /\ \A k \in 1 .. n : f[k] = decoder.data[k]
  BY <1>1, CompletedParts
<1>3. n >= 4
  <2>1. n >= 3
    BY <1>1 DEF DecoderShape, DataShape
  <2> QED
    BY <1>1, <1>2, <2>1, Parity
<1>4. /\ s \in Seq(Byte) /\ Len(s) = n - 2
      /\ \A k \in 1 .. n - 2 : s[k] = decoder.data[k + 1]
  BY <1>1, <1>2, <1>3, SubSeqProperties
<1>5. SubSeq(f, 2, Len(f) - 3) = s
  <2> DEFINE h == SubSeq(f, 2, n - 1)
  <2> HIDE DEF f
  <2>1. /\ h \in Seq(Byte) /\ Len(h) = n - 2
        /\ \A k \in 1 .. n - 2 : h[k] = f[k + 1]
    BY <1>2, <1>3, SubSeqProperties
  <2> HIDE DEF h, s
  <2>2. ASSUME NEW k \in 1 .. Len(h) PROVE h[k] = s[k]
    <3>1. k \in 1 .. n - 2 /\ k + 1 \in 1 .. n
      BY <1>2, <1>3, <2>1
    <3> QED
      BY <1>2, <1>4, <2>1, <3>1
  <2>3. h = s
    BY <1>4, <2>1, <2>2, SeqEqual
  <2>4. Len(f) - 3 = n - 1
    BY <1>2
  <2> QED
    BY <2>3, <2>4 DEF h
<1>6. Payload(decoder) # << >>
  <2> HIDE DEF s
  <2>1. Len(s) \div 2 \in Nat /\ 1 \in 1 .. Len(s) \div 2
    <3>1. \A m \in Nat : m >= 2 => m \div 2 \in Nat /\ 1 \in 1 .. m \div 2
      OBVIOUS
    <3>2. Len(s) \in Nat /\ Len(s) >= 2
      BY <1>2, <1>3, <1>4
    <3> QED
      BY <3>1, <3>2
  <2>2. DOMAIN HexStrToBytes(s) = 1 .. Len(s) \div 2
    BY DEF HexStrToBytes
  <2>3. HexStrToBytes(s) # << >>
    BY <2>1, <2>2
  <2> QED
    BY <2>3 DEF Payload, s
<1> QED
  BY <1>5, <1>6 DEF Payload

(* What LastPayload finds after a byte.                                     *)
LEMMA LastFrame ==
  ASSUME DecoderShape, DataIsStream, StreamIsData, decoder.state # "OVERRUN",
         Len(stream) < MaxStream, NEW b \in Byte
  PROVE  /\ Completes(b) => LastPayload(Append(stream, b)) = Payload(decoder)
         /\ ~Completes(b) => LastPayload(Append(stream, b)) = << >>
<1> DEFINE frames == {f \in Suffixes(Append(stream, b)) : IsFrame(f)}
<1>1. CASE Completes(b)
  <2>1. frames = {Completed(decoder, b)}
    BY <1>1, CompletedIsFrame, FrameIsCompleted
  <2>2. frames # {} /\ (CHOOSE f \in frames : TRUE) = Completed(decoder, b)
    BY <2>1
  <2>3. LastPayload(Append(stream, b))
          = HexStrToBytes(SubSeq(Completed(decoder, b), 2, Len(Completed(decoder, b)) - 3))
    BY <2>2, Zenon DEF LastPayload
  <2> QED
    BY <1>1, <2>3, CompletedPayload
<1>2. CASE ~Completes(b)
  <2>1. frames = {}
    BY <1>2, FrameIsCompleted
  <2> QED
    BY <1>2, <2>1 DEF LastPayload
<1> QED
  BY <1>1, <1>2

LEMMA DeliveredStep ==
  ASSUME DecoderShape, DataIsStream, StreamIsData, [Next]_vars, Len(stream') > Len(stream)
  PROVE  /\ delivered' = IF decoder.callback THEN LastPayload(stream') ELSE << >>
         /\ (ret' = "OK") = (LastPayload(stream') # << >>)
<1>0. stream \in Seq(Byte) /\ Len(stream) \in Nat /\ decoder.callback \in BOOLEAN
  BY DEF DecoderShape, TypeOK
<1>1. PICK b \in Inputs : ProcessByte(b)
  <2>1. Len(<< >>) = 0
    OBVIOUS
  <2>2. stream' # stream /\ stream' # << >>
    BY <1>0, <2>1
  <2> QED
    BY <2>2 DEF Next, Process, ProcessCall, ProcessReturn, SetCallback, ResetDecoder, vars
<1>2. b \in Byte /\ decoder.state # "OVERRUN"
  BY <1>1, DecoderConstants DEF ProcessByte
<1>3. Len(stream) < MaxStream /\ stream' = Append(stream, b)
  <2>1. stream' # stream
    BY <1>0
  <2> QED
    BY <1>1, <2>1 DEF ProcessByte
<1>4. /\ Completes(b) => LastPayload(stream') = Payload(decoder) /\ Payload(decoder) # << >>
      /\ ~Completes(b) => LastPayload(stream') = << >>
  BY <1>2, <1>3, LastFrame, CompletedPayload
<1>5. /\ ret' = IF Completes(b) THEN "OK" ELSE "ERROR"
      /\ delivered' = IF Completes(b) /\ decoder.callback THEN Payload(decoder) ELSE << >>
  BY <1>1, Zenon DEF ProcessByte, Completes
<1> HIDE DEF Completes
<1>6. CASE Completes(b)
  BY <1>0, <1>4, <1>5, <1>6
<1>7. CASE ~Completes(b)
  BY <1>0, <1>4, <1>5, <1>7
<1> QED
  BY <1>6, <1>7

LEMMA StreamInit == ASSUME Init PROVE DataIsStream /\ StreamIsData
<1>1. decoder.state = "IDLE" /\ Len(stream) = 0
  BY DEF Init, InitDecoder
<1> QED
  BY <1>1 DEF DataIsStream, StreamIsData

(* The callback gets a payload, and the result is COMM_OK, exactly when the *)
(* bytes received end with a frame of the format, whatever came before it   *)
(* and however the bytes were split over calls: comm_protocol_decode_state_ *)
(* machine loses no frame, invents none and resynchronises at every '@'.    *)
THEOREM ExactlyTheFrames == Spec => FramesDelivered
<1> DEFINE Inv == DecoderShape /\ DataIsStream /\ StreamIsData
           A == Len(stream') > Len(stream) =>
                  /\ delivered' = IF decoder.callback THEN LastPayload(stream') ELSE << >>
                  /\ (ret' = "OK") = (LastPayload(stream') # << >>)
<1>1. Init => Inv
  BY DecoderShapeInit, StreamInit
<1>2. Inv /\ [Next]_vars => Inv'
  BY DecoderShapeStep, StreamStep
<1>3. Inv /\ [Next]_vars => [A]_vars
  BY DeliveredStep
<1>4. Spec => [][A]_vars
  BY <1>1, <1>2, <1>3, PTL DEF Spec
<1> QED
  BY <1>4 DEF FramesDelivered

=============================================================================
