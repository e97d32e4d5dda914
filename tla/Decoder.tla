------------------------------ MODULE Decoder -------------------------------
(***************************************************************************)
(* The frame decoder of comm_protocol.c.  The receive thread reads some     *)
(* bytes and calls comm_protocol_decoder_process, which feeds them one by   *)
(* one to the state machine and calls back with the payload of each frame   *)
(* whose checksum matches.  A byte of the buffer is chosen when it is read. *)
(* Storing beyond decoder->data is undefined in C: the model stops in the   *)
(* state "OVERRUN", and nothing is said of what follows.                    *)
(***************************************************************************)
EXTENDS FrameCodec, SequencesExt

CONSTANTS
  Inputs,         \* the bytes that may arrive
  MayFollow(_, _), \* bound: whether byte b is tried after the stream s
  IndexRange,     \* values of the loop index i, a uint8_t: 256 in the code
  Lengths,        \* numbers of bytes one call is given
  MaxStream,      \* bound: bytes received since the last reset
  Payloads        \* payloads tried by EncodedFramesDecode

ASSUME DecoderAssumption ==
  /\ Inputs \subseteq Byte
  /\ IndexRange \in Nat \ {0}
  /\ Lengths \subseteq Nat \ {0}
  /\ MaxStream \in Nat

(* The payloads are some that comm_protocol_encode accepts.                 *)
ASSUME PayloadsAssumption ==
  \A p \in Payloads : p \in Seq(Byte) /\ Len(p) > 0 /\ 2 * Len(p) <= MaxValidDataLen

VARIABLES
  decoder,        \* protocol_decoder_t
  len, i, ret,    \* comm_protocol_decoder_process: len is 0 outside a call
  buf,            \* its buffer, as far as it was read
  delivered,      \* the payload called back for the last byte, or << >>
  stream          \* history: the bytes received since the last reset

vars == <<decoder, len, i, ret, buf, delivered, stream>>

States == {"IDLE", "HEAD", "DATA", "TAIL", "XOR", "OVERRUN"}
InitDecoder == [state |-> "IDLE", data |-> << >>, xor |-> 0, callback |-> FALSE]

Init ==
  /\ decoder = InitDecoder
  /\ len = 0 /\ i = 0 /\ ret = "ERROR" /\ buf = << >>
  /\ delivered = << >> /\ stream = << >>

-----------------------------------------------------------------------------
(* comm_protocol_decode_state_machine                                       *)

(* Variant: the bound is off by one.                                        *)
StoreOneMore(d, next, b) ==
  IF Len(d.data) <= MaxDataLen
  THEN [d EXCEPT !.state = next, !.data = Append(@, b)]
  ELSE [d EXCEPT !.state = "OVERRUN"]

(* data[data_len++] = byte                                                  *)
Store(d, next, b) ==
  IF Len(d.data) < MaxDataLen
  THEN [d EXCEPT !.state = next, !.data = Append(@, b)]
  ELSE [d EXCEPT !.state = "OVERRUN"]

(* Variant: a new '@' does not restart the frame under way.                 *)
StepNoRestart(d, b) ==
  CASE b = HEAD /\ d.state = "IDLE" -> [d EXCEPT !.state = "HEAD", !.data = <<HEAD>>]
    [] b = TAIL /\ d.state = "DATA" -> Store(d, "TAIL", b)
    [] IsHexChar(b) /\ d.state \in {"HEAD", "DATA"} -> Store(d, "DATA", b)
    [] IsHexChar(b) /\ d.state = "TAIL" -> [d EXCEPT !.state = "XOR", !.xor = b]
    [] OTHER -> [d EXCEPT !.state = "IDLE"]

(* A '@' starts a frame in every state.  Whatever else does not fit returns *)
(* to IDLE: a '*' not after data, a byte that may not occur, and the second *)
(* checksum digit, with which the frame is complete.                        *)
Step(d, b) ==
  CASE b = HEAD -> [d EXCEPT !.state = "HEAD", !.data = <<HEAD>>]
    [] b = TAIL /\ d.state = "DATA" -> Store(d, "TAIL", b)
    [] IsHexChar(b) /\ d.state \in {"HEAD", "DATA"} -> Store(d, "DATA", b)
    [] IsHexChar(b) /\ d.state = "TAIL" -> [d EXCEPT !.state = "XOR", !.xor = b]
    [] OTHER -> [d EXCEPT !.state = "IDLE"]

(* Variant: the first checksum digit is not compared.                       *)
CheckSecondOnly(d, b) ==
  d.state = "XOR" /\ IsHexChar(b) /\ HexChars(CalXor(d.data))[2] = b

(* comm_protocol_decode_check_xor, over the frame from '@' to '*': byte b   *)
(* completes a frame whose checksum matches.                                *)
CheckXor(d, b) ==
  d.state = "XOR" /\ IsHexChar(b) /\ HexChars(CalXor(d.data)) = <<d.xor, b>>

(* The payload between '@' and '*' is a whole number of bytes.              *)
EvenData(d) == (Len(d.data) - 2) % 2 = 0

Payload(d) == HexStrToBytes(SubSeq(d.data, 2, Len(d.data) - 1))

-----------------------------------------------------------------------------
(* comm_protocol_decoder_process                                            *)

ProcessCall(n) ==
  /\ len = 0
  /\ Len(stream) + n <= MaxStream
  /\ len' = n /\ i' = 0 /\ ret' = "ERROR"
  /\ UNCHANGED <<decoder, buf, delivered, stream>>

(* Variant: the index is one value narrower.                                *)
ProcessByteNarrow(b) ==
  /\ i < len
  /\ decoder.state # "OVERRUN"
  /\ decoder' = Step(decoder, b)
  /\ i' = (i + 1) % (IndexRange - 1)
  /\ UNCHANGED <<len, ret, buf, delivered, stream>>

ProcessByte(b) ==
  /\ i < len
  /\ decoder.state # "OVERRUN"
  /\ IF i < Len(buf) THEN b = buf[i + 1] /\ UNCHANGED buf
     ELSE MayFollow(stream, b) /\ buf' = Append(buf, b)
  /\ LET ok == CheckXor(decoder, b) /\ EvenData(decoder)
     IN  /\ ret' = IF ok THEN "OK" ELSE "ERROR"
         /\ delivered' = IF ok /\ decoder.callback THEN Payload(decoder) ELSE << >>
  /\ decoder' = Step(decoder, b)
  /\ i' = (i + 1) % IndexRange
  /\ stream' = IF Len(stream) < MaxStream THEN Append(stream, b) ELSE stream
  /\ UNCHANGED len

ProcessReturn ==
  /\ len > 0 /\ i >= len
  /\ decoder.state # "OVERRUN"
  /\ len' = 0 /\ i' = 0 /\ buf' = << >>
  /\ UNCHANGED <<decoder, ret, delivered, stream>>

(* comm_protocol_decoder_set_callback                                       *)
SetCallback ==
  /\ len = 0
  /\ decoder' = [decoder EXCEPT !.callback = TRUE]
  /\ delivered' = << >>
  /\ UNCHANGED <<len, i, ret, buf, stream>>

(* comm_protocol_reset_decoder: the callback is cleared with everything.    *)
ResetDecoder ==
  /\ len = 0
  /\ decoder' = InitDecoder
  /\ delivered' = << >> /\ stream' = << >>
  /\ UNCHANGED <<len, i, ret, buf>>

Process == (\E b \in Inputs : ProcessByte(b)) \/ ProcessReturn

Next ==
  \/ \E n \in Lengths : ProcessCall(n)
  \/ Process
  \/ SetCallback
  \/ ResetDecoder

(* A call that has begun keeps running.                                     *)
Spec == Init /\ [][Next]_vars /\ WF_vars(Process)

-----------------------------------------------------------------------------
(* Types of the decoder and of the loop; the stored bytes never exceed the  *)
(* buffer.                                                                  *)
TypeOK ==
  /\ decoder \in [state : States, data : Seq(Byte), xor : Byte, callback : BOOLEAN]
  /\ Len(decoder.data) <= MaxDataLen
  /\ len \in Lengths \union {0} /\ i \in 0 .. IndexRange - 1
  /\ ret \in {"OK", "ERROR"} /\ buf \in Seq(Byte)
  /\ delivered \in Seq(Byte)
  /\ stream \in Seq(Byte) /\ Len(stream) <= MaxStream

(* The format, independently of the state machine: f is a frame.            *)
IsFrame(f) ==
  LET n == Len(f)
  IN  /\ n >= 6 /\ n % 2 = 0
      /\ f[1] = HEAD /\ f[n - 2] = TAIL
      /\ \A k \in (2 .. n) \ {n - 2} : IsHexChar(f[k])
      /\ <<f[n - 1], f[n]>> = HexChars(CalXor(SubSeq(f, 1, n - 2)))

(* The payload of the frame that s ends with, or << >>.                     *)
LastPayload(s) ==
  LET frames == {f \in Suffixes(s) : IsFrame(f)}
  IN  IF frames = {} THEN << >>
      ELSE LET f == CHOOSE f \in frames : TRUE
           IN  HexStrToBytes(SubSeq(f, 2, Len(f) - 3))

(* A byte makes the callback get a payload, and COMM_OK the result so far,   *)
(* exactly when the bytes received end with a frame, whatever came before   *)
(* it and however the bytes were split over calls; the payload is that      *)
(* frame's.  When no callback is set nobody gets it.                        *)
FramesDelivered ==
  [][Len(stream') > Len(stream) =>
       /\ delivered' = IF decoder.callback THEN LastPayload(stream') ELSE << >>
       /\ (ret' = "OK") = (LastPayload(stream') # << >>)]_vars

(* comm_protocol.h:94: "COMM_OK if a complete frame was decoded".  At its   *)
(* return a call that was given the last byte of a frame has COMM_OK.  (It  *)
(* has not when bytes follow the frame in the same call.)                   *)
OkIfDecoded ==
  (len > 0 /\ i = len) =>
    ((\E k \in 0 .. len - 1 : LastPayload(SubSeq(stream, 1, Len(stream) - k)) # << >>)
       => ret = "OK")

(* comm_protocol.h:144: "The callback function and user_data are preserved  *)
(* after reset".  A callback that is set stays set.  (The reset clears it.)  *)
CallbackKept == [][decoder.callback => decoder'.callback]_vars

(* Encoder and decoder fit, and the decoder resynchronises: from every      *)
(* state a call can leave it in, the bytes of an encoded payload make       *)
(* exactly that payload come out, with the last of them.                    *)
EncodedFramesDecode ==
  (len = 0 /\ decoder.state # "OVERRUN") =>
    \A p \in Payloads :
      LET frame == Encode(p)
          d == FoldLeft(Step, decoder, Front(frame))
      IN  /\ d.state # "OVERRUN"
          /\ CheckXor(d, Last(frame)) /\ EvenData(d) /\ Payload(d) = p

(* comm_protocol.c:405, "Processes each byte through the state machine":    *)
(* a call is through with its bytes at some point.  It is, for less than    *)
(* IndexRange of them; the index never reaches a length of IndexRange.      *)
ProcessReturns == (len > 0) ~> (len = 0 \/ decoder.state = "OVERRUN")

=============================================================================
