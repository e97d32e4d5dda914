----------------------------- MODULE FrameCodec -----------------------------
(***************************************************************************)
(* The frame format of comm_protocol.c and the hexadecimal conversions of   *)
(* hex_ascll.c:  '@' payload-in-hex '*' checksum-in-hex.  Bytes are their    *)
(* values.  CalXor, the XOR over a sequence of bytes, is a parameter: what   *)
(* is said here of frames holds for any checksum of eight bits.             *)
(***************************************************************************)
EXTENDS Integers, Sequences

CONSTANTS
  CalXor(_),      \* comm_protocol_cal_xor, with xor_init 0
  MaxDataLen      \* COMM_PROTOCOL_MAX_DATA_LEN, 64 in the code

ASSUME MaxDataLenAssumption == MaxDataLen \in Nat /\ MaxDataLen > 3

Byte == 0 .. 255
HEAD == 64                              \* PROTOCOL_BYTE_HEAD, '@'
TAIL == 42                              \* PROTOCOL_BYTE_TAIL, '*'
MaxValidDataLen == MaxDataLen - 2       \* COMM_PROTOCOL_MAX_VALID_DATA_LEN

IsHexChar(ch) == ch \in 48 .. 57 \/ ch \in 65 .. 70          \* '0'-'9', 'A'-'F'

(* hex_char_to_uint4, for a hexadecimal digit                               *)
HexValue(ch) == IF ch <= 57 THEN ch - 48 ELSE ch - 65 + 10

(* uint8_to_hex_chars                                                       *)
HexDigit(n) == IF n < 10 THEN 48 + n ELSE 65 + n - 10
HexChars(value) == <<HexDigit(value \div 16), HexDigit(value % 16)>>

(* hex_str_to_bytes, of an even number of hexadecimal digits                *)
HexStrToBytes(s) ==
  [k \in 1 .. Len(s) \div 2 |-> 16 * HexValue(s[2 * k - 1]) + HexValue(s[2 * k])]

(* bytes_to_hex_str                                                         *)
BytesToHexStr(bytes) ==
  [k \in 1 .. 2 * Len(bytes) |-> HexChars(bytes[(k + 1) \div 2])[2 - (k % 2)]]

(* comm_protocol_encode: the frame left in encoder->data, or the empty one  *)
(* of encoder_init when it fails.  The payload must fit after its expansion *)
(* to hexadecimal, not only as it is.                                       *)
Encode(payload) ==
  LET body == <<HEAD>> \o BytesToHexStr(payload) \o <<TAIL>>
  IN  IF Len(payload) > 0 /\ 2 * Len(payload) <= MaxValidDataLen
      THEN body \o HexChars(CalXor(body))
      ELSE << >>

=============================================================================
