------------------------------ MODULE MCDecoder -----------------------------
(***************************************************************************)
(* The decoder with a buffer of a few bytes and the real checksum.  The     *)
(* hexadecimal digits are chosen so that there are frames among them:       *)
(* "@66*6A" and "@AA*6A" carry a byte, "@6*5C" has an odd digit.            *)
(***************************************************************************)
EXTENDS Decoder, XorSum

MCInputs == {HEAD, TAIL, 54, 65, 53, 67, 10}       \* '@' '*' '6' 'A' '5' 'C' newline

(* What a stream is put together from: the two frames, one with a wrong     *)
(* checksum, the odd one, frames that break off at each place, one that     *)
(* overfills the buffer, and single bytes.                                  *)
Pieces ==
  {<<64, 54, 54, 42, 54, 65>>, <<64, 65, 65, 42, 54, 65>>, <<64, 54, 54, 42, 54, 53>>,
   <<64, 54, 42, 53, 67>>, <<64, 54, 54, 42, 54>>, <<64, 54, 54, 42>>, <<64, 54, 54, 54>>,
   <<64, 54, 54>>} \union {<<b>> : b \in MCInputs}
Beginnings == UNION {Prefixes(p \o q \o r) : p, q, r \in Pieces}

(* Three pieces and as many newlines as one likes, or any MaxAny bytes.     *)
MaxAny == 4
MCMayFollow(s, b) == b = 10 \/ Len(s) < MaxAny \/ Append(s, b) \in Beginnings

MCPayloads == {<<90>>, <<175>>}                    \* "5A", "AF"

(* comm_protocol_cal_xor returns a uint8_t: over sequences of a few bytes    *)
(* of differing bits, what Encoder_proofs supposes of every sequence.        *)
ASSUME XorIsByte ==
  \A n \in 0 .. 3 : \A s \in [1 .. n -> {0, 1, 85, 128, 170, 255}] : XorOf(s) \in Byte

=============================================================================
