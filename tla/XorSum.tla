------------------------------- MODULE XorSum -------------------------------
(***************************************************************************)
(* comm_protocol_cal_xor: the XOR of a sequence of bytes, starting from 0.  *)
(* A module of its own: Bitwise is defined recursively.                     *)
(***************************************************************************)
EXTENDS Bitwise, SequencesExt

XorOf(buf) == FoldLeft(LAMBDA x, y : x ^^ y, 0, buf)

=============================================================================
