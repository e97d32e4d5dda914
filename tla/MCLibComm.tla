----------------------------- MODULE MCLibComm ------------------------------
(***************************************************************************)
(* The glue and the socket on a small instance: two frames of four bytes, a  *)
(* queue of two, and a size_t of eight values.                               *)
(***************************************************************************)
EXTENDS LibComm

=============================================================================
