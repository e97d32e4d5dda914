-------------------------- MODULE MCRecvPoolUsers ---------------------------
(***************************************************************************)
(* The receive pool and its users with three buffers and two frames.        *)
(***************************************************************************)
EXTENDS RecvPoolUsers

=============================================================================
