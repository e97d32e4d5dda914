------------------------------- MODULE LibComm -------------------------------
(***************************************************************************)
(* What lies between the controller and the wire: the glue of lib_comm.c    *)
(* and the socket driver drv_socket.c.  Three threads meet here:            *)
(*   - the control thread, whose send_func encodes a command and puts the   *)
(*     frame into the transmit queue;                                       *)
(*   - the send thread, which takes a frame and writes it with as many      *)
(*     calls of send() as the kernel wants;                                 *)
(*   - the receive thread, which polls, reads and runs the decoder.         *)
(* The kernel and the peer are external: send() accepts any part of what it *)
(* is given or fails, and kills the process when the peer is gone.          *)
(* A frame is a model value; of its bytes only how many are written matters.*)
(***************************************************************************)
EXTENDS Integers, CmsisQueue

CONSTANTS
  Frames,       \* encoded commands
  NoFrame,      \* no frame
  FrameLen,     \* bytes of a frame
  SizeRange,    \* values of size_t, 2^64 in the code
  TxQueueSize   \* places of the transmit queue

ASSUME LibCommAssumption ==
  /\ NoFrame \notin Frames
  /\ FrameLen \in Nat \ {0}
  /\ SizeRange \in Nat
  /\ FrameLen + 1 < SizeRange
  /\ TxQueueSize \in Nat \ {0}

VARIABLES
  tx_mq,        \* g_tx_mq: whether the transmit queue has been created
  tx_queue,     \* what it holds
  sock,         \* g_sock: whether fd is open, connected
  peer,         \* the connection: "connecting", "up" or "gone"
  tx,           \* the send thread: its frame and the locals of drv_socket_send
  recv_pc,      \* the receive thread: "loop", or "wedged" in the decoder
  alive         \* the process runs

txVars == <<tx_mq, tx_queue>>
libVars == <<txVars, sock, peer, tx, recv_pc, alive>>

MinusOne == SizeRange - 1     \* (size_t)-1

(* pc: "idle", or "send" inside drv_socket_send's loop.  total: the local of *)
(* that name.  sent: the last result.  accepted: history, how many bytes     *)
(* this call gave to the kernel (bound: counted to FrameLen + 1).  high:     *)
(* history, one more than the last byte of the frame the kernel was given.   *)
TxRecord == [pc : {"idle", "send"}, frame : Frames \union {NoFrame},
             total : 0 .. SizeRange - 1, sent : 0 .. SizeRange - 1,
             accepted : 0 .. FrameLen + 1, high : 0 .. FrameLen]

TypeOK ==
  /\ tx_mq \in BOOLEAN
  /\ tx_queue \in Seq(Frames) /\ Len(tx_queue) <= TxQueueSize
  /\ sock \in [fd : BOOLEAN, connected : BOOLEAN]
  /\ peer \in {"connecting", "up", "gone"}
  /\ tx \in TxRecord
  /\ recv_pc \in {"loop", "wedged"}
  /\ alive \in BOOLEAN

TxIdle == [pc |-> "idle", frame |-> NoFrame, total |-> 0, sent |-> 0, accepted |-> 0,
           high |-> 0]

(* drv_socket_open, which main calls before the threads run: a connection    *)
(* that is still being made counts as connected; main ignores a failure.     *)
Init ==
  /\ tx_mq = FALSE /\ tx_queue = << >>
  /\ \/ sock = [fd |-> TRUE, connected |-> TRUE] /\ peer \in {"connecting", "up"}
     \/ sock = [fd |-> FALSE, connected |-> FALSE] /\ peer = "gone"
  /\ tx = TxIdle
  /\ recv_pc = "loop"
  /\ alive = TRUE

-----------------------------------------------------------------------------
(* drv_socket_tx_queue_init, left to the integrator.  It may never come: no  *)
(* program of the repository calls it.                                       *)
TxQueueInit ==
  /\ alive
  /\ ~tx_mq /\ tx_mq' = TRUE
  /\ UNCHANGED <<tx_queue, sock, peer, tx, recv_pc, alive>>

(* lib_comm_send_func: the result of drv_socket_tx_enqueue is ignored, so a  *)
(* frame is lost when there is no queue or no room.                          *)
SendFunc(f) ==
  /\ alive
  /\ tx_queue' = IF tx_mq THEN Put(tx_queue, f, TxQueueSize) ELSE tx_queue
  /\ UNCHANGED <<tx_mq, sock, peer, tx, recv_pc, alive>>

-----------------------------------------------------------------------------
(* The send thread: lib_comm_send_process                                    *)

(* Variant: the frame is read but left in the queue.                         *)
SendProcessPeeks ==
  /\ alive
  /\ tx.pc = "idle"
  /\ tx_queue # << >>
  /\ tx' = [TxIdle EXCEPT !.pc = IF sock.fd THEN "send" ELSE "idle",
                          !.frame = Head(tx_queue),
                          !.sent = IF sock.fd THEN 0 ELSE MinusOne]
  /\ UNCHANGED <<txVars, sock, peer, recv_pc, alive>>

(* drv_socket_tx_dequeue, and the entry of drv_socket_send, which refuses a  *)
(* socket that is not open: the frame is gone then.                          *)
SendProcess ==
  /\ alive
  /\ tx.pc = "idle"
  /\ tx_queue # << >>
  /\ tx_queue' = Tail(tx_queue)
  /\ tx' = [TxIdle EXCEPT !.pc = IF sock.fd THEN "send" ELSE "idle",
                          !.frame = Head(tx_queue),
                          !.sent = IF sock.fd THEN 0 ELSE MinusOne]
  /\ UNCHANGED <<tx_mq, sock, peer, recv_pc, alive>>

(* Variant: a call that accepted a part is taken for the whole.              *)
RoundWhole(total) ==
  [tx EXCEPT !.pc = "idle", !.total = total,
             !.sent = IF total < FrameLen THEN FrameLen ELSE total]

(* The end of one round of drv_socket_send's loop: on, or out with a result. *)
Round(total) ==
  IF total < FrameLen THEN [tx EXCEPT !.total = total]
  ELSE [tx EXCEPT !.pc = "idle", !.total = total, !.sent = total]

(* Variant: total is set to n, not increased by it.                          *)
SendAcceptsAgain(n) ==
  /\ alive
  /\ tx.pc = "send"
  /\ peer = "up"
  /\ n \in 1 .. FrameLen - tx.total
  /\ tx' = [Round(n) EXCEPT
              !.accepted = IF @ + n > FrameLen THEN FrameLen + 1 ELSE @ + n,
              !.high = IF tx.total + n > @ THEN tx.total + n ELSE @]
  /\ UNCHANGED <<txVars, sock, peer, recv_pc, alive>>

(* send() accepts n of the bytes from total on.                              *)
SendAccepts(n) ==
  /\ alive
  /\ tx.pc = "send"
  /\ peer = "up"
  /\ n \in 1 .. FrameLen - tx.total
  /\ tx' = [Round(tx.total + n) EXCEPT
              !.accepted = IF @ + n > FrameLen THEN FrameLen + 1 ELSE @ + n,
              !.high = IF tx.total + n > @ THEN tx.total + n ELSE @]
  /\ UNCHANGED <<txVars, sock, peer, recv_pc, alive>>

(* Variant: the result has a sign, and total goes below zero.                *)
SendFailsSigned ==
  /\ alive
  /\ tx.pc = "send"
  /\ tx' = Round(tx.total - 1)
  /\ UNCHANGED <<txVars, sock, peer, recv_pc, alive>>

(* send() returns -1: the buffer of a non-blocking socket is full, or the    *)
(* connection is not up.  n is a size_t, so -1 is greater than 0, and adding *)
(* it to total takes one byte back, or leaves the loop with (size_t)-1.  The *)
(* branch for EAGAIN is never taken.                                         *)
SendFails ==
  /\ alive
  /\ tx.pc = "send"
  /\ tx' = Round((tx.total + MinusOne) % SizeRange)
  /\ UNCHANGED <<txVars, sock, peer, recv_pc, alive>>

(* send() to a peer that is gone raises SIGPIPE, which nothing handles.      *)
SendKilled ==
  /\ alive
  /\ tx.pc = "send"
  /\ peer = "gone"
  /\ alive' = FALSE
  /\ UNCHANGED <<txVars, sock, peer, tx, recv_pc>>

SendLoop == SendFails \/ SendKilled \/ \E n \in 1 .. FrameLen : SendAccepts(n)

-----------------------------------------------------------------------------
(* The receive thread: lib_comm_recv_process                                 *)

(* A read that fills the buffer of 256 bytes: the decoder does not return    *)
(* from it.  Other reads go through the decoder (module Decoder) and change  *)
(* nothing here; without data the poll returns at once.                      *)
RecvFull ==
  /\ alive
  /\ recv_pc = "loop"
  /\ sock.fd /\ peer # "connecting"
  /\ recv_pc' = "wedged"
  /\ UNCHANGED <<txVars, sock, peer, tx, alive>>

(* The end of the stream, or an error: connected is cleared, fd stays open,  *)
(* nothing opens another connection.                                         *)
RecvEnd ==
  /\ alive
  /\ recv_pc = "loop"
  /\ sock.fd /\ peer = "gone"
  /\ sock' = [sock EXCEPT !.connected = FALSE]
  /\ UNCHANGED <<txVars, peer, tx, recv_pc, alive>>

-----------------------------------------------------------------------------
(* The peer accepts the connection, refuses it or closes it.                 *)
PeerMoves ==
  /\ peer \in {"connecting", "up"}
  /\ peer' \in (IF peer = "connecting" THEN {"up", "gone"} ELSE {"gone"})
  /\ UNCHANGED <<txVars, sock, tx, recv_pc, alive>>

Next ==
  \/ TxQueueInit
  \/ \E f \in Frames : SendFunc(f)
  \/ SendProcess
  \/ SendLoop
  \/ RecvFull \/ RecvEnd
  \/ PeerMoves

Spec == Init /\ [][Next]_libVars

(* The send thread loops for ever (test/lib_comm/main.c:31).  Nothing is     *)
(* assumed of the other threads, the integrator or the peer.                 *)
Fairness == WF_libVars(SendProcess \/ SendLoop)

FairSpec == Spec /\ Fairness

-----------------------------------------------------------------------------
(* Nothing is left out on the wire: the next byte given to the kernel is the *)
(* one after those it was given, or an earlier one, and a call that returns  *)
(* the frame's length has given it every byte.  So what an error does to a   *)
(* frame is that bytes of it are repeated.                                   *)
NoGapOnWire ==
  /\ tx.pc = "send" => tx.total <= tx.high /\ tx.total < FrameLen
  /\ tx.sent = FrameLen => tx.high = FrameLen

(* drv_socket_send returns once send() stops failing, or the process ends.   *)
(* (While it fails and accepts in turn, the loop may go on for ever.)        *)
SendReturns ==
  (<>[][~SendFails]_libVars) => ((tx.pc = "send") ~> (tx.pc = "idle" \/ ~alive))

(* A frame in the transmit queue gets its turn, however many follow it.      *)
FramesGetTheirTurn ==
  (<>[][~SendFails]_libVars) =>
     \A f \in Frames : Queued(f, tx_queue) ~> (tx.frame = f \/ ~alive)

(* A claim of the header the code does not keep.                             *)

(* drv_socket.h:22, "Returns bytes sent or -1 on error/timeout": the result  *)
(* of drv_socket_send is the number of bytes given to the kernel, or -1.     *)
SendReturnsBytesSent ==
  tx.pc = "idle" => tx.sent \in {tx.accepted, MinusOne}

=============================================================================
