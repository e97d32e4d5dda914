------------------------------ MODULE RecvPool ------------------------------
(***************************************************************************)
(* The receive buffer pool of comm_ctrl.c and the three threads that use    *)
(* it.  RecvPoolSize buffers travel by index through three queues:          *)
(*                                                                          *)
(*   idle_queue --rx--> recv_queue --ctrl--> ready_queue --reader--> idle   *)
(*                                                                          *)
(*   rx      the receive thread, inside comm_ctrl_save_recv_data            *)
(*   ctrl    the control thread, inside the RECV_DATA handler               *)
(*   reader  the application thread, inside comm_ctrl_get_recv_data         *)
(*                                                                          *)
(* A queue holds indices; whoever took an index out owns its buffer.  No    *)
(* mutex guards a buffer, so exclusive ownership is all that protects it.   *)
(* This module has the state and the steps; RecvPoolUsers closes it into a   *)
(* system of its own and CommCtrl composes it with the controller.          *)
(***************************************************************************)
EXTENDS CmsisQueue

CONSTANTS
  Frames,         \* what a received frame may hold
  NoFrame,        \* the contents of a buffer that was never written
  RecvPoolSize    \* COMM_RECV_DATA_QUEUE_SIZE: the buffers, and each queue's size

(* An index is a uint8_t, and 0xFF stands for none.                         *)
ASSUME RecvPoolAssumption ==
  /\ RecvPoolSize \in Nat \ {0} /\ RecvPoolSize <= 255
  /\ NoFrame \notin Frames

VARIABLES
  idle_queue, recv_queue, ready_queue,   \* recv_buffer_pool_t's queues of indices
  buffers,        \* recv_buffer_pool_t.buffers: index -> frame
  rx,             \* the receive thread: where it is, its index, its frame
  reader,         \* the index comm_ctrl_get_recv_data holds, or NoIdx
  posts_failed    \* history: RECV_DATA messages that found the message queue full

poolQueues == <<idle_queue, recv_queue, ready_queue>>
poolVars   == <<idle_queue, recv_queue, ready_queue, buffers, rx, reader, posts_failed>>

Idx   == 0 .. RecvPoolSize - 1
NoIdx == 255                           \* 0xFFU, the initial value of every buf_idx
RxIdle == [pc |-> "idle", idx |-> NoIdx, frame |-> NoFrame]

PoolTypeOK ==
  /\ idle_queue  \in Seq(Idx) /\ Len(idle_queue)  <= RecvPoolSize
  /\ recv_queue  \in Seq(Idx) /\ Len(recv_queue)  <= RecvPoolSize
  /\ ready_queue \in Seq(Idx) /\ Len(ready_queue) <= RecvPoolSize
  /\ buffers \in [Idx -> Frames \union {NoFrame}]
  /\ rx \in {RxIdle}
            \union [pc : {"alloc"}, idx : Idx, frame : Frames]
            \union [pc : {"pushed"}, idx : Idx, frame : {NoFrame}]
  /\ reader \in Idx \union {NoIdx}
  /\ posts_failed \in Nat

(* Variant: the indices count from 1.                                       *)
PoolInitFromOne ==
  /\ idle_queue  = [i \in 1 .. RecvPoolSize |-> i]
  /\ recv_queue  = << >>
  /\ ready_queue = << >>
  /\ buffers = [i \in Idx |-> NoFrame]
  /\ rx = RxIdle
  /\ reader = NoIdx
  /\ posts_failed = 0

(* comm_ctrl_recv_pool_init: every index starts in the idle queue.          *)
PoolInit ==
  /\ idle_queue  = [i \in 1 .. RecvPoolSize |-> i - 1]
  /\ recv_queue  = << >>
  /\ ready_queue = << >>
  /\ buffers = [i \in Idx |-> NoFrame]
  /\ rx = RxIdle
  /\ reader = NoIdx
  /\ posts_failed = 0

-----------------------------------------------------------------------------
(* The receive thread: comm_ctrl_save_recv_data                             *)

(* alloc_idle: with no idle buffer the frame is dropped.                    *)
RxAlloc(f) ==
  /\ rx.pc = "idle"
  /\ \/ /\ idle_queue = << >>
        /\ UNCHANGED <<idle_queue, rx>>
     \/ /\ idle_queue # << >>
        /\ idle_queue' = Tail(idle_queue)
        /\ rx' = [pc |-> "alloc", idx |-> Head(idle_queue), frame |-> f]
  /\ UNCHANGED <<recv_queue, ready_queue, buffers, reader, posts_failed>>

(* The frame is copied into the buffer, then its index is pushed; when      *)
(* push_recv fails the buffer is given back.                                *)
RxPush ==
  /\ rx.pc = "alloc"
  /\ buffers' = [buffers EXCEPT ![rx.idx] = rx.frame]
  /\ \/ /\ HasRoom(recv_queue, RecvPoolSize)
        /\ recv_queue' = Append(recv_queue, rx.idx)
        /\ rx' = [pc |-> "pushed", idx |-> rx.idx, frame |-> NoFrame]
        /\ UNCHANGED idle_queue
     \/ /\ ~HasRoom(recv_queue, RecvPoolSize)
        /\ idle_queue' = Put(idle_queue, rx.idx, RecvPoolSize)
        /\ rx' = RxIdle
        /\ UNCHANGED recv_queue
  /\ UNCHANGED <<ready_queue, reader, posts_failed>>

(* The RECV_DATA message is posted; when the post fails the index is freed  *)
(* although recv_queue still holds it.                                      *)
RxPost(posted) ==
  /\ rx.pc = "pushed"
  /\ rx' = RxIdle
  /\ idle_queue' = IF posted THEN idle_queue ELSE Put(idle_queue, rx.idx, RecvPoolSize)
  /\ posts_failed' = IF posted THEN posts_failed ELSE posts_failed + 1
  /\ UNCHANGED <<recv_queue, ready_queue, buffers, reader>>

-----------------------------------------------------------------------------
(* The control thread: comm_ctrl_recv_data, the handler of RECV_DATA.       *)
(* pop_recv, then push_ready (result ignored) or free_idle.                 *)
(* Variants: a discarded buffer is not freed; an accepted one is freed too; *)
(* a discarded one is not popped.                                           *)
CtrlTakeLeaks(accept) ==
  /\ recv_queue # << >>
  /\ recv_queue' = Tail(recv_queue)
  /\ ready_queue' = IF accept THEN Put(ready_queue, Head(recv_queue), RecvPoolSize)
                              ELSE ready_queue
  /\ UNCHANGED <<idle_queue, buffers, rx, reader, posts_failed>>
CtrlTakeFrees(accept) ==
  /\ recv_queue # << >>
  /\ recv_queue' = Tail(recv_queue)
  /\ ready_queue' = IF accept THEN Put(ready_queue, Head(recv_queue), RecvPoolSize)
                              ELSE ready_queue
  /\ idle_queue' = Put(idle_queue, Head(recv_queue), RecvPoolSize)
  /\ UNCHANGED <<buffers, rx, reader, posts_failed>>
CtrlTakePeeks(accept) ==
  /\ recv_queue # << >>
  /\ recv_queue' = IF accept THEN Tail(recv_queue) ELSE recv_queue
  /\ ready_queue' = IF accept THEN Put(ready_queue, Head(recv_queue), RecvPoolSize)
                              ELSE ready_queue
  /\ UNCHANGED <<idle_queue, buffers, rx, reader, posts_failed>>

CtrlTake(accept) ==
  /\ recv_queue # << >>
  /\ recv_queue' = Tail(recv_queue)
  /\ ready_queue' = IF accept THEN Put(ready_queue, Head(recv_queue), RecvPoolSize)
                              ELSE ready_queue
  /\ idle_queue' = IF accept THEN idle_queue
                             ELSE Put(idle_queue, Head(recv_queue), RecvPoolSize)
  /\ UNCHANGED <<buffers, rx, reader, posts_failed>>

-----------------------------------------------------------------------------
(* The application: comm_ctrl_get_recv_data                                 *)

(* pop_ready; an empty queue returns COMM_EMPTY_QUEUE and changes nothing.  *)
ReaderPop ==
  /\ reader = NoIdx
  /\ ready_queue # << >>
  /\ reader' = Head(ready_queue)
  /\ ready_queue' = Tail(ready_queue)
  /\ UNCHANGED <<idle_queue, recv_queue, buffers, rx, posts_failed>>

(* Variant: the buffer is copied out and not given back.                    *)
ReaderKeeps ==
  /\ reader # NoIdx
  /\ reader' = NoIdx
  /\ UNCHANGED <<idle_queue, recv_queue, ready_queue, buffers, rx, posts_failed>>

(* The buffer has been copied out; its index goes back to the idle queue.   *)
ReaderFree ==
  /\ reader # NoIdx
  /\ reader' = NoIdx
  /\ idle_queue' = Put(idle_queue, reader, RecvPoolSize)
  /\ UNCHANGED <<recv_queue, ready_queue, buffers, rx, posts_failed>>

-----------------------------------------------------------------------------
(* Who owns index i: a queue place, or a thread between two queues.         *)
Places(i) ==
       {<<"idle", k>>  : k \in {n \in 1 .. Len(idle_queue)  : idle_queue[n]  = i}}
  \union {<<"recv", k>>  : k \in {n \in 1 .. Len(recv_queue)  : recv_queue[n]  = i}}
  \union {<<"ready", k>> : k \in {n \in 1 .. Len(ready_queue) : ready_queue[n] = i}}
  \union (IF rx.pc = "alloc" /\ rx.idx = i THEN {<<"rx", 0>>} ELSE {})
  \union (IF reader = i THEN {<<"reader", 0>>} ELSE {})

(* What get_buf's comment claims of every access, comm_ctrl.c:301, "caller  *)
(* already owns the index exclusively": no buffer is in two places.         *)
CallerOwnsExclusively ==
  \A i \in Idx : \A p, q \in Places(i) : p = q

=============================================================================
