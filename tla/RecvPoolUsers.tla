--------------------------- MODULE RecvPoolUsers ----------------------------
(***************************************************************************)
(* The receive pool closed into a system: the three threads of RecvPool     *)
(* step in any order.  The message queue is abstracted to the number of     *)
(* RECV_DATA messages in it, a post may fail at any moment, and the control *)
(* thread accepts or discards a frame as it likes.                          *)
(***************************************************************************)
EXTENDS RecvPool

CONSTANT MaxNotices   \* the RECV_DATA messages the message queue can hold

ASSUME MaxNoticesAssumption == MaxNotices \in Nat \ {0}

VARIABLE notices      \* RECV_DATA messages in the message queue

uvars == <<poolVars, notices>>

Init == PoolInit /\ notices = 0

ReceiveFrame(f) == RxAlloc(f) /\ UNCHANGED notices
PushFrame       == RxPush /\ UNCHANGED notices
PostNotice      == notices < MaxNotices /\ RxPost(TRUE) /\ notices' = notices + 1
PostFails       == RxPost(FALSE) /\ UNCHANGED notices
HandleNotice    == /\ notices > 0
                   /\ notices' = notices - 1
                   /\ \E accept \in BOOLEAN : CtrlTake(accept)
GetRecvData     == (ReaderPop \/ ReaderFree) /\ UNCHANGED notices

Next ==
  \/ \E f \in Frames : ReceiveFrame(f)
  \/ PushFrame \/ PostNotice \/ PostFails
  \/ HandleNotice
  \/ GetRecvData

Spec == Init /\ [][Next]_uvars

(* Every loop keeps running: the receive thread inside a call, the control  *)
(* thread while messages are queued, the application reading what is ready. *)
FairSpec == /\ Spec
            /\ WF_uvars(PushFrame) /\ WF_uvars(PostNotice \/ PostFails)
            /\ WF_uvars(HandleNotice)
            /\ WF_uvars(GetRecvData)

-----------------------------------------------------------------------------
(* Types of the pool and of the notice count.                               *)
TypeOK == PoolTypeOK /\ notices \in 0 .. MaxNotices

(* Ownership: while no post has failed, every buffer is in exactly one      *)
(* place: never in two queues or with two threads (the copy in save and the *)
(* copy in get would race), and never in none (the pool would shrink).      *)
BuffersPartitioned ==
  posts_failed = 0 => \A i \in Idx : \E p \in Places(i) : Places(i) = {p}

(* Every RECV_DATA message, queued or about to be posted, has a pushed      *)
(* buffer behind it, so the handler never finds "no recv data in pool"; and *)
(* recv_queue is ahead of the messages by exactly the posts that failed, so *)
(* from the first failed post on each message hands out an older frame, and *)
(* after RecvPoolSize of them no frame is handed out again.                 *)
NoticesMatchBuffers ==
  Len(recv_queue) = notices + (IF rx.pc = "pushed" THEN 1 ELSE 0) + posts_failed

(* A frame the handler accepted reaches the application as it was received: *)
(* the buffer is not written between push_ready and the reader's copy.      *)
AcceptedFrameStable ==
  [][posts_failed' = 0 =>
       \A i \in Idx : (Queued(i, ready_queue) \/ reader = i) => buffers'[i] = buffers[i]]_uvars

(* An exhausted pool recovers, failed posts or not, as long as the three    *)
(* threads run: no frame is refused for ever for want of an idle buffer.    *)
PoolRefills == (idle_queue = << >>) ~> (idle_queue # << >>)

=============================================================================
