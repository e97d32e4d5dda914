----------------------------- MODULE CmsisQueue -----------------------------
(***************************************************************************)
(* The CMSIS-RTOS2 message queue, as this repository calls it: every       *)
(* osMessageQueuePut has a timeout of 0, so a put into a full queue fails   *)
(* and changes nothing, and every osMessageQueueGet but the one that waits *)
(* in comm_ctrl_process has a timeout of 0 too.  The RTOS itself is not in  *)
(* the repository (src/ holds its header only), so this module is external *)
(***************************************************************************)
EXTENDS Naturals, Sequences

(* A put succeeds exactly when the queue q of the given size has room.     *)
HasRoom(q, size) == Len(q) < size

(* The queue after a put that may fail.                                    *)
Put(q, x, size) == IF HasRoom(q, size) THEN Append(q, x) ELSE q

(* x is queued somewhere in q.                                             *)
Queued(x, q) == \E i \in 1 .. Len(q) : q[i] = x

=============================================================================
