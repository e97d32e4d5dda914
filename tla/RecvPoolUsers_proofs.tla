------------------------ MODULE RecvPoolUsers_proofs ------------------------
(***************************************************************************)
(* Proofs about the receive pool and its users, for every pool size.        *)
(***************************************************************************)
EXTENDS RecvPoolUsers, RecvPool_proofs

(* The users start well typed, with no notice and no buffer received.       *)
LEMMA UsersInit == ASSUME Init PROVE TypeOK /\ NoticesMatchBuffers
<1>1. PoolTypeOK
  BY PoolInitType DEF Init
<1> QED
  BY <1>1, MaxNoticesAssumption
     DEF Init, TypeOK, PoolInit, RxIdle, NoticesMatchBuffers, MaxNoticesAssumption

(* Every step keeps the users well typed.                                   *)
LEMMA UsersTypeStep == ASSUME TypeOK, [Next]_uvars PROVE TypeOK'
<1> USE DEF TypeOK
<1>1. ASSUME NEW f \in Frames, ReceiveFrame(f) PROVE TypeOK'
  BY <1>1, RxAllocType DEF ReceiveFrame
<1>2. CASE PushFrame
  BY <1>2, RxPushType DEF PushFrame
<1>3. CASE PostNotice
  <2>1. PoolTypeOK'
    BY <1>3, RxPostType DEF PostNotice
  <2>2. notices' \in 0 .. MaxNotices
    BY <1>3, MaxNoticesAssumption DEF PostNotice, MaxNoticesAssumption
  <2> QED
    BY <2>1, <2>2
<1>4. CASE PostFails
  BY <1>4, RxPostType DEF PostFails
<1>5. CASE HandleNotice
  BY <1>5, CtrlTakeType, MaxNoticesAssumption DEF HandleNotice, MaxNoticesAssumption
<1>6. CASE GetRecvData
  BY <1>6, ReaderType DEF GetRecvData
<1>7. CASE UNCHANGED uvars
  BY <1>7, PoolStutterType DEF uvars
<1> QED
  BY <1>1, <1>2, <1>3, <1>4, <1>5, <1>6, <1>7 DEF Next

(* Every step keeps NoticesMatchBuffers, one case per action.               *)
LEMMA NoticesStep ==
  ASSUME TypeOK, NoticesMatchBuffers, [Next]_uvars  PROVE NoticesMatchBuffers'
<1> DEFINE Pushed == IF rx.pc = "pushed" THEN 1 ELSE 0
<1>0. /\ recv_queue \in Seq(Idx) /\ Len(recv_queue) \in Nat
      /\ notices \in Nat /\ posts_failed \in Nat
      /\ Len(recv_queue) = notices + Pushed + posts_failed
  BY MaxNoticesAssumption
     DEF TypeOK, PoolTypeOK, NoticesMatchBuffers, MaxNoticesAssumption
<1> SUFFICES Len(recv_queue') = notices' + Pushed' + posts_failed'
  BY DEF NoticesMatchBuffers
<1>1. ASSUME NEW f \in Frames, ReceiveFrame(f)
      PROVE  Len(recv_queue') = notices' + Pushed' + posts_failed'
  BY <1>0, <1>1 DEF ReceiveFrame, RxAlloc
<1>2. CASE PushFrame
  <2>1. CASE HasRoom(recv_queue, RecvPoolSize)
    <3>1. /\ rx.pc = "alloc" /\ rx'.pc = "pushed"
          /\ recv_queue' = Append(recv_queue, rx.idx)
          /\ notices' = notices /\ posts_failed' = posts_failed
      BY <1>2, <2>1 DEF PushFrame, RxPush
    <3>2. rx.idx \in Idx
      BY <3>1 DEF TypeOK, PoolTypeOK, RxIdle
    <3>3. Len(recv_queue') = Len(recv_queue) + 1
      BY <1>0, <3>1, <3>2
    <3> QED
      BY <1>0, <3>1, <3>3
  <2>2. CASE ~HasRoom(recv_queue, RecvPoolSize)
    BY <1>0, <1>2, <2>2 DEF PushFrame, RxPush, RxIdle
  <2> QED
    BY <2>1, <2>2
<1>3. CASE PostNotice
  BY <1>0, <1>3 DEF PostNotice, RxPost, RxIdle
<1>4. CASE PostFails
  BY <1>0, <1>4 DEF PostFails, RxPost, RxIdle
<1>5. CASE HandleNotice
  <2>1. /\ recv_queue # << >> /\ recv_queue' = Tail(recv_queue)
        /\ notices' = notices - 1 /\ rx' = rx /\ posts_failed' = posts_failed
    BY <1>5 DEF HandleNotice, CtrlTake
  <2>2. Len(recv_queue') = Len(recv_queue) - 1
    BY <1>0, <2>1, TailElements
  <2> QED
    BY <1>0, <2>1, <2>2
<1>6. CASE GetRecvData
  BY <1>0, <1>6 DEF GetRecvData, ReaderPop, ReaderFree
<1>7. CASE UNCHANGED uvars
  BY <1>0, <1>7 DEF uvars, poolVars
<1> QED
  BY <1>1, <1>2, <1>3, <1>4, <1>5, <1>6, <1>7 DEF Next

(* Every queue of the pool keeps its bound and holds indices only, failed   *)
(* posts or not.                                                            *)
THEOREM PoolTypeCorrect == Spec => []TypeOK
<1>1. Init => TypeOK
  BY UsersInit
<1>2. TypeOK /\ [Next]_uvars => TypeOK'
  BY UsersTypeStep
<1> QED
  BY <1>1, <1>2, PTL DEF Spec

(* recv_queue is ahead of its messages by exactly the posts that failed.    *)
THEOREM NoticesAlwaysMatch == Spec => []NoticesMatchBuffers
<1>1. Init => NoticesMatchBuffers
  BY UsersInit
<1>2. TypeOK /\ NoticesMatchBuffers /\ [Next]_uvars => NoticesMatchBuffers'
  BY NoticesStep
<1> QED
  BY <1>1, <1>2, PoolTypeCorrect, PTL DEF Spec

-----------------------------------------------------------------------------
(* The inductive form of BuffersPartitioned: while no post has failed, every *)
(* index has one owner.  It is what makes every put of the pool succeed.    *)
OwnedUntilFailure == posts_failed = 0 => Ownership

LEMMA OwnershipStep ==
  ASSUME TypeOK, OwnedUntilFailure, [Next]_uvars  PROVE OwnedUntilFailure'
<1> USE DEF TypeOK
<1> SUFFICES ASSUME posts_failed' = 0 PROVE Ownership'
  BY DEF OwnedUntilFailure
<1>0. posts_failed \in Nat
  BY DEF PoolTypeOK
<1>1. ASSUME NEW f \in Frames, ReceiveFrame(f) PROVE Ownership'
  <2>1. Ownership
    BY <1>1 DEF ReceiveFrame, RxAlloc, OwnedUntilFailure
  <2> QED
    BY <1>1, <2>1, RxAllocOwnership DEF ReceiveFrame
<1>2. CASE PushFrame
  <2>1. Ownership
    BY <1>2 DEF PushFrame, RxPush, OwnedUntilFailure
  <2> QED
    BY <1>2, <2>1, RxPushOwnership DEF PushFrame
<1>3. CASE PostNotice
  <2>1. Ownership
    BY <1>3 DEF PostNotice, RxPost, OwnedUntilFailure
  <2> QED
    BY <1>3, <2>1, RxPostOwnership DEF PostNotice
<1>4. CASE PostFails
  <2>1. posts_failed' = posts_failed + 1
    BY <1>4 DEF PostFails, RxPost
  <2> QED
    BY <1>0, <2>1
<1>5. CASE HandleNotice
  <2>1. Ownership
    BY <1>5 DEF HandleNotice, CtrlTake, OwnedUntilFailure
  <2> QED
    BY <1>5, <2>1, CtrlTakeOwnership DEF HandleNotice
<1>6. CASE GetRecvData
  <2>1. Ownership
    BY <1>6 DEF GetRecvData, ReaderPop, ReaderFree, OwnedUntilFailure
  <2> QED
    BY <1>6, <2>1, ReaderOwnership DEF GetRecvData
<1>7. CASE UNCHANGED uvars
  BY <1>7 DEF uvars, poolVars, OwnedUntilFailure, Ownership, Owned, HeldByRx
<1> QED
  BY <1>1, <1>2, <1>3, <1>4, <1>5, <1>6, <1>7 DEF Next

LEMMA OwnedAlways == Spec => []OwnedUntilFailure
<1>1. Init => OwnedUntilFailure
  BY OwnershipInit DEF Init, OwnedUntilFailure
<1>2. TypeOK /\ OwnedUntilFailure /\ [Next]_uvars => OwnedUntilFailure'
  BY OwnershipStep
<1> QED
  BY <1>1, <1>2, PoolTypeCorrect, PTL DEF Spec

(* While no post has failed, no buffer is lost and none is in two places,   *)
(* whatever the number of buffers: the copy in save and the copy in get     *)
(* never meet.                                                              *)
THEOREM BuffersStayPartitioned == Spec => []BuffersPartitioned
<1>1. TypeOK /\ OwnedUntilFailure => BuffersPartitioned
  <2> SUFFICES ASSUME TypeOK, OwnedUntilFailure, posts_failed = 0, NEW i \in Idx
               PROVE  \E p \in Places(i) : Places(i) = {p}
    BY Zenon DEF BuffersPartitioned
  <2> QED
    BY OwnershipPlaces DEF TypeOK, OwnedUntilFailure
<1> QED
  BY <1>1, OwnedAlways, PoolTypeCorrect, PTL

(* No step writes a buffer that is accepted and not yet read.               *)
THEOREM AcceptedFramesStable == Spec => AcceptedFrameStable
<1>1. ASSUME TypeOK, OwnedUntilFailure, [Next]_uvars, posts_failed' = 0, NEW i \in Idx,
             Queued(i, ready_queue) \/ reader = i
      PROVE  buffers'[i] = buffers[i]
  <2>1. CASE PushFrame
    <3>1. Ownership
      BY <1>1, <2>1 DEF PushFrame, RxPush, OwnedUntilFailure
    <3>2. ~HeldByRx(i)
      BY <1>1, <3>1 DEF Ownership, Owned
    <3>3. i # rx.idx /\ buffers' = [buffers EXCEPT ![rx.idx] = rx.frame]
      BY <2>1, <3>2 DEF PushFrame, RxPush, HeldByRx
    <3>4. buffers \in [Idx -> Frames \union {NoFrame}]
      BY <1>1 DEF TypeOK, PoolTypeOK
    <3> QED
      BY <3>3, <3>4
  <2>2. ASSUME ~PushFrame PROVE buffers' = buffers
    BY <1>1, <2>2 DEF Next, ReceiveFrame, RxAlloc, PostNotice, PostFails, RxPost, HandleNotice,
                      CtrlTake, GetRecvData, ReaderPop, ReaderFree, uvars, poolVars
  <2> QED
    BY <2>1, <2>2
<1>2. TypeOK /\ OwnedUntilFailure /\ [Next]_uvars
        => [posts_failed' = 0 =>
              \A i \in Idx : (Queued(i, ready_queue) \/ reader = i)
                              => buffers'[i] = buffers[i]]_uvars
  BY <1>1
<1> QED
  BY <1>2, OwnedAlways, PoolTypeCorrect, PTL DEF Spec, AcceptedFrameStable

=============================================================================
