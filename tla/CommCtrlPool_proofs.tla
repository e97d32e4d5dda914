------------------------ MODULE CommCtrlPool_proofs -------------------------
(***************************************************************************)
(* Proof that the controller's threads use the receive pool as RecvPoolUsers *)
(* says, for every size of the pool and of the message queue.                *)
(***************************************************************************)
EXTENDS CommCtrl_proofs, FunctionTheorems

-----------------------------------------------------------------------------
(* Counting the RECV_DATA messages of a queue                               *)

Hits(q) == {i \in 1 .. Len(q) : q[i] = "RECV_DATA"}

(* The count is a number, at most the length of the queue.                  *)
LEMMA HitsFinite ==
  ASSUME NEW q \in Seq(Messages)
  PROVE  /\ IsFiniteSet(Hits(q))
         /\ Cardinality(Hits(q)) \in Nat /\ Cardinality(Hits(q)) <= Len(q)
<1>1. Len(q) \in Nat
  OBVIOUS
<1>2. IsFiniteSet(1 .. Len(q)) /\ Cardinality(1 .. Len(q)) = Len(q)
  BY <1>1, FS_Interval
<1>3. Hits(q) \in SUBSET (1 .. Len(q))
  BY DEF Hits
<1>4. IsFiniteSet(Hits(q)) /\ Cardinality(Hits(q)) <= Len(q)
  BY <1>2, <1>3, FS_Subset
<1> QED
  BY <1>4, FS_CardinalityType

(* A message that is appended counts if it is RECV_DATA,                    *)
LEMMA HitsAppend ==
  ASSUME NEW q \in Seq(Messages), NEW m \in Messages
  PROVE  Cardinality(Hits(Append(q, m)))
           = Cardinality(Hits(q)) + (IF m = "RECV_DATA" THEN 1 ELSE 0)
<1> DEFINE r == Append(q, m)
<1>1. /\ Len(q) \in Nat /\ Len(r) = Len(q) + 1
      /\ \A i \in 1 .. Len(q) : r[i] = q[i]
      /\ r[Len(q) + 1] = m
  OBVIOUS
<1> HIDE DEF r
<1>2. IsFiniteSet(Hits(q)) /\ Cardinality(Hits(q)) \in Nat
  BY HitsFinite
<1>3. CASE m = "RECV_DATA"
  <2>1. Hits(r) = Hits(q) \cup {Len(q) + 1}
    BY <1>1, <1>3 DEF Hits
  <2>2. Len(q) + 1 \notin Hits(q)
    BY <1>1 DEF Hits
  <2>3. Cardinality(Hits(q) \cup {Len(q) + 1}) = Cardinality(Hits(q)) + 1
    BY <1>2, <2>2, FS_AddElement
  <2> QED
    BY <1>3, <2>1, <2>3 DEF r
<1>4. CASE m # "RECV_DATA"
  <2>1. Hits(r) = Hits(q)
    BY <1>1, <1>4 DEF Hits
  <2> QED
    BY <1>2, <1>4, <2>1 DEF r
<1> QED
  BY <1>3, <1>4

(* and one that is taken counted if it was.                                 *)
LEMMA HitsTail ==
  ASSUME NEW q \in Seq(Messages), q # << >>
  PROVE  Cardinality(Hits(q))
           = Cardinality(Hits(Tail(q))) + (IF Head(q) = "RECV_DATA" THEN 1 ELSE 0)
<1> DEFINE r == Tail(q)
           T == Hits(q) \ {1}
           f == [i \in Hits(r) |-> i + 1]
<1>1. /\ r \in Seq(Messages) /\ Len(q) \in Nat /\ Len(q) > 0 /\ Len(r) = Len(q) - 1
      /\ Head(q) = q[1]
      /\ \A i \in 1 .. Len(r) : r[i] = q[i + 1]
  BY TailElements
<1> HIDE DEF r
<1>2. f \in Bijection(Hits(r), T)
  <2>1. \A i \in Hits(r) : i \in Nat /\ i + 1 \in T
    BY <1>1 DEF Hits
  <2>2. f \in [Hits(r) -> T]
    BY <2>1
  <2>3. \A a, b \in Hits(r) : f[a] = f[b] => a = b
    BY <2>1
  <2>4. ASSUME NEW t \in T PROVE \E s \in Hits(r) : f[s] = t
    <3>1. t \in 1 .. Len(q) /\ t # 1 /\ q[t] = "RECV_DATA"
      BY DEF Hits
    <3>2. t - 1 \in 1 .. Len(r)
      BY <1>1, <3>1
    <3>3. t - 1 \in Hits(r) /\ (t - 1) + 1 = t
      BY <1>1, <3>1, <3>2 DEF Hits
    <3> QED
      BY <3>3
  <2> HIDE DEF T, f
  <2> QED
    BY <2>2, <2>3, <2>4, Fun_IsBij
<1>3. IsFiniteSet(Hits(r)) /\ IsFiniteSet(Hits(q)) /\ Cardinality(Hits(q)) \in Nat
  BY <1>1, HitsFinite
<1>4. Cardinality(T) = Cardinality(Hits(r))
  <2>1. ExistsBijection(Hits(r), T)
    BY <1>2 DEF ExistsBijection
  <2> HIDE DEF T
  <2> QED
    BY <1>3, <2>1, FS_Bijection
<1>5. Cardinality(T) = IF 1 \in Hits(q) THEN Cardinality(Hits(q)) - 1 ELSE Cardinality(Hits(q))
  <2>1. Cardinality(Hits(q) \ {1})
          = IF 1 \in Hits(q) THEN Cardinality(Hits(q)) - 1 ELSE Cardinality(Hits(q))
    BY ONLY <1>3, FS_RemoveElement
  <2> QED
    BY <2>1
<1>6. 1 \in Hits(q) <=> Head(q) = "RECV_DATA"
  BY <1>1 DEF Hits
<1>7. CASE Head(q) = "RECV_DATA"
  <2>1. Cardinality(Hits(r)) = Cardinality(Hits(q)) - 1
    BY <1>4, <1>5, <1>6, <1>7
  <2> QED
    BY <1>3, <1>7, <2>1 DEF r
<1>8. CASE Head(q) # "RECV_DATA"
  <2>1. Cardinality(Hits(r)) = Cardinality(Hits(q))
    BY <1>4, <1>5, <1>6, <1>8
  <2> QED
    BY <1>3, <1>8, <2>1 DEF r
<1> QED
  BY <1>7, <1>8

-----------------------------------------------------------------------------
(* The controller's steps as steps of the pool's users                      *)

(* What is known of the messages in every state.                            *)
LEMMA CountFacts ==
  ASSUME TypeOK
  PROVE  /\ NoticeCount = Cardinality(Hits(msg_queue))
         /\ NoticeCount \in Nat /\ NoticeCount <= Len(msg_queue)
         /\ msg_queue \in Seq(Messages) /\ Len(msg_queue) \in Nat
<1>1. msg_queue \in Seq(Messages)
  BY DEF TypeOK
<1>2. NoticeCount = Cardinality(Hits(msg_queue))
  BY DEF NoticeCount, Hits
<1> QED
  BY <1>1, <1>2, HitsFinite

(* A message that is posted raises the count if it is RECV_DATA and fits.   *)
LEMMA CountPosted ==
  ASSUME TypeOK, NEW m \in Messages, SendMsg(m)
  PROVE  NoticeCount' = IF m = "RECV_DATA" /\ HasRoom(msg_queue, MsgQueueSize)
                        THEN NoticeCount + 1 ELSE NoticeCount
<1>1. NoticeCount' = Cardinality(Hits(msg_queue'))
  BY DEF NoticeCount, Hits
<1>2. CASE HasRoom(msg_queue, MsgQueueSize)
  <2>1. msg_queue' = Append(msg_queue, m)
    BY <1>2 DEF SendMsg, Put
  <2>2. NoticeCount' = NoticeCount + (IF m = "RECV_DATA" THEN 1 ELSE 0)
    BY <1>1, <2>1, CountFacts, HitsAppend
  <2> QED
    BY <1>2, <2>2, CountFacts
<1>3. CASE ~HasRoom(msg_queue, MsgQueueSize)
  BY <1>1, <1>3, CountFacts DEF SendMsg, Put
<1> QED
  BY <1>2, <1>3

(* A message that is taken lowers it if it is RECV_DATA.                    *)
LEMMA CountTaken ==
  ASSUME TypeOK, msg_queue # << >>, msg_queue' = Tail(msg_queue)
  PROVE  NoticeCount' = IF Head(msg_queue) = "RECV_DATA" THEN NoticeCount - 1 ELSE NoticeCount
<1>1. NoticeCount' = Cardinality(Hits(Tail(msg_queue)))
  BY DEF NoticeCount, Hits
<1>2. msg_queue' \in Seq(Messages) /\ Cardinality(Hits(msg_queue')) \in Nat
  BY CountFacts, TailElements, HitsFinite
<1>3. NoticeCount = NoticeCount' + (IF Head(msg_queue) = "RECV_DATA" THEN 1 ELSE 0)
  BY <1>1, CountFacts, HitsTail
<1> QED
  BY <1>1, <1>2, <1>3, CountFacts

(* Each RECV_DATA message has its buffer, as in RecvPoolUsers.              *)
NoticesMatch ==
  Len(recv_queue) = NoticeCount + (IF rx.pc = "pushed" THEN 1 ELSE 0) + posts_failed

(* The controller's steps, by what they do to the pool and to the messages. *)
LEMMA PoolCases ==
  ASSUME [Next]_vars
  PROVE  \/ Receive
         \/ \E c \in Cmds : RxAlloc(c) /\ msg_queue' = msg_queue
         \/ RxPush /\ msg_queue' = msg_queue
         \/ RxPost(HasRoom(msg_queue, MsgQueueSize)) /\ SendMsg("RECV_DATA")
         \/ (ReaderPop \/ ReaderFree) /\ msg_queue' = msg_queue
         \/ UNCHANGED poolVars /\ msg_queue' = msg_queue
         \/ UNCHANGED poolVars /\ \E m \in Messages \ {"RECV_DATA"} : SendMsg(m)
BY Zenon DEF Next, Control, vars, PollMatched, PollIgnored, PollDone, StartEvent, StartNotify,
       TimeoutFires, PeriodFires, SendSingleCommand, SetPeriodBegin, SetPeriodEnd,
       GetRecvData, Answer, Lose, SaveRecvPush, SaveRecvPost, Messages

(* Taking a message: the pool's users handle a notice, or nothing happens.  *)
LEMMA PoolReceive ==
  ASSUME TypeOK, NoticesMatch, Receive
  PROVE  \/ UNCHANGED poolVars /\ NoticeCount' = NoticeCount
         \/ /\ \E accept \in BOOLEAN : CtrlTake(accept)
            /\ NoticeCount > 0 /\ NoticeCount' = NoticeCount - 1
<1>1. msg_queue # << >> /\ msg_queue' = Tail(msg_queue) /\ Dispatch(Head(msg_queue))
  BY DEF Receive
<1>2. CASE Head(msg_queue) # "RECV_DATA"
  <2>1. UNCHANGED poolVars
    BY <1>1, <1>2 DEF Dispatch
  <2> QED
    BY <1>1, <1>2, <2>1, CountTaken
<1>3. CASE Head(msg_queue) = "RECV_DATA"
  <2>1. NoticeCount' = NoticeCount - 1
    BY <1>1, <1>3, CountTaken
  <2>2. NoticeCount' \in Nat
    <3>1. msg_queue' \in Seq(Messages)
      BY <1>1, CountFacts, TailElements
    <3> QED
      BY <3>1, HitsFinite DEF NoticeCount, Hits
  <2>3. NoticeCount > 0
    BY <2>1, <2>2, CountFacts
  <2>4. recv_queue # << >>
    <3>1. posts_failed \in Nat
      BY DEF TypeOK, PoolTypeOK
    <3>2. Len(recv_queue) > 0
      BY <2>3, <3>1, CountFacts DEF NoticesMatch
    <3> QED
      BY <3>2
  <2>5. CtrlTake(fsm_state = "WAIT_RESP")
    BY <1>1, <1>3, <2>4 DEF Dispatch, RecvData
  <2> QED
    BY <2>1, <2>3, <2>5
<1> QED
  BY <1>2, <1>3

(* Every step keeps the messages matched with the buffers.                  *)
LEMMA NoticesMatchStep ==
  ASSUME TypeOK, NoticesMatch, [Next]_vars  PROVE NoticesMatch'
<1> DEFINE Pushed == IF rx.pc = "pushed" THEN 1 ELSE 0
<1>0. /\ recv_queue \in Seq(Idx) /\ Len(recv_queue) \in Nat
      /\ NoticeCount \in Nat /\ posts_failed \in Nat
      /\ Len(recv_queue) = NoticeCount + Pushed + posts_failed
  BY CountFacts DEF TypeOK, PoolTypeOK, NoticesMatch
<1> SUFFICES Len(recv_queue') = NoticeCount' + Pushed' + posts_failed'
  BY DEF NoticesMatch
<1>a. msg_queue' = msg_queue => NoticeCount' = NoticeCount
  BY DEF NoticeCount
<1>1. CASE Receive
  <2>1. CASE UNCHANGED poolVars /\ NoticeCount' = NoticeCount
    BY <1>0, <2>1 DEF poolVars
  <2>2. ASSUME NEW accept \in BOOLEAN, CtrlTake(accept), NoticeCount' = NoticeCount - 1
        PROVE  Len(recv_queue') = NoticeCount' + Pushed' + posts_failed'
    <3>1. /\ recv_queue # << >> /\ recv_queue' = Tail(recv_queue)
          /\ rx' = rx /\ posts_failed' = posts_failed
      BY <2>2 DEF CtrlTake
    <3>2. Len(recv_queue') = Len(recv_queue) - 1
      BY <1>0, <3>1, TailElements
    <3> QED
      BY <1>0, <2>2, <3>1, <3>2
  <2> QED
    BY <1>1, <2>1, <2>2, PoolReceive
<1>2. ASSUME NEW c \in Cmds, RxAlloc(c), msg_queue' = msg_queue
      PROVE  Len(recv_queue') = NoticeCount' + Pushed' + posts_failed'
  BY <1>0, <1>a, <1>2 DEF RxAlloc
<1>3. CASE RxPush /\ msg_queue' = msg_queue
  <2>1. CASE HasRoom(recv_queue, RecvPoolSize)
    <3>1. /\ rx.pc = "alloc" /\ rx'.pc = "pushed"
          /\ recv_queue' = Append(recv_queue, rx.idx) /\ posts_failed' = posts_failed
      BY <1>3, <2>1 DEF RxPush
    <3>2. rx.idx \in Idx
      BY <3>1, PoolTypeFacts DEF TypeOK
    <3>3. Len(recv_queue') = Len(recv_queue) + 1
      BY <1>0, <3>1, <3>2
    <3> QED
      BY <1>0, <1>a, <1>3, <3>1, <3>3
  <2>2. CASE ~HasRoom(recv_queue, RecvPoolSize)
    BY <1>0, <1>a, <1>3, <2>2 DEF RxPush, RxIdle
  <2> QED
    BY <2>1, <2>2
<1>4. CASE RxPost(HasRoom(msg_queue, MsgQueueSize)) /\ SendMsg("RECV_DATA")
  <2>1. NoticeCount' = IF HasRoom(msg_queue, MsgQueueSize) THEN NoticeCount + 1 ELSE NoticeCount
    BY <1>4, CountPosted DEF Messages
  <2>2. /\ recv_queue' = recv_queue /\ Pushed = 1 /\ Pushed' = 0
        /\ posts_failed' = IF HasRoom(msg_queue, MsgQueueSize) THEN posts_failed
                           ELSE posts_failed + 1
    BY <1>4 DEF RxPost, RxIdle
  <2> QED
    BY <1>0, <2>1, <2>2
<1>5. CASE (ReaderPop \/ ReaderFree) /\ msg_queue' = msg_queue
  BY <1>0, <1>a, <1>5 DEF ReaderPop, ReaderFree
<1>6. CASE UNCHANGED poolVars /\ msg_queue' = msg_queue
  BY <1>0, <1>a, <1>6 DEF poolVars
<1>7. ASSUME UNCHANGED poolVars, NEW m \in Messages \ {"RECV_DATA"}, SendMsg(m)
      PROVE  Len(recv_queue') = NoticeCount' + Pushed' + posts_failed'
  <2>1. NoticeCount' = NoticeCount
    BY <1>7, CountPosted
  <2> QED
    BY <1>0, <1>7, <2>1 DEF poolVars
<1> QED
  BY <1>1, <1>2, <1>3, <1>4, <1>5, <1>6, <1>7, PoolCases

LEMMA NoticesMatchInit == ASSUME Init PROVE NoticesMatch
<1>1. msg_queue = << >> /\ Len(recv_queue) = 0 /\ rx.pc = "idle" /\ posts_failed = 0
  BY DEF Init, PoolInit, RxIdle
<1>2. Hits(msg_queue) = {}
  BY <1>1 DEF Hits
<1>3. NoticeCount = 0
  BY <1>2, FS_EmptySet DEF NoticeCount, Hits
<1> QED
  BY <1>1, <1>3 DEF NoticesMatch

LEMMA NoticesMatchAlways == Spec => []NoticesMatch
<1>1. Init => NoticesMatch
  BY NoticesMatchInit
<1>2. TypeOK /\ NoticesMatch /\ [Next]_vars => NoticesMatch'
  BY NoticesMatchStep
<1> QED
  BY <1>1, <1>2, TypeCorrect, PTL DEF Spec

-----------------------------------------------------------------------------
(* The pool's actions are those of the users' module, which extends it too. *)
LEMMA SamePool ==
  /\ \A f \in Cmds : RxAlloc(f) => Pool!RxAlloc(f)
  /\ RxPush => Pool!RxPush
  /\ \A posted \in BOOLEAN : RxPost(posted) => Pool!RxPost(posted)
  /\ \A accept \in BOOLEAN : CtrlTake(accept) => Pool!CtrlTake(accept)
  /\ ReaderPop => Pool!ReaderPop
  /\ ReaderFree => Pool!ReaderFree
<1>1. \A f \in Cmds : RxAlloc(f) => Pool!RxAlloc(f)
  BY DEF RxAlloc, Pool!RxAlloc
<1>2. RxPush => Pool!RxPush
  BY DEF RxPush, Pool!RxPush, HasRoom, Pool!HasRoom, Put, Pool!Put, RxIdle, Pool!RxIdle,
         NoIdx, Pool!NoIdx
<1>3. \A posted \in BOOLEAN : RxPost(posted) => Pool!RxPost(posted)
  BY DEF RxPost, Pool!RxPost, HasRoom, Pool!HasRoom, Put, Pool!Put, RxIdle, Pool!RxIdle,
         NoIdx, Pool!NoIdx
<1>4. \A accept \in BOOLEAN : CtrlTake(accept) => Pool!CtrlTake(accept)
  BY DEF CtrlTake, Pool!CtrlTake, HasRoom, Pool!HasRoom, Put, Pool!Put
<1>5. ReaderPop => Pool!ReaderPop
  BY DEF ReaderPop, Pool!ReaderPop, NoIdx, Pool!NoIdx
<1>6. ReaderFree => Pool!ReaderFree
  BY DEF ReaderFree, Pool!ReaderFree, HasRoom, Pool!HasRoom, Put, Pool!Put, NoIdx, Pool!NoIdx
<1> QED
  BY <1>1, <1>2, <1>3, <1>4, <1>5, <1>6

(* Every step of the controller is a step of the pool's users, or none.     *)
LEMMA PoolStep ==
  ASSUME TypeOK, NoticesMatch, [Next]_vars  PROVE [Pool!Next]_(Pool!uvars)
<1>a. msg_queue' = msg_queue => NoticeCount' = NoticeCount
  BY DEF NoticeCount
<1>b. UNCHANGED poolVars /\ NoticeCount' = NoticeCount => UNCHANGED Pool!uvars
  BY DEF poolVars, Pool!uvars, Pool!poolVars
<1>1. CASE Receive
  <2>1. ASSUME NEW accept \in BOOLEAN, CtrlTake(accept),
               NoticeCount > 0, NoticeCount' = NoticeCount - 1
        PROVE  Pool!HandleNotice
    BY <2>1, SamePool DEF Pool!HandleNotice
  <2> QED
    BY <1>1, <1>b, <2>1, PoolReceive DEF Pool!Next
<1>2. ASSUME NEW c \in Cmds, RxAlloc(c), msg_queue' = msg_queue
      PROVE  Pool!Next
  <2>1. c \in Frames
    BY CommCtrlAssumption DEF CommCtrlAssumption
  <2>2. Pool!ReceiveFrame(c)
    BY <1>a, <1>2, SamePool DEF Pool!ReceiveFrame
  <2> QED
    BY <2>1, <2>2 DEF Pool!Next
<1>3. CASE RxPush /\ msg_queue' = msg_queue
  BY <1>a, <1>3, SamePool DEF Pool!PushFrame, Pool!Next
<1>4. CASE RxPost(HasRoom(msg_queue, MsgQueueSize)) /\ SendMsg("RECV_DATA")
  <2>0. NoticeCount' = IF HasRoom(msg_queue, MsgQueueSize) THEN NoticeCount + 1 ELSE NoticeCount
    BY <1>4, CountPosted DEF Messages
  <2>1. CASE HasRoom(msg_queue, MsgQueueSize)
    <3>1. NoticeCount < MsgQueueSize
      BY <2>1, CountFacts, CommCtrlAssumption DEF HasRoom, CommCtrlAssumption
    <3>2. RxPost(TRUE)
      BY <1>4, <2>1 DEF RxPost
    <3> QED
      BY <2>0, <2>1, <3>1, <3>2, SamePool DEF Pool!PostNotice, Pool!Next
  <2>2. CASE ~HasRoom(msg_queue, MsgQueueSize)
    <3>1. RxPost(FALSE)
      BY <1>4, <2>2 DEF RxPost
    <3> QED
      BY <2>0, <2>2, <3>1, SamePool DEF Pool!PostFails, Pool!Next
  <2> QED
    BY <2>1, <2>2
<1>5. CASE (ReaderPop \/ ReaderFree) /\ msg_queue' = msg_queue
  BY <1>a, <1>5, SamePool DEF Pool!GetRecvData, Pool!Next
<1>6. CASE UNCHANGED poolVars /\ msg_queue' = msg_queue
  BY <1>a, <1>b, <1>6
<1>7. ASSUME UNCHANGED poolVars, NEW m \in Messages \ {"RECV_DATA"}, SendMsg(m)
      PROVE  UNCHANGED Pool!uvars
  <2>1. NoticeCount' = NoticeCount
    BY <1>7, CountPosted
  <2> QED
    BY <1>b, <1>7, <2>1
<1> QED
  BY <1>1, <1>2, <1>3, <1>4, <1>5, <1>6, <1>7, PoolCases

LEMMA PoolUsersInit == ASSUME Init PROVE Pool!Init
<1>1. NoticeCount = 0
  <2>1. msg_queue = << >>
    BY DEF Init
  <2>2. Hits(msg_queue) = {}
    BY <2>1 DEF Hits
  <2> QED
    BY <2>2, FS_EmptySet DEF NoticeCount, Hits
<1>2. Pool!PoolInit
  BY DEF Init, PoolInit, Pool!PoolInit, Pool!Idx, Idx, RxIdle, Pool!RxIdle, NoIdx, Pool!NoIdx
<1> QED
  BY <1>1, <1>2 DEF Pool!Init

(* The controller's threads use the receive pool as RecvPoolUsers says,     *)
(* whatever the sizes of the pool and of the message queue.                 *)
THEOREM PoolUsersImplemented == Spec => ImplementsPoolUsers
<1>1. Init => Pool!Init
  BY PoolUsersInit
<1>2. TypeOK /\ NoticesMatch /\ [Next]_vars => [Pool!Next]_(Pool!uvars)
  BY PoolStep
<1> QED
  BY <1>1, <1>2, TypeCorrect, NoticesMatchAlways, PTL
     DEF Spec, ImplementsPoolUsers, Pool!Spec

-----------------------------------------------------------------------------
(* Ownership of the buffers in the controller                               *)

OwnedUntilFailure == posts_failed = 0 => Ownership

LEMMA OwnedStep ==
  ASSUME TypeOK, NoticesMatch, OwnedUntilFailure, [Next]_vars  PROVE OwnedUntilFailure'
<1> SUFFICES ASSUME posts_failed' = 0 PROVE Ownership'
  BY DEF OwnedUntilFailure
<1>0. posts_failed \in Nat /\ PoolTypeOK
  BY DEF TypeOK, PoolTypeOK
<1>a. ASSUME UNCHANGED poolVars PROVE Ownership'
  BY <1>a DEF poolVars, OwnedUntilFailure, Ownership, Owned, HeldByRx
<1>1. CASE Receive
  <2>1. ASSUME NEW accept \in BOOLEAN, CtrlTake(accept) PROVE Ownership'
    <3>1. Ownership
      BY <2>1 DEF CtrlTake, OwnedUntilFailure
    <3> QED
      BY <1>0, <2>1, <3>1, CtrlTakeOwnership
  <2> QED
    BY <1>1, <1>a, <2>1, PoolReceive
<1>2. ASSUME NEW c \in Cmds, RxAlloc(c) PROVE Ownership'
  <2>1. Ownership /\ c \in Frames
    BY <1>2, CommCtrlAssumption DEF RxAlloc, OwnedUntilFailure, CommCtrlAssumption
  <2> QED
    BY <1>0, <1>2, <2>1, RxAllocOwnership
<1>3. CASE RxPush
  <2>1. Ownership
    BY <1>3 DEF RxPush, OwnedUntilFailure
  <2> QED
    BY <1>0, <1>3, <2>1, RxPushOwnership
<1>4. CASE RxPost(HasRoom(msg_queue, MsgQueueSize))
  <2>1. HasRoom(msg_queue, MsgQueueSize) /\ posts_failed = 0
    BY <1>0, <1>4 DEF RxPost
  <2>2. Ownership /\ RxPost(TRUE)
    BY <1>4, <2>1 DEF OwnedUntilFailure, RxPost
  <2> QED
    BY <2>2, RxPostOwnership
<1>5. CASE ReaderPop \/ ReaderFree
  <2>1. Ownership
    BY <1>5 DEF ReaderPop, ReaderFree, OwnedUntilFailure
  <2> QED
    BY <1>0, <1>5, <2>1, ReaderOwnership
<1> QED
  BY <1>1, <1>a, <1>2, <1>3, <1>4, <1>5, PoolCases

LEMMA OwnedAlwaysInController == Spec => []OwnedUntilFailure
<1>1. Init => OwnedUntilFailure
  BY OwnershipInit DEF Init, OwnedUntilFailure
<1>2. TypeOK /\ NoticesMatch /\ OwnedUntilFailure /\ [Next]_vars => OwnedUntilFailure'
  BY OwnedStep
<1> QED
  BY <1>1, <1>2, TypeCorrect, NoticesMatchAlways, PTL DEF Spec

(* In the controller too a buffer is never lost and never in two places     *)
(* before the first RECV_DATA message that finds the message queue full.    *)
THEOREM ControllerBuffersPartitioned ==
  Spec => [](posts_failed = 0 => \A i \in Idx : \E p \in Places(i) : Places(i) = {p})
<1>1. TypeOK /\ OwnedUntilFailure
        => (posts_failed = 0 => \A i \in Idx : \E p \in Places(i) : Places(i) = {p})
  BY OwnershipPlaces DEF TypeOK, OwnedUntilFailure
<1> QED
  BY <1>1, TypeCorrect, OwnedAlwaysInController, PTL

(* No step of the controller's threads writes a frame the controller has    *)
(* accepted, from the step that queues it for the application until         *)
(* comm_ctrl_get_recv_data has given its buffer back.                       *)
THEOREM ControllerFramesStable ==
  Spec => [][posts_failed' = 0 =>
               \A i \in Idx : (Queued(i, ready_queue) \/ reader = i)
                               => buffers'[i] = buffers[i]]_vars
<1>1. ASSUME TypeOK, NoticesMatch, OwnedUntilFailure, [Next]_vars, posts_failed' = 0,
             NEW i \in Idx, Queued(i, ready_queue) \/ reader = i
      PROVE  buffers'[i] = buffers[i]
  <2>1. CASE RxPush
    <3>1. Ownership
      BY <1>1, <2>1 DEF RxPush, OwnedUntilFailure
    <3>2. ~HeldByRx(i)
      BY <1>1, <3>1 DEF Ownership, Owned
    <3>3. i # rx.idx /\ buffers' = [buffers EXCEPT ![rx.idx] = rx.frame]
      BY <2>1, <3>2 DEF RxPush, HeldByRx
    <3>4. buffers \in [Idx -> Frames \union {NoFrame}]
      BY <1>1 DEF TypeOK, PoolTypeOK
    <3> QED
      BY <3>3, <3>4
  <2>2. CASE Receive
    <3>1. UNCHANGED poolVars \/ \E accept \in BOOLEAN : CtrlTake(accept)
      BY <1>1, <2>2, PoolReceive
    <3> QED
      BY <3>1 DEF CtrlTake, poolVars
  <2>3. CASE ~RxPush /\ ~Receive
    <3>1. buffers' = buffers
      BY <1>1, <2>3, PoolCases DEF RxAlloc, RxPost, ReaderPop, ReaderFree, poolVars
    <3> QED
      BY <3>1
  <2> QED
    BY <2>1, <2>2, <2>3
<1>2. TypeOK /\ NoticesMatch /\ OwnedUntilFailure /\ [Next]_vars
        => [posts_failed' = 0 =>
              \A i \in Idx : (Queued(i, ready_queue) \/ reader = i)
                              => buffers'[i] = buffers[i]]_vars
  BY <1>1
<1> QED
  BY <1>2, OwnedAlwaysInController, TypeCorrect, NoticesMatchAlways, PTL DEF Spec

=============================================================================
