--------------------------- MODULE RecvPool_proofs --------------------------
(***************************************************************************)
(* Facts about bounded queues and about the steps of the receive pool, for  *)
(* the proofs of the modules built from them.                               *)
(***************************************************************************)
EXTENDS RecvPool, FiniteSetTheorems, TLAPS

(* A put that may fail keeps a queue within its type and its size.          *)
LEMMA PutType ==
  ASSUME NEW S, NEW q \in Seq(S), NEW x \in S, NEW size \in Nat, Len(q) <= size
  PROVE  Put(q, x, size) \in Seq(S) /\ Len(Put(q, x, size)) <= size
BY DEF Put, HasRoom

(* What a successful put holds: the old queue and the new last element.     *)
LEMMA PutElements ==
  ASSUME NEW S, NEW q \in Seq(S), NEW x \in S, NEW size \in Nat, HasRoom(q, size)
  PROVE  /\ Len(Put(q, x, size)) = Len(q) + 1
         /\ \A i \in 1 .. Len(q) : Put(q, x, size)[i] = q[i]
         /\ Put(q, x, size)[Len(q) + 1] = x
BY DEF Put, HasRoom

(* A put never removes or moves what is queued, whether it fails or not.    *)
LEMMA PutKeeps ==
  ASSUME NEW S, NEW q \in Seq(S), NEW x \in S, NEW size \in Nat, NEW y,
         Queued(y, q)
  PROVE  Queued(y, Put(q, x, size))
BY DEF Put, HasRoom, Queued

(* Only the element put can be new in the queue.                            *)
LEMMA PutOrigin ==
  ASSUME NEW S, NEW q \in Seq(S), NEW x \in S, NEW size \in Nat, NEW y,
         Queued(y, Put(q, x, size)), y # x
  PROVE  Queued(y, q)
BY DEF Put, HasRoom, Queued

(* Taking the head of a queue.                                              *)
LEMMA TailElements ==
  ASSUME NEW S, NEW q \in Seq(S), q # << >>
  PROVE  /\ Tail(q) \in Seq(S)
         /\ Head(q) \in S /\ Head(q) = q[1]
         /\ Len(q) \in Nat /\ Len(q) > 0
         /\ Len(Tail(q)) = Len(q) - 1
         /\ \A i \in 1 .. Len(Tail(q)) : Tail(q)[i] = q[i + 1]
OBVIOUS

(* Taking the head keeps every other element.                               *)
LEMMA TailKeeps ==
  ASSUME NEW S, NEW q \in Seq(S), q # << >>, NEW y, Queued(y, q), y # Head(q)
  PROVE  Queued(y, Tail(q))
<1>1. PICK i \in 1 .. Len(q) : q[i] = y
  BY DEF Queued
<1>2. i # 1
  BY <1>1, TailElements
<1>3. i - 1 \in 1 .. Len(Tail(q)) /\ Tail(q)[i - 1] = y
  BY <1>1, <1>2, TailElements
<1> QED
  BY <1>3 DEF Queued

(* Taking the head brings no new element.                                   *)
LEMMA TailOrigin ==
  ASSUME NEW S, NEW q \in Seq(S), q # << >>, NEW y, Queued(y, Tail(q))
  PROVE  Queued(y, q)
<1>1. PICK i \in 1 .. Len(Tail(q)) : Tail(q)[i] = y
  BY DEF Queued
<1>2. i + 1 \in 1 .. Len(q) /\ q[i + 1] = y
  BY <1>1, TailElements
<1> QED
  BY <1>2 DEF Queued

-----------------------------------------------------------------------------
(* No element is queued twice.                                              *)
Distinct(q) == \A a, b \in 1 .. Len(q) : q[a] = q[b] => a = b

(* Taking the head of a queue without repetitions takes that element out.   *)
LEMMA TailDistinct ==
  ASSUME NEW S, NEW q \in Seq(S), q # << >>, Distinct(q)
  PROVE  /\ Distinct(Tail(q))
         /\ \A y : Queued(y, Tail(q)) <=> Queued(y, q) /\ y # Head(q)
         /\ Queued(Head(q), q)
<1>1. Distinct(Tail(q))
  <2> SUFFICES ASSUME NEW a \in 1 .. Len(Tail(q)), NEW b \in 1 .. Len(Tail(q)),
                      Tail(q)[a] = Tail(q)[b]
               PROVE  a = b
    BY DEF Distinct
  <2>1. /\ a + 1 \in 1 .. Len(q) /\ b + 1 \in 1 .. Len(q)
        /\ q[a + 1] = q[b + 1]
    BY TailElements
  <2>2. a + 1 = b + 1
    BY <2>1 DEF Distinct
  <2> QED
    BY <2>2
<1>2. ASSUME NEW y, Queued(y, Tail(q)) PROVE y # Head(q)
  <2>1. PICK a \in 1 .. Len(Tail(q)) : Tail(q)[a] = y
    BY <1>2 DEF Queued
  <2>2. /\ a + 1 \in 1 .. Len(q) /\ q[a + 1] = y /\ a + 1 # 1
        /\ 1 \in 1 .. Len(q) /\ q[1] = Head(q)
    BY <2>1, TailElements
  <2> QED
    BY <2>2 DEF Distinct
<1>3. Queued(Head(q), q)
  BY TailElements DEF Queued
<1> QED
  BY <1>1, <1>2, <1>3, TailKeeps, TailOrigin

(* Appending an element that is not queued.                                 *)
LEMMA AppendDistinct ==
  ASSUME NEW S, NEW q \in Seq(S), NEW x \in S, Distinct(q), ~Queued(x, q)
  PROVE  /\ Distinct(Append(q, x))
         /\ \A y : Queued(y, Append(q, x)) <=> Queued(y, q) \/ y = x
<1> DEFINE r == Append(q, x)
<1>1. /\ Len(q) \in Nat /\ Len(r) = Len(q) + 1
      /\ \A a \in 1 .. Len(q) : r[a] = q[a]
      /\ r[Len(q) + 1] = x
  OBVIOUS
<1> HIDE DEF r
<1>2. \A a \in 1 .. Len(r) : a \in 1 .. Len(q) \/ a = Len(q) + 1
  BY <1>1
<1>3. Distinct(r)
  <2> SUFFICES ASSUME NEW a \in 1 .. Len(r), NEW b \in 1 .. Len(r), r[a] = r[b]
               PROVE  a = b
    BY DEF Distinct
  <2>1. CASE a \in 1 .. Len(q) /\ b \in 1 .. Len(q)
    BY <1>1, <2>1 DEF Distinct
  <2>2. CASE a \in 1 .. Len(q) /\ b = Len(q) + 1
    BY <1>1, <2>2 DEF Queued
  <2>3. CASE a = Len(q) + 1 /\ b \in 1 .. Len(q)
    BY <1>1, <2>3 DEF Queued
  <2> QED
    BY <1>2, <2>1, <2>2, <2>3
<1>4. ASSUME NEW y PROVE Queued(y, r) <=> Queued(y, q) \/ y = x
  <2>1. ASSUME Queued(y, r) PROVE Queued(y, q) \/ y = x
    BY <1>1, <1>2, <2>1 DEF Queued
  <2>2. ASSUME Queued(y, q) PROVE Queued(y, r)
    <3>1. PICK a \in 1 .. Len(q) : q[a] = y
      BY <2>2 DEF Queued
    <3>2. a \in 1 .. Len(r) /\ r[a] = y
      BY <1>1, <3>1
    <3> QED
      BY <3>2 DEF Queued
  <2>3. ASSUME y = x PROVE Queued(y, r)
    <3>1. Len(q) + 1 \in 1 .. Len(r)
      BY <1>1
    <3> QED
      BY <1>1, <2>3, <3>1 DEF Queued
  <2> QED
    BY <2>1, <2>2, <2>3
<1> QED
  BY <1>3, <1>4 DEF r

(* A queue of the pool that lacks an index has room for it: the indices     *)
(* queued are different, and fewer than RecvPoolSize.                       *)
LEMMA RoomForMissing ==
  ASSUME NEW q \in Seq(Idx), Distinct(q), Len(q) <= RecvPoolSize,
         NEW x \in Idx, ~Queued(x, q)
  PROVE  HasRoom(q, RecvPoolSize)
<1> USE RecvPoolAssumption DEF RecvPoolAssumption
<1> SUFFICES ASSUME Len(q) = RecvPoolSize PROVE FALSE
  BY DEF HasRoom
<1> DEFINE S == 1 .. RecvPoolSize
           T == Idx \ {x}
           f == [k \in S |-> q[k]]
<1>1. IsFiniteSet(S) /\ Cardinality(S) = RecvPoolSize
  BY FS_Interval
<1>2. IsFiniteSet(Idx) /\ Cardinality(Idx) = RecvPoolSize
  BY FS_Interval DEF Idx
<1>3. IsFiniteSet(T) /\ Cardinality(T) = RecvPoolSize - 1
  BY <1>2, FS_RemoveElement
<1>4. f \in [S -> T]
  BY DEF Queued
<1>5. Cardinality(T) < Cardinality(S)
  BY <1>1, <1>3
<1>6. \E a, b \in S : a # b /\ f[a] = f[b]
  <2> HIDE DEF S, T, f
  <2>1. IsFiniteSet(S) /\ IsFiniteSet(T)
    BY <1>1, <1>3
  <2> QED
    BY ONLY <2>1, <1>4, <1>5, FS_PigeonHole, Zenon
<1> QED
  BY <1>6 DEF Distinct

(* So the put of an index that is not queued succeeds.                      *)
LEMMA PutMissing ==
  ASSUME NEW q \in Seq(Idx), Distinct(q), Len(q) <= RecvPoolSize,
         NEW x \in Idx, ~Queued(x, q)
  PROVE  /\ Distinct(Put(q, x, RecvPoolSize))
         /\ \A y : Queued(y, Put(q, x, RecvPoolSize)) <=> Queued(y, q) \/ y = x
<1>1. Put(q, x, RecvPoolSize) = Append(q, x)
  BY RoomForMissing DEF Put
<1> QED
  BY <1>1, AppendDistinct

-----------------------------------------------------------------------------
(* The pool starts well typed.                                              *)
LEMMA PoolInitType == ASSUME PoolInit PROVE PoolTypeOK
BY RecvPoolAssumption DEF RecvPoolAssumption, PoolInit, PoolTypeOK, Idx, NoIdx, RxIdle

(* The receive thread's steps keep the pool well typed.                     *)
LEMMA RxAllocType ==
  ASSUME PoolTypeOK, NEW f \in Frames, RxAlloc(f)  PROVE PoolTypeOK'
<1>1. CASE idle_queue = << >>
  BY <1>1 DEF PoolTypeOK, RxAlloc
<1>2. CASE idle_queue # << >>
  <2>1. /\ idle_queue' \in Seq(Idx) /\ Len(idle_queue') <= RecvPoolSize
        /\ Head(idle_queue) \in Idx
    <3>1. /\ idle_queue \in Seq(Idx) /\ Len(idle_queue) <= RecvPoolSize
          /\ idle_queue' = Tail(idle_queue)
      BY <1>2 DEF PoolTypeOK, RxAlloc
    <3>2. /\ Tail(idle_queue) \in Seq(Idx) /\ Head(idle_queue) \in Idx
          /\ Len(Tail(idle_queue)) = Len(idle_queue) - 1
      BY <1>2, <3>1, TailElements
    <3> QED
      BY <3>1, <3>2, RecvPoolAssumption DEF RecvPoolAssumption
  <2>2. rx' \in [pc : {"alloc"}, idx : Idx, frame : Frames]
    BY <1>2, <2>1 DEF RxAlloc
  <2>3. UNCHANGED <<recv_queue, ready_queue, buffers, reader, posts_failed>>
    BY DEF RxAlloc
  <2> QED
    BY <2>1, <2>2, <2>3 DEF PoolTypeOK
<1> QED
  BY <1>1, <1>2

(* So do the push of a received buffer,                                     *)
LEMMA RxPushType == ASSUME PoolTypeOK, RxPush  PROVE PoolTypeOK'
<1> USE RecvPoolAssumption DEF RecvPoolAssumption
<1>1. rx \in [pc : {"alloc"}, idx : Idx, frame : Frames]
  BY DEF PoolTypeOK, RxPush, RxIdle
<1>2. buffers' \in [Idx -> Frames \union {NoFrame}]
  BY <1>1 DEF PoolTypeOK, RxPush
<1>3. CASE HasRoom(recv_queue, RecvPoolSize)
  <2>1. /\ recv_queue' = Append(recv_queue, rx.idx)
        /\ rx' = [pc |-> "pushed", idx |-> rx.idx, frame |-> NoFrame]
        /\ UNCHANGED idle_queue
    BY <1>3 DEF RxPush
  <2>2. recv_queue' \in Seq(Idx) /\ Len(recv_queue') <= RecvPoolSize
    BY <1>1, <1>3, <2>1 DEF PoolTypeOK, HasRoom
  <2>3. rx' \in [pc : {"pushed"}, idx : Idx, frame : {NoFrame}]
    BY <1>1, <2>1
  <2> QED
    BY <1>2, <2>1, <2>2, <2>3 DEF PoolTypeOK, RxPush
<1>4. CASE ~HasRoom(recv_queue, RecvPoolSize)
  <2>1. idle_queue' \in Seq(Idx) /\ Len(idle_queue') <= RecvPoolSize
    BY <1>1, <1>4, PutType DEF PoolTypeOK, RxPush
  <2> QED
    BY <1>2, <1>4, <2>1 DEF PoolTypeOK, RxPush
<1> QED
  BY <1>3, <1>4

(* the post that tells of it,                                               *)
LEMMA RxPostType ==
  ASSUME PoolTypeOK, NEW posted \in BOOLEAN, RxPost(posted)  PROVE PoolTypeOK'
<1> USE RecvPoolAssumption DEF RecvPoolAssumption
<1>1. rx \in [pc : {"pushed"}, idx : Idx, frame : {NoFrame}]
  BY DEF PoolTypeOK, RxPost, RxIdle
<1>2. idle_queue' \in Seq(Idx) /\ Len(idle_queue') <= RecvPoolSize
  BY <1>1, PutType DEF PoolTypeOK, RxPost
<1> QED
  BY <1>2 DEF PoolTypeOK, RxPost

(* the control thread's take,                                               *)
LEMMA CtrlTakeType ==
  ASSUME PoolTypeOK, NEW accept \in BOOLEAN, CtrlTake(accept)  PROVE PoolTypeOK'
<1> USE RecvPoolAssumption DEF RecvPoolAssumption
<1>1. /\ recv_queue' \in Seq(Idx) /\ Len(recv_queue') <= RecvPoolSize
      /\ Head(recv_queue) \in Idx
  BY TailElements DEF PoolTypeOK, CtrlTake
<1>2. ready_queue' \in Seq(Idx) /\ Len(ready_queue') <= RecvPoolSize
  BY <1>1, PutType DEF PoolTypeOK, CtrlTake
<1>3. idle_queue' \in Seq(Idx) /\ Len(idle_queue') <= RecvPoolSize
  BY <1>1, PutType DEF PoolTypeOK, CtrlTake
<1> QED
  BY <1>1, <1>2, <1>3 DEF PoolTypeOK, CtrlTake

(* the application's reads,                                                 *)
LEMMA ReaderType == ASSUME PoolTypeOK, ReaderPop \/ ReaderFree  PROVE PoolTypeOK'
<1> USE RecvPoolAssumption DEF RecvPoolAssumption
<1>1. CASE ReaderPop
  BY <1>1, TailElements DEF PoolTypeOK, ReaderPop
<1>2. CASE ReaderFree
  <2>1. idle_queue' \in Seq(Idx) /\ Len(idle_queue') <= RecvPoolSize
    BY <1>2, PutType DEF PoolTypeOK, ReaderFree
  <2> QED
    BY <1>2, <2>1 DEF PoolTypeOK, ReaderFree
<1> QED
  BY <1>1, <1>2

(* and every step that leaves the pool alone.                               *)
LEMMA PoolStutterType == ASSUME PoolTypeOK, UNCHANGED poolVars  PROVE PoolTypeOK'
BY DEF PoolTypeOK, poolVars

-----------------------------------------------------------------------------
(* Ownership, over the indices rather than their places: every index is in  *)
(* one queue once, or with one thread, and nowhere else.                    *)
HeldByRx(i) == rx.pc = "alloc" /\ rx.idx = i

Owned(i) ==
  /\ \/ Queued(i, idle_queue) \/ Queued(i, recv_queue) \/ Queued(i, ready_queue)
     \/ HeldByRx(i) \/ reader = i
  /\ Queued(i, idle_queue)  => /\ ~Queued(i, recv_queue) /\ ~Queued(i, ready_queue)
                               /\ ~HeldByRx(i) /\ reader # i
  /\ Queued(i, recv_queue)  => ~Queued(i, ready_queue) /\ ~HeldByRx(i) /\ reader # i
  /\ Queued(i, ready_queue) => ~HeldByRx(i) /\ reader # i
  /\ HeldByRx(i) => reader # i

Ownership ==
  /\ Distinct(idle_queue) /\ Distinct(recv_queue) /\ Distinct(ready_queue)
  /\ \A i \in Idx : Owned(i)

(* At the start every index is in the idle queue.                           *)
LEMMA OwnershipInit == ASSUME PoolInit PROVE Ownership
<1> USE RecvPoolAssumption DEF RecvPoolAssumption
<1>1. /\ Len(idle_queue) = RecvPoolSize
      /\ \A k \in 1 .. RecvPoolSize : idle_queue[k] = k - 1
      /\ Len(recv_queue) = 0 /\ Len(ready_queue) = 0
      /\ rx.pc = "idle" /\ reader = NoIdx
  BY DEF PoolInit, RxIdle
<1>2. Distinct(idle_queue) /\ Distinct(recv_queue) /\ Distinct(ready_queue)
  BY <1>1 DEF Distinct
<1>3. ASSUME NEW i \in Idx PROVE Queued(i, idle_queue)
  <2>1. i + 1 \in 1 .. RecvPoolSize /\ idle_queue[i + 1] = i
    BY <1>1 DEF Idx
  <2> QED
    BY <1>1, <2>1 DEF Queued
<1>4. \A i : ~Queued(i, recv_queue) /\ ~Queued(i, ready_queue)
  BY <1>1 DEF Queued
<1>5. ASSUME NEW i \in Idx PROVE Owned(i)
  <2>1. ~HeldByRx(i)
    BY <1>1 DEF HeldByRx
  <2>2. CASE reader # i
    BY <1>3, <1>4, <2>1, <2>2 DEF Owned
  <2>3. CASE reader = i
    BY <1>3, <1>4, <2>1, <2>3, <1>1 DEF Owned, NoIdx, Idx
  <2> QED
    BY <2>2, <2>3
<1> QED
  BY <1>2, <1>5 DEF Ownership

(* What the type says of the queues, and of who holds an index.             *)
LEMMA PoolTypeFacts ==
  ASSUME PoolTypeOK
  PROVE  /\ idle_queue \in Seq(Idx)  /\ Len(idle_queue) <= RecvPoolSize
         /\ recv_queue \in Seq(Idx)  /\ Len(recv_queue) <= RecvPoolSize
         /\ ready_queue \in Seq(Idx) /\ Len(ready_queue) <= RecvPoolSize
         /\ rx.pc \in {"alloc", "pushed"} => rx.idx \in Idx
         /\ reader # NoIdx => reader \in Idx
         /\ NoIdx \notin Idx
  BY RecvPoolAssumption DEF RecvPoolAssumption, PoolTypeOK, RxIdle, Idx, NoIdx

(* An index that is allocated moves from the idle queue to the thread.      *)
LEMMA RxAllocOwnership ==
  ASSUME PoolTypeOK, Ownership, NEW f \in Frames, RxAlloc(f)  PROVE Ownership'
<1>1. CASE idle_queue = << >>
  BY <1>1 DEF RxAlloc, Ownership, Owned, HeldByRx
<1>2. CASE idle_queue # << >>
  <2>1. /\ rx.pc = "idle" /\ rx'.pc = "alloc" /\ rx'.idx = Head(idle_queue)
        /\ idle_queue' = Tail(idle_queue)
        /\ recv_queue' = recv_queue /\ ready_queue' = ready_queue /\ reader' = reader
    BY <1>2 DEF RxAlloc
  <2>2. /\ Distinct(idle_queue')
        /\ \A y : Queued(y, idle_queue') <=> Queued(y, idle_queue) /\ y # Head(idle_queue)
        /\ Queued(Head(idle_queue), idle_queue)
    <3>1. Distinct(idle_queue) /\ idle_queue \in Seq(Idx)
      BY PoolTypeFacts DEF Ownership
    <3> QED
      BY <1>2, <2>1, <3>1, TailDistinct
  <2>3. \A i : ~HeldByRx(i) /\ (HeldByRx(i)' <=> i = Head(idle_queue))
    BY <2>1 DEF HeldByRx
  <2>4. ASSUME NEW i \in Idx PROVE Owned(i)'
    <3>1. Owned(i)
      BY DEF Ownership
    <3> QED
      BY <2>1, <2>2, <2>3, <3>1 DEF Owned
  <2> QED
    BY <2>1, <2>2, <2>4 DEF Ownership
<1> QED
  BY <1>1, <1>2

(* A pushed index moves from the thread to recv_queue, which has room.      *)
LEMMA RxPushOwnership ==
  ASSUME PoolTypeOK, Ownership, RxPush  PROVE Ownership'
<1>1. /\ rx.pc = "alloc" /\ rx.idx \in Idx
      /\ \A i : HeldByRx(i) <=> i = rx.idx
      /\ ready_queue' = ready_queue /\ reader' = reader
  BY PoolTypeFacts DEF RxPush, HeldByRx
<1>2. ~Queued(rx.idx, recv_queue) /\ ~Queued(rx.idx, idle_queue)
  BY <1>1 DEF Ownership, Owned
<1>3. /\ recv_queue \in Seq(Idx) /\ Len(recv_queue) <= RecvPoolSize /\ Distinct(recv_queue)
  BY PoolTypeFacts DEF Ownership
<1>4. HasRoom(recv_queue, RecvPoolSize)
  BY <1>1, <1>2, <1>3, RoomForMissing
<1>5. /\ recv_queue' = Append(recv_queue, rx.idx)
      /\ rx'.pc = "pushed" /\ idle_queue' = idle_queue
  BY <1>4 DEF RxPush
<1>6. /\ Distinct(recv_queue')
      /\ \A y : Queued(y, recv_queue') <=> Queued(y, recv_queue) \/ y = rx.idx
  BY <1>1, <1>2, <1>3, <1>5, AppendDistinct
<1>7. \A i : ~HeldByRx(i)'
  BY <1>5 DEF HeldByRx
<1>8. ASSUME NEW i \in Idx PROVE Owned(i)'
  <2>1. Owned(i)
    BY DEF Ownership
  <2> QED
    BY <1>1, <1>5, <1>6, <1>7, <2>1 DEF Owned
<1> QED
  BY <1>1, <1>5, <1>6, <1>8 DEF Ownership

(* A post that succeeds moves nothing.                                      *)
LEMMA RxPostOwnership ==
  ASSUME Ownership, RxPost(TRUE)  PROVE Ownership'
<1>1. /\ rx.pc = "pushed" /\ rx'.pc = "idle"
      /\ UNCHANGED <<idle_queue, recv_queue, ready_queue, reader>>
  BY DEF RxPost, RxIdle
<1>2. \A i : ~HeldByRx(i) /\ ~HeldByRx(i)'
  BY <1>1 DEF HeldByRx
<1> QED
  BY <1>1, <1>2 DEF Ownership, Owned

(* A frame that is taken moves its index to ready_queue or back.            *)
LEMMA CtrlTakeOwnership ==
  ASSUME PoolTypeOK, Ownership, NEW accept \in BOOLEAN, CtrlTake(accept)  PROVE Ownership'
<1> DEFINE h == Head(recv_queue)
<1>1. /\ recv_queue # << >> /\ recv_queue \in Seq(Idx) /\ Distinct(recv_queue)
      /\ recv_queue' = Tail(recv_queue)
      /\ UNCHANGED <<rx, reader>>
  BY PoolTypeFacts DEF CtrlTake, Ownership
<1>2. /\ h \in Idx
      /\ Distinct(recv_queue')
      /\ \A y : Queued(y, recv_queue') <=> Queued(y, recv_queue) /\ y # h
      /\ Queued(h, recv_queue)
  BY <1>1, TailDistinct, TailElements
<1>3. ~Queued(h, ready_queue) /\ ~Queued(h, idle_queue) /\ ~HeldByRx(h) /\ reader # h
  BY <1>2 DEF Ownership, Owned
<1>4. \A i : HeldByRx(i)' <=> HeldByRx(i)
  BY <1>1 DEF HeldByRx
<1>5. CASE accept
  <2>1. ready_queue' = Put(ready_queue, h, RecvPoolSize) /\ idle_queue' = idle_queue
    BY <1>5 DEF CtrlTake
  <2>2. /\ Distinct(ready_queue')
        /\ \A y : Queued(y, ready_queue') <=> Queued(y, ready_queue) \/ y = h
    <3>1. /\ ready_queue \in Seq(Idx) /\ Len(ready_queue) <= RecvPoolSize
          /\ Distinct(ready_queue)
      BY PoolTypeFacts DEF Ownership
    <3> QED
      BY <1>2, <1>3, <2>1, <3>1, PutMissing
  <2>3. ASSUME NEW i \in Idx PROVE Owned(i)'
    <3>1. Owned(i)
      BY DEF Ownership
    <3> HIDE DEF h
    <3> QED
      BY <1>1, <1>2, <1>3, <1>4, <2>1, <2>2, <3>1 DEF Owned
  <2> QED
    BY <1>2, <2>1, <2>2, <2>3 DEF Ownership
<1>6. CASE ~accept
  <2>1. idle_queue' = Put(idle_queue, h, RecvPoolSize) /\ ready_queue' = ready_queue
    BY <1>6 DEF CtrlTake
  <2>2. /\ Distinct(idle_queue')
        /\ \A y : Queued(y, idle_queue') <=> Queued(y, idle_queue) \/ y = h
    <3>1. /\ idle_queue \in Seq(Idx) /\ Len(idle_queue) <= RecvPoolSize
          /\ Distinct(idle_queue)
      BY PoolTypeFacts DEF Ownership
    <3> QED
      BY <1>2, <1>3, <2>1, <3>1, PutMissing
  <2>3. ASSUME NEW i \in Idx PROVE Owned(i)'
    <3>1. Owned(i)
      BY DEF Ownership
    <3> HIDE DEF h
    <3> QED
      BY <1>1, <1>2, <1>3, <1>4, <2>1, <2>2, <3>1 DEF Owned
  <2> QED
    BY <1>2, <2>1, <2>2, <2>3 DEF Ownership
<1> QED
  BY <1>5, <1>6

(* The application takes an index out of ready_queue and gives it back.     *)
LEMMA ReaderOwnership ==
  ASSUME PoolTypeOK, Ownership, ReaderPop \/ ReaderFree  PROVE Ownership'
<1>1. CASE ReaderPop
  <2>1. /\ reader = NoIdx /\ ready_queue # << >>
        /\ reader' = Head(ready_queue) /\ ready_queue' = Tail(ready_queue)
        /\ UNCHANGED <<idle_queue, recv_queue, rx>>
    BY <1>1 DEF ReaderPop
  <2>2. ready_queue \in Seq(Idx) /\ Distinct(ready_queue) /\ NoIdx \notin Idx
    BY PoolTypeFacts DEF Ownership
  <2>3. /\ Distinct(ready_queue')
        /\ \A y : Queued(y, ready_queue') <=> Queued(y, ready_queue) /\ y # reader'
        /\ Queued(reader', ready_queue)
    BY <2>1, <2>2, TailDistinct
  <2>4. ASSUME NEW i \in Idx PROVE Owned(i)'
    <3>1. Owned(i) /\ reader # i /\ (HeldByRx(i)' <=> HeldByRx(i))
      BY <2>1, <2>2 DEF Ownership, HeldByRx
    <3> QED
      BY <2>1, <2>3, <3>1 DEF Owned
  <2> QED
    BY <2>1, <2>3, <2>4 DEF Ownership
<1>2. CASE ReaderFree
  <2>1. /\ reader \in Idx /\ reader' = NoIdx /\ NoIdx \notin Idx
        /\ idle_queue' = Put(idle_queue, reader, RecvPoolSize)
        /\ UNCHANGED <<recv_queue, ready_queue, rx>>
    BY <1>2, PoolTypeFacts DEF ReaderFree
  <2>2. ~Queued(reader, idle_queue)
    BY <2>1 DEF Ownership, Owned
  <2>3. /\ Distinct(idle_queue')
        /\ \A y : Queued(y, idle_queue') <=> Queued(y, idle_queue) \/ y = reader
    <3>1. idle_queue \in Seq(Idx) /\ Len(idle_queue) <= RecvPoolSize /\ Distinct(idle_queue)
      BY PoolTypeFacts DEF Ownership
    <3> QED
      BY <2>1, <2>2, <3>1, PutMissing
  <2>4. ASSUME NEW i \in Idx PROVE Owned(i)'
    <3>1. Owned(i) /\ reader' # i /\ (HeldByRx(i)' <=> HeldByRx(i))
      BY <2>1 DEF Ownership, HeldByRx
    <3> QED
      BY <2>1, <2>3, <3>1 DEF Owned
  <2> QED
    BY <2>1, <2>3, <2>4 DEF Ownership
<1> QED
  BY <1>1, <1>2

(* Ownership says what the users' invariant says of the places.             *)
LEMMA OwnershipPlaces ==
  ASSUME PoolTypeOK, Ownership, NEW i \in Idx
  PROVE  \E p \in Places(i) : Places(i) = {p}
<1>1. Owned(i) /\ Distinct(idle_queue) /\ Distinct(recv_queue) /\ Distinct(ready_queue)
  BY DEF Ownership
<1>2. CASE Queued(i, idle_queue)
  <2>1. PICK k \in 1 .. Len(idle_queue) : idle_queue[k] = i
    BY <1>2 DEF Queued
  <2>2. Places(i) = {<<"idle", k>>}
    BY <1>1, <1>2, <2>1 DEF Owned, HeldByRx, Queued, Distinct, Places
  <2> QED
    BY <2>2
<1>3. CASE Queued(i, recv_queue)
  <2>1. PICK k \in 1 .. Len(recv_queue) : recv_queue[k] = i
    BY <1>3 DEF Queued
  <2>2. Places(i) = {<<"recv", k>>}
    BY <1>1, <1>3, <2>1 DEF Owned, HeldByRx, Queued, Distinct, Places
  <2> QED
    BY <2>2
<1>4. CASE Queued(i, ready_queue)
  <2>1. PICK k \in 1 .. Len(ready_queue) : ready_queue[k] = i
    BY <1>4 DEF Queued
  <2>2. Places(i) = {<<"ready", k>>}
    BY <1>1, <1>4, <2>1 DEF Owned, HeldByRx, Queued, Distinct, Places
  <2> QED
    BY <2>2
<1>5. CASE HeldByRx(i)
  <2>1. Places(i) = {<<"rx", 0>>}
    BY <1>1, <1>5 DEF Owned, HeldByRx, Queued, Places
  <2> QED
    BY <2>1
<1>6. CASE reader = i
  <2>1. Places(i) = {<<"reader", 0>>}
    BY <1>1, <1>6 DEF Owned, HeldByRx, Queued, Places
  <2> QED
    BY <2>1
<1> QED
  BY <1>1, <1>2, <1>3, <1>4, <1>5, <1>6 DEF Owned

=============================================================================
