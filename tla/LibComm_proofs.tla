--------------------------- MODULE LibComm_proofs ---------------------------
(***************************************************************************)
(* NoGapOnWire for every length of frame, every width of size_t above it    *)
(* and every size of the transmit queue.                                    *)
(***************************************************************************)
EXTENDS LibComm, TLAPS

(* The constants, with the value drv_socket_send returns for an error above *)
(* every length.                                                            *)
LEMMA Constants ==
  /\ FrameLen \in Nat /\ FrameLen > 0 /\ SizeRange \in Nat
  /\ MinusOne \in Nat /\ MinusOne > FrameLen /\ MinusOne <= SizeRange - 1
  /\ TxQueueSize \in Nat /\ NoFrame \notin Frames
BY LibCommAssumption DEF LibCommAssumption, MinusOne

(* Adding (size_t)-1 takes one away, or gives (size_t)-1.                   *)
LEMMA AddMinusOne ==
  ASSUME NEW total \in 0 .. SizeRange - 1
  PROVE  (total + MinusOne) % SizeRange = IF total = 0 THEN MinusOne ELSE total - 1
<1>0. SizeRange \in Nat /\ SizeRange > 0 /\ MinusOne = SizeRange - 1
  BY Constants DEF MinusOne
<1>1. CASE total = 0
  BY <1>0, <1>1
<1>2. CASE total # 0
  <2>1. total + MinusOne = (total - 1) + SizeRange /\ total - 1 \in 0 .. SizeRange - 1
    BY <1>0, <1>2
  <2>2. ((total - 1) + SizeRange) % SizeRange = total - 1
    BY <1>0, <2>1
  <2> QED
    BY <1>2, <2>1, <2>2
<1> QED
  BY <1>1, <1>2

(* Of the type invariant and NoGapOnWire, what speaks of the send thread.   *)
SendInv == TypeOK /\ NoGapOnWire /\ (tx.pc = "send" => tx.sent = 0)

(* The program starts with nothing sent.                                    *)
LEMMA LibInit == ASSUME Init PROVE SendInv
<1>1. tx = TxIdle /\ TxIdle \in TxRecord /\ TxIdle.sent # FrameLen /\ TxIdle.pc = "idle"
  BY Constants DEF Init, TxIdle, TxRecord
<1>2. tx_queue \in Seq(Frames) /\ Len(tx_queue) <= TxQueueSize
  BY Constants DEF Init
<1>3. sock \in [fd : BOOLEAN, connected : BOOLEAN] /\ peer \in {"connecting", "up", "gone"}
  <2>1. \A b \in BOOLEAN : [fd |-> b, connected |-> b] \in [fd : BOOLEAN, connected : BOOLEAN]
    OBVIOUS
  <2>2. sock = [fd |-> TRUE, connected |-> TRUE] \/ sock = [fd |-> FALSE, connected |-> FALSE]
    BY DEF Init
  <2>3. peer \in {"connecting", "up", "gone"}
    BY DEF Init
  <2> QED
    BY <2>1, <2>2, <2>3
<1>4. TypeOK
  BY <1>1, <1>2, <1>3 DEF Init, TypeOK
<1> QED
  BY <1>1, <1>4 DEF SendInv, NoGapOnWire

(* A step of drv_socket_send's loop changes tx only.                        *)
LEMMA SendTypes ==
  ASSUME TypeOK, tx' \in TxRecord, SendFails \/ \E n : SendAccepts(n)
  PROVE  TypeOK'
BY DEF TypeOK, SendFails, SendAccepts, txVars

(* A send() that accepts a part: the next byte follows the last one given.  *)
LEMMA AcceptStep ==
  ASSUME SendInv, NEW n, SendAccepts(n)  PROVE SendInv'
<1>0. /\ tx \in TxRecord
      /\ tx.pc = "send" /\ tx.total < FrameLen /\ tx.total <= tx.high /\ tx.sent = 0
      /\ n \in 1 .. FrameLen - tx.total
  BY DEF SendInv, TypeOK, NoGapOnWire, SendAccepts, TxRecord
<1>1. /\ n \in Nat /\ n > 0 /\ tx.total \in Nat /\ tx.high \in Nat /\ tx.accepted \in Nat
      /\ tx.total + n \in Nat /\ tx.total + n <= FrameLen /\ tx.high <= FrameLen
  BY <1>0, Constants DEF TxRecord
<1> DEFINE accepted == IF tx.accepted + n > FrameLen THEN FrameLen + 1 ELSE tx.accepted + n
           high == IF tx.total + n > tx.high THEN tx.total + n ELSE tx.high
<1>2. /\ accepted \in 0 .. FrameLen + 1 /\ high \in 0 .. FrameLen /\ high >= tx.total + n
      /\ tx.total + n \in 0 .. SizeRange - 1 /\ FrameLen \in 0 .. SizeRange - 1
  BY <1>1, Constants
<1>3. tx' = [Round(tx.total + n) EXCEPT !.accepted = accepted, !.high = high]
  BY <1>0 DEF SendAccepts, Round
<1> HIDE DEF accepted, high
<1>4. CASE tx.total + n < FrameLen
  <2>1. tx' = [tx EXCEPT !.total = tx.total + n, !.accepted = accepted, !.high = high]
    BY <1>0, <1>3, <1>4 DEF Round
  <2>2. tx' \in TxRecord
    BY <1>0, <1>2, <2>1 DEF TxRecord
  <2>3. tx'.pc = "send" /\ tx'.sent = 0 /\ tx'.total = tx.total + n /\ tx'.high = high
    BY <1>0, <2>1 DEF TxRecord
  <2> QED
    BY <1>2, <1>4, <2>2, <2>3, SendTypes, Constants DEF SendInv, NoGapOnWire
<1>5. CASE ~(tx.total + n < FrameLen)
  <2>1. tx.total + n = FrameLen
    BY <1>1, <1>5, Constants
  <2>2. tx' = [tx EXCEPT !.pc = "idle", !.total = FrameLen, !.sent = FrameLen,
                         !.accepted = accepted, !.high = high]
    BY <1>0, <1>3, <1>5, <2>1 DEF Round
  <2>3. tx' \in TxRecord
    BY <1>0, <1>2, <2>2 DEF TxRecord
  <2>4. high = FrameLen
    BY <1>2, <2>1, Constants
  <2>5. tx'.pc = "idle" /\ tx'.high = FrameLen
    BY <1>0, <2>2, <2>4 DEF TxRecord
  <2> QED
    BY <2>3, <2>5, SendTypes DEF SendInv, NoGapOnWire
<1> QED
  BY <1>4, <1>5

(* A send() that fails: one byte back, or out of the loop with (size_t)-1.  *)
LEMMA FailStep ==
  ASSUME SendInv, SendFails  PROVE SendInv'
<1>0. /\ tx \in TxRecord
      /\ tx.pc = "send" /\ tx.total < FrameLen /\ tx.total <= tx.high /\ tx.sent = 0
      /\ tx' = Round((tx.total + MinusOne) % SizeRange)
  BY DEF SendInv, TypeOK, NoGapOnWire, SendFails
<1>1. tx.total \in 0 .. SizeRange - 1 /\ MinusOne \in 0 .. SizeRange - 1
  BY <1>0, Constants DEF TxRecord
<1>2. CASE tx.total = 0
  <2>1. tx' = [tx EXCEPT !.pc = "idle", !.total = MinusOne, !.sent = MinusOne]
    <3>1. (tx.total + MinusOne) % SizeRange = MinusOne
      BY <1>1, <1>2, AddMinusOne
    <3>2. tx' = Round(MinusOne)
      BY <1>0, <3>1
    <3> QED
      BY <3>2, Constants DEF Round
  <2>2. tx' \in TxRecord /\ tx'.pc = "idle" /\ tx'.sent = MinusOne
    BY <1>0, <1>1, <2>1 DEF TxRecord
  <2> QED
    BY <2>2, SendTypes, Constants DEF SendInv, NoGapOnWire
<1>3. CASE tx.total # 0
  <2>1. tx' = [tx EXCEPT !.total = tx.total - 1]
    <3>1. (tx.total + MinusOne) % SizeRange = tx.total - 1
      BY <1>1, <1>3, AddMinusOne
    <3>2. tx.total - 1 < FrameLen
      BY <1>0, <1>1, Constants
    <3>3. tx' = Round(tx.total - 1)
      BY <1>0, <3>1
    <3> QED
      BY <1>1, <3>2, <3>3 DEF Round
  <2>2. /\ tx' \in TxRecord /\ tx'.pc = "send" /\ tx'.sent = 0
        /\ tx'.total = tx.total - 1 /\ tx'.high = tx.high
    <3>1. tx.total - 1 \in 0 .. SizeRange - 1
      BY <1>3, <1>1, Constants
    <3> QED
      BY <1>0, <2>1, <3>1 DEF TxRecord
  <2> QED
    BY <1>0, <2>2, SendTypes, Constants DEF SendInv, NoGapOnWire, TxRecord
<1> QED
  BY <1>2, <1>3

(* The queue's steps keep it within its type and its size; a new frame      *)
(* starts with nothing given.                                               *)
LEMMA QueueStep ==
  ASSUME SendInv, SendProcess \/ \E f \in Frames : SendFunc(f)  PROVE SendInv'
<1>0. tx_queue \in Seq(Frames) /\ Len(tx_queue) <= TxQueueSize
  BY DEF SendInv, TypeOK
<1>1. CASE SendProcess
  <2>1. tx_queue # << >> /\ tx_queue' = Tail(tx_queue)
    BY <1>1 DEF SendProcess
  <2>2. /\ tx_queue' \in Seq(Frames) /\ Len(tx_queue') <= TxQueueSize
        /\ Head(tx_queue) \in Frames
    BY <1>0, <2>1, Constants
  <2>3. \/ tx' = [pc |-> "send", frame |-> Head(tx_queue), total |-> 0, sent |-> 0,
                  accepted |-> 0, high |-> 0]
        \/ tx' = [pc |-> "idle", frame |-> Head(tx_queue), total |-> 0, sent |-> MinusOne,
                  accepted |-> 0, high |-> 0]
    BY <1>1 DEF SendProcess, TxIdle
  <2>4. tx' \in TxRecord
    BY <2>2, <2>3, Constants DEF TxRecord
  <2>5. TypeOK'
    BY <1>1, <2>2, <2>4 DEF SendInv, TypeOK, SendProcess
  <2>6. /\ tx'.pc = "send" => tx'.total = 0 /\ tx'.high = 0 /\ tx'.sent = 0
        /\ tx'.sent # FrameLen
    BY <2>3, Constants
  <2> QED
    BY <2>5, <2>6, Constants DEF SendInv, NoGapOnWire
<1>2. ASSUME NEW f \in Frames, SendFunc(f)
      PROVE  SendInv'
  <2>1. tx_queue' \in Seq(Frames) /\ Len(tx_queue') <= TxQueueSize
    BY <1>0, <1>2, Constants DEF SendFunc, Put, HasRoom
  <2> QED
    BY <1>2, <2>1 DEF SendInv, TypeOK, NoGapOnWire, SendFunc
<1> QED
  BY <1>1, <1>2

(* Every step keeps the invariant.                                          *)
LEMMA LibStep == ASSUME SendInv, [Next]_libVars PROVE SendInv'
<1>1. CASE TxQueueInit \/ SendKilled \/ PeerMoves \/ RecvFull \/ RecvEnd
  BY <1>1 DEF SendInv, TypeOK, NoGapOnWire, TxQueueInit, SendKilled, PeerMoves, RecvFull,
              RecvEnd, txVars
<1>2. CASE UNCHANGED libVars
  BY <1>2 DEF SendInv, TypeOK, NoGapOnWire, libVars, txVars
<1> QED
  BY <1>1, <1>2, AcceptStep, FailStep, QueueStep DEF Next, SendLoop

(* The glue's and the driver's variables keep their types.                  *)
THEOREM LibTypeCorrect == Spec => []TypeOK
<1>1. SendInv => TypeOK
  BY DEF SendInv
<1> QED
  BY <1>1, LibInit, LibStep, PTL DEF Spec

(* However send() splits and fails, no byte of a frame is left out before   *)
(* a later one, and a call that returns the length has given them all.      *)
THEOREM NoByteLeftOut == Spec => []NoGapOnWire
<1>1. SendInv => NoGapOnWire
  BY DEF SendInv
<1> QED
  BY <1>1, LibInit, LibStep, PTL DEF Spec

=============================================================================
