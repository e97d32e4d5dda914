--------------------------- MODULE CommCtrl_proofs --------------------------
(***************************************************************************)
(* Proofs about the controller: its types, the invariants of its waits, and *)
(* that it implements CommandService, for every size of every queue.        *)
(***************************************************************************)
EXTENDS CommCtrl, RecvPool_proofs

-----------------------------------------------------------------------------
(* Types                                                                    *)

(* The initial state is well typed.                                         *)
LEMMA InitType == ASSUME Init PROVE TypeOK
<1> USE CommCtrlAssumption DEF CommCtrlAssumption
<1>1. PoolTypeOK
  BY PoolInitType DEF Init
<1>2. cur_cmd \in [cmd_type : CmdTypes, send_data : Cmds \union {NoCmd},
                   retry_count : 0 .. MaxRetry, is_timeout : BOOLEAN]
  BY DEF CmdTypes, Init
<1>3. line \in [Cmds -> 0 .. MaxOnLine]
  BY DEF Init
<1>4. /\ event_queue \in Seq(Events) /\ Len(event_queue) <= EventQueueSize
      /\ msg_queue \in Seq(Messages) /\ Len(msg_queue) <= MsgQueueSize
      /\ single_cmd_queue \in Seq(Singles) /\ Len(single_cmd_queue) <= SingleQueueSize
  BY DEF Init
<1>5. /\ fsm_state \in States /\ ctrl_pc \in {"receive", "poll"}
      /\ period_cmd \in Periods \union {ZeroCmd} /\ period_write \in Periods \union {NoCmd}
      /\ start_pc \in {"idle", "notify"} /\ starts \in 0 .. MaxStarts
  BY DEF Init, States
<1>6. timeout_timer \in BOOLEAN /\ preiod_timer \in BOOLEAN /\ timeout_lost \in BOOLEAN
  BY DEF Init
<1> QED
  BY <1>1, <1>2, <1>3, <1>4, <1>5, <1>6 DEF TypeOK

(* What a read of period_cmd may return is a period value.                  *)
LEMMA PeriodReadType == TypeOK => PeriodRead \subseteq PeriodValues
BY DEF TypeOK, PeriodRead, PeriodValues

(* fsm_send_event keeps an event queue within its type and size.            *)
LEMMA SendEventType ==
  ASSUME NEW q \in Seq(Events), Len(q) <= EventQueueSize, NEW e \in Events
  PROVE  SendEvent(q, e) \in Seq(Events) /\ Len(SendEvent(q, e)) <= EventQueueSize
BY PutType, CommCtrlAssumption DEF SendEvent, CommCtrlAssumption

(* comm_ctrl_send_msg keeps the message queue within its type and size.     *)
LEMMA SendMsgType ==
  ASSUME TypeOK, NEW m \in Messages, SendMsg(m)
  PROVE  msg_queue' \in Seq(Messages) /\ Len(msg_queue') <= MsgQueueSize
BY PutType, CommCtrlAssumption DEF TypeOK, SendMsg, CommCtrlAssumption

(* So does taking an event, which leaves room for another.                  *)
LEMMA EventTailType ==
  ASSUME TypeOK, event_queue # << >>
  PROVE  Tail(event_queue) \in Seq(Events) /\ Len(Tail(event_queue)) <= EventQueueSize
<1>1. event_queue \in Seq(Events) /\ Len(event_queue) <= EventQueueSize
  BY DEF TypeOK
<1>2. /\ Tail(event_queue) \in Seq(Events)
      /\ Len(Tail(event_queue)) = Len(event_queue) - 1
      /\ Len(event_queue) \in Nat
  BY <1>1, TailElements
<1> QED
  BY <1>1, <1>2, CommCtrlAssumption DEF CommCtrlAssumption

(* comm_ctrl_send_cmd keeps what it changes well typed.                     *)
LEMMA SendCmdType ==
  ASSUME TypeOK, SendCmd
  PROVE  /\ cur_cmd' \in [cmd_type : CmdTypes, send_data : Cmds \union {NoCmd},
                          retry_count : 0 .. MaxRetry, is_timeout : BOOLEAN]
         /\ single_cmd_queue' \in Seq(Singles) /\ Len(single_cmd_queue') <= SingleQueueSize
         /\ timeout_timer' \in BOOLEAN /\ timeout_lost' \in BOOLEAN
         /\ line' \in [Cmds -> 0 .. MaxOnLine]
<1> USE CommCtrlAssumption DEF CommCtrlAssumption
<1> DEFINE Typed ==
      /\ cur_cmd' \in [cmd_type : CmdTypes, send_data : Cmds \union {NoCmd},
                        retry_count : 0 .. MaxRetry, is_timeout : BOOLEAN]
      /\ single_cmd_queue' \in Seq(Singles) /\ Len(single_cmd_queue') <= SingleQueueSize
<1>1. ASSUME cur_cmd' = [cur_cmd EXCEPT !.is_timeout = FALSE], UNCHANGED single_cmd_queue
      PROVE  Typed
  BY <1>1 DEF TypeOK
<1>2. ASSUME single_cmd_queue # << >>,
             cur_cmd' = LoadDataToCmd(Head(single_cmd_queue), "SINGLE", TRUE),
             single_cmd_queue' = Tail(single_cmd_queue)
      PROVE  Typed
  <2>1. single_cmd_queue \in Seq(Singles) /\ Len(single_cmd_queue) <= SingleQueueSize
    BY DEF TypeOK
  <2>2. /\ Tail(single_cmd_queue) \in Seq(Singles)
        /\ Len(Tail(single_cmd_queue)) = Len(single_cmd_queue) - 1
        /\ Len(single_cmd_queue) \in Nat
        /\ Head(single_cmd_queue) \in Singles
    BY <1>2, <2>1, TailElements
  <2>3. cur_cmd' \in [cmd_type : CmdTypes, send_data : Cmds \union {NoCmd},
                      retry_count : 0 .. MaxRetry, is_timeout : BOOLEAN]
    BY <1>2, <2>2 DEF LoadDataToCmd, Cmds, CmdTypes
  <2>4. Len(Tail(single_cmd_queue)) <= SingleQueueSize
    BY <2>1, <2>2
  <2> QED
    BY <1>2, <2>2, <2>3, <2>4
<1>3. ASSUME NEW c \in PeriodRead, UNCHANGED single_cmd_queue,
             cur_cmd' = LoadDataToCmd(c, "PERIOD", cur_cmd.cmd_type # "PERIOD")
      PROVE  Typed
  <2>1. c \in Cmds
    BY <1>3, PeriodReadType DEF Cmds
  <2> QED
    BY <1>3, <2>1 DEF LoadDataToCmd, TypeOK, CmdTypes
<1>4. timeout_timer' \in BOOLEAN /\ timeout_lost' \in BOOLEAN
  BY DEF SendCmd
<1>5. line' \in [Cmds -> 0 .. MaxOnLine]
  <2>0. Transmit(cur_cmd'.send_data)
    BY DEF SendCmd
  <2>1. \/ \E d : line' = [line EXCEPT ![d] = IF @ < MaxOnLine THEN @ + 1 ELSE @]
        \/ line' = line
    BY <2>0 DEF Transmit
  <2>2. line \in [Cmds -> 0 .. MaxOnLine]
    BY DEF TypeOK
  <2>3. ASSUME NEW d, line' = [line EXCEPT ![d] = IF @ < MaxOnLine THEN @ + 1 ELSE @]
        PROVE  line' \in [Cmds -> 0 .. MaxOnLine]
    <3>1. CASE d \in Cmds
      BY <2>2, <2>3, <3>1
    <3>2. CASE d \notin Cmds
      BY <2>2, <2>3, <3>2
    <3> QED
      BY <3>1, <3>2
  <2> QED
    BY <2>1, <2>2, <2>3
<1>6. Typed
  BY <1>1, <1>2, <1>3 DEF SendCmd
<1> QED
  BY <1>4, <1>5, <1>6

(* Every message handler keeps the pool and the event queue well typed.     *)
LEMMA DispatchType ==
  ASSUME TypeOK, NEW m, Dispatch(m)
  PROVE  PoolTypeOK' /\ event_queue' \in Seq(Events) /\ Len(event_queue') <= EventQueueSize
<1> USE DEF TypeOK
<1>1. CASE UNCHANGED <<event_queue, poolVars>>
  BY <1>1, PoolStutterType
<1>2. CASE /\ \E e \in Events : event_queue' = SendEvent(event_queue, e)
           /\ UNCHANGED poolVars
  BY <1>2, SendEventType, PoolStutterType
<1>3. CASE m = "RECV_DATA" /\ RecvData(event_queue)
  <2>1. CASE recv_queue = << >> /\ event_queue' = event_queue /\ UNCHANGED poolVars
    BY <2>1, PoolStutterType
  <2>2. CASE /\ CtrlTake(fsm_state = "WAIT_RESP")
             /\ event_queue' = IF fsm_state = "WAIT_RESP"
                               THEN SendEvent(event_queue, "RECV_RESP") ELSE event_queue
    <3>1. PoolTypeOK'
      BY <2>2, CtrlTakeType
    <3> QED
      BY <2>2, <3>1, SendEventType DEF Events
  <2> QED
    BY <1>3, <2>1, <2>2 DEF RecvData
<1> QED
  BY <1>1, <1>2, <1>3 DEF Dispatch, Events

(* The rows of the transition table, one disjunct each.                     *)
Row(s, e, n, A) == fsm_state = s /\ Head(event_queue) = e /\ fsm_state' = n /\ A

(* A polled event that matches is one row of the transition table.          *)
LEMMA PollCases ==
  ASSUME PollMatched
  PROVE  /\ ctrl_pc = "poll" /\ event_queue # << >>
         /\ UNCHANGED <<ctrl_pc, msg_queue, perVars, startVars, poolVars>>
         /\ \/ Row("NONE",      "START",        "IDLE",      ActionStart)
            \/ Row("IDLE",      "SEND_CYCLE",   "WAIT_RESP", ActionSendCycle)
            \/ Row("WAIT_RESP", "RECV_RESP",    "IDLE",      ActionRecvResp)
            \/ Row("WAIT_RESP", "RECV_TIMEOUT", "IDLE",      ActionRespTimeout)
            \/ Row("IDLE",      "ERROR",        "ERROR",     ActionError)
            \/ Row("ERROR",     "RESTART",      "IDLE",      ActionStart)
<1>1. PICK t \in Transitions :
        /\ t.state = fsm_state /\ t.event = Head(event_queue)
        /\ RunAction(t.action) /\ fsm_state' = t.next
  BY DEF PollMatched
<1>2. /\ RunAction("start") => ActionStart
      /\ RunAction("send_cycle") => ActionSendCycle
      /\ RunAction("recv_resp") => ActionRecvResp
      /\ RunAction("resp_timeout") => ActionRespTimeout
      /\ RunAction("error") => ActionError
  BY DEF RunAction
<1>3. /\ ctrl_pc = "poll" /\ event_queue # << >>
      /\ UNCHANGED <<ctrl_pc, msg_queue, perVars, startVars, poolVars>>
  BY DEF PollMatched
<1> QED
  BY <1>1, <1>2, <1>3 DEF Transitions, Transition, Row

(* Running a row of the table keeps every variable well typed.              *)
LEMMA PollMatchedType == ASSUME TypeOK, PollMatched PROVE TypeOK'
<1>1. /\ Tail(event_queue) \in Seq(Events) /\ Len(Tail(event_queue)) <= EventQueueSize
      /\ SendEvent(Tail(event_queue), "SEND_CYCLE") \in Seq(Events)
      /\ Len(SendEvent(Tail(event_queue), "SEND_CYCLE")) <= EventQueueSize
  BY EventTailType, SendEventType, PollCases DEF Events
<1>2. PoolTypeOK'
  BY PollCases, PoolStutterType DEF TypeOK
<1>3. ctrl_pc' = ctrl_pc /\ msg_queue' = msg_queue
      /\ period_cmd' = period_cmd /\ period_write' = period_write
      /\ start_pc' = start_pc /\ starts' = starts
  BY PollCases DEF perVars, startVars
<1>4. cur_cmd \in [cmd_type : CmdTypes, send_data : Cmds \union {NoCmd},
                   retry_count : 0 .. MaxRetry, is_timeout : BOOLEAN]
  BY DEF TypeOK
<1>5. fsm_state' \in States
  BY PollCases DEF Row, States
<1>a. CASE ActionStart
  <2>1. cur_cmd' \in [cmd_type : CmdTypes, send_data : Cmds \union {NoCmd},
                      retry_count : 0 .. MaxRetry, is_timeout : BOOLEAN]
    BY <1>a, <1>4 DEF ActionStart, CmdTypes
  <2>2. preiod_timer' \in BOOLEAN
    BY <1>a DEF ActionStart
  <2> QED
    BY <1>a, <1>1, <1>2, <1>3, <1>5, <2>1, <2>2 DEF TypeOK, ActionStart
<1>b. CASE ActionSendCycle
  <2>1. SendCmd /\ event_queue' = Tail(event_queue) /\ preiod_timer' = preiod_timer
    BY <1>b DEF ActionSendCycle
  <2> QED
    BY <2>1, <1>1, <1>2, <1>3, <1>5, SendCmdType DEF TypeOK
<1>c. CASE ActionRecvResp
  <2>1. cur_cmd' \in [cmd_type : CmdTypes, send_data : Cmds \union {NoCmd},
                      retry_count : 0 .. MaxRetry, is_timeout : BOOLEAN]
    <3>1. MaxRetry \in 0 .. MaxRetry
      BY CommCtrlAssumption DEF CommCtrlAssumption
    <3>2. cur_cmd' = [cur_cmd EXCEPT !.is_timeout = FALSE, !.retry_count = MaxRetry]
      BY <1>c DEF ActionRecvResp
    <3> QED
      BY <1>4, <3>1, <3>2
  <2>2. timeout_timer' \in BOOLEAN
    BY <1>c DEF ActionRecvResp
  <2> QED
    BY <1>c, <1>1, <1>2, <1>3, <1>5, <2>1, <2>2 DEF TypeOK, ActionRecvResp
<1>d. CASE ActionRespTimeout
  <2>1. cur_cmd' \in [cmd_type : CmdTypes, send_data : Cmds \union {NoCmd},
                      retry_count : 0 .. MaxRetry, is_timeout : BOOLEAN]
    BY <1>d, <1>4 DEF ActionRespTimeout
  <2> QED
    BY <1>d, <1>1, <1>2, <1>3, <1>5, <2>1 DEF TypeOK, ActionRespTimeout, timerVars
<1>e. CASE ActionError
  <2>2. timeout_timer' \in BOOLEAN /\ preiod_timer' \in BOOLEAN
    BY <1>e DEF ActionError
  <2> QED
    BY <1>e, <1>1, <1>2, <1>3, <1>5, <2>2 DEF TypeOK, ActionError, cmdVars
<1> QED
  BY <1>a, <1>b, <1>c, <1>d, <1>e, PollCases DEF Row

(* Every step does.                                                         *)
LEMMA TypeStep == ASSUME TypeOK, [Next]_vars PROVE TypeOK'
<1> USE DEF fsmVars, cmdVars, perVars, timerVars, startVars
<1>1. CASE Receive
  <2>1. msg_queue' \in Seq(Messages) /\ Len(msg_queue') <= MsgQueueSize
    <3>1. /\ msg_queue \in Seq(Messages) /\ Len(msg_queue) <= MsgQueueSize
          /\ msg_queue # << >> /\ msg_queue' = Tail(msg_queue)
      BY <1>1 DEF TypeOK, Receive
    <3>2. /\ Tail(msg_queue) \in Seq(Messages) /\ Len(msg_queue) \in Nat
          /\ Len(Tail(msg_queue)) = Len(msg_queue) - 1
      BY <3>1, TailElements
    <3> QED
      BY <3>1, <3>2, CommCtrlAssumption DEF CommCtrlAssumption
  <2>2. /\ PoolTypeOK' /\ event_queue' \in Seq(Events)
        /\ Len(event_queue') <= EventQueueSize
    BY <1>1, DispatchType DEF Receive
  <2> QED
    BY <1>1, <2>1, <2>2 DEF TypeOK, Receive
<1>2. CASE PollMatched
  BY <1>2, PollMatchedType
<1>3. CASE PollIgnored
  <2>1. PoolTypeOK'
    BY <1>3, PoolStutterType DEF PollIgnored, TypeOK
  <2>2. event_queue' \in Seq(Events) /\ Len(event_queue') <= EventQueueSize
    BY <1>3, EventTailType DEF PollIgnored
  <2> QED
    BY <1>3, <2>1, <2>2 DEF TypeOK, PollIgnored
<1>4. CASE PollDone
  <2>1. PoolTypeOK'
    BY <1>4, PoolStutterType DEF PollDone, TypeOK
  <2> QED
    BY <1>4, <2>1 DEF TypeOK, PollDone
<1>5. CASE TimeoutFires
  <2>1. PoolTypeOK'
    BY <1>5, PoolStutterType DEF TimeoutFires, TypeOK
  <2>2. msg_queue' \in Seq(Messages) /\ Len(msg_queue') <= MsgQueueSize
    BY <1>5, SendMsgType DEF TimeoutFires, Messages
  <2>3. timeout_timer' \in BOOLEAN /\ timeout_lost' \in BOOLEAN
    BY <1>5 DEF TimeoutFires
  <2> QED
    BY <1>5, <2>1, <2>2, <2>3 DEF TypeOK, TimeoutFires
<1>6. CASE PeriodFires
  <2>1. PoolTypeOK'
    BY <1>6, PoolStutterType DEF PeriodFires, TypeOK
  <2>2. msg_queue' \in Seq(Messages) /\ Len(msg_queue') <= MsgQueueSize
    BY <1>6, SendMsgType DEF PeriodFires, Messages
  <2> QED
    BY <1>6, <2>1, <2>2 DEF TypeOK, PeriodFires
<1>7. CASE StartEvent
  <2>1. PoolTypeOK'
    BY <1>7, PoolStutterType DEF StartEvent, TypeOK
  <2>2. event_queue' \in Seq(Events) /\ Len(event_queue') <= EventQueueSize
    BY <1>7, SendEventType DEF StartEvent, TypeOK, Events
  <2>3. starts' \in 0 .. MaxStarts
    BY <1>7, CommCtrlAssumption DEF StartEvent, TypeOK, CommCtrlAssumption
  <2> QED
    BY <1>7, <2>1, <2>2, <2>3 DEF TypeOK, StartEvent
<1>8. CASE StartNotify
  <2>1. PoolTypeOK'
    BY <1>8, PoolStutterType DEF StartNotify, TypeOK
  <2>2. msg_queue' \in Seq(Messages) /\ Len(msg_queue') <= MsgQueueSize
    BY <1>8, SendMsgType DEF StartNotify, Messages
  <2> QED
    BY <1>8, <2>1, <2>2 DEF TypeOK, StartNotify
<1>9. ASSUME NEW c \in Singles, SendSingleCommand(c) PROVE TypeOK'
  <2>1. PoolTypeOK'
    BY <1>9, PoolStutterType DEF SendSingleCommand, TypeOK
  <2>2. single_cmd_queue' \in Seq(Singles) /\ Len(single_cmd_queue') <= SingleQueueSize
    BY <1>9, CommCtrlAssumption
       DEF SendSingleCommand, TypeOK, HasRoom, CommCtrlAssumption
  <2> QED
    BY <1>9, <2>1, <2>2 DEF TypeOK, SendSingleCommand
<1>10. ASSUME NEW c \in Periods, SetPeriodBegin(c) PROVE TypeOK'
  <2>1. PoolTypeOK'
    BY <1>10, PoolStutterType DEF SetPeriodBegin, TypeOK
  <2> QED
    BY <1>10, <2>1 DEF TypeOK, SetPeriodBegin
<1>11. CASE SetPeriodEnd
  <2>1. PoolTypeOK'
    BY <1>11, PoolStutterType DEF SetPeriodEnd, TypeOK
  <2> QED
    BY <1>11, <2>1 DEF TypeOK, SetPeriodEnd
<1>12. CASE GetRecvData
  <2>1. PoolTypeOK'
    BY <1>12, ReaderType DEF GetRecvData, TypeOK
  <2> QED
    BY <1>12, <2>1 DEF TypeOK, GetRecvData
<1>13. ASSUME NEW c \in Cmds, Answer(c) \/ Lose(c) PROVE TypeOK'
  <2>1. PoolTypeOK'
    BY <1>13, RxAllocType, PoolStutterType, CommCtrlAssumption
       DEF Answer, Lose, TypeOK, CommCtrlAssumption
  <2>2. line' \in [Cmds -> 0 .. MaxOnLine]
    <3>1. /\ line \in [Cmds -> 0 .. MaxOnLine] /\ MaxOnLine \in Nat
          /\ line[c] > 0 /\ line' = [line EXCEPT ![c] = line[c] - 1]
      BY <1>13, CommCtrlAssumption DEF Answer, Lose, TypeOK, CommCtrlAssumption
    <3>2. line[c] - 1 \in 0 .. MaxOnLine
      BY <3>1
    <3> QED
      BY <3>1, <3>2
  <2> QED
    BY <1>13, <2>1, <2>2 DEF TypeOK, Answer, Lose
<1>14. CASE SaveRecvPush
  <2>1. PoolTypeOK'
    BY <1>14, RxPushType DEF SaveRecvPush, TypeOK
  <2> QED
    BY <1>14, <2>1 DEF TypeOK, SaveRecvPush
<1>15. CASE SaveRecvPost
  <2>1. PoolTypeOK'
    <3>1. HasRoom(msg_queue, MsgQueueSize) \in BOOLEAN
      BY DEF HasRoom
    <3>2. PoolTypeOK /\ RxPost(HasRoom(msg_queue, MsgQueueSize))
      BY <1>15 DEF SaveRecvPost, TypeOK
    <3> QED
      BY <3>1, <3>2, RxPostType
  <2>2. msg_queue' \in Seq(Messages) /\ Len(msg_queue') <= MsgQueueSize
    BY <1>15, SendMsgType DEF SaveRecvPost, Messages
  <2> QED
    BY <1>15, <2>1, <2>2 DEF TypeOK, SaveRecvPost
<1>16. CASE UNCHANGED vars
  <2>1. PoolTypeOK'
    BY <1>16, PoolStutterType DEF vars, TypeOK
  <2> QED
    BY <1>16, <2>1 DEF TypeOK, vars
<1> QED
  BY <1>1, <1>2, <1>3, <1>4, <1>5, <1>6, <1>7, <1>8, <1>9, <1>10, <1>11, <1>12,
     <1>13, <1>14, <1>15, <1>16 DEF Next, Control

(* Every variable keeps its type: no queue grows past its size, and no      *)
(* index, command or state is one the code does not know.                   *)
THEOREM TypeCorrect == Spec => []TypeOK
<1>1. Init => TypeOK
  BY InitType
<1>2. TypeOK /\ [Next]_vars => TypeOK'
  BY TypeStep
<1> QED
  BY <1>1, <1>2, PTL DEF Spec

-----------------------------------------------------------------------------
(* The event queue                                                          *)

(* The steps that leave the state machine and its queue alone.              *)
LEMMA OtherSteps ==
  ASSUME [Next]_vars
  PROVE  \/ Receive \/ PollMatched \/ PollIgnored \/ PollDone \/ StartEvent
         \/ UNCHANGED <<fsm_state, event_queue, ctrl_pc, starts>>
BY DEF Next, Control, vars, fsmVars, startVars, TimeoutFires, PeriodFires, StartNotify,
       SendSingleCommand, SetPeriodBegin, SetPeriodEnd, GetRecvData, Answer, Lose,
       SaveRecvPush, SaveRecvPost

(* What a handler does to the event queue.                                  *)
LEMMA ReceiveCases ==
  ASSUME Receive
  PROVE  /\ ctrl_pc = "receive" /\ ctrl_pc' = "poll" /\ msg_queue # << >>
         /\ msg_queue' = Tail(msg_queue)
         /\ UNCHANGED <<fsm_state, cur_cmd, single_cmd_queue, starts>>
         /\ timeout_timer' = timeout_timer /\ preiod_timer' = preiod_timer
         /\ timeout_lost' = timeout_lost
         /\ \/ /\ event_queue' = event_queue
               /\ Head(msg_queue) \in {"NOTIFY", "RECV_DATA"}
            \/ /\ event_queue' = SendEvent(event_queue, "RECV_TIMEOUT")
               /\ Head(msg_queue) = "SEND_TIMEOUT"
            \/ /\ event_queue' = SendEvent(event_queue, "SEND_CYCLE")
               /\ Head(msg_queue) = "SEND_CYCLE"
            \/ /\ event_queue' = SendEvent(event_queue, "RECV_RESP")
               /\ Head(msg_queue) = "RECV_DATA" /\ fsm_state = "WAIT_RESP"
BY DEF Receive, Dispatch, RecvData, cmdVars, timerVars, startVars

(* An event sent into a queue with room.                                    *)
LEMMA EventPut ==
  ASSUME NEW q \in Seq(Events), HasRoom(q, EventQueueSize), NEW e \in Events
  PROVE  /\ SendEvent(q, e) \in Seq(Events)
         /\ Len(SendEvent(q, e)) = Len(q) + 1
         /\ \A i \in 1 .. Len(q) : SendEvent(q, e)[i] = q[i]
         /\ SendEvent(q, e)[Len(q) + 1] = e
<1>1. EventQueueSize \in Nat
  BY CommCtrlAssumption DEF CommCtrlAssumption
<1>2. SendEvent(q, e) = Append(q, e)
  BY DEF SendEvent, Put
<1> QED
  BY <1>2

(* Outside a poll there is room for the handler's event.                    *)
LEMMA EventSent ==
  ASSUME TypeOK, EventsFit, ctrl_pc = "receive"
  PROVE  HasRoom(event_queue, EventQueueSize)
BY CommCtrlAssumption DEF TypeOK, EventsFit, HasRoom, CommCtrlAssumption

(* Every step keeps EventsFit: a handler sends one event, START one more.   *)
LEMMA EventsFitStep ==
  ASSUME TypeOK, EventsFit, [Next]_vars  PROVE EventsFit'
<1> USE DEF EventsFit
<1>0. event_queue \in Seq(Events) /\ starts \in Nat /\ Len(event_queue) \in Nat
  BY CommCtrlAssumption DEF TypeOK, CommCtrlAssumption
<1>1. CASE Receive
  <2>1. event_queue' = event_queue \/ \E e \in Events : event_queue' = SendEvent(event_queue, e)
    BY <1>1, ReceiveCases DEF Events
  <2>2. Len(event_queue') <= Len(event_queue) + 1
    BY <1>0, <1>1, <2>1, EventSent, EventPut, ReceiveCases
  <2> QED
    BY <1>0, <1>1, <2>2, ReceiveCases
<1>2. CASE PollMatched
  <2>1. /\ event_queue # << >> /\ ctrl_pc = "poll" /\ ctrl_pc' = "poll" /\ starts' = starts
        /\ \/ event_queue' = Tail(event_queue)
           \/ event_queue' = SendEvent(Tail(event_queue), "SEND_CYCLE")
    BY <1>2, PollCases DEF Row, ActionStart, ActionSendCycle, ActionRecvResp,
                           ActionRespTimeout, ActionError, startVars
  <2>2. Tail(event_queue) \in Seq(Events) /\ Len(Tail(event_queue)) = Len(event_queue) - 1
    BY <1>0, <2>1, TailElements
  <2>3. Len(SendEvent(Tail(event_queue), "SEND_CYCLE")) <= Len(event_queue)
    BY <1>0, <2>2 DEF SendEvent, Put, HasRoom, Events
  <2> QED
    BY <1>0, <2>1, <2>2, <2>3
<1>3. CASE PollIgnored
  <2>1. /\ event_queue # << >> /\ ctrl_pc = "poll" /\ ctrl_pc' = "poll" /\ starts' = starts
        /\ event_queue' = Tail(event_queue)
    BY <1>3 DEF PollIgnored, startVars
  <2>2. Len(Tail(event_queue)) = Len(event_queue) - 1
    BY <1>0, <2>1, TailElements
  <2> QED
    BY <1>0, <2>1, <2>2
<1>4. CASE PollDone
  BY <1>0, <1>4 DEF PollDone, startVars
<1>5. CASE StartEvent
  <2>1. Len(event_queue') <= Len(event_queue) + 1
    BY <1>0, <1>5 DEF StartEvent, SendEvent, Put, HasRoom, Events
  <2> QED
    BY <1>0, <1>5, <2>1 DEF StartEvent
<1>6. CASE UNCHANGED <<fsm_state, event_queue, ctrl_pc, starts>>
  BY <1>6
<1> QED
  BY <1>1, <1>2, <1>3, <1>4, <1>5, <1>6, OtherSteps

(* Every step keeps OneEventPerPoll: a poll ends with no event queued.      *)
LEMMA OneEventStep ==
  ASSUME TypeOK, EventsFit, OneEventPerPoll, QuietBeforeStart, [Next]_vars
  PROVE  OneEventPerPoll'
<1>0. event_queue \in Seq(Events) /\ Len(event_queue) \in Nat
  BY DEF TypeOK
<1>1. CASE Receive
  <2>1. CASE event_queue' = event_queue
    BY <1>1, <2>1, ReceiveCases DEF OneEventPerPoll
  <2>2. ASSUME NEW e \in Events \ {"ERROR", "RESTART"},
               event_queue' = SendEvent(event_queue, e)
        PROVE  OneEventPerPoll'
    <3>1. /\ Len(event_queue') = Len(event_queue) + 1
          /\ \A i \in 1 .. Len(event_queue) : event_queue'[i] = "START"
          /\ event_queue'[Len(event_queue) + 1] = e
      BY <1>0, <1>1, <2>2, EventSent, EventPut, ReceiveCases DEF OneEventPerPoll
    <3>2. \A i \in 1 .. Len(event_queue') : event_queue'[i] # "START" => i = Len(event_queue')
      BY <1>0, <3>1
    <3>3. \A i \in 1 .. Len(event_queue') : event_queue'[i] \in {"START", e}
      BY <1>0, <3>1
    <3> QED
      BY <1>1, <2>2, <3>2, <3>3, ReceiveCases DEF OneEventPerPoll
  <2> QED
    BY <1>1, <2>1, <2>2, ReceiveCases DEF Events
<1>2. ASSUME event_queue # << >>, event_queue' = Tail(event_queue),
             ctrl_pc' = "poll", fsm_state' # "ERROR"
      PROVE  OneEventPerPoll'
  <2>1. /\ Len(event_queue') = Len(event_queue) - 1
        /\ \A i \in 1 .. Len(event_queue') : event_queue'[i] = event_queue[i + 1]
    BY <1>0, <1>2, TailElements
  <2>2. \A i \in 1 .. Len(event_queue') : i + 1 \in 1 .. Len(event_queue)
    BY <1>0, <2>1
  <2>3. \A i, j \in 1 .. Len(event_queue') :
          event_queue'[i] # "START" /\ event_queue'[j] # "START" => i = j
    <3>1. SUFFICES ASSUME NEW i \in 1 .. Len(event_queue'), NEW j \in 1 .. Len(event_queue'),
                          event_queue'[i] # "START", event_queue'[j] # "START"
                   PROVE  i = j
      OBVIOUS
    <3>2. i + 1 = j + 1
      BY <2>1, <2>2, <3>1 DEF OneEventPerPoll
    <3> QED
      BY <3>2, <1>0, <2>1
  <2> QED
    BY <1>2, <2>1, <2>2, <2>3 DEF OneEventPerPoll
<1>3. CASE PollMatched
  <2>1. Head(event_queue) \notin {"ERROR", "RESTART"} /\ fsm_state # "ERROR"
    BY <1>0, <1>3, PollCases, TailElements DEF OneEventPerPoll
  <2>2. CASE fsm_state = "NONE"
    <3>1. /\ fsm_state = "NONE" /\ event_queue # << >> /\ fsm_state' = "IDLE"
          /\ ctrl_pc' = "poll"
          /\ event_queue' = SendEvent(Tail(event_queue), "SEND_CYCLE")
      BY <1>3, <2>2, PollCases DEF Row, ActionStart
    <3>2. \A i \in 1 .. Len(event_queue) : event_queue[i] = "START"
      BY <3>1 DEF QuietBeforeStart
    <3>3. /\ Tail(event_queue) \in Seq(Events)
          /\ Len(Tail(event_queue)) = Len(event_queue) - 1
          /\ \A i \in 1 .. Len(Tail(event_queue)) : Tail(event_queue)[i] = "START"
      BY <1>0, <3>1, <3>2, TailElements
    <3>4. HasRoom(Tail(event_queue), EventQueueSize)
      BY <1>0, <3>3, CommCtrlAssumption DEF TypeOK, HasRoom, CommCtrlAssumption
    <3>5. /\ Len(event_queue') = Len(event_queue)
          /\ \A i \in 1 .. Len(event_queue) - 1 : event_queue'[i] = "START"
          /\ event_queue'[Len(event_queue)] = "SEND_CYCLE"
      <4>1. "SEND_CYCLE" \in Events
        BY DEF Events
      <4>2. /\ Len(event_queue') = Len(Tail(event_queue)) + 1
            /\ \A i \in 1 .. Len(Tail(event_queue)) : event_queue'[i] = Tail(event_queue)[i]
            /\ event_queue'[Len(Tail(event_queue)) + 1] = "SEND_CYCLE"
        BY <3>1, <3>3, <3>4, <4>1, EventPut
      <4> QED
        BY <1>0, <3>3, <4>2
    <3>6. \A i \in 1 .. Len(event_queue') : event_queue'[i] # "START" => i = Len(event_queue')
      BY <1>0, <3>5
    <3>7. \A i \in 1 .. Len(event_queue') : event_queue'[i] \in {"START", "SEND_CYCLE"}
      BY <1>0, <3>5
    <3> QED
      BY <3>1, <3>6, <3>7 DEF OneEventPerPoll
  <2>3. CASE fsm_state # "NONE"
    <3>1. /\ event_queue # << >> /\ event_queue' = Tail(event_queue) /\ ctrl_pc' = "poll"
          /\ fsm_state' # "ERROR"
      BY <1>3, <2>1, <2>3, PollCases DEF Row, ActionSendCycle, ActionRecvResp,
                                         ActionRespTimeout
    <3> QED
      BY <1>2, <3>1
  <2> QED
    BY <2>2, <2>3
<1>4. CASE PollIgnored
  BY <1>2, <1>4 DEF PollIgnored, OneEventPerPoll
<1>5. CASE PollDone
  BY <1>5 DEF PollDone, OneEventPerPoll
<1>6. CASE StartEvent
  <2>1. event_queue' = SendEvent(event_queue, "START")
        /\ ctrl_pc' = ctrl_pc /\ fsm_state' = fsm_state
    BY <1>6 DEF StartEvent
  <2>2. CASE ~HasRoom(event_queue, EventQueueSize)
    BY <2>1, <2>2 DEF SendEvent, Put, OneEventPerPoll
  <2>3. CASE HasRoom(event_queue, EventQueueSize)
    <3>1. /\ Len(event_queue') = Len(event_queue) + 1
          /\ \A i \in 1 .. Len(event_queue) : event_queue'[i] = event_queue[i]
          /\ event_queue'[Len(event_queue) + 1] = "START"
      BY <1>0, <2>1, <2>3, EventPut DEF Events
    <3>2. \A i \in 1 .. Len(event_queue') :
            i \in 1 .. Len(event_queue) \/ event_queue'[i] = "START"
      BY <1>0, <3>1
    <3> QED
      BY <2>1, <3>1, <3>2 DEF OneEventPerPoll
  <2> QED
    BY <2>2, <2>3
<1>7. CASE UNCHANGED <<fsm_state, event_queue, ctrl_pc, starts>>
  BY <1>7 DEF OneEventPerPoll
<1> QED
  BY <1>1, <1>3, <1>4, <1>5, <1>6, <1>7, OtherSteps

-----------------------------------------------------------------------------
(* Waiting                                                                  *)

(* Every step, by what it does to the messages, timers, state and command.  *)
LEMMA StepCases ==
  ASSUME [Next]_vars
  PROVE  \/ Receive \/ PollMatched
         \/ /\ PollIgnored
            /\ UNCHANGED <<fsm_state, msg_queue, cur_cmd, timeout_timer, preiod_timer,
                           timeout_lost>>
         \/ TimeoutFires \/ PeriodFires
         \/ /\ StartEvent
            /\ UNCHANGED <<fsm_state, msg_queue, cur_cmd, timeout_timer, preiod_timer,
                           timeout_lost>>
         \/ /\ SendMsg("NOTIFY") \/ SendMsg("RECV_DATA")
            /\ UNCHANGED <<fsm_state, event_queue, cur_cmd, timeout_timer, preiod_timer,
                           timeout_lost>>
         \/ UNCHANGED <<fsm_state, event_queue, msg_queue, cur_cmd, timeout_timer,
                        preiod_timer, timeout_lost>>
BY DEF Next, Control, vars, fsmVars, cmdVars, timerVars, startVars, PollIgnored, PollDone,
       StartEvent, StartNotify, SendSingleCommand, SetPeriodBegin, SetPeriodEnd,
       GetRecvData, Answer, Lose, SaveRecvPush, SaveRecvPost

(* A message posted is kept out of, or added at the end of, the queue.      *)
LEMMA MsgPut ==
  ASSUME TypeOK, NEW m \in Messages, SendMsg(m)
  PROVE  /\ \A x : Queued(x, msg_queue) => Queued(x, msg_queue')
         /\ \A i \in 1 .. Len(msg_queue') :
              msg_queue'[i] = m \/ (i \in 1 .. Len(msg_queue) /\ msg_queue'[i] = msg_queue[i])
         /\ HasRoom(msg_queue, MsgQueueSize) => Queued(m, msg_queue')
<1>1. msg_queue \in Seq(Messages) /\ MsgQueueSize \in Nat /\ Len(msg_queue) \in Nat
  BY CommCtrlAssumption DEF TypeOK, CommCtrlAssumption
<1>2. CASE HasRoom(msg_queue, MsgQueueSize)
  <2>1. msg_queue' = Append(msg_queue, m)
    BY <1>2 DEF SendMsg, Put
  <2>2. /\ Len(msg_queue') = Len(msg_queue) + 1
        /\ \A i \in 1 .. Len(msg_queue) : msg_queue'[i] = msg_queue[i]
        /\ msg_queue'[Len(msg_queue) + 1] = m
    BY <1>1, <2>1
  <2>3. \A i \in 1 .. Len(msg_queue) : i \in 1 .. Len(msg_queue')
    BY <1>1, <2>2
  <2>4. Len(msg_queue) + 1 \in 1 .. Len(msg_queue')
    BY <1>1, <2>2
  <2>5. \A i \in 1 .. Len(msg_queue') : i \in 1 .. Len(msg_queue) \/ i = Len(msg_queue) + 1
    BY <1>1, <2>2
  <2> QED
    BY <2>2, <2>3, <2>4, <2>5 DEF Queued
<1>3. CASE ~HasRoom(msg_queue, MsgQueueSize)
  BY <1>3 DEF SendMsg, Put
<1> QED
  BY <1>2, <1>3

(* Nothing ticks until the START row runs.                                  *)
LEMMA QuietStep ==
  ASSUME TypeOK, QuietBeforeStart, [Next]_vars  PROVE QuietBeforeStart'
<1> SUFFICES ASSUME fsm_state' = "NONE" PROVE QuietBeforeStart'
  BY DEF QuietBeforeStart
<1>1. fsm_state = "NONE"
  BY StepCases, PollCases, ReceiveCases
     DEF Row, TimeoutFires, PeriodFires, fsmVars
<1>2. /\ ~timeout_timer /\ ~preiod_timer
      /\ \A i \in 1 .. Len(msg_queue) : msg_queue[i] \in {"NOTIFY", "RECV_DATA"}
      /\ \A i \in 1 .. Len(event_queue) : event_queue[i] = "START"
      /\ cur_cmd.cmd_type = "NONE"
  BY <1>1 DEF QuietBeforeStart
<1>3. event_queue \in Seq(Events) /\ msg_queue \in Seq(Messages)
      /\ Len(event_queue) \in Nat /\ Len(msg_queue) \in Nat
  BY DEF TypeOK
<1>4. CASE Receive
  <2>1. Head(msg_queue) \in {"NOTIFY", "RECV_DATA"}
    BY <1>2, <1>3, <1>4, ReceiveCases, TailElements
  <2>2. event_queue' = event_queue
    BY <1>1, <1>4, <2>1, ReceiveCases
  <2>3. \A i \in 1 .. Len(msg_queue') : msg_queue'[i] \in {"NOTIFY", "RECV_DATA"}
    BY <1>2, <1>3, <1>4, ReceiveCases, TailElements
  <2> QED
    BY <1>2, <1>4, <2>2, <2>3, ReceiveCases DEF QuietBeforeStart
<1>5. ~PollMatched
  BY PollCases DEF Row
<1>6. CASE /\ PollIgnored
           /\ UNCHANGED <<fsm_state, msg_queue, cur_cmd, timeout_timer, preiod_timer,
                          timeout_lost>>
  <2>1. event_queue # << >> /\ event_queue' = Tail(event_queue)
    BY <1>6 DEF PollIgnored
  <2>2. \A i \in 1 .. Len(event_queue') : event_queue'[i] = "START"
    BY <1>2, <1>3, <2>1, TailElements
  <2> QED
    BY <1>2, <1>6, <2>2 DEF QuietBeforeStart
<1>7. ~TimeoutFires /\ ~PeriodFires
  BY <1>2 DEF TimeoutFires, PeriodFires
<1>8. CASE /\ StartEvent
           /\ UNCHANGED <<fsm_state, msg_queue, cur_cmd, timeout_timer, preiod_timer,
                          timeout_lost>>
  <2>1. \A i \in 1 .. Len(event_queue') : event_queue'[i] = "START"
    <3>1. CASE HasRoom(event_queue, EventQueueSize)
      <4>1. /\ Len(event_queue') = Len(event_queue) + 1
            /\ \A i \in 1 .. Len(event_queue) : event_queue'[i] = event_queue[i]
            /\ event_queue'[Len(event_queue) + 1] = "START"
        BY <1>3, <1>8, <3>1, EventPut DEF StartEvent, Events
      <4> QED
        BY <1>2, <1>3, <4>1
    <3>2. CASE ~HasRoom(event_queue, EventQueueSize)
      BY <1>2, <1>8, <3>2 DEF StartEvent, SendEvent, Put
    <3> QED
      BY <3>1, <3>2
  <2> QED
    BY <1>2, <1>8, <2>1 DEF QuietBeforeStart
<1>9. CASE /\ SendMsg("NOTIFY") \/ SendMsg("RECV_DATA")
           /\ UNCHANGED <<fsm_state, event_queue, cur_cmd, timeout_timer, preiod_timer,
                          timeout_lost>>
  <2>1. \A i \in 1 .. Len(msg_queue') : msg_queue'[i] \in {"NOTIFY", "RECV_DATA"}
    BY <1>2, <1>9, MsgPut DEF Messages
  <2> QED
    BY <1>2, <1>9, <2>1 DEF QuietBeforeStart
<1>10. CASE UNCHANGED <<fsm_state, event_queue, msg_queue, cur_cmd, timeout_timer,
                        preiod_timer, timeout_lost>>
  BY <1>2, <1>10 DEF QuietBeforeStart
<1> QED
  BY <1>4, <1>5, <1>6, <1>7, <1>8, <1>9, <1>10, StepCases

(* What send_cmd leaves in the current command.                             *)
LEMMA SendCmdLoads ==
  ASSUME TypeOK, CurrentCommandLoaded, RetriesUnlimited, SendCmd
  PROVE  /\ cur_cmd'.cmd_type \in {"SINGLE", "PERIOD"}
         /\ ~cur_cmd'.is_timeout
         /\ cur_cmd'.retry_count = MaxRetry
         /\ cur_cmd'.cmd_type = "SINGLE" => cur_cmd'.send_data \in Singles
         /\ cur_cmd'.cmd_type = "PERIOD" => cur_cmd'.send_data \in PeriodValues
<1>1. cur_cmd \in [cmd_type : CmdTypes, send_data : Cmds \union {NoCmd},
                   retry_count : 0 .. MaxRetry, is_timeout : BOOLEAN]
  BY DEF TypeOK
<1>2. CASE Resending /\ cur_cmd' = [cur_cmd EXCEPT !.is_timeout = FALSE]
  BY <1>1, <1>2 DEF Resending, CurrentCommandLoaded, RetriesUnlimited
<1>3. CASE /\ single_cmd_queue # << >>
           /\ cur_cmd' = LoadDataToCmd(Head(single_cmd_queue), "SINGLE", TRUE)
  <2>1. Head(single_cmd_queue) \in Singles
    BY <1>3, TailElements DEF TypeOK
  <2> QED
    BY <1>3, <2>1 DEF LoadDataToCmd
<1>4. ASSUME NEW c \in PeriodRead,
             cur_cmd' = LoadDataToCmd(c, "PERIOD", cur_cmd.cmd_type # "PERIOD")
      PROVE  /\ cur_cmd'.cmd_type = "PERIOD" /\ ~cur_cmd'.is_timeout
             /\ cur_cmd'.retry_count = MaxRetry
             /\ cur_cmd'.send_data \in PeriodValues
  BY <1>4, PeriodReadType DEF LoadDataToCmd, RetriesUnlimited
<1> QED
  BY <1>2, <1>3, <1>4 DEF SendCmd

(* The current command under a matched event.                               *)
LEMMA LoadedStep ==
  ASSUME TypeOK, OneEventPerPoll, CurrentCommandLoaded, RetriesUnlimited, [Next]_vars
  PROVE  CurrentCommandLoaded' /\ RetriesUnlimited'
<1> USE DEF CurrentCommandLoaded, RetriesUnlimited
<1>0. cur_cmd \in [cmd_type : CmdTypes, send_data : Cmds \union {NoCmd},
                   retry_count : 0 .. MaxRetry, is_timeout : BOOLEAN]
  BY DEF TypeOK
<1>1. CASE UNCHANGED <<fsm_state, cur_cmd>>
  BY <1>1
<1>2. CASE PollMatched
  <2>1. CASE Row("IDLE", "SEND_CYCLE", "WAIT_RESP", ActionSendCycle)
    BY <2>1, SendCmdLoads DEF Row, ActionSendCycle
  <2>2. CASE fsm_state' = "IDLE" /\ ActionStart
    BY <1>0, <2>2 DEF ActionStart
  <2>3. CASE fsm_state' = "IDLE" /\ ActionRecvResp
    BY <1>0, <2>3 DEF ActionRecvResp
  <2>4. CASE fsm_state' = "IDLE" /\ ActionRespTimeout
    BY <1>0, <2>4 DEF ActionRespTimeout
  <2>5. CASE fsm_state' = "ERROR" /\ ActionError
    BY <2>5 DEF ActionError, cmdVars
  <2> QED
    BY <1>2, <2>1, <2>2, <2>3, <2>4, <2>5, PollCases DEF Row
<1> QED
  BY <1>1, <1>2, StepCases, ReceiveCases DEF TimeoutFires, PeriodFires, fsmVars, cmdVars

(* Outside a poll only START events are queued.                             *)
LEMMA NothingButStart ==
  ASSUME OneEventPerPoll, ctrl_pc = "receive", NEW e, e # "START"
  PROVE  ~Queued(e, event_queue)
BY DEF OneEventPerPoll, Queued

(* In a poll a queued event that is not START and not at the head means     *)
(* that the head is START.                                                  *)
LEMMA HeadIsStart ==
  ASSUME TypeOK, OneEventPerPoll, event_queue # << >>,
         NEW e, e # "START", Queued(e, Tail(event_queue))
  PROVE  Head(event_queue) = "START"
<1>1. event_queue \in Seq(Events)
  BY DEF TypeOK
<1>2. PICK i \in 1 .. Len(Tail(event_queue)) : Tail(event_queue)[i] = e
  BY DEF Queued
<1>3. /\ i + 1 \in 1 .. Len(event_queue) /\ event_queue[i + 1] = e /\ i + 1 # 1
      /\ 1 \in 1 .. Len(event_queue) /\ Head(event_queue) = event_queue[1]
  BY <1>1, <1>2, TailElements
<1> QED
  BY <1>3 DEF OneEventPerPoll

(* Every step keeps AnswerMeetsWait: only START precedes the answer's event.*)
LEMMA AnswerStep ==
  ASSUME TypeOK, OneEventPerPoll, QuietBeforeStart, AnswerMeetsWait, [Next]_vars
  PROVE  AnswerMeetsWait'
<1> SUFFICES ASSUME Queued("RECV_RESP", event_queue') PROVE fsm_state' = "WAIT_RESP"
  BY DEF AnswerMeetsWait, Queued
<1>0. event_queue \in Seq(Events) /\ EventQueueSize \in Nat
  BY CommCtrlAssumption DEF TypeOK, CommCtrlAssumption
<1>1. CASE Receive
  <2>1. ~Queued("RECV_RESP", event_queue)
    BY <1>1, ReceiveCases, NothingButStart
  <2>2. ASSUME NEW e \in Events, e # "RECV_RESP", event_queue' = SendEvent(event_queue, e)
        PROVE  FALSE
    BY <1>0, <2>1, <2>2, PutOrigin DEF SendEvent
  <2> QED
    BY <1>1, <2>1, <2>2, ReceiveCases DEF Events
<1>2. ASSUME event_queue # << >>, event_queue' = Tail(event_queue)
      PROVE  fsm_state = "WAIT_RESP" /\ Head(event_queue) = "START"
  <2>1. Queued("RECV_RESP", Tail(event_queue))
    BY <1>2
  <2> QED
    BY <1>0, <1>2, <2>1, TailOrigin, HeadIsStart DEF AnswerMeetsWait
<1>3. CASE PollMatched
  <2>1. CASE fsm_state = "NONE"
    <3>1. event_queue # << >> /\ event_queue' = SendEvent(Tail(event_queue), "SEND_CYCLE")
      BY <1>3, <2>1, PollCases DEF Row, ActionStart
    <3>2. Tail(event_queue) \in Seq(Events)
      BY <1>0, <3>1, TailElements
    <3>3. Queued("RECV_RESP", Tail(event_queue))
      <4>1. Queued("RECV_RESP", Put(Tail(event_queue), "SEND_CYCLE", EventQueueSize))
        BY <3>1 DEF SendEvent
      <4>2. "SEND_CYCLE" \in Events
        BY DEF Events
      <4> QED
        BY <1>0, <3>2, <4>1, <4>2, PutOrigin
    <3>4. Queued("RECV_RESP", event_queue)
      BY <1>0, <3>1, <3>3, TailOrigin
    <3> QED
      BY <2>1, <3>4 DEF AnswerMeetsWait
  <2>2. CASE fsm_state # "NONE"
    <3>1. fsm_state # "ERROR"
      BY DEF OneEventPerPoll
    <3>2. event_queue # << >> /\ event_queue' = Tail(event_queue)
      BY <1>3, <2>2, <3>1, PollCases
         DEF Row, ActionSendCycle, ActionRecvResp, ActionRespTimeout, ActionError
    <3> QED
      BY <1>2, <1>3, <3>2, PollCases DEF Row
  <2> QED
    BY <2>1, <2>2
<1>4. CASE /\ PollIgnored
           /\ UNCHANGED <<fsm_state, msg_queue, cur_cmd, timeout_timer, preiod_timer,
                          timeout_lost>>
  BY <1>2, <1>4 DEF PollIgnored
<1>5. CASE /\ StartEvent
           /\ UNCHANGED <<fsm_state, msg_queue, cur_cmd, timeout_timer, preiod_timer,
                          timeout_lost>>
  <2>1. Queued("RECV_RESP", event_queue)
    BY <1>0, <1>5, PutOrigin DEF StartEvent, SendEvent, Events
  <2> QED
    BY <1>5, <2>1 DEF AnswerMeetsWait
<1>6. CASE UNCHANGED <<fsm_state, event_queue>>
  BY <1>6 DEF AnswerMeetsWait
<1> QED
  BY <1>1, <1>3, <1>4, <1>5, <1>6, StepCases DEF TimeoutFires, PeriodFires, fsmVars

(* Every step keeps WaitIsGuarded: timer, message and event replace each    *)
(* other.                                                                   *)
LEMMA GuardStep ==
  ASSUME TypeOK, EventsFit, OneEventPerPoll, WaitIsGuarded, [Next]_vars
  PROVE  WaitIsGuarded'
<1> SUFFICES ASSUME fsm_state' = "WAIT_RESP"
             PROVE  \/ timeout_timer' \/ timeout_lost'
                    \/ Queued("SEND_TIMEOUT", msg_queue')
                    \/ Queued("RECV_TIMEOUT", event_queue')
                    \/ Queued("RECV_RESP", event_queue')
  BY DEF WaitIsGuarded, Queued
<1>0. /\ event_queue \in Seq(Events) /\ EventQueueSize \in Nat
      /\ msg_queue \in Seq(Messages)
  BY CommCtrlAssumption DEF TypeOK, CommCtrlAssumption
<1>1. CASE fsm_state # "WAIT_RESP"
  <2>1. PollMatched
    BY <1>1, StepCases, ReceiveCases DEF TimeoutFires, PeriodFires, fsmVars
  <2>2. timeout_timer'
    BY <1>1, <2>1, PollCases DEF Row, ActionSendCycle, SendCmd
  <2> QED
    BY <2>2
<1>2. CASE fsm_state = "WAIT_RESP"
  <2>0. \/ timeout_timer \/ timeout_lost
        \/ Queued("SEND_TIMEOUT", msg_queue)
        \/ Queued("RECV_TIMEOUT", event_queue)
        \/ Queued("RECV_RESP", event_queue)
    BY <1>2 DEF WaitIsGuarded
  <2>1. CASE Receive
    <3>1. \/ timeout_timer \/ timeout_lost \/ Queued("SEND_TIMEOUT", msg_queue)
      BY <2>0, <2>1, ReceiveCases, NothingButStart
    <3>2. CASE Queued("SEND_TIMEOUT", msg_queue)
      <4>1. CASE Head(msg_queue) = "SEND_TIMEOUT"
        <5>1. event_queue' = SendEvent(event_queue, "RECV_TIMEOUT")
          BY <2>1, <4>1, ReceiveCases
        <5>2. HasRoom(event_queue, EventQueueSize)
          BY <2>1, ReceiveCases, EventSent
        <5>3. /\ Len(event_queue') = Len(event_queue) + 1
              /\ event_queue'[Len(event_queue) + 1] = "RECV_TIMEOUT"
          BY <1>0, <5>1, <5>2, EventPut DEF Events
        <5>4. Len(event_queue) + 1 \in 1 .. Len(event_queue')
          BY <1>0, <5>3
        <5> QED
          BY <5>3, <5>4 DEF Queued
      <4>2. CASE Head(msg_queue) # "SEND_TIMEOUT"
        <5>1. Queued("SEND_TIMEOUT", Tail(msg_queue))
          BY <1>0, <2>1, <3>2, <4>2, ReceiveCases, TailKeeps
        <5>2. msg_queue' = Tail(msg_queue)
          BY <2>1, ReceiveCases
        <5> QED
          BY <5>1, <5>2
      <4> QED
        BY <4>1, <4>2
    <3> QED
      BY <2>1, <3>1, <3>2, ReceiveCases
  <2>2. CASE PollMatched
    BY <1>2, <2>2, PollCases DEF Row
  <2>3. CASE /\ PollIgnored
             /\ UNCHANGED <<fsm_state, msg_queue, cur_cmd, timeout_timer, preiod_timer,
                            timeout_lost>>
    <3>1. /\ event_queue # << >> /\ event_queue' = Tail(event_queue)
          /\ ~ \E t \in Transitions : t.state = fsm_state /\ t.event = Head(event_queue)
      BY <2>3 DEF PollIgnored
    <3>2. Head(event_queue) # "RECV_RESP" /\ Head(event_queue) # "RECV_TIMEOUT"
      BY <1>2, <3>1 DEF Transitions, Transition
    <3> QED
      BY <1>0, <2>0, <2>3, <3>1, <3>2, TailKeeps
  <2>4. CASE TimeoutFires
    BY <2>4, MsgPut DEF TimeoutFires, Messages
  <2>5. CASE PeriodFires
    BY <2>0, <2>5, MsgPut DEF PeriodFires, Messages, timerVars, fsmVars
  <2>6. CASE /\ StartEvent
             /\ UNCHANGED <<fsm_state, msg_queue, cur_cmd, timeout_timer, preiod_timer,
                            timeout_lost>>
    <3>1. event_queue' = Put(event_queue, "START", EventQueueSize) /\ "START" \in Events
      BY <2>6 DEF StartEvent, SendEvent, Events
    <3>2. \A e : Queued(e, event_queue) => Queued(e, event_queue')
      BY <1>0, <3>1, PutKeeps
    <3> QED
      BY <2>0, <2>6, <3>2
  <2>7. CASE /\ SendMsg("NOTIFY") \/ SendMsg("RECV_DATA")
             /\ UNCHANGED <<fsm_state, event_queue, cur_cmd, timeout_timer, preiod_timer,
                            timeout_lost>>
    BY <2>0, <2>7, MsgPut DEF Messages
  <2>8. CASE UNCHANGED <<fsm_state, event_queue, msg_queue, cur_cmd, timeout_timer,
                         preiod_timer, timeout_lost>>
    BY <2>0, <2>8
  <2> QED
    BY <2>1, <2>2, <2>3, <2>4, <2>5, <2>6, <2>7, <2>8, StepCases
<1> QED
  BY <1>1, <1>2

-----------------------------------------------------------------------------
(* The controller's invariant holds initially.                              *)
LEMMA InitInv == ASSUME Init PROVE CtrlInv
<1>1. TypeOK
  BY InitType
<1> QED
  BY <1>1 DEF Init, CtrlInv, EventsFit, OneEventPerPoll, QuietBeforeStart,
              CurrentCommandLoaded, WaitIsGuarded, AnswerMeetsWait, RetriesUnlimited, Queued

(* Every step keeps it.                                                     *)
LEMMA InvStep == ASSUME CtrlInv, [Next]_vars PROVE CtrlInv'
BY TypeStep, EventsFitStep, OneEventStep, QuietStep, LoadedStep, AnswerStep, GuardStep
   DEF CtrlInv

(* The controller's invariant holds for every size of every queue and every *)
(* set of commands.                                                         *)
THEOREM CtrlInvariant == Spec => []CtrlInv
<1>1. Init => CtrlInv
  BY InitInv
<1>2. CtrlInv /\ [Next]_vars => CtrlInv'
  BY InvStep
<1> QED
  BY <1>1, <1>2, PTL DEF Spec

(* No FSM event is ever lost to a full event queue.                         *)
THEOREM EventsAlwaysFit == Spec => []EventsFit
<1>1. CtrlInv => EventsFit
  BY DEF CtrlInv
<1> QED
  BY <1>1, CtrlInvariant, PTL

(* A wait for an answer always has something under way that ends it, unless *)
(* its timeout's message was dropped.                                       *)
THEOREM WaitsAreGuarded == Spec => []WaitIsGuarded
<1>1. CtrlInv => WaitIsGuarded
  BY DEF CtrlInv
<1> QED
  BY <1>1, CtrlInvariant, PTL

(* An answer accepted by the RECV_DATA handler always ends a wait.          *)
THEOREM AnswersMeetWaits == Spec => []AnswerMeetsWait
<1>1. CtrlInv => AnswerMeetsWait
  BY DEF CtrlInv
<1> QED
  BY <1>1, CtrlInvariant, PTL

(* A command is repeated without limit.                                     *)
THEOREM RetriesAreUnlimited == Spec => []RetriesUnlimited
<1>1. CtrlInv => RetriesUnlimited
  BY DEF CtrlInv
<1> QED
  BY <1>1, CtrlInvariant, PTL

(* The zeroed period command never goes out again after one was set: a read *)
(* of period_cmd returns it, the one being copied in, or a mixture.         *)
THEOREM ZeroCmdNotAfterSet == Spec => ZeroCmdOnlyUntilSet
<1>1. ASSUME CtrlInv, [Next]_vars,
             fsm_state = "IDLE", fsm_state' = "WAIT_RESP", cur_cmd'.cmd_type = "PERIOD",
             ZeroCmd \notin {period_cmd, period_write}
      PROVE  cur_cmd'.send_data # ZeroCmd
  <2>1. PollMatched
    BY <1>1 DEF Next, Control, vars, fsmVars, Receive, PollIgnored, PollDone, TimeoutFires,
                PeriodFires, StartEvent, StartNotify, SendSingleCommand, SetPeriodBegin,
                SetPeriodEnd, GetRecvData, Answer, Lose, SaveRecvPush, SaveRecvPost
  <2>2. SendCmd
    BY <1>1, <2>1, PollCases DEF Row, ActionSendCycle
  <2>3. ZeroCmd \notin PeriodRead
    BY <1>1, CommCtrlAssumption DEF CommCtrlAssumption, PeriodRead
  <2>5. ASSUME Resending, cur_cmd' = [cur_cmd EXCEPT !.is_timeout = FALSE] PROVE FALSE
    <3>1. cur_cmd'.cmd_type = cur_cmd.cmd_type
      BY <1>1, <2>5 DEF CtrlInv, TypeOK
    <3> QED
      BY <1>1, <2>5, <3>1 DEF Resending
  <2>6. ASSUME NEW c, cur_cmd' = LoadDataToCmd(c, "SINGLE", TRUE) PROVE FALSE
    BY <1>1, <2>6 DEF LoadDataToCmd
  <2>7. PICK c \in PeriodRead :
          cur_cmd' = LoadDataToCmd(c, "PERIOD", cur_cmd.cmd_type # "PERIOD")
    BY <2>2, <2>5, <2>6 DEF SendCmd
  <2>8. cur_cmd'.send_data = c
    BY <2>7 DEF LoadDataToCmd
  <2> QED
    BY <2>3, <2>8
<1>2. CtrlInv /\ [Next]_vars =>
        [(fsm_state = "IDLE" /\ fsm_state' = "WAIT_RESP" /\ cur_cmd'.cmd_type = "PERIOD"
            /\ ZeroCmd \notin {period_cmd, period_write})
           => cur_cmd'.send_data # ZeroCmd]_vars
  BY <1>1
<1> QED
  BY <1>2, CtrlInvariant, PTL DEF Spec, ZeroCmdOnlyUntilSet

(* A mixture of two period commands is sent only while the copy is under    *)
(* way: its timeout does not repeat it.                                     *)
THEOREM MixtureSentOnce == Spec => MixtureNotRepeated
<1>1. ASSUME CtrlInv, [Next]_vars,
             fsm_state = "IDLE", fsm_state' = "WAIT_RESP", period_write = NoCmd
      PROVE  cur_cmd'.send_data # TornCmd
  <2>1. PollMatched
    BY <1>1 DEF Next, Control, vars, fsmVars, Receive, PollIgnored, PollDone, TimeoutFires,
                PeriodFires, StartEvent, StartNotify, SendSingleCommand, SetPeriodBegin,
                SetPeriodEnd, GetRecvData, Answer, Lose, SaveRecvPush, SaveRecvPost
  <2>2. SendCmd
    BY <1>1, <2>1, PollCases DEF Row, ActionSendCycle
  <2>3. TornCmd \notin Singles /\ TornCmd # period_cmd
    BY <1>1, CommCtrlAssumption DEF CommCtrlAssumption, PeriodValues, CtrlInv, TypeOK
  <2>4. ASSUME Resending, cur_cmd' = [cur_cmd EXCEPT !.is_timeout = FALSE]
        PROVE  cur_cmd'.send_data # TornCmd
    <3>1. cur_cmd.send_data \in Singles
      BY <1>1, <2>4 DEF Resending, CtrlInv, CurrentCommandLoaded
    <3>2. cur_cmd'.send_data = cur_cmd.send_data
      BY <1>1, <2>4 DEF CtrlInv, TypeOK
    <3> QED
      BY <2>3, <3>1, <3>2
  <2>5. ASSUME single_cmd_queue # << >>,
               cur_cmd' = LoadDataToCmd(Head(single_cmd_queue), "SINGLE", TRUE)
        PROVE  cur_cmd'.send_data # TornCmd
    <3>1. Head(single_cmd_queue) \in Singles
      BY <1>1, <2>5 DEF CtrlInv, TypeOK
    <3> QED
      BY <2>3, <2>5, <3>1 DEF LoadDataToCmd
  <2>6. ASSUME NEW c \in PeriodRead,
               cur_cmd' = LoadDataToCmd(c, "PERIOD", cur_cmd.cmd_type # "PERIOD")
        PROVE  cur_cmd'.send_data # TornCmd
    BY <1>1, <2>3, <2>6 DEF LoadDataToCmd, PeriodRead
  <2> QED
    BY <2>2, <2>4, <2>5, <2>6 DEF SendCmd
<1>2. CtrlInv /\ [Next]_vars =>
        [(fsm_state = "IDLE" /\ fsm_state' = "WAIT_RESP" /\ period_write = NoCmd)
           => cur_cmd'.send_data # TornCmd]_vars
  BY <1>1
<1> QED
  BY <1>2, CtrlInvariant, PTL DEF Spec, MixtureNotRepeated

-----------------------------------------------------------------------------
(* The controller implements CommandService                                 *)

(* The initial state maps to the service's.                                 *)
LEMMA ServiceInit == ASSUME Init PROVE Service!Init
BY DEF Init, Service!Init, Service!Nothing, Todo, InWork, Outstanding, AnswerAtHand, Queued

(* The mapped state depends on three variables and the queued answer only.  *)
LEMMA ServiceStutter ==
  ASSUME UNCHANGED <<fsm_state, cur_cmd, single_cmd_queue>>, AnswerAtHand' = AnswerAtHand
  PROVE  UNCHANGED Service!svars
BY DEF Service!svars, Todo, InWork, Outstanding

(* An answer is at hand only in a wait, before and after a step.            *)
LEMMA AnswerOnlyInWait ==
  ASSUME CtrlInv, [Next]_vars
  PROVE  /\ AnswerAtHand => fsm_state = "WAIT_RESP"
         /\ AnswerAtHand' => fsm_state' = "WAIT_RESP"
<1>1. AnswerMeetsWait /\ AnswerMeetsWait'
  BY InvStep DEF CtrlInv
<1> QED
  BY <1>1 DEF AnswerMeetsWait, AnswerAtHand

(* An event of a poll is the answer at hand, or START, or there is none.    *)
LEMMA AnswerIsHead ==
  ASSUME CtrlInv, event_queue # << >>
  PROVE  /\ Head(event_queue) = "RECV_RESP" => AnswerAtHand
         /\ Head(event_queue) \notin {"RECV_RESP", "START"} => ~AnswerAtHand
<1>0. event_queue \in Seq(Events) /\ TypeOK /\ OneEventPerPoll
  BY DEF CtrlInv, TypeOK
<1>1. Head(event_queue) = "RECV_RESP" => AnswerAtHand
  <2>1. 1 \in 1 .. Len(event_queue) /\ event_queue[1] = Head(event_queue)
    BY <1>0, TailElements
  <2> QED
    BY <2>1 DEF AnswerAtHand, Queued
<1>2. ASSUME AnswerAtHand, Head(event_queue) # "RECV_RESP"
      PROVE  Head(event_queue) = "START"
  <2>1. Queued("RECV_RESP", Tail(event_queue))
    BY <1>0, <1>2, TailKeeps DEF AnswerAtHand
  <2> QED
    BY <1>0, <2>1, HeadIsStart
<1> QED
  BY <1>1, <1>2

(* Taking an event that is not the answer, or adding START, keeps the       *)
(* answer at hand.                                                          *)
LEMMA AnswerKept ==
  ASSUME CtrlInv, PollIgnored \/ StartEvent
  PROVE  AnswerAtHand' = AnswerAtHand
<1>0. event_queue \in Seq(Events) /\ EventQueueSize \in Nat
  BY CommCtrlAssumption DEF CtrlInv, TypeOK, CommCtrlAssumption
<1>1. CASE PollIgnored
  <2>1. /\ event_queue # << >> /\ event_queue' = Tail(event_queue)
        /\ ~ \E t \in Transitions : t.state = fsm_state /\ t.event = Head(event_queue)
    BY <1>1 DEF PollIgnored
  <2>2. AnswerAtHand' => AnswerAtHand
    BY <1>0, <2>1, TailOrigin DEF AnswerAtHand
  <2>3. AnswerAtHand => AnswerAtHand'
    <3>1. fsm_state = "WAIT_RESP" => Head(event_queue) # "RECV_RESP"
      BY <2>1 DEF Transitions, Transition
    <3> QED
      BY <1>0, <2>1, <3>1, TailKeeps DEF AnswerAtHand, CtrlInv, AnswerMeetsWait
  <2> QED
    BY <2>2, <2>3 DEF AnswerAtHand, Queued
<1>2. CASE StartEvent
  <2>1. event_queue' = Put(event_queue, "START", EventQueueSize) /\ "START" \in Events
    BY <1>2 DEF StartEvent, SendEvent, Events
  <2>2. AnswerAtHand' => AnswerAtHand
    BY <1>0, <2>1, PutOrigin DEF AnswerAtHand
  <2>3. AnswerAtHand => AnswerAtHand'
    BY <1>0, <2>1, PutKeeps DEF AnswerAtHand
  <2> QED
    BY <2>2, <2>3 DEF AnswerAtHand, Queued
<1> QED
  BY <1>1, <1>2

(* An answer's notice, dispatched in a wait, puts the answer at hand.       *)
LEMMA ServiceReceive ==
  ASSUME CtrlInv, [Next]_vars, Receive
  PROVE  Service!Accept \/ UNCHANGED Service!svars
<1>1. UNCHANGED <<fsm_state, cur_cmd, single_cmd_queue>> /\ ~AnswerAtHand
  BY ReceiveCases, NothingButStart DEF CtrlInv, AnswerAtHand
<1>2. CASE AnswerAtHand'
  <2>1. fsm_state = "WAIT_RESP" /\ cur_cmd.cmd_type # "NONE"
    BY <1>1, <1>2, AnswerOnlyInWait DEF CtrlInv, CurrentCommandLoaded
  <2>2. Outstanding # Service!Nothing
    BY <2>1 DEF Outstanding, Service!Nothing
  <2>3. UNCHANGED <<Todo, Outstanding>>
    BY <1>1 DEF Todo, InWork, Outstanding
  <2>4. AnswerAtHand' = TRUE
    BY <1>2 DEF AnswerAtHand, Queued
  <2> QED
    BY <1>1, <2>2, <2>3, <2>4 DEF Service!Accept
<1>3. CASE ~AnswerAtHand'
  <2>1. AnswerAtHand' = AnswerAtHand
    BY <1>1, <1>3 DEF AnswerAtHand, Queued
  <2> QED
    BY <1>1, <2>1, ServiceStutter
<1> QED
  BY <1>2, <1>3

(* A transmission: a repetition or the oldest queued single command is the  *)
(* head of Todo; a period command goes out when Todo is empty.               *)
LEMMA ServiceTransmit ==
  ASSUME CtrlInv, [Next]_vars, event_queue # << >>,
         Row("IDLE", "SEND_CYCLE", "WAIT_RESP", ActionSendCycle)
  PROVE  Service!TransmitSingle \/ \E c \in PeriodValues : Service!TransmitPeriod(c)
<1>0. /\ fsm_state = "IDLE" /\ fsm_state' = "WAIT_RESP" /\ SendCmd
      /\ single_cmd_queue \in Seq(Singles)
      /\ cur_cmd \in [cmd_type : CmdTypes, send_data : Cmds \union {NoCmd},
                      retry_count : 0 .. MaxRetry, is_timeout : BOOLEAN]
      /\ cur_cmd.cmd_type = "SINGLE" => cur_cmd.send_data \in Singles
  BY DEF Row, ActionSendCycle, CtrlInv, TypeOK, CurrentCommandLoaded
<1>1. Outstanding = Service!Nothing
  BY <1>0 DEF Outstanding, Service!Nothing
<1>2. Outstanding' = [type |-> cur_cmd'.cmd_type, cmd |-> cur_cmd'.send_data]
  BY <1>0 DEF Outstanding
<1>3. AnswerAtHand' = AnswerAtHand
  <2>1. ~AnswerAtHand
    BY <1>0, AnswerOnlyInWait
  <2>2. event_queue \in Seq(Events) /\ event_queue' = Tail(event_queue)
    BY DEF Row, ActionSendCycle, CtrlInv, TypeOK
  <2>3. ~AnswerAtHand'
    BY <2>1, <2>2, TailOrigin DEF AnswerAtHand
  <2> QED
    BY <2>1, <2>3 DEF AnswerAtHand, Queued
<1>4. CASE /\ Resending /\ cur_cmd' = [cur_cmd EXCEPT !.is_timeout = FALSE]
           /\ UNCHANGED single_cmd_queue
  <2>1. /\ Todo = <<cur_cmd.send_data>> \o single_cmd_queue
        /\ cur_cmd'.cmd_type = "SINGLE" /\ cur_cmd'.send_data = cur_cmd.send_data
    BY <1>0, <1>4 DEF Todo, InWork, Resending
  <2>2. Todo' = Todo
    BY <1>0, <1>4, <2>1 DEF Todo, InWork
  <2>3. Todo # << >> /\ Head(Todo) = cur_cmd.send_data
    BY <1>0, <1>4, <2>1 DEF Resending
  <2> QED
    BY <1>1, <1>2, <1>3, <2>1, <2>2, <2>3 DEF Service!TransmitSingle, Service!Single
<1>5. CASE /\ ~Resending /\ single_cmd_queue # << >>
           /\ cur_cmd' = LoadDataToCmd(Head(single_cmd_queue), "SINGLE", TRUE)
           /\ single_cmd_queue' = Tail(single_cmd_queue)
  <2>1. Todo = single_cmd_queue
    BY <1>0, <1>5 DEF Todo, InWork, Resending
  <2>2. cur_cmd'.cmd_type = "SINGLE" /\ cur_cmd'.send_data = Head(single_cmd_queue)
    BY <1>5 DEF LoadDataToCmd
  <2>3. Todo' = <<Head(single_cmd_queue)>> \o Tail(single_cmd_queue)
    BY <1>0, <1>5, <2>2 DEF Todo, InWork
  <2>4. Todo' = Todo
    BY <1>0, <1>5, <2>1, <2>3
  <2> QED
    BY <1>1, <1>2, <1>5, <1>3, <2>1, <2>2, <2>4 DEF Service!TransmitSingle, Service!Single
<1>6. ASSUME ~Resending, single_cmd_queue = << >>, UNCHANGED single_cmd_queue,
             NEW c \in PeriodRead,
             cur_cmd' = LoadDataToCmd(c, "PERIOD", cur_cmd.cmd_type # "PERIOD")
      PROVE  \E d \in PeriodValues : Service!TransmitPeriod(d)
  <2>1. c \in PeriodValues
    BY <1>6, PeriodReadType DEF CtrlInv
  <2>2. cur_cmd'.cmd_type = "PERIOD" /\ cur_cmd'.send_data = c
    BY <1>6 DEF LoadDataToCmd
  <2>3. Todo = << >> /\ Todo' = << >>
    BY <1>0, <1>6, <2>2 DEF Todo, InWork, Resending
  <2>4. Service!TransmitPeriod(c)
    BY <1>1, <1>2, <1>3, <2>2, <2>3 DEF Service!TransmitPeriod, Service!Period
  <2> QED
    BY <2>1, <2>4
<1> QED
  BY <1>0, <1>4, <1>5, <1>6 DEF SendCmd

(* The end of a wait: an answer removes a single command, a timeout keeps   *)
(* it, marked for repetition.                                               *)
LEMMA ServiceEnd ==
  ASSUME CtrlInv, [Next]_vars, event_queue # << >>,
         \/ Row("WAIT_RESP", "RECV_RESP", "IDLE", ActionRecvResp)
         \/ Row("WAIT_RESP", "RECV_TIMEOUT", "IDLE", ActionRespTimeout)
  PROVE  Service!Answered \/ Service!GiveUp
<1>0. /\ single_cmd_queue \in Seq(Singles)
      /\ cur_cmd \in [cmd_type : CmdTypes, send_data : Cmds \union {NoCmd},
                      retry_count : 0 .. MaxRetry, is_timeout : BOOLEAN]
      /\ fsm_state = "WAIT_RESP" /\ fsm_state' = "IDLE"
      /\ cur_cmd.cmd_type # "NONE" /\ cur_cmd.retry_count > 0
      /\ cur_cmd.cmd_type = "SINGLE" => cur_cmd.send_data \in Singles
  BY CommCtrlAssumption
     DEF Row, CtrlInv, TypeOK, CurrentCommandLoaded, RetriesUnlimited, CommCtrlAssumption
<1>1. /\ Outstanding.type = cur_cmd.cmd_type
      /\ Outstanding # Service!Nothing /\ Outstanding' = Service!Nothing
  BY <1>0 DEF Outstanding, Service!Nothing
<1>2. AnswerAtHand' = FALSE
  <2>1. ~AnswerAtHand'
    BY <1>0, AnswerOnlyInWait
  <2> QED
    BY <2>1 DEF AnswerAtHand, Queued
<1>3. Todo = IF cur_cmd.cmd_type = "SINGLE"
             THEN <<cur_cmd.send_data>> \o single_cmd_queue ELSE << >> \o single_cmd_queue
  BY <1>0 DEF Todo, InWork
<1>4. << >> \o single_cmd_queue = single_cmd_queue
  BY <1>0
<1>5. CASE Row("WAIT_RESP", "RECV_RESP", "IDLE", ActionRecvResp)
  <2>1. Todo' = single_cmd_queue
    BY <1>0, <1>4, <1>5 DEF Row, ActionRecvResp, Todo, InWork
  <2>2. cur_cmd.cmd_type = "SINGLE" =>
          Tail(<<cur_cmd.send_data>> \o single_cmd_queue) = single_cmd_queue
    BY <1>0
  <2>3. AnswerAtHand
    BY <1>5, AnswerIsHead DEF Row
  <2> QED
    BY <1>1, <1>3, <1>4, <1>2, <2>1, <2>2, <2>3 DEF Service!Answered
<1>6. CASE Row("WAIT_RESP", "RECV_TIMEOUT", "IDLE", ActionRespTimeout)
  <2>1. cur_cmd'.is_timeout = TRUE
    BY <1>0, <1>6 DEF Row, ActionRespTimeout
  <2>2. /\ cur_cmd'.cmd_type = cur_cmd.cmd_type /\ cur_cmd'.send_data = cur_cmd.send_data
        /\ single_cmd_queue' = single_cmd_queue
    BY <1>0, <1>6 DEF Row, ActionRespTimeout
  <2>3. Todo' = Todo
    BY <1>3, <2>1, <2>2 DEF Todo, InWork
  <2>4. ~AnswerAtHand /\ AnswerAtHand' = AnswerAtHand
    <3>1. ~AnswerAtHand
      BY <1>6, AnswerIsHead DEF Row
    <3> QED
      BY <1>2, <3>1 DEF AnswerAtHand, Queued
  <2> QED
    BY <1>1, <2>3, <2>4 DEF Service!GiveUp
<1> QED
  BY <1>5, <1>6

(* Every step maps to a step of the service or to a stutter.                *)
LEMMA ServiceStep ==
  ASSUME CtrlInv, [Next]_vars  PROVE [Service!Next]_(Service!svars)
<1>1. CASE PollMatched
  <2>1. fsm_state # "ERROR" /\ Head(event_queue) # "ERROR"
    BY <1>1, PollCases, TailElements DEF CtrlInv, OneEventPerPoll, TypeOK
  <2>2. CASE Row("NONE", "START", "IDLE", ActionStart)
    <3>1. /\ fsm_state = "NONE" /\ fsm_state' = "IDLE" /\ cur_cmd.cmd_type = "NONE"
          /\ single_cmd_queue' = single_cmd_queue
          /\ cur_cmd' = [cur_cmd EXCEPT !.cmd_type = "NONE"]
      BY <2>2 DEF Row, ActionStart, CtrlInv, QuietBeforeStart
    <3>2. cur_cmd'.cmd_type = "NONE"
      BY <3>1 DEF CtrlInv, TypeOK
    <3>3. AnswerAtHand' = AnswerAtHand
      <4>1. ~AnswerAtHand /\ ~AnswerAtHand'
        BY <3>1, AnswerOnlyInWait
      <4> QED
        BY <4>1 DEF AnswerAtHand, Queued
    <3> QED
      BY <3>1, <3>2, <3>3 DEF Service!svars, Todo, InWork, Outstanding
  <2>3. CASE Row("IDLE", "SEND_CYCLE", "WAIT_RESP", ActionSendCycle)
    BY <1>1, <2>3, ServiceTransmit, PollCases DEF Service!Next
  <2>4. CASE \/ Row("WAIT_RESP", "RECV_RESP", "IDLE", ActionRecvResp)
             \/ Row("WAIT_RESP", "RECV_TIMEOUT", "IDLE", ActionRespTimeout)
    BY <1>1, <2>4, ServiceEnd, PollCases DEF Service!Next
  <2> QED
    BY <1>1, <2>1, <2>2, <2>3, <2>4, PollCases DEF Row
<1>2. ASSUME NEW c \in Singles, SendSingleCommand(c)
      PROVE  Service!Submit(c)
  <2>1. /\ single_cmd_queue \in Seq(Singles) /\ Len(single_cmd_queue) < SingleQueueSize
        /\ single_cmd_queue' = Append(single_cmd_queue, c)
        /\ fsm_state' = fsm_state /\ cur_cmd' = cur_cmd /\ AnswerAtHand' = AnswerAtHand
        /\ SingleQueueSize \in Nat
        /\ cur_cmd.cmd_type = "SINGLE" => cur_cmd.send_data \in Singles
    BY <1>2, CommCtrlAssumption
       DEF SendSingleCommand, CtrlInv, TypeOK, HasRoom, fsmVars, CommCtrlAssumption,
           CurrentCommandLoaded, AnswerAtHand
  <2>2. Outstanding' = Outstanding
    BY <2>1 DEF Outstanding
  <2>3. CASE InWork
    <3>1. cur_cmd.send_data \in Singles
      BY <2>1, <2>3 DEF InWork
    <3>2. /\ Todo = <<cur_cmd.send_data>> \o single_cmd_queue
          /\ Todo' = <<cur_cmd.send_data>> \o Append(single_cmd_queue, c)
      BY <2>1, <2>3 DEF Todo, InWork
    <3>3. Todo' = Append(Todo, c) /\ Len(Todo) = Len(single_cmd_queue) + 1
      BY <2>1, <3>1, <3>2
    <3> QED
      BY <2>1, <2>2, <3>3 DEF Service!Submit
  <2>4. CASE ~InWork
    <3>1. Todo = << >> \o single_cmd_queue /\ Todo' = << >> \o Append(single_cmd_queue, c)
      BY <2>1, <2>4 DEF Todo, InWork
    <3>2. Todo' = Append(Todo, c) /\ Len(Todo) = Len(single_cmd_queue)
      BY <2>1, <3>1
    <3> QED
      BY <2>1, <2>2, <3>2 DEF Service!Submit
  <2> QED
    BY <2>3, <2>4
<1>3. CASE Receive
  BY <1>3, ServiceReceive DEF Service!Next
<1>4. CASE PollIgnored \/ StartEvent
  <2>1. UNCHANGED <<fsm_state, cur_cmd, single_cmd_queue>>
    BY <1>4 DEF PollIgnored, StartEvent, cmdVars
  <2> QED
    BY <1>4, <2>1, AnswerKept, ServiceStutter
<1>5. CASE UNCHANGED <<fsm_state, event_queue, cur_cmd, single_cmd_queue>>
  BY <1>5, ServiceStutter DEF AnswerAtHand
<1>6. \/ PollMatched \/ Receive \/ PollIgnored \/ StartEvent
      \/ \E c \in Singles : SendSingleCommand(c)
      \/ UNCHANGED <<fsm_state, event_queue, cur_cmd, single_cmd_queue>>
  BY DEF Next, Control, vars, fsmVars, cmdVars, PollDone,
         TimeoutFires, PeriodFires, StartNotify, SetPeriodBegin, SetPeriodEnd,
         GetRecvData, Answer, Lose, SaveRecvPush, SaveRecvPost
<1> QED
  BY <1>1, <1>2, <1>3, <1>4, <1>5, <1>6 DEF Service!Next

(* The controller implements CommandService: single commands in order, one  *)
(* at a time, repeated until answered, period commands only in between, for *)
(* every size of every queue.                                               *)
THEOREM ServiceImplemented == Spec => ImplementsService
<1>1. Init => Service!Init
  BY ServiceInit
<1>2. CtrlInv /\ [Next]_vars => [Service!Next]_(Service!svars)
  BY ServiceStep
<1> QED
  BY <1>1, <1>2, CtrlInvariant, PTL DEF Spec, ImplementsService, Service!Spec

(* No single command is lost, doubled or overtaken: of those accepted and   *)
(* not yet answered, one is only ever added behind the others, and the only *)
(* one that leaves is the oldest, in the step that ends its own wait for an *)
(* accepted answer, never by a timeout or a lost message.                   *)
THEOREM SinglesLeaveAnswered ==
  Spec => [][\/ Todo' = Todo
             \/ \E c \in Singles : Todo' = Append(Todo, c)
             \/ /\ Todo # << >> /\ Todo' = Tail(Todo)
                /\ fsm_state = "WAIT_RESP" /\ fsm_state' # "WAIT_RESP"
                /\ cur_cmd.cmd_type = "SINGLE" /\ cur_cmd.send_data = Head(Todo)
                /\ Queued("RECV_RESP", event_queue)]_vars
<1> DEFINE Leaves == /\ Todo # << >> /\ Todo' = Tail(Todo)
                     /\ fsm_state = "WAIT_RESP" /\ fsm_state' # "WAIT_RESP"
                     /\ cur_cmd.cmd_type = "SINGLE" /\ cur_cmd.send_data = Head(Todo)
                     /\ Queued("RECV_RESP", event_queue)
<1>1. ASSUME CtrlInv, [Next]_vars
      PROVE  Todo' = Todo \/ (\E c \in Singles : Todo' = Append(Todo, c)) \/ Leaves
  <2>1. CASE UNCHANGED Service!svars
    BY <2>1 DEF Service!svars
  <2>2. ASSUME NEW c \in Singles, Service!Submit(c)
        PROVE  Todo' = Append(Todo, c)
    BY <2>2 DEF Service!Submit
  <2>3. CASE \/ Service!TransmitSingle \/ Service!Accept \/ Service!GiveUp
             \/ \E c \in PeriodValues : Service!TransmitPeriod(c)
    BY <2>3 DEF Service!TransmitSingle, Service!Accept, Service!GiveUp, Service!TransmitPeriod
  <2>4. CASE Service!Answered
    <3>1. /\ Outstanding # Service!Nothing /\ Outstanding' = Service!Nothing
          /\ AnswerAtHand
          /\ Todo' = IF Outstanding.type = "SINGLE" THEN Tail(Todo) ELSE Todo
      BY <2>4 DEF Service!Answered
    <3>2. fsm_state = "WAIT_RESP" /\ cur_cmd.cmd_type # "NONE"
          /\ (cur_cmd.cmd_type = "SINGLE" => cur_cmd.send_data \in Singles)
          /\ single_cmd_queue \in Seq(Singles)
      BY <1>1, <3>1, AnswerOnlyInWait DEF CtrlInv, CurrentCommandLoaded, TypeOK
    <3>3. Outstanding.type = cur_cmd.cmd_type
      BY <3>2 DEF Outstanding
    <3>4. fsm_state' # "WAIT_RESP"
      <4>1. CtrlInv'
        BY <1>1, InvStep
      <4>2. fsm_state' = "WAIT_RESP" => cur_cmd'.cmd_type # "NONE"
        BY <4>1 DEF CtrlInv, CurrentCommandLoaded
      <4>3. fsm_state' = "WAIT_RESP" => Outstanding'.type = cur_cmd'.cmd_type
        BY DEF Outstanding
      <4>4. Outstanding'.type = "NONE"
        BY <3>1 DEF Service!Nothing
      <4> QED
        BY <4>2, <4>3, <4>4
    <3>5. CASE cur_cmd.cmd_type = "SINGLE"
      <4>1. Todo = <<cur_cmd.send_data>> \o single_cmd_queue
        BY <3>2, <3>5 DEF Todo, InWork
      <4>2. Todo # << >> /\ cur_cmd.send_data = Head(Todo)
        BY <3>2, <3>5, <4>1
      <4> QED
        BY <3>1, <3>2, <3>3, <3>4, <3>5, <4>2 DEF AnswerAtHand
    <3>6. CASE cur_cmd.cmd_type # "SINGLE"
      BY <3>1, <3>3, <3>6
    <3> QED
      BY <3>5, <3>6
  <2> HIDE DEF Leaves
  <2>5. [Service!Next]_(Service!svars)
    BY <1>1, ServiceStep
  <2> QED
    BY <2>1, <2>2, <2>3, <2>4, <2>5 DEF Service!Next
<1>2. CtrlInv /\ [Next]_vars
        => [Todo' = Todo \/ (\E c \in Singles : Todo' = Append(Todo, c)) \/ Leaves]_vars
  BY <1>1
<1> QED
  BY <1>2, CtrlInvariant, PTL DEF Spec

=============================================================================
