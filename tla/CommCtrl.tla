------------------------------ MODULE CommCtrl ------------------------------
(***************************************************************************)
(* The communication controller, comm_ctrl.c, run by its fsm.c engine: a    *)
(* stop-and-wait master.  One control thread runs comm_ctrl_process; it     *)
(* takes one message, runs its handler, which sends an FSM event, and polls *)
(* the FSM until its event queue is empty.  Around it run                   *)
(*   - the application: comm_ctrl_start, _send_single_command,              *)
(*     _send_period_command, _get_recv_data;                                *)
(*   - the receive thread: comm_ctrl_save_recv_data (RecvPool);             *)
(*   - the timer thread: the period timer and the one-shot timeout timer,   *)
(*     whose callbacks post messages;                                       *)
(*   - the line: a transmitted command is answered, late or never.          *)
(* Data is abstracted to the identity of the command: a frame is the        *)
(* command it answers.  Time is abstracted: a running timer may fire.        *)
(***************************************************************************)
EXTENDS Integers, FiniteSets, RecvPool

CONSTANTS
  Singles,          \* single commands the application may submit
  Periods,          \* period commands the application may set
  ZeroCmd,          \* the zeroed period command comm_ctrl_init leaves
  TornCmd,          \* a command read while it is being overwritten
  NoCmd,            \* no command
  MsgQueueSize,     \* 16 in the code
  EventQueueSize,   \* 4 in the code
  SingleQueueSize,  \* COMM_SINGLE_CMD_QUEUE_SIZE
  MaxRetry,         \* 4, the value retry_count is reset to
  MaxStarts,        \* bound: calls of comm_ctrl_start
  MaxOnLine,        \* bound: unanswered transmissions of one command on the line
  MaxLine           \* bound: commands with unanswered transmissions on the line

PeriodValues == Periods \union {ZeroCmd, TornCmd}
Cmds == Singles \union PeriodValues

ASSUME CommCtrlAssumption ==
  /\ Frames = Cmds
  /\ Singles \intersect PeriodValues = {}
  /\ NoCmd \notin Cmds
  /\ TornCmd \notin Periods \union {ZeroCmd}
  /\ MsgQueueSize \in Nat \ {0}
  /\ EventQueueSize \in Nat \ {0}
  /\ SingleQueueSize \in Nat \ {0}
  /\ MaxRetry \in Nat \ {0}
  /\ MaxStarts \in Nat
  /\ MaxStarts < EventQueueSize
  /\ MaxOnLine \in Nat \ {0}
  /\ MaxLine \in Nat \ {0}

VARIABLES
  fsm_state,        \* fsm.state
  event_queue,      \* fsm.event_queue
  ctrl_pc,          \* comm_ctrl_process: "receive" a message, or in fsm_"poll"
  msg_queue,        \* comm_ctrl.msg_queue, msg_id only: nothing else is sent
  cur_cmd,          \* comm_ctrl.cur_cmd
  single_cmd_queue, \* comm_ctrl.single_cmd_queue
  period_cmd,       \* comm_ctrl.period_cmd
  period_write,     \* the command set_period_command is copying in, or NoCmd
  timeout_timer,    \* TRUE while the one-shot timeout timer runs
  preiod_timer,     \* TRUE while the periodic timer runs
  start_pc,         \* comm_ctrl_start: "idle", or "notify" after its event
  starts,           \* bound: calls of comm_ctrl_start so far
  line,             \* command -> transmissions not yet answered or lost
  timeout_lost      \* history: this wait's TIMEOUT message was dropped

fsmVars   == <<fsm_state, event_queue, ctrl_pc>>
cmdVars   == <<cur_cmd, single_cmd_queue>>
perVars   == <<period_cmd, period_write>>
timerVars == <<timeout_timer, preiod_timer>>
startVars == <<start_pc, starts>>
vars == <<fsmVars, msg_queue, cmdVars, perVars, timerVars, startVars, line,
          timeout_lost, poolVars>>

Events   == {"START", "SEND_CYCLE", "RECV_RESP", "RECV_TIMEOUT", "ERROR", "RESTART"}
Messages == {"NOTIFY", "SEND_TIMEOUT", "SEND_CYCLE", "RECV_DATA"}
States   == {"NONE", "IDLE", "WAIT_RESP", "ERROR"}
CmdTypes == {"NONE", "SINGLE", "PERIOD"}

(* comm_ctrl_fsm_transitions                                                *)
Transition(s, e, n, a) == [state |-> s, event |-> e, next |-> n, action |-> a]
Transitions == {
  Transition("NONE",      "START",        "IDLE",      "start"),
  Transition("IDLE",      "SEND_CYCLE",   "WAIT_RESP", "send_cycle"),
  Transition("WAIT_RESP", "RECV_RESP",    "IDLE",      "recv_resp"),
  Transition("WAIT_RESP", "RECV_TIMEOUT", "IDLE",      "resp_timeout"),
  Transition("IDLE",      "ERROR",        "ERROR",     "error"),
  Transition("ERROR",     "RESTART",      "IDLE",      "start") }

TypeOK ==
  /\ fsm_state \in States
  /\ event_queue \in Seq(Events) /\ Len(event_queue) <= EventQueueSize
  /\ ctrl_pc \in {"receive", "poll"}
  /\ msg_queue \in Seq(Messages) /\ Len(msg_queue) <= MsgQueueSize
  /\ cur_cmd \in [cmd_type : CmdTypes, send_data : Cmds \union {NoCmd},
                  retry_count : 0 .. MaxRetry, is_timeout : BOOLEAN]
  /\ single_cmd_queue \in Seq(Singles) /\ Len(single_cmd_queue) <= SingleQueueSize
  /\ period_cmd \in Periods \union {ZeroCmd}
  /\ period_write \in Periods \union {NoCmd}
  /\ timeout_timer \in BOOLEAN /\ preiod_timer \in BOOLEAN
  /\ start_pc \in {"idle", "notify"} /\ starts \in 0 .. MaxStarts
  /\ line \in [Cmds -> 0 .. MaxOnLine]
  /\ timeout_lost \in BOOLEAN
  /\ PoolTypeOK

(* comm_ctrl_init, on a zeroed comm_ctrl_t, and comm_ctrl_set_send_func.    *)
Init ==
  /\ fsm_state = "NONE" /\ event_queue = << >> /\ ctrl_pc = "receive"
  /\ msg_queue = << >>
  /\ cur_cmd = [cmd_type |-> "NONE", send_data |-> NoCmd, retry_count |-> 0,
                is_timeout |-> FALSE]
  /\ single_cmd_queue = << >>
  /\ period_cmd = ZeroCmd /\ period_write = NoCmd
  /\ timeout_timer = FALSE /\ preiod_timer = FALSE
  /\ start_pc = "idle" /\ starts = 0
  /\ line = [c \in Cmds |-> 0]
  /\ timeout_lost = FALSE
  /\ PoolInit

-----------------------------------------------------------------------------
(* comm_ctrl_send_msg and fsm_send_event: a put into a full queue is lost.  *)
SendMsg(m) == msg_queue' = Put(msg_queue, m, MsgQueueSize)
SendEvent(q, e) == Put(q, e, EventQueueSize)

-----------------------------------------------------------------------------
(* comm_ctrl_send_cmd: which command goes out next.                         *)

(* Variants: a single command is repeated although it was answered; a       *)
(* period command is repeated as well.                                      *)
ResendingAnswered == cur_cmd.cmd_type = "SINGLE"
ResendingAny == cur_cmd.is_timeout

Resending == cur_cmd.is_timeout /\ cur_cmd.cmd_type = "SINGLE"

(* What an unguarded read of period_cmd may return while another thread     *)
(* copies period_write into it.                                             *)
PeriodRead == IF period_write \in {NoCmd, period_cmd} THEN {period_cmd}
              ELSE {period_cmd, period_write, TornCmd}

(* Variants of LoadDataToCmd with a defect, which the properties must       *)
(* notice: is_timeout is not reset; a repeated period command is not copied *)
(* again.                                                                   *)
LoadKeepsTimeout(data, type, is_reset_retry) ==
  [cmd_type |-> type, send_data |-> data, is_timeout |-> cur_cmd.is_timeout,
   retry_count |-> IF is_reset_retry THEN MaxRetry ELSE cur_cmd.retry_count]
LoadKeepsData(data, type, is_reset_retry) ==
  [cmd_type |-> type, is_timeout |-> FALSE,
   send_data |-> IF is_reset_retry THEN data ELSE cur_cmd.send_data,
   retry_count |-> IF is_reset_retry THEN MaxRetry ELSE cur_cmd.retry_count]

(* comm_ctrl_load_data_to_cmd                                               *)
LoadDataToCmd(data, type, is_reset_retry) ==
  [cmd_type    |-> type,
   send_data   |-> data,
   retry_count |-> IF is_reset_retry THEN MaxRetry ELSE cur_cmd.retry_count,
   is_timeout  |-> FALSE]

(* The transmission, through send_func: the line holds one more unanswered  *)
(* command (a transmission over the bounds is lost).                        *)
Transmit(c) ==
  line' = IF Cardinality({d \in Cmds \ {c} : line[d] > 0}) < MaxLine
          THEN [line EXCEPT ![c] = IF @ < MaxOnLine THEN @ + 1 ELSE @]
          ELSE line

SendCmd ==
  /\ \/ /\ Resending
        /\ cur_cmd' = [cur_cmd EXCEPT !.is_timeout = FALSE]
        /\ UNCHANGED single_cmd_queue
     \/ /\ ~Resending
        /\ single_cmd_queue # << >>
        /\ cur_cmd' = LoadDataToCmd(Head(single_cmd_queue), "SINGLE", TRUE)
        /\ single_cmd_queue' = Tail(single_cmd_queue)
     \/ /\ ~Resending
        /\ single_cmd_queue = << >>
        /\ \E c \in PeriodRead :
             cur_cmd' = LoadDataToCmd(c, "PERIOD", cur_cmd.cmd_type # "PERIOD")
        /\ UNCHANGED single_cmd_queue
  /\ timeout_timer' = TRUE
  /\ timeout_lost' = FALSE
  /\ Transmit(cur_cmd'.send_data)

-----------------------------------------------------------------------------
(* The actions of the transition table.                                     *)

ActionStart ==
  /\ cur_cmd' = [cur_cmd EXCEPT !.cmd_type = "NONE"]
  /\ preiod_timer' = TRUE
  /\ event_queue' = SendEvent(Tail(event_queue), "SEND_CYCLE")
  /\ UNCHANGED <<single_cmd_queue, timeout_timer, line, timeout_lost>>

ActionSendCycle ==
  /\ SendCmd
  /\ event_queue' = Tail(event_queue)
  /\ UNCHANGED preiod_timer

ActionRecvResp ==
  /\ timeout_timer' = FALSE
  /\ cur_cmd' = [cur_cmd EXCEPT !.is_timeout = FALSE, !.retry_count = MaxRetry]
  /\ event_queue' = Tail(event_queue)
  /\ UNCHANGED <<single_cmd_queue, preiod_timer, line, timeout_lost>>

(* Variants: the decrement that is commented out in the code; a timeout     *)
(* that does not mark the command for repetition.                           *)
RespTimeoutDecrements ==
  /\ cur_cmd' = [cur_cmd EXCEPT !.is_timeout = cur_cmd.retry_count > 1,
                                !.retry_count = IF @ > 0 THEN @ - 1 ELSE 0]
  /\ event_queue' = Tail(event_queue)
  /\ UNCHANGED <<single_cmd_queue, timerVars, line, timeout_lost>>
RespTimeoutForgets ==
  /\ event_queue' = Tail(event_queue)
  /\ UNCHANGED <<cmdVars, timerVars, line, timeout_lost>>

ActionRespTimeout ==
  /\ cur_cmd' = [cur_cmd EXCEPT !.is_timeout = @ \/ cur_cmd.retry_count > 0]
  /\ event_queue' = Tail(event_queue)
  /\ UNCHANGED <<single_cmd_queue, timerVars, line, timeout_lost>>

ActionError ==
  /\ timeout_timer' = FALSE /\ preiod_timer' = FALSE
  /\ event_queue' = Tail(event_queue)
  /\ UNCHANGED <<cmdVars, line, timeout_lost>>

RunAction(a) ==
  CASE a = "start"        -> ActionStart
    [] a = "send_cycle"   -> ActionSendCycle
    [] a = "recv_resp"    -> ActionRecvResp
    [] a = "resp_timeout" -> ActionRespTimeout
    [] a = "error"        -> ActionError

-----------------------------------------------------------------------------
(* The control thread: comm_ctrl_process                                    *)

(* Variants of RecvData: the state is not tested; it is tested before the   *)
(* buffer is popped, which then stays behind.                               *)
RecvDataUntested(q) ==
  /\ recv_queue # << >>
  /\ CtrlTake(TRUE)
  /\ event_queue' = SendEvent(q, "RECV_RESP")
RecvDataTestsFirst(q) ==
  \/ /\ recv_queue = << >> \/ fsm_state # "WAIT_RESP"
     /\ event_queue' = q
     /\ UNCHANGED poolVars
  \/ /\ recv_queue # << >> /\ fsm_state = "WAIT_RESP"
     /\ CtrlTake(TRUE)
     /\ event_queue' = SendEvent(q, "RECV_RESP")

(* comm_ctrl_recv_data: a frame that arrives in WAIT_RESP is handed to the  *)
(* application and ends the wait; in any other state it is discarded.       *)
RecvData(q) ==
  \/ /\ recv_queue = << >>
     /\ event_queue' = q
     /\ UNCHANGED poolVars
  \/ /\ recv_queue # << >>
     /\ CtrlTake(fsm_state = "WAIT_RESP")
     /\ event_queue' = IF fsm_state = "WAIT_RESP" THEN SendEvent(q, "RECV_RESP") ELSE q

(* message_queue_receive and message_table_proccess: one message is taken   *)
(* and its handler runs, before fsm_poll.                                   *)
Dispatch(m) ==
  \/ /\ m = "NOTIFY"
     /\ UNCHANGED <<event_queue, poolVars>>
  \/ /\ m = "SEND_TIMEOUT"
     /\ event_queue' = SendEvent(event_queue, "RECV_TIMEOUT")
     /\ UNCHANGED poolVars
  \/ /\ m = "SEND_CYCLE"
     /\ event_queue' = SendEvent(event_queue, "SEND_CYCLE")
     /\ UNCHANGED poolVars
  \/ /\ m = "RECV_DATA"
     /\ RecvData(event_queue)

Receive ==
  /\ ctrl_pc = "receive"
  /\ msg_queue # << >>
  /\ Dispatch(Head(msg_queue))
  /\ msg_queue' = Tail(msg_queue)
  /\ ctrl_pc' = "poll"
  /\ UNCHANGED <<fsm_state, cmdVars, perVars, timerVars, startVars, line, timeout_lost>>

(* One round of fsm_poll's loop: take the event, fsm_process_event.  The    *)
(* action runs before the state is updated.                                 *)
PollMatched ==
  /\ ctrl_pc = "poll"
  /\ event_queue # << >>
  /\ \E t \in Transitions :
       /\ t.state = fsm_state
       /\ t.event = Head(event_queue)
       /\ RunAction(t.action)
       /\ fsm_state' = t.next
  /\ UNCHANGED <<ctrl_pc, msg_queue, perVars, startVars, poolVars>>

(* Variant: an event with no transition stays at the head of the queue.     *)
PollIgnoredKeeps ==
  /\ ctrl_pc = "poll"
  /\ event_queue # << >>
  /\ ~ \E t \in Transitions : t.state = fsm_state /\ t.event = Head(event_queue)
  /\ UNCHANGED vars

PollIgnored ==
  /\ ctrl_pc = "poll"
  /\ event_queue # << >>
  /\ ~ \E t \in Transitions : t.state = fsm_state /\ t.event = Head(event_queue)
  /\ event_queue' = Tail(event_queue)
  /\ UNCHANGED <<fsm_state, ctrl_pc, msg_queue, cmdVars, perVars, timerVars, startVars,
                 line, timeout_lost, poolVars>>

(* Variant: the poll may return with events left (an "if" for the "while"). *)
PollDoneEarly ==
  /\ ctrl_pc = "poll"
  /\ ctrl_pc' = "receive"
  /\ UNCHANGED <<fsm_state, event_queue, msg_queue, cmdVars, perVars, timerVars,
                 startVars, line, timeout_lost, poolVars>>

PollDone ==
  /\ ctrl_pc = "poll"
  /\ event_queue = << >>
  /\ ctrl_pc' = "receive"
  /\ UNCHANGED <<fsm_state, event_queue, msg_queue, cmdVars, perVars, timerVars,
                 startVars, line, timeout_lost, poolVars>>

Control == Receive \/ PollMatched \/ PollIgnored \/ PollDone

-----------------------------------------------------------------------------
(* The timer thread: each callback posts one message.                       *)

(* Variant: the callback posts the other timer's message.                   *)
TimeoutPostsCycle ==
  /\ timeout_timer
  /\ timeout_timer' = FALSE
  /\ SendMsg("SEND_CYCLE")
  /\ timeout_lost' = ~HasRoom(msg_queue, MsgQueueSize)
  /\ UNCHANGED <<fsmVars, cmdVars, perVars, preiod_timer, startVars, line, poolVars>>

TimeoutFires ==
  /\ timeout_timer
  /\ timeout_timer' = FALSE                                   \* osTimerOnce
  /\ SendMsg("SEND_TIMEOUT")
  /\ timeout_lost' = ~HasRoom(msg_queue, MsgQueueSize)
  /\ UNCHANGED <<fsmVars, cmdVars, perVars, preiod_timer, startVars, line, poolVars>>

(* Variant: the period timer is created as a one-shot timer.                *)
PeriodFiresOnce ==
  /\ preiod_timer
  /\ preiod_timer' = FALSE
  /\ SendMsg("SEND_CYCLE")
  /\ UNCHANGED <<fsmVars, cmdVars, perVars, timeout_timer, startVars, line, timeout_lost,
                 poolVars>>

PeriodFires ==
  /\ preiod_timer                                             \* osTimerPeriodic
  /\ SendMsg("SEND_CYCLE")
  /\ UNCHANGED <<fsmVars, cmdVars, perVars, timerVars, startVars, line, timeout_lost,
                 poolVars>>

-----------------------------------------------------------------------------
(* The application.                                                         *)

(* comm_ctrl_start: the event first, then the message that wakes the        *)
(* control thread.                                                          *)
StartEvent ==
  /\ start_pc = "idle"
  /\ starts < MaxStarts
  /\ starts' = starts + 1
  /\ start_pc' = "notify"
  /\ event_queue' = SendEvent(event_queue, "START")
  /\ UNCHANGED <<fsm_state, ctrl_pc, msg_queue, cmdVars, perVars, timerVars, line,
                 timeout_lost, poolVars>>

StartNotify ==
  /\ start_pc = "notify"
  /\ start_pc' = "idle"
  /\ SendMsg("NOTIFY")
  /\ UNCHANGED <<fsmVars, cmdVars, perVars, timerVars, starts, line, timeout_lost,
                 poolVars>>

(* Variant: a full queue does not refuse the command.                       *)
SendSingleUnbounded(c) ==
  /\ Len(single_cmd_queue) <= SingleQueueSize
  /\ single_cmd_queue' = Append(single_cmd_queue, c)
  /\ UNCHANGED <<fsmVars, msg_queue, cur_cmd, perVars, timerVars, startVars, line,
                 timeout_lost, poolVars>>

(* comm_ctrl_send_single_command; a full queue returns COMM_ERROR.          *)
SendSingleCommand(c) ==
  /\ HasRoom(single_cmd_queue, SingleQueueSize)
  /\ single_cmd_queue' = Append(single_cmd_queue, c)
  /\ UNCHANGED <<fsmVars, msg_queue, cur_cmd, perVars, timerVars, startVars, line,
                 timeout_lost, poolVars>>

(* comm_ctrl_set_period_command copies under the mutex, which the control   *)
(* thread does not take: the copy has a beginning and an end.               *)
SetPeriodBegin(c) ==
  /\ period_write = NoCmd
  /\ period_write' = c
  /\ UNCHANGED <<fsmVars, msg_queue, cmdVars, period_cmd, timerVars, startVars, line,
                 timeout_lost, poolVars>>

SetPeriodEnd ==
  /\ period_write # NoCmd
  /\ period_cmd' = period_write
  /\ period_write' = NoCmd
  /\ UNCHANGED <<fsmVars, msg_queue, cmdVars, timerVars, startVars, line, timeout_lost,
                 poolVars>>

(* comm_ctrl_get_recv_data                                                  *)
GetRecvData ==
  /\ ReaderPop \/ ReaderFree
  /\ UNCHANGED <<fsmVars, msg_queue, cmdVars, perVars, timerVars, startVars, line,
                 timeout_lost>>

-----------------------------------------------------------------------------
(* The line and the receive thread: comm_ctrl_save_recv_data                *)

(* The slave's answer to c reaches comm_ctrl_save_recv_data.                *)
Answer(c) ==
  /\ line[c] > 0
  /\ line' = [line EXCEPT ![c] = @ - 1]
  /\ RxAlloc(c)
  /\ UNCHANGED <<fsmVars, msg_queue, cmdVars, perVars, timerVars, startVars, timeout_lost>>

(* The command or its answer is lost, or garbled and refused by the decoder *)
(* or by the length check.                                                  *)
Lose(c) ==
  /\ line[c] > 0
  /\ line' = [line EXCEPT ![c] = @ - 1]
  /\ UNCHANGED <<fsmVars, msg_queue, cmdVars, perVars, timerVars, startVars, timeout_lost,
                 poolVars>>

SaveRecvPush ==
  /\ RxPush
  /\ UNCHANGED <<fsmVars, msg_queue, cmdVars, perVars, timerVars, startVars, line,
                 timeout_lost>>

SaveRecvPost ==
  /\ RxPost(HasRoom(msg_queue, MsgQueueSize))
  /\ SendMsg("RECV_DATA")
  /\ UNCHANGED <<fsmVars, cmdVars, perVars, timerVars, startVars, line, timeout_lost>>

-----------------------------------------------------------------------------
Next ==
  \/ Control
  \/ TimeoutFires \/ PeriodFires
  \/ StartEvent \/ StartNotify
  \/ \E c \in Singles : SendSingleCommand(c)
  \/ \E c \in Periods : SetPeriodBegin(c)
  \/ SetPeriodEnd
  \/ GetRecvData
  \/ \E c \in Cmds : Answer(c) \/ Lose(c)
  \/ SaveRecvPush \/ SaveRecvPost

Spec == Init /\ [][Next]_vars

(* The threads that loop in the code keep running: the control thread, the  *)
(* receive thread inside a call, a thread inside comm_ctrl_start, and the   *)
(* timer thread, which fires a running timer.  Nothing is assumed of the    *)
(* application's calls, of the line or of the answers.                      *)
Fairness ==
  /\ WF_vars(Control)
  /\ WF_vars(TimeoutFires)
  /\ WF_vars(PeriodFires)
  /\ WF_vars(StartNotify)
  /\ WF_vars(SaveRecvPush \/ SaveRecvPost)

FairSpec == Spec /\ Fairness

-----------------------------------------------------------------------------
(* No FSM event is lost to a full event queue: between two polls only START *)
(* events wait, and a poll adds one of the other kind.  (fsm_send_event      *)
(* drops silently; a dropped RECV_TIMEOUT would hang the wait.)              *)
EventsFit ==
  Len(event_queue) <= starts + (IF ctrl_pc = "poll" THEN 1 ELSE 0)

(* What makes EventsFit and AnswerMeetsWait inductive: at most one event    *)
(* that is not START is queued, and none outside a poll; ERROR and RESTART  *)
(* are never sent.                                                          *)
OneEventPerPoll ==
  /\ \A i \in 1 .. Len(event_queue) : event_queue[i] \notin {"ERROR", "RESTART"}
  /\ \A i, j \in 1 .. Len(event_queue) :
       event_queue[i] # "START" /\ event_queue[j] # "START" => i = j
  /\ ctrl_pc = "receive" => \A i \in 1 .. Len(event_queue) : event_queue[i] = "START"
  /\ fsm_state # "ERROR"

(* Before START is processed nothing can tick: no timer runs, and neither   *)
(* timer's message nor any event but START is queued.                       *)
QuietBeforeStart ==
  fsm_state = "NONE" =>
    /\ ~timeout_timer /\ ~preiod_timer
    /\ \A i \in 1 .. Len(msg_queue) : msg_queue[i] \in {"NOTIFY", "RECV_DATA"}
    /\ \A i \in 1 .. Len(event_queue) : event_queue[i] = "START"
    /\ cur_cmd.cmd_type = "NONE"

(* The current command while it is awaited: loaded, not marked timed out,   *)
(* and of the set its type says.                                            *)
CurrentCommandLoaded ==
  /\ fsm_state = "WAIT_RESP" => cur_cmd.cmd_type # "NONE" /\ ~cur_cmd.is_timeout
  /\ cur_cmd.cmd_type = "SINGLE" => cur_cmd.send_data \in Singles
  /\ cur_cmd.cmd_type = "PERIOD" => cur_cmd.send_data \in PeriodValues

(* A wait always has something under way that ends it, the running timeout  *)
(* timer, its message, its event or an accepted answer's event, unless the   *)
(* timer's message met a full queue and was dropped.                        *)
WaitIsGuarded ==
  fsm_state = "WAIT_RESP" =>
    \/ timeout_timer
    \/ Queued("SEND_TIMEOUT", msg_queue)
    \/ Queued("RECV_TIMEOUT", event_queue)
    \/ Queued("RECV_RESP", event_queue)
    \/ timeout_lost

(* The state comm_ctrl_recv_data tested is still the state when the event   *)
(* it sent is polled: an accepted answer always ends a wait.                *)
AnswerMeetsWait == Queued("RECV_RESP", event_queue) => fsm_state = "WAIT_RESP"

(* retry_count is reset by the first load after a start and then never      *)
(* moves: a command is repeated without limit, and no timeout of a single    *)
(* command passes without marking it for repetition.                        *)
RetriesUnlimited == cur_cmd.cmd_type # "NONE" => cur_cmd.retry_count = MaxRetry

(* The inductive invariant.                                                 *)
CtrlInv ==
  /\ TypeOK
  /\ EventsFit
  /\ OneEventPerPoll
  /\ QuietBeforeStart
  /\ CurrentCommandLoaded
  /\ WaitIsGuarded
  /\ AnswerMeetsWait
  /\ RetriesUnlimited

(* A wait ends, by an answer or by its timeout, unless that timeout's       *)
(* message was dropped.                                                     *)
WaitEnds == (fsm_state = "WAIT_RESP") ~> (fsm_state = "IDLE" \/ timeout_lost)

(* The controller never rests: an idle controller sends again.  A period    *)
(* tick that meets a full queue is dropped, but not every one is.           *)
IdleSends == (fsm_state = "IDLE") ~> (fsm_state = "WAIT_RESP")

(* fsm_poll returns: the control thread always gets back to its messages.   *)
PollReturns == (ctrl_pc = "poll") ~> (ctrl_pc = "receive")

(* A period command the application set is what the idle controller sends   *)
(* next, unless a single command takes its place or it is being replaced.   *)
PeriodUpdateSent ==
  \A c \in Periods :
    (fsm_state = "IDLE" /\ period_cmd = c) ~>
       \/ fsm_state = "WAIT_RESP" /\ cur_cmd.send_data = c
       \/ cur_cmd.cmd_type = "SINGLE"
       \/ period_write \notin {NoCmd, c} \/ period_cmd # c

(* The zeroed command comm_ctrl_init leaves (its comment at 476 says "No    *)
(* period command initially") goes out only while no period command has     *)
(* been set: never again after one was, whatever the control thread sees of *)
(* a copy under way.                                                        *)
ZeroCmdOnlyUntilSet ==
  [][(fsm_state = "IDLE" /\ fsm_state' = "WAIT_RESP" /\ cur_cmd'.cmd_type = "PERIOD"
        /\ ZeroCmd \notin {period_cmd, period_write})
       => cur_cmd'.send_data # ZeroCmd]_vars

(* The copy in comm_ctrl_set_period_command is under the mutex and the read *)
(* of period_cmd at 663-668 is not: a mixture may be sent, but only by a    *)
(* transmission during the copy.  Its timeout does not bring it back, the   *)
(* next period transmission reads period_cmd again.                         *)
MixtureNotRepeated ==
  [][(fsm_state = "IDLE" /\ fsm_state' = "WAIT_RESP" /\ period_write = NoCmd)
       => cur_cmd'.send_data # TornCmd]_vars

(* The step that processes an accepted answer.                              *)
AcceptsAnswer == PollMatched /\ Head(event_queue) = "RECV_RESP"

(* No single command waits behind others for ever while answers keep being  *)
(* accepted: one that is queued behind another command becomes the current  *)
(* one and goes out.  (Without answers it does not: retries are unlimited.) *)
SinglesSent ==
  ([]<><<AcceptsAnswer>>_vars) =>
     \A c \in Singles :
        (Queued(c, single_cmd_queue) /\ cur_cmd.send_data # c)
          ~> (fsm_state = "WAIT_RESP" /\ cur_cmd.send_data = c)

-----------------------------------------------------------------------------
(* The controller implements CommandService: the commands not yet answered  *)
(* are the queue, behind the current one while it is a single command that  *)
(* is awaited or due for repetition; an accepted answer is its event.       *)

InWork == cur_cmd.cmd_type = "SINGLE" /\ (fsm_state = "WAIT_RESP" \/ cur_cmd.is_timeout)
Todo == (IF InWork THEN <<cur_cmd.send_data>> ELSE << >>) \o single_cmd_queue
Outstanding == IF fsm_state = "WAIT_RESP"
               THEN [type |-> cur_cmd.cmd_type, cmd |-> cur_cmd.send_data]
               ELSE [type |-> "NONE", cmd |-> NoCmd]

AnswerAtHand == Queued("RECV_RESP", event_queue)

Service == INSTANCE CommandService
  WITH Capacity <- SingleQueueSize + 1, todo <- Todo, outstanding <- Outstanding,
       answered <- AnswerAtHand

(* Single commands go out in order, one at a time, repeated until answered; *)
(* period commands only in between; never two outstanding.                  *)
ImplementsService == Service!Spec

(* The controller uses the receive pool as RecvPoolUsers says.              *)
NoticeCount == Cardinality({i \in 1 .. Len(msg_queue) : msg_queue[i] = "RECV_DATA"})

Pool == INSTANCE RecvPoolUsers WITH MaxNotices <- MsgQueueSize, notices <- NoticeCount

(* Every step of the controller's threads is a step of the pool's users, so *)
(* what RecvPoolUsers guarantees of the buffers holds in the controller.    *)
ImplementsPoolUsers == Pool!Spec

-----------------------------------------------------------------------------
(* A claim of the repository the code does not keep.                        *)

(* comm_ctrl.c:600, "recv data matched current command, process it": a      *)
(* frame made ready answers the current command.                            *)
AcceptedAnswerMatches ==
  [][Len(ready_queue') > Len(ready_queue) =>
       buffers[Head(recv_queue)] = cur_cmd.send_data]_vars

=============================================================================
